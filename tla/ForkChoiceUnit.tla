---------------------------- MODULE ForkChoiceUnit ----------------------------
(***************************************************************************)
(* The fork-choice helpers of the BTC-Relay pallet (check_and_do_reorg,    *)
(* swap_main_blockchain, insert_sorted, remove_blockchain), called once on *)
(* a well-formed store, the way the unit tests of tests.rs call them: the  *)
(* store holds a main chain at Chains key 0 and forks at keys 1..n sorted  *)
(* by descending max_height, every header recorded in its chain.  Chains   *)
(* entries were inserted by insert_sorted with the key Len(Chains), so the *)
(* linked (enumeration) order is by descending key.                        *)
(*                                                                         *)
(* A hash is <<t, height>> for the chain t that first held it.  One call   *)
(* is made per behaviour:                                                  *)
(*   ExtendFork    a fork is extended by one header, the extended chain    *)
(*                 and the header are stored, and check_and_do_reorg runs  *)
(*                 on it (the extend path of store_block_header, with the  *)
(*                 extended chain written back as its comment intends);    *)
(*   CreateFork    a one-block fork off the main chain gets a new id from  *)
(*                 increment_chain_counter, is stored, and insert_sorted   *)
(*                 runs on it (the create path of store_block_header).     *)
(***************************************************************************)
EXTENDS RelayStore

CONSTANTS
    MaxMainTip,   \* highest tip of the main chain in an initial store
    MaxForks,     \* most forks in an initial store
    CounterAtLimit  \* whether initial stores also start with ChainCounter = MaxU32

ASSUME MaxMainTip \in Nat \ {0} /\ MaxForks \in Nat \ {0}
       /\ MaxMainTip + 1 <= MaxU32 /\ MaxForks + 1 <= MaxU32
       /\ CounterAtLimit \in BOOLEAN

VARIABLES BlockHeaders, Chains, ChainsIndex, BestBlock, BestBlockHeight,
          ChainCounter, called

storage == <<BlockHeaders, Chains, ChainsIndex, BestBlock, BestBlockHeight, ChainCounter>>
vars == <<storage, called>>

Storage == [BlockHeaders |-> BlockHeaders, Chains |-> Chains,
            ChainsIndex |-> ChainsIndex, BestBlock |-> BestBlock,
            BestBlockHeight |-> BestBlockHeight, ChainCounter |-> ChainCounter]

Store(st) ==
    /\ BlockHeaders' = st.BlockHeaders
    /\ Chains' = st.Chains
    /\ ChainsIndex' = st.ChainsIndex
    /\ BestBlock' = st.BestBlock
    /\ BestBlockHeight' = st.BestBlockHeight
    /\ ChainCounter' = st.ChainCounter

\* A chain record tagged t holding the hashes <<t, h>> for h in lo..hi.
Segment(t, id, lo, hi, nd) ==
    BlockChainRec(id, [h \in lo..hi |-> <<t, h>>], lo, hi, nd, <<>>)

\* Flag lists of the main chain: empty, or two heights in report order.
FlagLists(tip) == {<<>>} \cup {p \in (0..tip) \X (0..tip) : p[1] # p[2]}

(***************************************************************************)
(* A well-formed store: main chain 0..tip, forks i = 1..n where fork i     *)
(* holds start[i]..top[i] with 1 <= start[i] <= top[i] <= tip, and key k   *)
(* of Chains holds fork order[k], ordered by descending top.               *)
(***************************************************************************)
WellFormed(tip, n, start, top, order, nd) ==
    LET forks == [i \in 1..n |-> Segment(i, i, start[i], top[i], <<>>)]
        main  == Segment(0, MAIN_CHAIN_ID, 0, tip, nd)
        all   == (MAIN_CHAIN_ID :> main) @@ forks
        keyed == <<MAIN_CHAIN_ID>> \o [k \in 1..n |-> order[k]]
    IN  [BlockHeaders |-> [x \in UNION {Hashes_of(all[i].chain) : i \in 0..n} |->
                             [block_height |-> x[2], chain_ref |-> x[1]]],
         Chains       |-> [j \in 1..n+1 |-> <<n+1-j, keyed[n+2-j]>>],
         ChainsIndex  |-> all,
         BestBlock    |-> <<0, tip>>,
         BestBlockHeight |-> tip,
         ChainCounter |-> n]

InitialStores ==
    LET Ranges(tip, n) ==
            {r \in [1..n -> (1..tip) \X (1..tip)] : \A i \in 1..n : r[i][1] <= r[i][2]}
        Orders(n, top) ==
            {o \in [1..n -> 1..n] : /\ \A i \in 1..n : \E k \in 1..n : o[k] = i
                                    /\ \A k \in 1..n-1 : top[o[k]] >= top[o[k+1]]}
    IN  {WellFormed(p[1], p[2], [i \in 1..p[2] |-> p[3][i][1]], [i \in 1..p[2] |-> p[3][i][2]],
                    p[4], p[5]) :
           p \in {q \in UNION {{tip} \X {n} \X Ranges(tip, n) \X [1..n -> 1..n] \X FlagLists(tip) :
                               tip \in 1..MaxMainTip, n \in 1..MaxForks} :
                    q[4] \in Orders(q[2], [i \in 1..q[2] |-> q[3][i][2]])}}

Init ==
    /\ \E st \in InitialStores :
          /\ BlockHeaders = st.BlockHeaders
          /\ Chains = st.Chains
          /\ ChainsIndex = st.ChainsIndex
          /\ BestBlock = st.BestBlock
          /\ BestBlockHeight = st.BestBlockHeight
          \* ids burnt by earlier promotions leave the counter anywhere
          \* above the number of forks; MaxU32 is the edge case.
          /\ ChainCounter \in {st.ChainCounter} \cup (IF CounterAtLimit THEN {MaxU32} ELSE {})
    /\ called = FALSE

-----------------------------------------------------------------------------
\* Extend fork id by one header, store it, and run check_and_do_reorg; a
\* panic aborts the call and leaves the storage as it was.
ExtendFork(id) ==
    LET fork == ChainsIndex[id]
        hash == <<id, fork.max_height + 1>>
        blockchain == extend_blockchain(fork.max_height + 1, hash, fork).bc
        st1 == [Storage EXCEPT
                  !.BlockHeaders = PutMap(@, hash, [block_height |-> blockchain.max_height,
                                                    chain_ref |-> id]),
                  !.ChainsIndex = PutMap(@, id, blockchain)]
        r == check_and_do_reorg(st1, blockchain)
    IN  /\ ~called /\ id # MAIN_CHAIN_ID
        /\ IF r.err = "Panic" THEN UNCHANGED storage ELSE Store(r.st)
        /\ called' = TRUE

\* A header whose parent is main-chain block height-1 starts a new fork;
\* create_blockchain's `?` on ChainCounterOverflow returns before any write.
CreateFork(height) ==
    LET c == create_blockchain(Storage, height, <<Storage.ChainCounter + 1, height>>)
        blockchain == c.bc
        hash == blockchain.chain[height]
        st1 == [c.st EXCEPT
                  !.BlockHeaders = PutMap(@, hash, [block_height |-> height,
                                                    chain_ref |-> blockchain.chain_id]),
                  !.ChainsIndex = PutMap(@, blockchain.chain_id, blockchain)]
    IN  /\ ~called
        /\ IF c.err # None THEN UNCHANGED storage
           ELSE Store(insert_sorted(st1, blockchain))
        /\ called' = TRUE

Next ==
    \/ \E id \in DOMAIN ChainsIndex : ExtendFork(id)
    \/ \E h \in 1..ChainsIndex[MAIN_CHAIN_ID].max_height : CreateFork(h)

Spec == Init /\ [][Next]_vars

-----------------------------------------------------------------------------
ChainIds == DOMAIN ChainsIndex
Main == ChainsIndex[MAIN_CHAIN_ID]

TypeOK ==
    /\ ChainIds \subseteq 0..MaxU32 /\ MAIN_CHAIN_ID \in ChainIds
    /\ \A id \in ChainIds :
          /\ ChainsIndex[id].chain_id = id
          /\ ChainsIndex[id].start_height \in 0..MaxU32
          /\ ChainsIndex[id].max_height \in 0..MaxU32
    /\ \A h \in DOMAIN BlockHeaders :
          BlockHeaders[h] \in [block_height : 0..MaxU32, chain_ref : 0..MaxU32]
    /\ \A i \in DOMAIN Chains : Chains[i] \in (0..MaxU32) \X (0..MaxU32)
    /\ BestBlockHeight \in 0..MaxU32 /\ ChainCounter \in 0..MaxU32
    /\ called \in BOOLEAN

(***************************************************************************)
(* Every stored header's chain_ref names a stored chain that holds it at   *)
(* its height, and every hash a chain holds is a header referring back to  *)
(* that chain.  It is about the re-parenting passes of                     *)
(* swap_main_blockchain: the split of the main chain at the fork's start   *)
(* height, the fresh id of the displaced part, and the two mutate loops    *)
(* over the displaced and the promoted headers.                            *)
(***************************************************************************)
ChainRefsConsistent ==
    /\ \A h \in DOMAIN BlockHeaders :
          LET r == BlockHeaders[h] IN
          /\ r.chain_ref \in ChainIds
          /\ r.block_height \in DOMAIN ChainsIndex[r.chain_ref].chain
          /\ ChainsIndex[r.chain_ref].chain[r.block_height] = h
    /\ \A id \in ChainIds : \A ht \in DOMAIN ChainsIndex[id].chain :
          LET h == ChainsIndex[id].chain[ht] IN
          h \in DOMAIN BlockHeaders /\ BlockHeaders[h].chain_ref = id

(***************************************************************************)
(* Every stored chain covers exactly start_height..max_height (spec 3 and  *)
(* 8: no gaps), across the split_off and append of a promotion.            *)
(***************************************************************************)
ChainsContiguous ==
    \A id \in ChainIds :
        DOMAIN ChainsIndex[id].chain = ChainsIndex[id].start_height..ChainsIndex[id].max_height

(***************************************************************************)
(* No stored chain is higher than the main chain once the call returns     *)
(* (spec 4.2: a fork that overtakes the canonical chain is promoted).      *)
(* check_and_do_reorg takes the fork's position in enumeration order,      *)
(* where the linked_map lists the newest key first, and uses it as a key.  *)
(***************************************************************************)
TallestChainIsMain ==
    \A id \in ChainIds : ChainsIndex[id].max_height <= Main.max_height

\* Chains is the ordering index of spec 3 and 4.2 over the chains of st:
\* keys 0..n-1 list every stored chain exactly once, the main chain at key
\* 0 and the others by descending max_height.
IsOrderingIndex(st) ==
    /\ {st.Chains[i][2] : i \in DOMAIN st.Chains} = DOMAIN st.ChainsIndex
    /\ Len(st.Chains) = Cardinality(DOMAIN st.ChainsIndex)
    /\ LMKeys(st.Chains) = 0..Len(st.Chains) - 1
    /\ LMGet(st.Chains, 0) = MAIN_CHAIN_ID
    /\ \A k \in 1..Len(st.Chains) - 1 :
          chainindex(st, LMGet(st.Chains, k - 1)).max_height
             >= chainindex(st, LMGet(st.Chains, k)).max_height

(***************************************************************************)
(* A call that adds a chain leaves Chains the ordering index.  The added   *)
(* chain is a new fork (create path) or the displaced part of the main     *)
(* chain (promotion).  insert_sorted binds the position it finds to a      *)
(* shadowing variable and appends at key Len(Chains), and                  *)
(* swap_main_blockchain calls insert_sorted(&main_chain) instead of the    *)
(* displaced chain.  A call that adds no chain (a fork extended and left   *)
(* in place) is not constrained here; TallestChainIsMain is about those.   *)
(***************************************************************************)
ChainsIsOrderingIndex ==
    [][(DOMAIN ChainsIndex' # DOMAIN ChainsIndex) => IsOrderingIndex(Storage')]_vars

(***************************************************************************)
(* Every stored chain id is at most ChainCounter, so the id that           *)
(* increment_chain_counter hands out is never one in use.  It is about the *)
(* checked_add at u32::MAX: a counter that wrapped would give the          *)
(* displaced part of a promotion the main chain's id 0.                    *)
(***************************************************************************)
ChainIdsBelowCounter ==
    \A id \in ChainIds : id <= ChainCounter

(***************************************************************************)
(* Every height flagged no_data on a chain lies in that chain's range      *)
(* (spec 4.2 step 1: flags move with the heights they name).               *)
(* swap_main_blockchain splits the flag Vec at the first entry >= the      *)
(* fork's start, but flags are pushed in report order, not sorted.         *)
(***************************************************************************)
FlaggedHeightsInChainRange ==
    \A id \in ChainIds : \A i \in DOMAIN ChainsIndex[id].no_data :
        ChainsIndex[id].no_data[i] \in ChainsIndex[id].start_height..ChainsIndex[id].max_height

(***************************************************************************)
(* Fork choice implements LongestChain (spec 4.2): the main chain's block  *)
(* map changes only to a strictly longer chain that keeps every block      *)
(* below the fork's start height.  It is about the comparison              *)
(* `prev_height < current_height` that lets check_and_do_reorg promote,    *)
(* the current_height it carries along the swap loop, and the split and    *)
(* append of swap_main_blockchain.                                         *)
(***************************************************************************)
Canonical == INSTANCE LongestChain WITH canonical <- Main.chain, MaxHeight <- MaxU32

ImplementsLongestChain == Canonical!Spec
=============================================================================
