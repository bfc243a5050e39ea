----------------------------- MODULE RelayStore -----------------------------
(***************************************************************************)
(* The storage of the BTC-Relay pallet (crates/btc-relay/src/lib.rs) and   *)
(* the helpers of `impl Module` that rewrite it.  A helper is an operator  *)
(* from a storage record `st` to [st |-> <new storage>, err |-> <error or  *)
(* None>]: the helpers run sequentially inside one dispatchable, each      *)
(* reading the storage the previous one wrote, and a helper that returns   *)
(* early keeps the writes it made before returning (the pallet does not    *)
(* use transactional storage).                                             *)
(*                                                                         *)
(* Storage items, with the field names of decl_storage!:                   *)
(*   BlockHeaders    hash -> [block_height, chain_ref]                     *)
(*   Chains          linked_map u32 => u32 (position -> chain id), a       *)
(*                   sequence of <<key, value>> in linked (head-first)     *)
(*                   order, see LinkedMap below                            *)
(*   ChainsIndex     chain id -> BlockChain record                         *)
(*   BestBlock       hash, NoHash while the value is not set               *)
(*   BestBlockHeight, ChainCounter  u32                                    *)
(***************************************************************************)
EXTENDS Integers, Sequences, FiniteSets, TLC

CONSTANTS
    Hashes,     \* block hashes of the headers that can be submitted
    NoHash,     \* "storage value not set" for BestBlock
    MaxU32      \* u32::max_value(), scaled down

ASSUME NoHash \notin Hashes /\ MaxU32 \in Nat \ {0}

MAIN_CHAIN_ID == 0
None == "None"

\* The BlockChain struct of the bitcoin crate; chain is the BTreeMap.
BlockChainRec(id, map, start, max, nd, inv) ==
    [chain_id |-> id, chain |-> map, start_height |-> start,
     max_height |-> max, no_data |-> nd, invalid |-> inv]

\* Value returned by a storage `get` of a key that is not set.
DefaultBlockChain == BlockChainRec(0, <<>>, 0, 0, <<>>, <<>>)
DefaultHeader == [block_height |-> 0, chain_ref |-> 0]

Ok(st) == [st |-> st, err |-> None]
Fail(st, e) == [st |-> st, err |-> e]

-----------------------------------------------------------------------------
(***************************************************************************)
(* linked_map of frame_support: a new key is linked in as the head,        *)
(* `enumerate` walks from the head, `swap` of two present keys swaps their *)
(* values and keeps the links, `swap` of one present key moves its value   *)
(* to the other key, linked in as the new head.  A `get` of an absent key  *)
(* returns 0.                                                              *)
(***************************************************************************)
LMKeys(m) == {m[i][1] : i \in DOMAIN m}
LMGet(m, k) == IF k \in LMKeys(m)
               THEN (CHOOSE e \in {m[i] : i \in DOMAIN m} : e[1] = k)[2]
               ELSE 0
LMRemove(m, k) == SelectSeq(m, LAMBDA e : e[1] # k)
LMInsert(m, k, v) ==
    IF k \in LMKeys(m)
    THEN [i \in DOMAIN m |-> IF m[i][1] = k THEN <<k, v>> ELSE m[i]]
    ELSE <<<<k, v>>>> \o m
LMSwap(m, k1, k2) ==
    CASE k1 \in LMKeys(m) /\ k2 \in LMKeys(m) ->
            LET v1 == LMGet(m, k1)  v2 == LMGet(m, k2) IN
            [i \in DOMAIN m |-> IF m[i][1] = k2 THEN <<k2, v1>>
                                ELSE IF m[i][1] = k1 THEN <<k1, v2>>
                                ELSE m[i]]
      [] k1 \in LMKeys(m) -> <<<<k2, LMGet(m, k1)>>>> \o LMRemove(m, k1)
      [] k2 \in LMKeys(m) -> <<<<k1, LMGet(m, k2)>>>> \o LMRemove(m, k2)
      [] OTHER -> m
\* Position of the first entry, in enumeration order, whose value is v;
\* -1 stands for None.
LMPosition(m, v) ==
    IF \E i \in DOMAIN m : m[i][2] = v
    THEN (CHOOSE i \in DOMAIN m : m[i][2] = v /\ \A j \in 1..i-1 : m[j][2] # v) - 1
    ELSE -1

-----------------------------------------------------------------------------
\* Storage gets that fall back to the default value.
chainindex(st, id) == IF id \in DOMAIN st.ChainsIndex THEN st.ChainsIndex[id]
                      ELSE DefaultBlockChain
blockheader(st, h) == IF h \in DOMAIN st.BlockHeaders THEN st.BlockHeaders[h]
                      ELSE DefaultHeader
PutMap(f, k, v) == [x \in DOMAIN f \cup {k} |-> IF x = k THEN v ELSE f[x]]
RemoveKey(f, k) == [x \in DOMAIN f \ {k} |-> f[x]]

\* ChainCounter::get().checked_add(1), failing with ChainCounterOverflow.
increment_chain_counter_wrapping(st) ==
    Ok([st EXCEPT !.ChainCounter = (@ + 1) % (MaxU32 + 1)])
increment_chain_counter(st) ==
    IF st.ChainCounter + 1 > MaxU32 THEN Fail(st, "ChainCounterOverflow")
    ELSE Ok([st EXCEPT !.ChainCounter = @ + 1])

\* generate_blockchain: a chain holding the one block at block_height.
generate_blockchain(id, height, hash) ==
    BlockChainRec(id, height :> hash, height, height, <<>>, <<>>)

\* initialize_blockchain: the main chain, generated under MAIN_CHAIN_ID.
initialize_blockchain(height, hash) == generate_blockchain(MAIN_CHAIN_ID, height, hash)

\* create_blockchain: a fresh id from increment_chain_counter (its `?`
\* returns the overflow), then a generated chain under that id.
create_blockchain(st, height, hash) ==
    LET c == increment_chain_counter(st)
    IN  [st |-> c.st, err |-> c.err,
         bc |-> generate_blockchain(c.st.ChainCounter, height, hash)]

\* extend_blockchain: BTreeMap::insert returning Some is DuplicateBlock.
extend_blockchain(height, hash, prev) ==
    IF height \in DOMAIN prev.chain THEN [bc |-> prev, err |-> "DuplicateBlock"]
    ELSE [bc |-> [prev EXCEPT !.chain = PutMap(@, height, hash),
                              !.max_height = height],
          err |-> None]

\* insert_sorted: the position found by the loop is bound to a new,
\* shadowing `position_blockchain`, so the outer one stays at the number
\* of entries and the swap loop over (n..n).rev() never runs.
insert_sorted(st, bc) ==
    [st EXCEPT !.Chains = LMInsert(@, Len(@), bc.chain_id)]

\* remove_blockchain: swap the entry at `position` with the head key and
\* remove the head key; head().unwrap() panics on an empty map.
remove_blockchain(st, position) ==
    IF Len(st.Chains) = 0 THEN Fail(st, "Panic")
    ELSE LET head == st.Chains[1][1]
         IN Ok([st EXCEPT !.Chains = LMRemove(LMSwap(@, position, head), head)])
\* The values of a map: the hashes a BTreeMap<u32, H256> holds.
Hashes_of(map) == {map[k] : k \in DOMAIN map}
Restrict_heights(map, P(_)) == [k \in {x \in DOMAIN map : P(x)} |-> map[k]]

\* Vec::split_off at the first element >= start (position() on an
\* unsorted Vec): [keep |-> prefix, moved |-> suffix].
split_flags(v, start) ==
    IF \E i \in DOMAIN v : v[i] >= start
    THEN LET idx == CHOOSE i \in DOMAIN v : v[i] >= start /\ \A j \in 1..i-1 : v[j] < start
         IN [keep |-> SubSeq(v, 1, idx - 1), moved |-> SubSeq(v, idx, Len(v))]
    ELSE [keep |-> v, moved |-> <<>>]

\* BlockHeaders::mutate(h, |header| header.chain_ref = ref) for every h in
\* hs; mutate of an absent key stores the default header, mutated.
reparent(headers, hs, ref) ==
    [x \in DOMAIN headers \cup hs |->
        IF x \in hs
        THEN [(IF x \in DOMAIN headers THEN headers[x] ELSE DefaultHeader)
                 EXCEPT !.chain_ref = ref]
        ELSE headers[x]]

\* BTreeMap::split_off(start): [kept |-> heights below, forked |-> the rest].
split_chain_above(map, start) ==
    [kept |-> Restrict_heights(map, LAMBDA k : k <= start),
     forked |-> Restrict_heights(map, LAMBDA k : k > start)]
split_chain(map, start) ==
    [kept |-> Restrict_heights(map, LAMBDA k : k < start),
     forked |-> Restrict_heights(map, LAMBDA k : k >= start)]

\* The displaced part of the main chain, stored under a fresh id.
forked_main_chain_as_main(id, main, start, nd, inv) ==
    BlockChainRec(MAIN_CHAIN_ID, split_chain(main.chain, start).forked, start,
                  main.max_height, nd.moved, inv.moved)
forked_main_chain(id, main, start, nd, inv) ==
    BlockChainRec(id, split_chain(main.chain, start).forked, start,
                  main.max_height, nd.moved, inv.moved)

\* The truncated main chain with the fork appended (BTreeMap::append lets
\* the fork's entries win).
append_fork_keep_height(main, start, fork, nd, inv) ==
    [main EXCEPT !.chain = fork.chain @@ split_chain(main.chain, start).kept,
                 !.no_data = nd.keep \o fork.no_data,
                 !.invalid = inv.keep \o fork.invalid]
append_fork(main, start, fork, nd, inv) ==
    [main EXCEPT !.chain = fork.chain @@ split_chain(main.chain, start).kept,
                 !.max_height = fork.max_height,
                 !.no_data = nd.keep \o fork.no_data,
                 !.invalid = inv.keep \o fork.invalid]

\* Store the new main chain and put BestBlock and BestBlockHeight.
set_main_chain(st, main_chain) ==
    [st EXCEPT !.ChainsIndex = PutMap(@, MAIN_CHAIN_ID, main_chain),
               !.BestBlock = main_chain.chain[main_chain.max_height],
               !.BestBlockHeight = main_chain.max_height]

(***************************************************************************)
(* swap_main_blockchain: take a fresh chain id, split the main chain at   *)
(* the fork's start height, append the fork, move BestBlock, remove the    *)
(* fork, store the displaced part and re-parent the headers.  The         *)
(* counter is written before the two early returns.  insert_sorted is     *)
(* called with main_chain, not with forked_main_chain.                    *)
(***************************************************************************)
swap_main_blockchain(st, fork) ==
    LET main  == chainindex(st, MAIN_CHAIN_ID)
        start == fork.start_height
        c     == increment_chain_counter(st)
        id    == c.st.ChainCounter
        nd    == split_flags(main.no_data, start)
        inv   == split_flags(main.invalid, start)
        displaced  == forked_main_chain(id, main, start, nd, inv)
        main_chain == append_fork(main, start, fork, nd, inv)
        position   == LMPosition(c.st.Chains, fork.chain_id)
        r  == remove_blockchain([set_main_chain(c.st, main_chain)
                                   EXCEPT !.ChainsIndex = RemoveKey(@, fork.chain_id)],
                                position)
        s5 == insert_sorted([r.st EXCEPT !.ChainsIndex = PutMap(@, id, displaced)], main_chain)
    IN  CASE c.err # None -> c
          [] main_chain.max_height \notin DOMAIN main_chain.chain -> Fail(c.st, "HeaderNotFound")
          [] position = -1 -> Fail(c.st, "ForkIdNotFound")
          [] r.err # None -> r
          [] OTHER ->
               Ok([s5 EXCEPT !.BlockHeaders =
                     reparent(reparent(@, Hashes_of(displaced.chain), id),
                              Hashes_of(fork.chain), MAIN_CHAIN_ID)])

\* `if prev_height < current_height`: the fork overtakes the previous chain.
overtakes_or_ties(prev_height, current_height) == prev_height <= current_height
overtakes(prev_height, current_height) == prev_height < current_height

\* The while loop of check_and_do_reorg.  After a swap it continues with
\* current_height = prev_height, the height of the chain it overtook.
RECURSIVE reorg_loop(_, _, _, _)
reorg_loop(st, fork, current_position, current_height) ==
    IF current_position = 0 THEN Ok(st)
    ELSE LET prev_position == current_position - 1
             prev_height == chainindex(st, LMGet(st.Chains, prev_position)).max_height
         IN  CASE ~overtakes(prev_height, current_height) -> Ok(st)
               [] prev_position = MAIN_CHAIN_ID -> swap_main_blockchain(st, fork)
               [] OTHER -> reorg_loop([st EXCEPT !.Chains = LMSwap(@, prev_position, current_position)],
                                      fork, prev_position, prev_height)

\* check_and_do_reorg: the fork's position is its index in enumeration
\* (linked) order, and is then used as a key of Chains.
check_and_do_reorg(st, fork) ==
    IF fork.chain_id = MAIN_CHAIN_ID THEN Ok(st)
    ELSE LET fork_position == LMPosition(st.Chains, fork.chain_id)
         IN  IF fork_position = -1 THEN Fail(st, "ForkIdNotFound")
             ELSE reorg_loop(st, fork, fork_position, fork.max_height)
=============================================================================
