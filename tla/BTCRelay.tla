------------------------------- MODULE BTCRelay -------------------------------
(***************************************************************************)
(* The dispatchable functions of the BTC-Relay pallet                      *)
(* (crates/btc-relay/src/lib.rs, decl_module!), as written.  Each call is  *)
(* one atomic step: the runtime executes one extrinsic to completion       *)
(* before the next.  A header is a hash from Hashes whose hash_prev_block  *)
(* is Parent[hash]; parsing the 80 bytes is left out.  `last` records the  *)
(* call and the DispatchResult it returned; a panic aborts the extrinsic   *)
(* and leaves the storage as it was.                                       *)
(***************************************************************************)
EXTENDS RelayStore

CONSTANTS
    Parent,       \* hash -> hash_prev_block of that header
    InitHeights,  \* block heights passed to initialize
    ErrorKinds    \* ErrorCodes passed to flag/clear_block_error

NoDataBTCRelay == "NoDataBTCRelay"
InvalidBTCRelay == "InvalidBTCRelay"

ASSUME /\ Parent \in [Hashes -> Hashes \cup {NoHash}]
       /\ InitHeights \subseteq 0..MaxU32
       /\ {NoDataBTCRelay, InvalidBTCRelay} \subseteq ErrorKinds

VARIABLES BlockHeaders, Chains, ChainsIndex, BestBlock, BestBlockHeight,
          ChainCounter, last

storage == <<BlockHeaders, Chains, ChainsIndex, BestBlock, BestBlockHeight, ChainCounter>>
vars == <<storage, last>>

Storage == [BlockHeaders |-> BlockHeaders, Chains |-> Chains,
            ChainsIndex |-> ChainsIndex, BestBlock |-> BestBlock,
            BestBlockHeight |-> BestBlockHeight, ChainCounter |-> ChainCounter]

\* The call returns Ok and its storage writes persist.
Commit(st, op, h) ==
    /\ BlockHeaders' = st.BlockHeaders
    /\ Chains' = st.Chains
    /\ ChainsIndex' = st.ChainsIndex
    /\ BestBlock' = st.BestBlock
    /\ BestBlockHeight' = st.BestBlockHeight
    /\ ChainCounter' = st.ChainCounter
    /\ last' = [op |-> op, hash |-> h, result |-> "Ok"]

\* The call returns an error (or panics) before writing anything.
Reject(op, h, e) ==
    /\ UNCHANGED storage
    /\ last' = [op |-> op, hash |-> h, result |-> e]

Init ==
    /\ BlockHeaders = <<>>
    /\ Chains = <<>>
    /\ ChainsIndex = <<>>
    /\ BestBlock = NoHash
    /\ BestBlockHeight = 0
    /\ ChainCounter = 0
    /\ last = [op |-> "none", hash |-> NoHash, result |-> "Ok"]

-----------------------------------------------------------------------------
\* ensure!(!<BestBlock>::exists(), AlreadyInitialized).
best_block_unchecked == FALSE
best_block_exists == BestBlock # NoHash

initialize(h, block_height) ==
    IF best_block_exists THEN Reject("initialize", h, "AlreadyInitialized")
    ELSE LET blockchain == initialize_blockchain(block_height, h)
         IN  Commit([Storage EXCEPT
                      !.BlockHeaders = PutMap(@, h, [block_height |-> block_height,
                                                     chain_ref |-> blockchain.chain_id]),
                      !.ChainsIndex = PutMap(@, MAIN_CHAIN_ID, blockchain),
                      !.Chains = LMInsert(@, MAIN_CHAIN_ID, MAIN_CHAIN_ID),
                      !.BestBlock = h,
                      !.BestBlockHeight = block_height], "initialize", h)

(***************************************************************************)
(* store_block_header.  `match prev_blockchain.max_height {                *)
(* prev_block_height => .. }` and `match blockchain.chain_id {             *)
(* prev_chain_id => .. }` bind a new name, so the first arm is always      *)
(* taken: the previous block's chain is always extended and               *)
(* check_and_do_reorg always called.  `ChainsIndex::mutate(id, |_b|       *)
(* &blockchain)` returns the closure's value and writes nothing back, and *)
(* the Option<Error> of check_and_do_reorg is discarded.                  *)
(***************************************************************************)
\* ensure!(<BlockHeaders>::exists(hash_prev_block), PrevBlock).
prev_block_unchecked(h) == TRUE
prev_block_exists(h) == Parent[h] \in DOMAIN BlockHeaders

\* prev_block_height.checked_add(1) failing with BlockHeightOverflow.
height_unchecked(prev_block_height) == FALSE
height_overflows(prev_block_height) == prev_block_height + 1 > MaxU32

store_block_header(h) ==
    LET prev_header == blockheader(Storage, Parent[h])
        prev_blockchain == chainindex(Storage, prev_header.chain_ref)
        current_block_height == prev_header.block_height + 1
        ext == extend_blockchain(current_block_height, h, prev_blockchain)
        st1 == [Storage EXCEPT !.BlockHeaders =
                  PutMap(@, h, [block_height |-> current_block_height,
                                chain_ref |-> ext.bc.chain_id])]
        reorg == check_and_do_reorg(st1, ext.bc)
    IN  CASE ~prev_block_exists(h) -> Reject("store", h, "PrevBlock")
          [] height_overflows(prev_header.block_height) ->
                Reject("store", h, "BlockHeightOverflow")
          [] ext.err # None -> Reject("store", h, ext.err)
          [] reorg.err = "Panic" -> Reject("store", h, "Panic")
          [] OTHER -> Commit(reorg.st, "store", h)

\* flag_block_error: the height is pushed onto a copy of the chain, and
\* ChainsIndex::mutate(&chain_id, |_b| blockchain) writes nothing back.
flag_block_error(h, error) ==
    CASE h \notin DOMAIN BlockHeaders -> Reject("flag", h, "BlockNotFound")
      [] error \notin {NoDataBTCRelay, InvalidBTCRelay} -> Reject("flag", h, "UnknownErrorcode")
      [] OTHER -> Commit(Storage, "flag", h)

\* clear_block_error: position(..).unwrap() panics when the height is not
\* in the chain's list; the removal is again not written back.
clear_block_error(h, error) ==
    IF h \notin DOMAIN BlockHeaders THEN Reject("clear", h, "BlockNotFound")
    ELSE LET header == BlockHeaders[h]
             blockchain == chainindex(Storage, header.chain_ref)
             flags == IF error = NoDataBTCRelay THEN blockchain.no_data
                      ELSE blockchain.invalid
         IN  CASE error \notin {NoDataBTCRelay, InvalidBTCRelay} ->
                    Reject("clear", h, "UnknownErrorcode")
               [] \A i \in DOMAIN flags : flags[i] # header.block_height ->
                    Reject("clear", h, "Panic")
               [] OTHER -> Commit(Storage, "clear", h)

\* verify_transaction_inclusion: after ensure_signed it returns Ok; the
\* transaction id, height, proof and confirmations are never examined.
verify_transaction_inclusion == Commit(Storage, "verify", NoHash)

-----------------------------------------------------------------------------
Initialize == \E h \in Hashes, height \in InitHeights : initialize(h, height)
StoreBlockHeader == \E h \in Hashes : store_block_header(h)
FlagBlockError == \E h \in Hashes, e \in ErrorKinds : flag_block_error(h, e)
ClearBlockError == \E h \in Hashes, e \in ErrorKinds : clear_block_error(h, e)
VerifyTransactionInclusion == verify_transaction_inclusion

Next == Initialize \/ StoreBlockHeader \/ FlagBlockError \/ ClearBlockError
        \/ VerifyTransactionInclusion

Spec == Init /\ [][Next]_vars
-----------------------------------------------------------------------------
Results == {"Ok", "Panic", "AlreadyInitialized", "PrevBlock", "BlockHeightOverflow",
            "DuplicateBlock", "BlockNotFound", "UnknownErrorcode"}

TypeOK ==
    /\ DOMAIN BlockHeaders \subseteq Hashes
    /\ \A h \in DOMAIN BlockHeaders :
          BlockHeaders[h] \in [block_height : 0..MaxU32, chain_ref : 0..MaxU32]
    /\ \A i \in DOMAIN Chains : Chains[i] \in (0..MaxU32) \X (0..MaxU32)
    /\ DOMAIN ChainsIndex \subseteq 0..MaxU32
    /\ BestBlock \in Hashes \cup {NoHash}
    /\ BestBlockHeight \in 0..MaxU32 /\ ChainCounter \in 0..MaxU32
    /\ last.result \in Results

(***************************************************************************)
(* A call that returns Ok has written its change of a chain back to        *)
(* ChainsIndex: a stored header is in its chain at its height (spec 3:     *)
(* chain_ref is the owning chain), so a resubmission is rejected with      *)
(* DuplicateBlock (spec 8, test_verify_block_header_duplicate_fails), and  *)
(* a flagged height is in the chain's no_data or invalid list             *)
(* (test_flag_block_error_succeeds).  store_block_header and               *)
(* flag_block_error edit a copy and call ChainsIndex::mutate with a        *)
(* closure that ignores its argument.                                      *)
(***************************************************************************)
ChainsIndexWrittenBack ==
    [][LET after(id) == chainindex([ChainsIndex |-> ChainsIndex'], id)
           h == last'.hash
       IN  /\ (last'.op = "store" /\ last'.result = "Ok") =>
                 LET bc == after(BlockHeaders'[h].chain_ref)
                 IN  /\ BlockHeaders'[h].block_height \in DOMAIN bc.chain
                     /\ bc.chain[BlockHeaders'[h].block_height] = h
           /\ \A e \in {NoDataBTCRelay, InvalidBTCRelay} :
                 (flag_block_error(h, e) /\ last'.op = "flag" /\ last'.result = "Ok") =>
                    LET bc == after(BlockHeaders[h].chain_ref)
                        flags == IF e = NoDataBTCRelay THEN bc.no_data ELSE bc.invalid
                    IN  \E i \in DOMAIN flags : flags[i] = BlockHeaders[h].block_height]_vars

(***************************************************************************)
(* The relay implements HeaderTree: seen through the hashes stored in      *)
(* BlockHeaders and their block_height, every call either stores nothing  *)
(* new, stores the first trusted header, or appends one header above its  *)
(* stored parent without touching any stored height.  It is about the     *)
(* AlreadyInitialized and PrevBlock checks, the checked_add, and the      *)
(* re-store of a resubmitted header, over any sequence of calls.          *)
(***************************************************************************)
Tree == INSTANCE HeaderTree
            WITH stored <- DOMAIN BlockHeaders,
                 height <- [h \in DOMAIN BlockHeaders |-> BlockHeaders[h].block_height],
                 MaxHeight <- MaxU32

ImplementsHeaderTree == Tree!Spec
=============================================================================
