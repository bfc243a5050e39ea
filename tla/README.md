# TLA+ models of the BTC-Relay core

These modules model the Rust sources under `src/`:

- `crates/btc-relay/src/lib.rs` — the BTC-Relay pallet: storage, dispatchables and fork choice.
- `crates/btc-relay/src/tests.rs` — its unit tests, whose storage setup the fork-choice harness reproduces.
- `crates/bitcoin/src/merkle.rs` — the partial-merkle-tree proof verifier.

Each model follows the code as written, not as the spec intends. Where the two disagree, a `violation` run shows the disagreement (see *Findings*).

## The system and its parts

| Part | Source | State it changes | Module |
|---|---|---|---|
| Storage (`decl_storage!`) | lib.rs 47-69 | `BlockHeaders`, `Chains` (linked_map position → chain id), `ChainsIndex` (id → BlockChain), `BestBlock`, `BestBlockHeight`, `ChainCounter` | RelayStore |
| Dispatchables `initialize`, `store_block_header`, `flag_block_error`, `clear_block_error`, `verify_transaction_inclusion` | lib.rs 80-314 | all storage items | BTCRelay |
| Fork choice: `check_and_do_reorg`, `swap_main_blockchain`, `insert_sorted`, `remove_blockchain`, `increment_chain_counter`, `initialize/create/generate/extend_blockchain` | lib.rs 321-600 | `Chains`, `ChainsIndex`, `BlockHeaders`, `BestBlock*`, `ChainCounter` | RelayStore (operators), ForkChoiceUnit (harness) |
| Merkle proof verifier: `verify_proof`, `traverse_and_extract`, `compute_tree_*` | merkle.rs 33-127 | none (pure) | MerkleProof, MerkleVerifier |
| Merkle proof parser `parse` | merkle.rs 143-179 | none (pure) | MerkleParse |
| Difficulty validator, payment validator | absent from src | — | not modelled |
| Events, header parsing, hashing | lib.rs / bitcoin crate | none read back | not modelled |

How the parts interact:

- A header goes through `store_block_header`, which:
  1. looks up its parent;
  2. extends the parent's chain;
  3. stores the header;
  4. calls `check_and_do_reorg`, which may call `swap_main_blockchain` (a promotion), which in turn calls `remove_blockchain` and `insert_sorted`.
- The helpers run one after another inside one extrinsic, each reading what the previous one wrote.
- The pallet does not use transactional storage. A helper that returns `Some(err)` keeps its earlier writes, and `store_block_header` discards that error. A panic (`unwrap`, out-of-bounds index) aborts the whole extrinsic with no writes.
- The merkle verifier would be called by `verify_transaction_inclusion`, but the code does not call it yet.

## Modules

- **RelayStore** — storage records and the fork-choice helpers, as operators from a storage record `st` to `[st, err]`.
  - The `LM*` operators are frame_support's `linked_map`:
    - a new key becomes the head;
    - `enumerate` walks from the head;
    - `swap` of two present keys exchanges their values;
    - `swap` with one absent key moves the value and re-links it as the head.
  - These model library code outside the repository, so they are not in the map.
  - `reorg_loop` is the `while` loop of `check_and_do_reorg`, written with RECURSIVE. Its promotion test `prev_height < current_height` is the operator `overtakes`.
  - `swap_main_blockchain` keeps the code's order of early returns. The counter is written first, and the writes before each return persist.
- **HeaderTree** — the abstract specification of the header store: one trusted header is stored first, then only a header whose parent is stored, one block above it and no higher than `MaxHeight`; nothing is removed and no height changes. It models no code line; BTCRelay is shown to implement it.
- **LongestChain** — the abstract specification of fork choice: the canonical chain maps heights 0..tip to hashes and changes only by adopting a strictly longer chain that agrees with it below some fork height ≥ 1. It models no code line; ForkChoiceUnit is shown to implement it.
- **BTCRelay** — the five dispatchables as actions over the storage VARIABLES. `last` records the call and its result.
  - A header is a model value `h` with `Parent[h]`.
  - The two binding-pattern `match`es (lines 159, 182) are modelled as they behave: the first arm is always taken.
  - The no-op `ChainsIndex::mutate` calls (186, 269, 310) write nothing.
  - `verify_transaction_inclusion` checks the origin and returns Ok, so its action writes only `last`.
  - The refinement mapping is `stored <- DOMAIN BlockHeaders` and `height <- [h |-> BlockHeaders[h].block_height]`, with `MaxHeight <- MaxU32`. `ImplementsHeaderTree == Tree!Spec` is checked as a PROPERTY.
- **ForkChoiceUnit** — one call of the fork-choice helpers on every well-formed multi-chain store up to the bounds, the way tests.rs sets up storage (`store_blockchain_and_random_headers`).
  - `ExtendFork` extends a fork by one header, stores it, and runs `check_and_do_reorg`. Unlike line 186, it writes the extended chain back to `ChainsIndex`, as tests.rs does when it sets up a taller fork. It never extends the main chain: the code moves no `BestBlock` there (lines 201-218), and with the write-back added that would be a harness artifact, not code behaviour.
  - `CreateFork` opens a one-block fork off the main chain and runs `insert_sorted`. It is the create arm of lines 164-197, which the binding `match` at 159 never reaches from `store_block_header`.
  - The initial `ChainCounter` is the number of forks, or `MaxU32` when `CounterAtLimit` is TRUE (ids burnt by earlier promotions), so `checked_add` overflows on the next fork or promotion.
  - The refinement mapping is `canonical <- ChainsIndex[MAIN_CHAIN_ID].chain`, with `MaxHeight <- MaxU32`. `ImplementsLongestChain == Canonical!Spec` is checked as a PROPERTY.
  - BTCRelay cannot reach these stores, because its `store_block_header` never creates forks. This harness is therefore the only place the promotion code is exercised.
- **MerkleProof** — `verify_proof` and `traverse_and_extract` as RECURSIVE operators, plus two reference definitions independent of the code's arithmetic:
  - `MerkleRoot`, Bitcoin's level-by-level root with odd-level duplication;
  - `HonestMultiProof`, the partial tree a full node builds for a set of matched positions (CPartialMerkleTree::TraverseAndBuild), and `HonestProof` for one position.

  `hash256_merkle_step` is the record constructor `[left, right]`. It is injective and never equal to a leaf `[tx]`.
- **MerkleVerifier** — one `verify_proof` call on a proof drawn from every combination within the bounds:
  - transactions_count (block size plus a skew);
  - up to `MaxHashes` hashes, drawn from the nodes of the block's tree;
  - every bit pattern of `FlagBytes` flag bytes.
- **MerkleParse** — `parse` over byte buffers, followed by `verify_proof` on its result.
  - Every slice and index of `parse` panics when out of range, in code order: `[0..80]`, `[80..84]` and `[84..87]` need 87 bytes, then the hash-count varint, the hash slices, the clipped `[current_index..last_byte]` and its varint, and each flag byte.
  - Flag bytes are expanded with `byte & (1 << i)` (Bitwise `&`), least-significant bit first.
  - A hash's 32 bytes carry its identity in the first byte, so `from_bytes_le` is `raw[1]`. The block header is 80 zero bytes, since its decoding is in the bitcoin crate outside `src/`.
  - `parse_varint` is in that crate too. It is modelled as Bitcoin's CompactSize (marked spec_modelled).
  - A reference serializer, written from the wire format of spec 4.3 and CPartialMerkleTree, builds the inputs:
    - the serializations of small proofs;
    - every prefix of each serialization;
    - each serialization with its hash count or flag-byte count off by one;
    - each serialization with a trailing byte;
    - the serialized honest proof for every position.
- **MCBTCRelay**, **MCForkChoiceUnit**, **MCMerkleVerifier**, **MCMerkleParse** — model values and definitions for TLC.

## Runs

| Run | Expect | Checks | Shows |
|---|---|---|---|
| bt_core | pass (2130 states) | TypeOK, ImplementsHeaderTree | every call sequence of the five dispatchables implements HeaderTree |
| bt_written | violation | ChainsIndexWrittenBack | a stored header is missing from its chain (hence duplicates are accepted) and flags are never stored |
| fc_core | pass (7539 states) | TypeOK, ChainRefsConsistent, ChainsContiguous, ChainIdsBelowCounter, ImplementsLongestChain | a promotion re-parents every header, keeps every chain gap-free, and never reuses a chain id, also with the counter at u32::MAX; every promotion adopts a strictly longer chain with the same prefix |
| fc_tallest | violation | TallestChainIsMain | a taller fork can stay unpromoted |
| fc_ordering | violation | ChainsIsOrderingIndex (action property: a call that adds a chain leaves Chains ordered, each chain once) | insert_sorted appends a new fork behind a lower one |
| fc_flags | violation | FlaggedHeightsInChainRange | flags are split by report order |
| mk_core | pass (3587584 states) | TypeOK, HonestProofVerifies, AcceptedProofIsSound | completeness and soundness of the verifier when the count is the block's |
| mk_count | violation | AcceptedProofIsSound | a proof-supplied count lets an inner node or the root pass as a transaction |
| mk_panic | violation | NeverPanics | too few flag bits panic |
| mk_unique | violation | UniqueLeafProven | a proof matching two transactions verifies and reports only the last |
| pp_core | pass (110758 states) | TypeOK, ParseRoundTrip, ParsedHonestProofVerifies | serialized proofs parse back exactly, trailing bytes ignored; an honest proof's bytes parse and verify to the root and its position |
| pp_panic | violation | ParseNeverPanics | a truncated buffer or an overstated count panics in parse |

Each property of a passing run has a mutant in PROJECT.json: a plausible slip in the code that the run catches. Examples:

- dropping the PrevBlock check;
- splitting the chain at `<=` instead of `<`;
- not moving `max_height` on append;
- not rounding the width or the used-bits count;
- computing the right child as `2 * pos`;
- skipping the parent check (HeaderTree refinement);
- a wrapping `ChainCounter`;
- promoting a fork that only ties the main chain (`<=` for `<`);
- reading every hash at the same offset;
- expanding flag bytes most-significant bit first, or only 7 bits per byte.

## Bounds and why they suffice

- **MCBTCRelay** — 7 hashes in a tree (g ← a ← b ← c, a ← d ← e, g ← f), `MaxU32 = 3`, init heights {0, 1}.
  - Each operation is reached with and without its parent.
  - The height overflow is reachable on both branches (c and e at height 3 + 1).
  - The siblings d and f test fork creation at two heights, and the flags cover both kinds and an unknown one.
- **MCForkChoiceUnit** — main tip ≤ 3, ≤ 2 forks, `MaxU32 = 7`.
  - Every start/top combination and every valid key order are included.
  - Flag lists hold two heights in either report order.
  - This covers promotion from key 1, forks of equal height, a fork enumerated first (position 0, so the loop never runs), and an unsorted flag list.
  - With two forks, a fork's enumerate position is 0 or 1. So the loop's `Chains::swap` branch (537) and `current_height = prev_height` (542) never run; the one swap in a promotion is inside `remove_blockchain`. Reaching line 542 takes four forks, and it only leaves a taller fork unpromoted, as line 505 already does. Its hazard is listed without a property.
  - fc_core also starts from `ChainCounter = MaxU32`, so both `checked_add` overflows (new fork, promotion) are exercised. The violation runs leave it off, so their traces show the ordering and flag bugs rather than an overflow.
- **MCMerkleVerifier** —
  - mk_core covers blocks of 1-7 transactions, trees of height 0 to 3. The cases are: full trees (2, 4), duplication at the leaf level only (3, 7), at an inner level only (6), and at both (5). The free-form proofs have up to 3 hashes and 1 flag byte. The honest proof of every position is added to them (`HonestProofs`), so the 4-hash proofs of positions 0-3 in blocks of 5-7 transactions are checked too.
  - It takes under 2 minutes.
  - Hash values range over every node of the block's tree. Under an injective hash, only those values can reproduce the root, so these are all the forgeries that matter.
  - mk_panic needs 5 transactions: 11 bits are visited with 1 flag byte.

- **MCMerkleParse** — free-form proofs with counts 1-4, 0-2 hashes (identities 1, 2) and 0-2 flag bytes (0x01, 0x80), plus honest proofs for blocks of 1-4 transactions.
  - The inputs give 27282 initial buffers (the pp_panic bounds).
  - A hash count off by one makes parse read the flag-count byte and flag bytes as hash bytes, or run past the end.
  - A count of 0 minus one is 0xff, a 9-byte varint, which panics on the 3-byte slice.
  - The two flag-byte values put the set bit at either end of the byte, so a reversed bit order changes the result.
  - pp_core adds honest proofs for every position in blocks of 5, 9, 17 and 33 transactions, giving trees of height up to 6.
  - Their flag bits run past 8, so the flag loop unpacks two bytes and the verifier consumes bits across the byte boundary.
  - Honest proofs for larger blocks are out of reach: 300 transactions cost hours, since every position needs the reference tree.
  - The free-form proofs (`FreeCounts`) also take the count 300 (bytes 0x2c 0x01). A count read from its low byte only, or big-endian, then breaks ParseRoundTrip. Below 256, only a big-endian read would.

## Fairness

No liveness is claimed, and no fairness is assumed. Every operation is a single synchronous extrinsic (spec section 5), and no property says something must eventually happen. Nothing in the code schedules a call: whether a relayer ever submits a header or a proof is outside the pallet, so weak fairness on any action would be an assumption about the environment, not the code. The harnesses make one call (MerkleParse: one parse, then one verification) per behaviour, so their cfgs say `CHECK_DEADLOCK FALSE`.

## Findings

1. `store_block_header`, `flag_block_error` and `clear_block_error` edit a copy of a chain and call `ChainsIndex::mutate` with a closure that ignores its argument (lib.rs 186, 269, 310). Nothing is written back: a stored header is missing from its chain, a duplicate is accepted with Ok, and flags are lost (run bt_written).
2. In `check_and_do_reorg`, the enumerate position is used as a key (505). In the trace, the only fork is enumerated first, so the loop never runs and the taller fork stays unpromoted. The loop's later use of the overtaken height (542) is not reached with two forks. Every promotion that does happen still adopts a strictly longer chain (ImplementsLongestChain holds).
3. `insert_sorted` always appends, because the position variable is shadowed (574). In the trace, a fork created at height 2 lands behind a fork of height 1. With the create path removed from `Next`, the property fails on a promotion instead: `swap_main_blockchain` inserts the main chain, not the displaced chain (478), so id 0 is listed twice and the displaced chain is missing.
4. The flag split assumes the flag Vecs are sorted (417).
5. `verify_proof` trusts the proof's `transactions_count` (108). It panics when the tree needs more flag bits than the proof carries (57); the trace is a 5-transaction block with 3 hashes and one flag byte, which passes the check at line 104. It also accepts a proof that matches several leaves, reporting the last (65), where spec 4.3 asks for an invalid-proof error.
6. `parse` panics on truncated buffers and overstated counts (merkle.rs 144-165). Even a well-formed 86-byte proof with no hashes panics at `[84..87]`.

One further disagreement is read from the code and checked by no run. `store_block_header` only emits an event when a header extends the main chain (lib.rs 201-218), and BestBlock moves only inside a promotion. In BTCRelay the main chain in `ChainsIndex` is never written back either (finding 1), so BestBlock still matches the stored main chain, and no property there can tell the two apart.

## Not modelled, and why

- **Header decoding** (`header_from_bytes`, `parse_block_header`) and hashing live in the bitcoin crate outside `src/`. A header is a model value with a parent.
- **Difficulty and payment validation** are not in the source.
- **Events** are not modelled: no operation reads them.
- **The signed-origin check** is not modelled: every call is by a signed account.
- **Hash functions** are modelled as injective constructors, so SHA-256 collisions are out of scope.
- **u32 wrap-around in `compute_tree_width`** (merkle.rs 35) is not checked.
  - It needs a `transactions_count` above 2^31, beyond TLC's 32-bit integers and beyond any enumerable height search.
  - The model keeps the guard order that rules it out: `verify_proof` rejects counts above MAX_TRANSACTIONS_IN_PROOF before `compute_tree_height` runs. It is not listed as a hazard, since that check makes it unreachable.
- **Liveness**: see Fairness. Nothing in the pallet makes a call happen, so there is nothing the code guarantees eventually.

## Possible extensions

1. Compose the parser and verifier into `verify_transaction_inclusion` once the code calls them; today the dispatchable returns Ok without reading its arguments.
2. A corrected-variant harness (write-back `mutate`, key-based reorg) checked against the same LongestChain and HeaderTree specifications, to show the findings are the only gaps.
