# Formal models of turbo-geth's history store, state reader and simulated backend

This directory holds TLA+ models of parts of the turbo-geth sources under `src/`:
- the specifications;
- the TLC configurations that model-check them on small instances;
- TLAPS proofs of the main invariants of the history store, of its refinement of an abstract versioned store, and of `repair()`'s mining rewards.

`PROJECT.json` lists the components, the runs, the mutants that show each checked property can fail, the mapping from each definition to the source lines it models, the findings, the hazards and the theorems.

## The system and its parts

| Part | Source | What it does |
|---|---|---|
| Versioned store | `src/ethdb/walk.go`; bolt `Put`/`GetAsOf` and `TrieDbState.UnwindTo` (not under `src/`) | Live buckets hold the current state. The history buckets `hAT` (accounts) and `hST` (storage) hold, for each key and block, the value the key had before that block changed it. The `SuffixBucket` lists, for each block, the keys it changed, under the key `encodeTimestamp(block) ++ bucket`. |
| Rewind | `walk.go` `rewindData` | Walks the `SuffixBucket` from block `dst+1` up to `src`, gathers the changed keys, and hands each to a callback with its value as of `dst+1` (`GetAsOf`). `UnwindTo` uses this to put the live state back to block `dst`. |
| Modified accounts | `walk.go` `GetModifiedAccounts` | The same walk, restricted to `hAT`, with the secure keys mapped back to addresses through their preimages. |
| Timestamp codec | `src/cmd/hack/hack.go` `encodeTimestamp`/`decodeTimestamp` | A variable-length, order-preserving block number encoding. The top 3 bits of the first byte give the length. |
| DbState | `src/unnamed/part_000` | A history-only `StateReader` bound to a block. `ReadAccountData`/`ReadAccountStorage` are as-of reads at `blockNr+1`. `ForEachStorage` pages through a contract's storage, laying the reader's own `WriteAccountStorage` overrides over the database. |
| SimulatedBackend | `src/accounts/abi/bind/backends/simulated.go` | A one-node chain for binding tests. A pending block collects sent transactions; `Commit` inserts it, `Rollback` drops it, `AdjustTime` shifts its time, and `EstimateGas` binary-searches a call's gas. Every exported operation holds `b.mu`. |
| Block validation | `src/core/block_validator.go` | `ValidateBody`/`ValidateState` compare hashes and roots. `CalcGasLimit` picks the next block's gas limit. On a root mismatch the node prints the tries into `root_N`, and into `right_N` for the blocks `NewBlockValidator` found a `root_N` for at start-up. |
| External signer | `src/accounts/external/backend.go` | A clef RPC client with an account cache. |
| hack tools | `src/cmd/hack/hack.go` | Offline tools. `execToBlock`/`extractTrie` write `right_N`, `invTree` diffs `root_N` against `right_N`. `repair` re-executes the chain into batches until the end or a signal, crediting `accumulateRewards`. |
| tester | `src/cmd/tester/main.go` | A test node: generators, a p2p server, then a wait for SIGINT/SIGTERM. |

How the parts interact:
- Block execution writes the live, history and `SuffixBucket` records.
- `UnwindTo` drives `rewindData` to revert them.
- `DbState` and `GetModifiedAccounts` read the history through `GetAsOf` and the `SuffixBucket` walk.
- Both walks depend on the timestamp codec to order keys by block.
- `SimulatedBackend` drives the chain. Its pending blocks get their gas limits from `CalcGasLimit`, through `GenerateChain`. `SubscribeFilterLogs` streams the event system's log batches to a caller's channel.
- The node (`ValidateState`) and the hack tools share the `root_N`/`right_N` files in the working directory.
- `repair()` and the tester share the same signal plumbing (`signal.Notify` into a channel of one, a forwarding goroutine, `interruptCh`).

## Modules

| Module | Models | State / actions |
|---|---|---|
| `HistoryStore` | versioned store, rewind, `GetModifiedAccounts`, `DbState` reads | `live`, `hist` (key × block → value before the block, or `NoEntry`), `changes` (block → keys: the `SuffixBucket`), `blockNr`, and the ghost `snap` (the chain's state after each block). Actions `CommitBlock(W)` and `UnwindTo(target)`. `rewindData`, `GetAsOf`, `GetModifiedAccounts`, `ReadAccountData` are operators. |
| `HistoryStoreProofs` | TLAPS proofs about `HistoryStore` | |
| `SuffixWalk` | the codec and the two walks at byte level | `chain` (block numbers as 8 big-endian bytes), `written` (records `[ts, bucket]`, keyed `encodeTimestamp(ts) ++ bucket`). Actions `CommitBlock(B)` and `UnwindTo(n)`. `WalkFrom` is the ordered `db.Walk` with the callbacks' stop and skip rules. |
| `StorageRange` | `DbState.ForEachStorage`, `WriteAccountStorage`, `SetBlockNr` | `db` (the as-of storage of one contract), `storage` (the override tree). The three loops of `ForEachStorage` are the recursive operators `OverridePass`, `DbPass` and `Emit`. |
| `SimulatedBackend` | `Commit`, `Rollback`, `SendTransaction`, `AdjustTime`, `NonceAt`, `PendingNonceAt`, `PendingCallContract` (a call on `pendingState` between a snapshot and its revert) | Head nonces and time, height, pending transactions, pending time, `pendingState`'s nonces, the gas pool, and the ghost `adjusted`. The EVM is reduced to "a transaction moves its sender's nonce on and uses some gas". |
| `EstimateGas` | `EstimateGas`'s binary search, at `Width` bits | `need` (the least gas the call executes with), `lo`, `hi`, `cap`, `pc`, `result`. One action per loop iteration, for the loop exit and for the final cap check. |
| `GasLimit` | `CalcGasLimit`, at `Width` bits | The head's limit and use, and the miner's floor and ceiling. `MineBlock` applies `CalcGasLimit`. |
| `UintArith` | lemmas on `Width`-bit arithmetic | Used by `GasLimitProofs` and `EstimateGasProofs`. |
| `GasLimitProofs`, `EstimateGasProofs` | TLAPS proofs about `GasLimit` and `EstimateGas` | |
| `VersionedStore` | what the store promises: a state per block | `state`, `past` (block → state), `height`. `Commit(W)`, `UnwindTo(t)`. `HistoryStore`'s `StoreSpec` instantiates it with `past` rebuilt from the history buckets by `GetAsOf`. |
| `BlockValidatorProofs` | TLAPS proof about `BlockValidator` | |
| `BlockValidator` | `NewBlockValidator`, `ValidateBody`, `ValidateState`'s diagnostics, and hack's `execToBlock`, `extractTrie`, `invTree` | The files (`absent`/`partial`/`complete` and which block's trie), `dblks`, the node's and the tool's print in progress, restarts. |
| `SignalForward` | the signal plumbing shared by `repair()` and the tester | Channel capacities and contents, the forwarder's place, the user's signals, and whether a signal killed the process before `Notify`. |
| `Tester` | `cmd/tester` `main`/`tester` | The main goroutine's place, the resources opened, the deferred `Close` stack (with nil receivers), `app.After`. Extends `SignalForward`. |
| `Repair` | hack's `repair()` loop | `blockNum`, the batch size, what is committed, the interrupt flag, the printed resume block, and the last block's rewards. Each block is executed with any header and valid uncle list, and credited by `Rewards`' `AccumulateRewards`. Extends `SignalForward` and `Rewards`. |
| `RepairProofs` | TLAPS proof about `Repair` | |
| `Rewards` | hack's `accumulateRewards` | Operators only: the credit the code's loop computes for a header and its uncles, and the yellow paper's formula. |
| `LogSubscription` | `SubscribeFilterLogs`' flattening goroutine | `produced`, `pending` (the batch offered on `sink`), `cur`, the goroutine's place, `delivered`, `quit`, `subErr`. The event system and the consumer are actors too. |
| `SimulatedChain` | `SimulatedBackend` with a log subscription open | Composes the two. Each transaction a `Commit` inserts emits one log (`logsEmitted`), which the event system may then offer to the subscription. |
| `LogSubscriptionProofs` | TLAPS proof about the subscription in `SimulatedChain` | |
| `SimulatedBackendProofs` | TLAPS proofs about the backend in `SimulatedChain` | |
| `MC*` | TLC instances | Model values and bounds. |

Modelling choices:
- **Old-value history.** A record at block `t` holds the value from before `t`. `GetAsOf(k, ts)` returns the first record at or after `ts`, or the live value if there is none. This is the representation the code's `GetAsOf(..., timestampDst+1)` and `DbState`'s `blockNr+1` rely on.
- **`PruneOnUnwind`.** This constant says whether `UnwindTo` deletes the history and `SuffixBucket` records above its target. The spec says changesets are append-only and not pruned by the core. With `FALSE`, the run `history_rewind_no_prune` shows what that gives (see Findings). The passing run and the proofs use `TRUE`.
- **Reduced widths.** `EstimateGas` and `GasLimit` use `Width`-bit unsigned arithmetic with the code's wrap, because TLC's integers are 32-bit.
  - In `GasLimit`, the wrap of `decay` for a parent below 1024 gives the same values at any width, so `Width = 24` shows the 64-bit behaviour exactly.
  - In `EstimateGas`, `Width = 6`. The overflow happens in the same place, relative to the cap, as in the code, and the finding was confirmed with the real 64-bit constants (see below).
- **`SuffixWalk`'s block numbers.** They are 8-byte sequences, so blocks around 2^53 can be written down.

## Runs

| Run | Result | What it shows |
|---|---|---|
| `history_rewind` | pass, 39k states | See below. |
| `history_rewind_no_prune` | violation of `AsOfConsistent` | The spec's unpruned history returns a stale record after an unwind and a different block. |
| `storage_range` | pass, 20k states | See below. |
| `suffix_walk` | pass | See below. |
| `simulated_backend` | pass, 284k states | See below. |
| `simulated_adjust_time` | violation of `AdjustTimeKept` | AdjustTime then SendTransaction drops the shift. |
| `estimate_gas` | pass, 1.3k states | See below. |
| `estimate_gas_max_cap` | violation of `EstimateGasAnswers` | With `call.Gas` the largest uint, `EstimateGas` returns 0, or loops forever. |
| `gas_limit` | pass, 19k states | See below. |
| `diagnostics_files` | pass, 1.8k states | See below. |
| `tester_signal` | pass, 114 states | See below. |
| `repair_resume` | pass, 21k states | See below. |

The passing runs:
- **`history_rewind`.** `MaxTs = 3` blocks and two keys, one per history bucket. Every commit (any subset of keys, any values, `Nil` meaning deleted) and every unwind interleave. The run checks:
  - `LiveIsCanonical`: the live buckets are the chain's state;
  - `AsOfConsistent`: every as-of read at every past block is exact;
  - `ModifiedAccountsComplete`: every account whose value differs between `s-1` and `e` is in `GetModifiedAccounts(s, e)`;
  - `HistoryInv`: the inductive invariant of the proofs.

  Three blocks are enough for an unwind to a middle block, followed by a different block over a stale record.
- **`storage_range`.** 4 secure keys, 2 values plus zero, and pages of 1 to 3. `ForEachStorageCorrect` says each page is exactly the first `maxResults` non-zero merged slots from `start`. The run covers every mix of overrides (deletions included) over every database state, so the early stops of both walks and `numDeletes` are all exercised.
- **`suffix_walk`.** Nodes start at blocks 30, 8190 and 2^21−2 and commit up to 3 blocks, crossing the 1→2, 2→3 and 3→4 byte boundaries, with unwinds in between. `WalksFindTheirBlocks` says:
  - the `rewindData` walk for every pair of written blocks meets exactly the records of blocks `dst+1..src`;
  - the `GetModifiedAccounts` walk meets exactly the `hAT` records of `start..end`.
- **`simulated_backend`.** 2 senders, 2 gas costs, gas limit 3 (so the pool runs out), 2 blocks and 2 pending transactions. `PendingBlockValid` says that, after any interleaving of operations:
  - each sender's pending transactions carry consecutive nonces from its head nonce;
  - their gas fits the block;
  - `PendingNonceAt = NonceAt + pending`.

  So `Commit` never panics.
- **`estimate_gas`.** Every `call.Gas` up to 2^(W−1), gas limits of 20 and 32, and calls needing from `TxGas` to "never". It checks `EstimateGasMinimal` (the result is the least executable gas, or the error) and `EstimateGasReturns` (the search ends).
- **`gas_limit`.** Genesis limits 5000 and 9000; floors 6000 and 7000; ceilings 7000 and 8000; every block empty, two-thirds full or full. It checks:
  - `GasLimitStepValid`: an action property saying every step passes ethash's bound `|new − parent| < parent/1024` and `new ≥ MinGasLimit`;
  - `GasLimitReachesRange`: the limit ends inside `[floor, ceil]`.

  The floors are above 5123 on purpose. With a floor at 5000 and full blocks, `CalcGasLimit` takes a parent at 5000 to 5004, and ethash rejects that step (5004 − 5000 is not below 5000/1024 = 4). TLC finds that in three states; see the defects list under Findings, which explains why only the ceiling's counterpart is reachable on a real chain. The theorem `GasLimitStepValidHolds` states the configurations for which the bound does hold.

- **`diagnostics_files`.** One block, two hashes (canonical and a fork), three node runs. The node, `execToBlock`/`extractTrie` and `invTree` interleave, and the node or the tool may stop mid-print. `NodeNeverOverwritesRight` (an action property): a `right_N` that existed when the node started is never rewritten by that run, because `NewBlockValidator` reads the directory sorted, `right_` before `root_`, and a `root_N` entry does not re-arm block `N`. Blocks `{1,2}` give the same interleavings per block and take minutes.
- **`tester_signal`.** Up to 5 signals, more than the places a signal can wait (the buffer of `sigs`, the forwarder, `interruptCh`). `SignalEndsTester`: a signal ends the tester, whether it arrives before `Notify` (default action) or after.
- **`repair_resume`.** The run's parameters:
  - blocks 1 to 4, with a batch limit of 3 and writes of 1 or 2, so commits happen mid-loop;
  - 2 signals, which can arrive between any two blocks;
  - each block has two possible miners and up to 2 uncles 1 to 6 blocks below, and Byzantium starts at block 3.

  It checks `RewardsMatchYellowPaper`: for the last block executed, `256 × credit` equals the yellow paper's reward scaled by 256, for each account.

  The run checks no property of the resume point. `ProcessBlock` is one atomic step of a single goroutine, and `Finish` prints and commits `blockNum`, so such a property would hold by the shape of the model. `currentDb` is an in-memory database (`hack.go:1213`), so nothing committed outlives the process either.
- **`simulated_backend` (the subscription part).** Run on `SimulatedChain`, with batches of 1 or 2 of the up to 4 logs the two commits emit. It checks two properties:
  - `StreamIsFlattening`: delivered, then the batch in hand, then the batch offered, is exactly what was produced;
  - `UnsubscribeReturns`: after `quit`, the goroutine returns and a pending send is drained, even when it is blocked on a consumer that no longer reads.

**Fairness.** `EstimateGas` and `GasLimit` assume weak fairness of `Next`:
- The search is a loop in one goroutine, under `b.mu`, with nothing to block it.
- The chain keeps being mined.

- `Tester`: weak fairness of the main goroutine and of the forwarder. Each is a goroutine that the Go scheduler runs while it is runnable. The user has no fairness.
- `SimulatedChain` (the `LogSubscription` part): weak fairness of the goroutine's return and of the event system's drain. Once `quit` is closed that case is ready at every later select, and Go picks among ready cases at random. The consumer and the event system's producers have no fairness. The consumer is the goroutine that calls `Unsubscribe`, so it reads nothing after it.

No other run has a liveness property. `Repair` has no fairness, because its only property is a safety one. `SimulatedBackend`'s operations are driven by callers, who may stop at any time, and have no fairness. Its state space is small, and a run ending at a bound is not a deadlock, because `Rollback` and `UnwindTo` stay enabled.

**Mutants.** Every property of every passing run has a mutant in `PROJECT.json`: a plausible bug in a mapped definition that TLC finds. Examples:
- the walk starting one block late;
- reading at `dst` instead of `dst+1`;
- checking the nonce against the head instead of `pendingState`;
- a decay without `−1`.

## Findings

1. **`history_rewind_no_prune` (spec gap).** The spec's append-only changesets and an unwind that only reverts live values together leave records of unwound blocks in the history. Take this sequence:
   - block 2 records `a1`'s old value `v1`;
   - unwind to 0;
   - block 1 sets `a1 := v2`.

   `GetAsOf(a1, 2)` then returns `v1`. Correct as-of reads need the history above the unwind target to be deleted, which the proofs assume.
2. **`simulated_adjust_time` (code bug).** `AdjustTime` "adds a time shift to the simulated clock". `SendTransaction` (line 355) regenerates the pending block from `prependBlock` without the shift, and a second `AdjustTime` replaces the first rather than adding to it.
3. **`estimate_gas_max_cap` (code bug).** `mid := (hi + lo) / 2` (line 287) wraps. With `call.Gas = 2^64−1` and a call needing 21000 gas:
   - `lo` falls to 1, then `mid = 0`;
   - `callContract` runs gas 0 as 50,000,000, so the call succeeds;
   - `EstimateGas` returns 0.

   The same loop run in Python with 64-bit values also returns 0.
4. **`estimate_gas_max_cap` (code bug).** The same wrap makes the search loop forever for a call that fails at every gas, such as a reverting call. The comment at line 294 says such a transaction is rejected as invalid. Take `call.Gas = 2^64−1`:
   - `lo` falls to 1, `mid = 0` fails at the default gas, and `lo = 0`;
   - `mid = (2^64−1)/2 = 2^63−1` fails, so `lo = 2^63−1`;
   - `hi + lo` wraps again, and `lo` falls back to 1.

   `lo + 1 < hi` never fails, so `EstimateGas` spins while it holds `b.mu`, and every other call on the backend blocks. At 6 bits TLC finds the cycle `lo` = 3, 1, 0, 31, 15, 7, 3 for a call that needs more than half the modulus.

   Both findings break `EstimateGasAnswers`: `EstimateGas` returns, and returns the least executable gas or the error. The run's trace shows finding 3. With `Needs = {60, 63, 64}` in the cfg, TLC reports the lasso of finding 4.

Other defects were found in the code and are not checked by any run. They are recorded as hazards in `PROJECT.json`, with notes:
- `rewindData` turning a read error into a deletion (`walk.go:89`);
- a failed unwind retried to a higher target (`walk.go:93`);
- snapshot files trusted on existence, or on their number alone (`block_validator.go:143`, `:148`);
- `Close` deferred on a nil generator (`tester/main.go:83`);
- the 8-byte timestamp wrap (`hack.go:1056`);
- `CalcGasLimit` producing a block that ethash's header check rejects, for a miner whose floor is at most about 5123 (`block_validator.go:181`). Below a parent of 5120 the decay is 3, and a full parent adds 7, so the limit rises by 4, which is not below `parent/1024` = 4. On a real chain this half cannot happen: a transaction needs at least 21000 gas, so no block near 5000 gas is full. A ceiling below `MinGasLimit` does the same going down, and that half needs no full block: the child is `parent − decay` = 4997. This was found while proving `GasLimitStepValid`, and the theorem's hypothesis `MinerConfig` excludes both configurations.

## Proofs (checked by `tlapm`)

### `HistoryStoreProofs`

Assumptions are the constant assumption `ConstantsAssumption` and, for the invariants, `PruneOnUnwind`.

- `TypeCorrect`: `Spec => []TypeOK`. It rests on:
  - `EarliestEntry`: the `CHOOSE` in `GetAsOf` picks the least block with a record. This is proved by well-founded minimality on `Nat`.
  - `GetAsOfType`.
- `InvHolds`: `PruneOnUnwind => (Spec => []HistoryInv)`.
- `LiveIsCanonicalHolds` and `AsOfConsistentHolds`, both from `InvHolds`.
- `ModifiedAccountsCompleteHolds`, also from `InvHolds`, through `ModifiedFromInv`. If an account's value after `e` differs from its value before `s`, then `UnrecordedIsUnchanged` gives a record in some block of `s..e`. `ChangesMatchRecords` puts the account in that block's `SuffixBucket` entry, which `GetModifiedAccounts(s, e)` visits.

`HistoryInv` strengthens the two properties. Its conjuncts:
- `NoRecordAbove`: no record above `blockNr`;
- `RecordIsPrevious`: a record at `t` holds the chain's value at `t−1`;
- `ChangesMatchRecords`: the `SuffixBucket` lists exactly the keys with a record;
- `UnrecordedIsUnchanged`: a key with no record in `t1+1..t2` kept its value from `t1` to `t2`;
- `LiveIsCanonical`.

It is needed because `AsOfConsistent` alone is not inductive. An unwind keeps it only if no record survives above the target, and a commit keeps it only if the new record holds the pre-block value.

The argument:
- The lemma `AsOfFromInv` gives `GetAsOf(k, t+1) = snap[t][k]`. The earliest record at or after `t+1` holds the value before it, and `UnrecordedIsUnchanged` bridges the gap. With no record, the live value is used.
- `InvCommit` and `InvUnwind` prove one step per action, with one sub-step per conjunct.
- `rewindData`'s values are exactly `snap[target]` by `AsOfFromInv`, and keys not in `RewindKeys` did not change above the target.

- `StoreRefinement`: `PruneOnUnwind => (Spec => StoreSpec)`. The refinement mapping gives `VersionedStore`'s `past[t]` as the as-of read of block `t`. `RefineInit` and `RefineStep` show that each commit maps to `Commit` and each unwind to `UnwindTo`, through `PastFromInv` (`HistoryInv` makes `past` equal the chain's `snap`).

TLC checks `HistoryInv` and `StoreSpec` in `history_rewind` too.

### `RepairProofs`

`RewardsMatchYellowPaperHolds`: `RewardConfig => (Spec => []RewardsMatchYellowPaper)`, for every start block, chain, signal count, beneficiaries and fork block. `RewardConfig` is ethash's setting:
- at most two uncles a block (`maxUncles`);
- Frontier and Byzantium rewards that 32 divides, as 5 and 3 ether do (and the run's 500000 and 300000).

Without divisibility, the bonus `R/32` is rounded and the reference is not met. The proof has two parts:
- For one block, `RewardsMatchOne` shows `256 × AccumulateRewards(h, us)[c] = Reference256(h, us, c)`.
  - `AccumulateUnfold` and `ReferenceUnfold` unroll the recursive function of each definition for 0, 1 or 2 uncles. A witness satisfies the function's equation, so the `CHOOSE` of the definition equals it.
  - `ScaledUncleReward` shows that when 32 divides `R`, `256 × ((x·R) div 8) = 32·x·R`.
- The strengthening `RewardInv` carries this to every state. It says that `rewarded` is `NoReward` or holds a header, uncles it may have, and their `AccumulateRewards`. TLC checked it on the `repair_resume` constants. Only `ProcessBlock` writes `rewarded`, with a header of block `blockNum`.

### `LogSubscriptionProofs`

`StreamIsFlatteningHolds`: `ChainSpec => []StreamIsFlattening`, for the backend composed with the subscription, for every batch size and every number of emitted logs. It uses `SubscriptionConstantsAssumption`. `StreamIsFlattening` alone is not inductive, so the strengthening `SubInv` adds:
- the four sequences are sequences of naturals, which the concatenation lemmas of `SequenceTheorems` need;
- the outer select holds no batch, because `RecvBatch` overwrites `cur`;
- the inner loop holds a non-empty one, because `SendLog` takes `Head(cur)`.

The lemma `SendHeadKeepsConcat` shows that `Append(d, Head(c)) \o Tail(c) = d \o c`. `SubStepInv` has one case per subscription action, for any `emitted`. `ChainStepInv` adds the backend's steps, which leave the subscription's variables alone.

### `SimulatedBackendProofs`

`PendingBlockValidHolds`: `ChainSpec => []PendingBlockValid`, and `BackendTypeOKHolds`: `ChainSpec => []TypeOK`. Both hold for every set of senders and gas costs and every bound allowed by `BackendConstantsAssumption`.

`TxsOf` (a sender's transactions in a block) and `GasOf` (a block's gas) are recursive functions over `0..Len(txs)`. `TxsOf` is `SelectSeq` written out as the `Sequences` module defines it, because the prover treats `SelectSeq` as opaque. TLC gives the same state count either way. The argument that needs no induction operator goes like this:
- `LeastNat` takes the least element of a non-empty set of naturals from `WFMin` in `WellFoundedInduction`.
- `TxsEqExists` and `GasEqExists` show that the defining equation has a solution on `0..k` for every `k`. The least `k` without one would extend the solution for `k - 1`.
- `TxsEqUnique` and `GasEqUnique` show that the solution is unique. Two solutions would differ at a least index.
- From these, `TxsOfAppend` and `GasOfAppend` give the value on `Append(t, x)` from the value on `t`.

The strengthening `BackendInv` adds three facts to `TypeOK` and `PendingBlockValid`. TLC checked it on the `simulated_backend` constants.
- The pending block holds at most `MaxPending` transactions, and `logsEmitted <= height * MaxPending`. Without this, `Commit` could push `logsEmitted` out of its range.
- Each `TxsOf` is a sequence of transactions.
- `GasOf` is a natural number.

There is one lemma per backend action:
- `CommitInv` and `RollbackInv`: `emptyPendingBlock` leaves an empty block and resets the nonces and the pool.
- `SendTransactionInv`: the guard makes the new transaction's nonce `NonceAt + Len(mine)`, and keeps the pool non-negative.
- `AdjustTimeInv`.
- `PendingCallContractInv`: the revert leaves every variable unchanged.

`ChainBackendInv` adds the subscription's steps, which leave the backend alone.

### `GasLimitProofs` and `UintArith`

`UintArith` proves two lemmas for the `Width`-bit arithmetic:
- `ModulusPositive`: `2^w` is a positive natural, since it is the number of subsets of `1..w` (by `FS_SUBSET`);
- `NoWrap`: an operation whose result fits does not wrap.

`GasLimitStepValidHolds`: `MinerConfig => (Spec => GasLimitStepValid)`. `MinerConfig` states:
- the code's divisor and minimum (1024 and 5000);
- genesis limits and ceilings of at least 5000;
- floors above 5123;
- configured limits whose double fits in `Width` bits.

Each of these is needed, as the defects list above says for the floor and the ceiling, and the `gas_limit` run's constants satisfy it. The inductive invariant `GasInv` says:
- the head's limit is at least 5000, and its double fits;
- its use is at most its limit.

`CalcGasLimitStep` first shows that, under `GasInv`, no uint operation of `CalcGasLimit` wraps. It then follows the three branches. Below the floor and above the ceiling, the limit moves by at most the decay. Inside the range, the limit is at least the floor, so the parent is at least 5120, where a full parent raises the limit by less than `parent/1024`.

### `EstimateGasProofs`

`EstimateGasMinimalHolds`: `CapsDoNotWrap => (Spec => []EstimateGasMinimal)`, for every width, `TxGas`, default call gas and call. `CapsDoNotWrap` requires `call.Gas` and the gas limits to be at most half the modulus. This is the complement of finding 3. The invariant `SearchInv` says:
- `lo` never executes, and `hi` executes unless it is still the untried cap;
- `lo < hi <= cap`, so `mid` lies strictly between them, is never 0, and `hi + lo` does not wrap;
- the cap check is reached only with `hi = cap = lo + 1`.

One lemma per action (`SearchStepInv`, `SearchEndInv`, `CapCheckInv`) keeps it.

### `BlockValidatorProofs`

`NodeNeverOverwritesRightHolds`: `Spec => NodeNeverOverwritesRight`, an action property, with no assumption on the constants. The invariant `StartRightUnwatched` says that while the node runs, every block whose `right_` file it found at start is in `dblks` with `FALSE`. `NewValidatorUnwatchesRight` shows that `NewBlockValidator` establishes it, since `right_` entries come first and a `root_` entry does not override them. Only a restart changes `dblks` or `startRight`. `NoRightReprintStep` then shows that the only step starting a node print, `ValidateBlock`, prints into `right_N` only for a block with `dblks[N] = TRUE`. The invariant excludes that for the blocks of `startRight`.

What is only model-checked:
- the walks and the codec (`WalksFindTheirBlocks` rests on the byte order of `encodeTimestamp`'s sequences, which needs induction over data);
- `ForEachStorage` (it uses `RECURSIVE` operators, which the prover cannot use);
- `Tester`;
- `Rewards` beyond two uncles: the proof unrolls the loop for ethash's two, and any number would need induction over data;
- every liveness property (`EstimateGasReturns`, `GasLimitReachesRange`, `SignalEndsTester`, `UnsubscribeReturns`): TLAPS does not handle liveness under fairness or `ENABLED`;
- anything that needs induction over data, for example that `Emit` returns a sorted prefix.

## Not modelled, and why

- **Trie, proofs and resolver.** Their code is not under `src/`; only `proof_test.go` is.
- **The hashes and roots `ValidateBody`/`ValidateState` compare.** They are computed outside `src/`. The model takes each check's outcome as an input and keeps the order of the checks and the file handling.
- **External signer.** Its methods are single RPC forwards. The `Accounts()` cache refresh is not modelled.
- **`FilterLogs`, `filterBackend`, `CallContract`, code/balance/storage reads in `SimulatedBackend`.** These are queries of the head state, and they change nothing.
- **The rest of `hack.go`.** Charts, statistics and the database dumps (`bucketStats`, `readTrie`, `testRewind`, and so on) are read-only reports or test drivers that print. Only `repair`, `accumulateRewards`, the diagnostics tools and the timestamp codec change or decide state.
- **I/O errors from bolt, and preimage lookups.** None of their error paths are modelled; `UnwindTo` is atomic in `HistoryStore`. The hazards list says which hazards this leaves without a property.

## Further work

1. `RewardsMatchYellowPaper` for any number of uncles, which needs induction over the loop.
