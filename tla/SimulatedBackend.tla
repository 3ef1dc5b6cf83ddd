------------------------- MODULE SimulatedBackend -------------------------
(***************************************************************************)
(* accounts/abi/bind/backends.SimulatedBackend: a one-node chain for       *)
(* binding tests.  Every exported operation takes b.mu for its whole body, *)
(* so operations run one at a time, each an atomic step, in any order the  *)
(* callers (test goroutines) issue them.                                   *)
(*                                                                         *)
(* State:                                                                  *)
(*   headNonce, headTime  the state and time of the blockchain's head      *)
(*                        (prependDb / prependBlock; CurrentBlock)         *)
(*   height               the head's number                                *)
(*   pendingTxs           pendingBlock.Transactions(): [from, nonce, gas]  *)
(*   pendingTime          pendingBlock's (and pendingHeader's) time        *)
(*   pendingNonce         the nonces of pendingState                       *)
(*   gasPool              b.gasPool                                        *)
(*   adjusted             a ghost: the AdjustTime shifts since the last    *)
(*                        Commit or Rollback                               *)
(*   logsEmitted          the logs of the committed blocks, which the      *)
(*                        chain's log feed passes to the event system      *)
(* Only nonces and gas are kept of the EVM state: a transaction moves its  *)
(* sender's nonce on, uses some gas from the pool and emits one log.       *)
(***************************************************************************)
EXTENDS Naturals, Sequences

CONSTANTS
    Senders,        \* the accounts that sign transactions
    GasUses,        \* the gas a transaction may use
    BlockGasLimit,  \* pendingHeader.GasLimit (the genesis gas limit)
    BlockPeriod,    \* GenerateChain puts a block BlockPeriod seconds after its parent
    Adjustments,    \* the shifts given to AdjustTime, in seconds
    MaxHeight,      \* the last block the model commits
    MaxPending,     \* the most transactions a pending block holds
    MaxAdjusted     \* the largest total shift between two commits

ASSUME BackendConstantsAssumption ==
    /\ GasUses \subseteq Nat \ {0}
    /\ BlockGasLimit \in Nat
    /\ BlockPeriod \in Nat \ {0}
    /\ Adjustments \subseteq Nat
    /\ MaxHeight \in Nat
    /\ MaxPending \in Nat
    /\ MaxAdjusted \in Nat

Tx == [from : Senders, nonce : Nat, gas : GasUses]

VARIABLES headNonce, headTime, height, pendingTxs, pendingTime,
          pendingNonce, gasPool, adjusted, logsEmitted

vars == <<headNonce, headTime, height, pendingTxs, pendingTime,
          pendingNonce, gasPool, adjusted, logsEmitted>>

-----------------------------------------------------------------------------
(***************************************************************************)
(* The transactions of s in a block, and the gas a block's txs use.  TxsOf *)
(* is SelectSeq(txs, LAMBDA tx : tx.from = s), written out as the          *)
(* Sequences module defines SelectSeq, so that proofs can unfold it.       *)
(***************************************************************************)
TxsOf(txs, s) ==
    LET f[i \in 0..Len(txs)] ==
            IF i = 0 THEN << >>
            ELSE IF txs[i].from = s THEN Append(f[i - 1], txs[i]) ELSE f[i - 1]
    IN  f[Len(txs)]

GasOf(txs) ==
    LET f[i \in 0..Len(txs)] == IF i = 0 THEN 0 ELSE f[i - 1] + txs[i].gas
    IN  f[Len(txs)]

(***************************************************************************)
(* NonceAt(ctx, account, nil): the nonce in the state of the head block    *)
(* (prependingState); PendingNonceAt: the nonce in pendingState.           *)
(***************************************************************************)
NonceAt(s) == headNonce[s]

PendingNonceAt(s) == pendingNonce[s]

(***************************************************************************)
(* emptyPendingBlock: a fresh child of the head with no transactions       *)
(* (GenerateChain from prependBlock), a full gas pool, and pendingState    *)
(* back at the head's state.                                               *)
(***************************************************************************)
emptyPendingBlock(nonce, time) ==
    /\ pendingTxs' = <<>>
    /\ pendingTime' = time + BlockPeriod
    /\ gasPool' = BlockGasLimit
    /\ pendingNonce' = nonce
    /\ adjusted' = 0

(* NewSimulatedBackend(alloc, gasLimit): genesis, then emptyPendingBlock.  *)
Init ==
    /\ headNonce = [s \in Senders |-> 0]
    /\ headTime = 0
    /\ height = 0
    /\ pendingTxs = <<>>
    /\ pendingTime = BlockPeriod
    /\ pendingNonce = headNonce
    /\ gasPool = BlockGasLimit
    /\ adjusted = 0
    /\ logsEmitted = 0

(***************************************************************************)
(* Commit: InsertChain(pendingBlock) (a rejected block panics), the head   *)
(* moves to it (prependDb = database, prependBlock = pendingBlock), then   *)
(* emptyPendingBlock.  The inserted block's state is the head's state with *)
(* each sender's nonce moved past its transactions.                        *)
(***************************************************************************)
Commit ==
    LET newNonce == [s \in Senders |-> headNonce[s] + Len(TxsOf(pendingTxs, s))]
    IN  /\ height < MaxHeight
        /\ headNonce' = newNonce
        /\ headTime' = pendingTime
        /\ height' = height + 1
        /\ logsEmitted' = logsEmitted + Len(pendingTxs)
        /\ emptyPendingBlock(newNonce, pendingTime)

(* Rollback: emptyPendingBlock. *)
Rollback ==
    /\ emptyPendingBlock(headNonce, headTime)
    /\ UNCHANGED <<headNonce, headTime, height, logsEmitted>>

(***************************************************************************)
(* SendTransaction(tx): an error unless tx.Nonce() is the sender's nonce   *)
(* in pendingState; ApplyTransaction on pendingState takes the gas from    *)
(* b.gasPool (ErrGasLimitReached when it is short, with nothing changed)   *)
(* and moves the nonce on; then the pending block is generated again from  *)
(* prependBlock with the old transactions and tx, and pendingHeader is its *)
(* header.                                                                 *)
(***************************************************************************)
\* Mutant: ApplyTransaction's gas pool check is dropped.
SendTransactionNoGasCheck(tx) ==
    /\ Len(pendingTxs) < MaxPending
    /\ tx.nonce = pendingNonce[tx.from]
    /\ gasPool' = gasPool - tx.gas
    /\ pendingNonce' = [pendingNonce EXCEPT ![tx.from] = @ + 1]
    /\ pendingTxs' = Append(pendingTxs, tx)
    /\ pendingTime' = headTime + BlockPeriod
    /\ UNCHANGED <<headNonce, headTime, height, adjusted, logsEmitted>>

\* Mutant: the nonce is checked against the head's state instead of pendingState.
SendTransactionHeadNonce(tx) ==
    /\ Len(pendingTxs) < MaxPending
    /\ tx.nonce = headNonce[tx.from]
    /\ tx.gas <= gasPool
    /\ gasPool' = gasPool - tx.gas
    /\ pendingNonce' = [pendingNonce EXCEPT ![tx.from] = @ + 1]
    /\ pendingTxs' = Append(pendingTxs, tx)
    /\ pendingTime' = headTime + BlockPeriod
    /\ UNCHANGED <<headNonce, headTime, height, adjusted, logsEmitted>>

SendTransaction(tx) ==
    /\ Len(pendingTxs) < MaxPending
    /\ tx.nonce = pendingNonce[tx.from]
    /\ tx.gas <= gasPool
    /\ gasPool' = gasPool - tx.gas
    /\ pendingNonce' = [pendingNonce EXCEPT ![tx.from] = @ + 1]
    /\ pendingTxs' = Append(pendingTxs, tx)
    /\ pendingTime' = headTime + BlockPeriod
    /\ UNCHANGED <<headNonce, headTime, height, adjusted, logsEmitted>>

(***************************************************************************)
(* AdjustTime(adjustment): the pending block is generated again from       *)
(* prependBlock with its transactions and OffsetTime(adjustment);          *)
(* pendingState and the gas pool are left as they are.                     *)
(***************************************************************************)
AdjustTime(adjustment) ==
    /\ adjusted + adjustment <= MaxAdjusted
    /\ pendingTime' = headTime + BlockPeriod + adjustment
    /\ adjusted' = adjusted + adjustment
    /\ UNCHANGED <<headNonce, headTime, height, pendingTxs, pendingNonce, gasPool, logsEmitted>>

(***************************************************************************)
(* callContract on a state: the caller's account is created if missing and *)
(* given an infinite balance, and the state transition of the call moves   *)
(* its nonce on (callmsg.CheckNonce is false, the increment still happens). *)
(***************************************************************************)
callContract(nonces, from) == [nonces EXCEPT ![from] = @ + 1]

(***************************************************************************)
(* PendingCallContract(call), and each executable(gas) probe of            *)
(* EstimateGas: callContract on pendingState between Snapshot() and        *)
(* RevertToSnapshot(snapshot); the deferred revert's argument is taken     *)
(* before the call.                                                        *)
(***************************************************************************)
\* Mutant: the snapshot is taken after the call, so the revert undoes nothing.
PendingCallContractLateSnapshot(from) ==
    LET called   == callContract(pendingNonce, from)
        snapshot == called
    IN  /\ pendingNonce' = snapshot
        /\ UNCHANGED <<headNonce, headTime, height, pendingTxs, pendingTime, gasPool, adjusted, logsEmitted>>

PendingCallContract(from) ==
    LET snapshot == pendingNonce
        called   == callContract(pendingNonce, from)
    IN  /\ called \in [Senders -> Nat]
        /\ pendingNonce' = snapshot
        /\ UNCHANGED <<headNonce, headTime, height, pendingTxs, pendingTime, gasPool, adjusted, logsEmitted>>

Next ==
    \/ Commit
    \/ Rollback
    \/ \E s \in Senders, n \in 0..MaxPending, g \in GasUses :
          SendTransaction([from |-> s, nonce |-> n, gas |-> g])
    \/ \E a \in Adjustments : AdjustTime(a)
    \/ \E s \in Senders : PendingCallContract(s)

Spec == Init /\ [][Next]_vars

-----------------------------------------------------------------------------

TypeOK ==
    /\ headNonce \in [Senders -> Nat]
    /\ headTime \in Nat
    /\ height \in 0..MaxHeight
    /\ pendingTxs \in Seq(Tx)
    /\ pendingTime \in Nat
    /\ pendingNonce \in [Senders -> Nat]
    /\ gasPool \in 0..BlockGasLimit
    /\ adjusted \in 0..MaxAdjusted
    /\ logsEmitted \in 0..MaxHeight * MaxPending

(***************************************************************************)
(* Commit never panics and the nonces the binding reads agree: the pending *)
(* block is one InsertChain accepts on the head (each sender's             *)
(* transactions carry consecutive nonces from its nonce at the head, and   *)
(* together they use no more than the block gas limit, which the gas pool  *)
(* has left over), and PendingNonceAt is NonceAt plus the sender's pending *)
(* transactions, whatever mix of sends, rollbacks, time adjustments and    *)
(* commits came before.                                                    *)
(***************************************************************************)
PendingBlockValid ==
    /\ \A s \in Senders :
          LET mine == TxsOf(pendingTxs, s) IN
          /\ \A i \in 1..Len(mine) : mine[i].nonce = NonceAt(s) + i - 1
          /\ PendingNonceAt(s) = NonceAt(s) + Len(mine)
    /\ GasOf(pendingTxs) <= BlockGasLimit
    /\ GasOf(pendingTxs) + gasPool = BlockGasLimit

(***************************************************************************)
(* "AdjustTime adds a time shift to the simulated clock": the pending      *)
(* block is BlockPeriod after the head plus every shift made since the     *)
(* last Commit or Rollback, also when transactions are sent after it.      *)
(***************************************************************************)
AdjustTimeKept == pendingTime = headTime + BlockPeriod + adjusted

=============================================================================
