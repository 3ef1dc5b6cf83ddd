------------------------------- MODULE Repair -------------------------------
(***************************************************************************)
(* hack's repair(): re-execute the chain from block -block on, into a      *)
(* batch (currentM) over the current database, committing the batch when   *)
(* it reaches a size, until the chain ends or SIGINT/SIGTERM comes in      *)
(* through SignalForward's plumbing; then commit what is left and print    *)
(* "Next time specify -block N".                                           *)
(*                                                                         *)
(* A block is abstracted to its number, its header and uncles, and the     *)
(* bytes its writes add to the batch; the execution itself (transactions,  *)
(* DAO fork, accumulateRewards, statedb.Commit) is one step, or a panic.   *)
(* Of the state it writes, the model keeps the mining rewards (Rewards).   *)
(*                                                                         *)
(*   pc           "setup", "loop", "done" or "panicked"                    *)
(*   blockNum     the next block to execute                                *)
(*   interrupt    the loop's flag                                          *)
(*   batchSize    currentM.BatchSize()                                     *)
(*   committedTo  currentDb holds the writes of the blocks below it        *)
(*   printed      the N of the last message, 0 before it                   *)
(*   rewarded     the last block executed: its header, uncles and the      *)
(*                balances accumulateRewards added, NoReward before one    *)
(***************************************************************************)
EXTENDS SignalForward, Rewards

CONSTANTS
    StartBlock,   \* the -block flag
    MaxBlock,     \* the last block in the history database
    BatchLimit,   \* the batch size that makes the loop commit (200000 bytes)
    WriteSizes    \* what one block's writes may add to the batch

ASSUME RepairConstantsAssumption ==
    /\ StartBlock \in Nat \ {0}
    /\ MaxBlock \in Nat
    /\ BatchLimit \in Nat \ {0}
    /\ WriteSizes \subseteq Nat

VARIABLES pc, blockNum, interrupt, batchSize, committedTo, printed, rewarded

vars == <<pc, blockNum, interrupt, batchSize, committedTo, printed, rewarded, svars>>

NoReward == [header |-> <<>>, uncles |-> <<>>, credit |-> NoCredit]

Init ==
    /\ SigInit
    /\ pc = "setup"
    /\ blockNum = StartBlock
    /\ interrupt = FALSE
    /\ batchSize = 0
    /\ committedTo = StartBlock
    /\ printed = 0
    /\ rewarded = NoReward

(***************************************************************************)
(* The signal plumbing, then opening the databases and the chain: a        *)
(* failure there panics (check(err)) before any block.                     *)
(***************************************************************************)
Setup(ok) ==
    /\ pc = "setup"
    /\ ~killed
    /\ Notify
    /\ pc' = IF ok THEN "loop" ELSE "panicked"
    /\ UNCHANGED <<blockNum, interrupt, batchSize, committedTo, printed, rewarded>>

(***************************************************************************)
(* One iteration for block blockNum (GetBlockByNumber is not nil), with    *)
(* header h and uncles us: execute it into the batch, accumulateRewards,   *)
(* commit the batch if it reached BatchLimit, move to the next block, and  *)
(* poll interruptCh without blocking.                                      *)
(***************************************************************************)
ProcessBlock(size, h, us) ==
    /\ pc = "loop"
    /\ ~killed
    /\ ~interrupt
    /\ blockNum <= MaxBlock
    /\ LET grown == batchSize + size
       IN  \/ /\ grown >= BatchLimit
              /\ committedTo' = blockNum + 1
              /\ batchSize' = 0
           \/ /\ grown < BatchLimit
              /\ batchSize' = grown
              /\ UNCHANGED committedTo
    /\ rewarded' = [header |-> h, uncles |-> us, credit |-> AccumulateRewards(h, us)]
    /\ blockNum' = blockNum + 1
    /\ \/ /\ interruptCh > 0
          /\ interrupt' = TRUE
          /\ interruptCh' = interruptCh - 1
       \/ /\ interruptCh = 0
          /\ UNCHANGED <<interrupt, interruptCh>>
    /\ UNCHANGED <<pc, printed, sigsCap, sigs, fwd, notified, signals, killed>>

(* ApplyTransaction or statedb.Commit fails: the loop panics. *)
BlockPanics ==
    /\ pc = "loop"
    /\ ~killed
    /\ ~interrupt
    /\ blockNum <= MaxBlock
    /\ pc' = "panicked"
    /\ UNCHANGED <<blockNum, interrupt, batchSize, committedTo, printed, rewarded, svars>>

(***************************************************************************)
(* The loop ends (interrupted, or GetBlockByNumber returned nil): the      *)
(* batch is committed and the next block to give -block is printed.        *)
(***************************************************************************)
Finish ==
    /\ pc = "loop"
    /\ ~killed
    /\ interrupt \/ blockNum > MaxBlock
    /\ committedTo' = blockNum
    /\ batchSize' = 0
    /\ printed' = blockNum
    /\ pc' = "done"
    /\ UNCHANGED <<blockNum, interrupt, rewarded, svars>>

Running == pc \in {"setup", "loop"}

Main ==
    \/ \E ok \in BOOLEAN : Setup(ok)
    \/ \E size \in WriteSizes, h \in Headers(blockNum) :
          \E us \in UnclesOf(h) : ProcessBlock(size, h, us)
    \/ BlockPanics
    \/ Finish

Forwarder ==
    /\ Running
    /\ GoStart \/ Recv \/ Forward
    /\ UNCHANGED <<pc, blockNum, interrupt, batchSize, committedTo, printed, rewarded>>

User ==
    /\ Running
    /\ Deliver
    /\ UNCHANGED <<pc, blockNum, interrupt, batchSize, committedTo, printed, rewarded>>

Next == Main \/ Forwarder \/ User

Spec == Init /\ [][Next]_vars

-----------------------------------------------------------------------------
TypeOK ==
    /\ SigTypeOK
    /\ pc \in {"setup", "loop", "done", "panicked"}
    /\ blockNum \in StartBlock..MaxBlock + 1
    /\ interrupt \in BOOLEAN
    /\ batchSize \in Nat
    /\ committedTo \in StartBlock..blockNum
    /\ printed \in 0..MaxBlock + 1
    /\ rewarded.credit \in [Coinbases -> Nat]

(***************************************************************************)
(* For every block repair() executes, whatever its miner and uncles, on    *)
(* both sides of the Byzantium fork, what accumulateRewards credits each   *)
(* account is exactly the yellow paper's reward: no rounding, no bonus     *)
(* computed from the wrong amount.                                         *)
(***************************************************************************)
RewardsMatchYellowPaper ==
    rewarded # NoReward =>
        \A c \in Coinbases :
            256 * rewarded.credit[c] = Reference256(rewarded.header, rewarded.uncles, c)

=============================================================================
