--------------------------- MODULE SignalForward ---------------------------
(***************************************************************************)
(* The interrupt plumbing that hack's repair() and the tester's main share: *)
(*                                                                         *)
(*   sigs := make(chan os.Signal, 1)                                       *)
(*   interruptCh := make(chan bool, 1)                                     *)
(*   signal.Notify(sigs, syscall.SIGINT, syscall.SIGTERM)                  *)
(*   go func() { <-sigs; interruptCh <- true }()                           *)
(*                                                                         *)
(* The os/signal package hands a signal to the channel with a send that   *)
(* never blocks: when the buffer is full (or, unbuffered, no receiver is  *)
(* waiting) the signal is dropped.  Before Notify, SIGINT and SIGTERM      *)
(* keep their default action and end the process.                        *)
(*                                                                         *)
(*   sigsCap      the capacity sigs was made with                          *)
(*   sigs         the signals buffered in sigs                             *)
(*   interruptCh  the values buffered in interruptCh                       *)
(*   fwd          the forwarding goroutine: "none" (no go statement yet),  *)
(*                "start" (created, not yet running), "recv" (at <-sigs),  *)
(*                "send" (at interruptCh <- true), "done"                  *)
(*   notified     signal.Notify has run                                    *)
(*   signals      the signals the OS has sent so far                       *)
(*   killed       a signal arrived before Notify and ended the process     *)
(***************************************************************************)
EXTENDS Naturals

CONSTANTS MaxSignals  \* how many SIGINT/SIGTERM the user sends at most

ASSUME SignalConstantsAssumption == MaxSignals \in Nat

VARIABLES sigsCap, sigs, interruptCh, fwd, notified, signals, killed

svars == <<sigsCap, sigs, interruptCh, fwd, notified, signals, killed>>

SigInit ==
    /\ sigsCap = 0
    /\ sigs = 0
    /\ interruptCh = 0
    /\ fwd = "none"
    /\ notified = FALSE
    /\ signals = 0
    /\ killed = FALSE

(***************************************************************************)
(* The four lines above, run by the main goroutine in one go: make the two *)
(* channels, Notify, start the forwarder.                                  *)
(***************************************************************************)
\* Mutant: sigs is made unbuffered.
NotifyUnbuffered ==
    /\ ~notified
    /\ sigsCap' = 0
    /\ notified' = TRUE
    /\ fwd' = "start"
    /\ UNCHANGED <<sigs, interruptCh, signals, killed>>

Notify ==
    /\ ~notified
    /\ sigsCap' = 1
    /\ notified' = TRUE
    /\ fwd' = "start"
    /\ UNCHANGED <<sigs, interruptCh, signals, killed>>

(***************************************************************************)
(* The user sends SIGINT or SIGTERM.  Before Notify it kills the process.  *)
(* After, it is buffered if there is room; with no buffer it is handed to  *)
(* a forwarder waiting at <-sigs; otherwise it is dropped.                 *)
(***************************************************************************)
Deliver ==
    /\ signals < MaxSignals
    /\ ~killed
    /\ signals' = signals + 1
    /\ \/ /\ ~notified
          /\ killed' = TRUE
          /\ UNCHANGED <<sigs, fwd>>
       \/ /\ notified /\ sigs < sigsCap
          /\ sigs' = sigs + 1
          /\ UNCHANGED <<fwd, killed>>
       \/ /\ notified /\ sigs = sigsCap /\ sigsCap = 0 /\ fwd = "recv"
          /\ fwd' = "send"
          /\ UNCHANGED <<sigs, killed>>
       \/ /\ notified /\ sigs = sigsCap /\ ~(sigsCap = 0 /\ fwd = "recv")
          /\ UNCHANGED <<sigs, fwd, killed>>
    /\ UNCHANGED <<sigsCap, interruptCh, notified>>

(* The forwarder is scheduled and reaches <-sigs. *)
GoStart ==
    /\ ~killed
    /\ fwd = "start"
    /\ fwd' = "recv"
    /\ UNCHANGED <<sigsCap, sigs, interruptCh, notified, signals, killed>>

(* The forwarder's <-sigs. *)
Recv ==
    /\ ~killed
    /\ fwd = "recv"
    /\ sigs > 0
    /\ sigs' = sigs - 1
    /\ fwd' = "send"
    /\ UNCHANGED <<sigsCap, interruptCh, notified, signals, killed>>

(* The forwarder's interruptCh <- true (the buffer of one is always free). *)
Forward ==
    /\ ~killed
    /\ fwd = "send"
    /\ interruptCh < 1
    /\ interruptCh' = interruptCh + 1
    /\ fwd' = "done"
    /\ UNCHANGED <<sigsCap, sigs, notified, signals, killed>>

SigTypeOK ==
    /\ sigsCap \in {0, 1}
    /\ sigs \in 0..1
    /\ interruptCh \in 0..1
    /\ fwd \in {"none", "start", "recv", "send", "done"}
    /\ notified \in BOOLEAN
    /\ signals \in 0..MaxSignals
    /\ killed \in BOOLEAN

=============================================================================
