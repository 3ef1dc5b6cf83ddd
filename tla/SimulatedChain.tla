--------------------------- MODULE SimulatedChain ---------------------------
(***************************************************************************)
(* SimulatedBackend with a SubscribeFilterLogs subscription open on it:    *)
(* the backend's operations, the event system's broadcast of the logs that *)
(* Commit emitted, the subscription's flattening goroutine and its         *)
(* consumer interleave.  The backend's operations hold b.mu; the           *)
(* subscription's goroutine and the event system do not take it.           *)
(***************************************************************************)
EXTENDS SimulatedBackend, LogSubscription

chainVars == <<vars, subVars>>

ChainInit == Init /\ SubInit

ChainNext ==
    \/ Next /\ UNCHANGED subVars
    \/ SubNext(logsEmitted) /\ UNCHANGED vars

(***************************************************************************)
(* The flattening goroutine is scheduled fairly, and so is the event       *)
(* system's loop that drains the goroutine's uninstall.  The backend's     *)
(* callers, the consumer and the event system's producers are under no     *)
(* obligation.                                                             *)
(***************************************************************************)
ChainSpec ==
    /\ ChainInit /\ [][ChainNext]_chainVars
    /\ WF_chainVars(Return /\ UNCHANGED vars)
    /\ WF_chainVars(Drain /\ UNCHANGED vars)

=============================================================================
