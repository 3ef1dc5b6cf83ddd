--------------------------- MODULE LogSubscription ---------------------------
(***************************************************************************)
(* SimulatedBackend.SubscribeFilterLogs: the event system sends batches of *)
(* logs on sink (unbuffered); a goroutine started by event.NewSubscription *)
(* flattens them onto the caller's channel ch, one log at a time, and     *)
(* stops on quit (closed by Unsubscribe) or on an error from sub.Err().    *)
(* On return it unsubscribes from the event system, whose uninstall drains *)
(* a batch still being offered.  Unsubscribe closes quit and then waits    *)
(* for the goroutine to return.                                            *)
(*                                                                         *)
(* SimulatedChain composes it with SimulatedBackend, whose Commit emits    *)
(* the logs the event system can offer.                                    *)
(*                                                                         *)
(* Logs are numbered in the order the event system produces them.  ch is  *)
(* unbuffered, read by one consumer goroutine, which is the one that calls *)
(* Unsubscribe and so reads nothing after it.                              *)
(*                                                                         *)
(*   produced   every log the event system has offered, in order           *)
(*   pending    the batch it is blocked sending on sink, << >> if none     *)
(*   cur        the rest of the batch the flattener is sending             *)
(*   fpc        the flattener: "outer" select, "inner" select, "done"      *)
(*   delivered  the logs the consumer received from ch                     *)
(*   quit       Unsubscribe was called                                     *)
(*   subErr     sub.Err() has an error ready                               *)
(***************************************************************************)
EXTENDS Naturals, Sequences

CONSTANT BatchSizes   \* how many logs one batch may hold

ASSUME SubscriptionConstantsAssumption == BatchSizes \subseteq Nat \ {0}

VARIABLES produced, pending, cur, fpc, delivered, quit, subErr

subVars == <<produced, pending, cur, fpc, delivered, quit, subErr>>

(* SubscribeLogs succeeded and the flattening goroutine is at its select. *)
SubInit ==
    /\ produced = << >>
    /\ pending = << >>
    /\ cur = << >>
    /\ fpc = "outer"
    /\ delivered = << >>
    /\ quit = FALSE
    /\ subErr = FALSE

-----------------------------------------------------------------------------
(* The event system: a batch of the next k of the emitted logs is offered on sink. *)
Produce(k, emitted) ==
    /\ pending = << >>
    /\ fpc # "done"
    /\ Len(produced) + k <= emitted
    /\ LET batch == [i \in 1..k |-> Len(produced) + i]
       IN  /\ pending' = batch
           /\ produced' = produced \o batch
    /\ UNCHANGED <<cur, fpc, delivered, quit, subErr>>

(* The subscription fails (the event system shuts it down). *)
SubFails ==
    /\ ~subErr
    /\ fpc # "done"
    /\ subErr' = TRUE
    /\ UNCHANGED <<produced, pending, cur, fpc, delivered, quit>>

(* The goroutine's deferred sub.Unsubscribe: the uninstall drains the send. *)
Drain ==
    /\ fpc = "done"
    /\ pending # << >>
    /\ pending' = << >>
    /\ UNCHANGED <<produced, cur, fpc, delivered, quit, subErr>>

-----------------------------------------------------------------------------
(***************************************************************************)
(* The flattener.  A select with several ready cases takes any of them.    *)
(***************************************************************************)
(***************************************************************************)
(* case logs := <-sink: the for loop over the logs starts.  The event      *)
(* system only sends batches that matched at least one log.                *)
(***************************************************************************)
RecvBatch ==
    /\ fpc = "outer"
    /\ pending # << >>
    /\ cur' = pending
    /\ pending' = << >>
    /\ fpc' = "inner"
    /\ UNCHANGED <<produced, delivered, quit, subErr>>

(***************************************************************************)
(* case ch <- *log: the consumer takes the next log.  The consumer does    *)
(* not read after it called Unsubscribe.                                   *)
(***************************************************************************)
\* Mutant: after the first log, the rest of the batch is skipped.
SendLogDropRest ==
    /\ fpc = "inner"
    /\ ~quit
    /\ delivered' = Append(delivered, Head(cur))
    /\ cur' = << >>
    /\ fpc' = "outer"
    /\ UNCHANGED <<produced, pending, quit, subErr>>

SendLog ==
    /\ fpc = "inner"
    /\ ~quit
    /\ delivered' = Append(delivered, Head(cur))
    /\ cur' = Tail(cur)
    /\ fpc' = IF Tail(cur) = << >> THEN "outer" ELSE "inner"
    /\ UNCHANGED <<produced, pending, quit, subErr>>

(***************************************************************************)
(* case err := <-sub.Err(): return err, and case <-quit: return nil, in    *)
(* the inner select and in the outer one.                                  *)
(***************************************************************************)
\* Mutant: the inner select has no quit case.
ReturnNoInnerQuit ==
    /\ \/ fpc = "outer" /\ (subErr \/ quit)
       \/ fpc = "inner" /\ subErr
    /\ fpc' = "done"
    /\ UNCHANGED <<produced, pending, cur, delivered, quit, subErr>>

Return ==
    /\ fpc \in {"outer", "inner"}
    /\ subErr \/ quit
    /\ fpc' = "done"
    /\ UNCHANGED <<produced, pending, cur, delivered, quit, subErr>>

(* The consumer calls Unsubscribe: quit is closed. *)
Unsubscribe ==
    /\ ~quit
    /\ quit' = TRUE
    /\ UNCHANGED <<produced, pending, cur, fpc, delivered, subErr>>

SubNext(emitted) ==
    \/ \E k \in BatchSizes : Produce(k, emitted)
    \/ SubFails
    \/ Drain
    \/ RecvBatch
    \/ SendLog
    \/ Return
    \/ Unsubscribe

-----------------------------------------------------------------------------
(***************************************************************************)
(* The consumer gets the logs in the order the event system produced them, *)
(* none twice and none skipped: what it received, followed by the rest of  *)
(* the batch in hand and the batch being offered, is exactly what was      *)
(* produced, as long as the flattener runs.                                *)
(***************************************************************************)
StreamIsFlattening ==
    fpc # "done" => delivered \o cur \o pending = produced

(***************************************************************************)
(* Unsubscribe returns: once quit is closed, the flattening goroutine      *)
(* returns, whether it waits for a batch or is blocked sending a log to a  *)
(* consumer that will not read again, and the event system is released.   *)
(***************************************************************************)
UnsubscribeReturns ==
    quit ~> (fpc = "done" /\ pending = << >>)

=============================================================================
