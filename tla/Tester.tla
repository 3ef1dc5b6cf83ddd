------------------------------- MODULE Tester -------------------------------
(***************************************************************************)
(* cmd/tester's tester(ctx): set up the block and fork generators and a p2p *)
(* server that runs the tester protocol, connect to the given node, then   *)
(* wait for SIGINT or SIGTERM through SignalForward's plumbing.            *)
(*                                                                         *)
(* Each setup call either succeeds or fails; a failure returns an error or *)
(* panics, as the code does after it.  The p2p server, the protocol runs   *)
(* and the generators' contents are outside the model: what is kept is the *)
(* order of the calls, which resources exist, the deferred Close calls and *)
(* the interplay of the main goroutine, the forwarder and the user.        *)
(*                                                                         *)
(*   pc        the main goroutine's place                                  *)
(*   opened    the resources created                                       *)
(*   deferred  the deferred Close calls, last deferred first, each with    *)
(*             whether its receiver is nil                                 *)
(*   closed    the resources whose Close ran (nil receivers included)      *)
(*   failed    tester() returned an error: main prints it and exits with 1 *)
(* app.Run defers app.After (debug.Exit, closing the console's stdin)      *)
(* before it calls app.Before (debug.Setup), so After runs on every way    *)
(* out, a panic included; it is the "stdin" entry of closed.              *)
(***************************************************************************)
EXTENDS SignalForward, Sequences

Resources == {"gen100", "blockGen", "forkGen", "server"}

VARIABLES pc, opened, deferred, closed, failed, exitTo

vars == <<pc, opened, deferred, closed, failed, exitTo, svars>>

Init ==
    /\ SigInit
    /\ pc = "before"
    /\ opened = {}
    /\ deferred = << >>
    /\ closed = {}
    /\ failed = FALSE
    /\ exitTo = "returned"

(***************************************************************************)
(* tester() ends (to is "returned" or "panicked"): its deferred calls run  *)
(* one by one, last deferred first, then app.After.                        *)
(***************************************************************************)
Leave(to) ==
    /\ pc' = "deferred"
    /\ exitTo' = to
    /\ UNCHANGED closed

RunDeferred ==
    /\ pc = "deferred"
    /\ deferred # << >>
    /\ closed' = closed \cup {Head(deferred).res}
    /\ deferred' = Tail(deferred)
    /\ UNCHANGED <<pc, opened, failed, exitTo, svars>>

After ==
    /\ pc = "deferred"
    /\ deferred = << >>
    /\ closed' = closed \cup {"stdin"}
    /\ pc' = exitTo
    /\ UNCHANGED <<opened, deferred, failed, exitTo, svars>>

(* app.Before: GOMAXPROCS, then debug.Setup; its error ends app.Run. *)
Before(ok) ==
    /\ pc = "before"
    /\ \/ ok /\ pc' = "args" /\ UNCHANGED <<closed, failed, exitTo>>
       \/ ~ok /\ Leave("returned") /\ failed' = TRUE
    /\ UNCHANGED <<opened, deferred, svars>>

(* len(ctx.Args()) < 1 prints the usage and returns; enode.ParseV4 panics on a bad URL. *)
ParseArgs(hasArg, parseOk) ==
    /\ pc = "args"
    /\ \/ ~hasArg /\ Leave("returned")
       \/ hasArg /\ ~parseOk /\ Leave("panicked")
       \/ hasArg /\ parseOk /\ pc' = "gen100" /\ UNCHANGED <<closed, exitTo>>
    /\ UNCHANGED <<opened, deferred, failed, svars>>

(* _, err = NewBlockGenerator("emptyblocks", 100): the generator is dropped. *)
FirstGenerator(ok) ==
    /\ pc = "gen100"
    /\ \/ ~ok /\ Leave("returned") /\ failed' = TRUE /\ UNCHANGED opened
       \/ ok /\ opened' = opened \cup {"gen100"} /\ pc' = "blockGen" /\ UNCHANGED <<closed, failed, exitTo>>
    /\ UNCHANGED <<deferred, svars>>

(***************************************************************************)
(* blockGen, err := NewBlockGenerator(...); defer blockGen.Close(); then   *)
(* if err != nil panic.  The same for NewForkGenerator and forkFeeder.     *)
(***************************************************************************)
Generator(res, next, ok) ==
    /\ deferred' = <<[res |-> res, isNil |-> ~ok]>> \o deferred
    /\ \/ ~ok /\ pc' = "panicking" /\ UNCHANGED opened
       \/ ok /\ opened' = opened \cup {res} /\ pc' = next
    /\ UNCHANGED <<closed, failed, exitTo, svars>>

BlockGenerator(ok) == pc = "blockGen" /\ Generator("blockGen", "forkGen", ok)

ForkGenerator(ok) == pc = "forkGen" /\ Generator("forkGen", "server", ok)

(* crypto.GenerateKey, then server.Start: a failure of either panics; then AddPeer. *)
StartServer(ok) ==
    /\ pc = "server"
    /\ \/ ~ok /\ pc' = "panicking" /\ UNCHANGED opened
       \/ ok /\ opened' = opened \cup {"server"} /\ pc' = "notify"
    /\ UNCHANGED <<deferred, closed, failed, exitTo, svars>>

(* A panic unwinds through the deferred calls and ends the process. *)
Unwind ==
    /\ pc = "panicking"
    /\ Leave("panicked")
    /\ UNCHANGED <<opened, deferred, failed, svars>>

(* The signal plumbing is set up and main blocks at <-interruptCh. *)
SetupSignals ==
    /\ pc = "notify"
    /\ ~killed
    /\ Notify
    /\ pc' = "wait"
    /\ UNCHANGED <<opened, deferred, closed, failed, exitTo>>

(* _ = <-interruptCh; return nil. *)
Interrupted ==
    /\ pc = "wait"
    /\ ~killed
    /\ interruptCh > 0
    /\ interruptCh' = interruptCh - 1
    /\ Leave("returned")
    /\ UNCHANGED <<opened, deferred, failed, sigsCap, sigs, fwd, notified, signals, killed>>

Main ==
    /\ ~killed
    /\ \/ \E ok \in BOOLEAN : Before(ok)
       \/ \E hasArg, parseOk \in BOOLEAN : ParseArgs(hasArg, parseOk)
       \/ \E ok \in BOOLEAN : FirstGenerator(ok) \/ BlockGenerator(ok) \/ ForkGenerator(ok)
                              \/ StartServer(ok)
       \/ Unwind
       \/ RunDeferred
       \/ After
       \/ SetupSignals
       \/ Interrupted

(* The process ends with tester(): the forwarder and the signals go with it. *)
Running == pc \notin {"returned", "panicked"}

Forwarder == Running /\ (GoStart \/ Recv \/ Forward) /\ UNCHANGED <<pc, opened, deferred, closed, failed, exitTo>>

User == Running /\ Deliver /\ UNCHANGED <<pc, opened, deferred, closed, failed, exitTo>>

Next ==
    \/ Main
    \/ Forwarder
    \/ User

(***************************************************************************)
(* The Go scheduler runs every runnable goroutine, and the main goroutine  *)
(* keeps running while it has work: both are weakly fair.  The user is not *)
(* obliged to send anything.                                               *)
(***************************************************************************)
Spec == Init /\ [][Next]_vars /\ WF_vars(Main) /\ WF_vars(Forwarder)

-----------------------------------------------------------------------------
TypeOK ==
    /\ SigTypeOK
    /\ pc \in {"before", "args", "gen100", "blockGen", "forkGen", "server", "notify", "wait",
               "panicking", "deferred", "panicked", "returned"}
    /\ opened \subseteq Resources
    /\ deferred \in Seq([res : Resources, isNil : BOOLEAN])
    /\ closed \subseteq Resources \cup {"stdin"}
    /\ failed \in BOOLEAN
    /\ exitTo \in {"returned", "panicked"}

(***************************************************************************)
(* A signal the user sends ends the tester: the process either returns     *)
(* from tester() (after Notify), or is killed by the signal's default      *)
(* action (before), or has already ended.  Three goroutines take part: the *)
(* user, the forwarder and main; a signal lost on the way leaves main      *)
(* blocked at <-interruptCh for good.                                      *)
(***************************************************************************)
SignalEndsTester ==
    (signals > 0) ~> (killed \/ pc \in {"returned", "panicked"})

=============================================================================
