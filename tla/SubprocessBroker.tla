---------------------------- MODULE SubprocessBroker ----------------------------
(***************************************************************************)
(* NodeSubprocessBroker.exec of @adze/core: one promise, settled by the    *)
(* first of the error, exit (when killed) and close events, against a      *)
(* timer and an abort listener that both kill the process.                 *)
(***************************************************************************)
EXTENDS ChildProcess

VARIABLES
  timer,      (* "armed", "fired" or "cleared".                           *)
  listening,  (* The abort listener is installed.                         *)
  timedOut, cancelled,
  out,        (* Chunks appended to stdout and stderr.                    *)
  capped,     (* outputCapped.                                            *)
  outcome,    (* What exec resolved to: "none" while it is pending.       *)
  hit,        (* History variable: a kill found the process alive.        *)
  crashed     (* An uncaught stream error ended the engine's process.     *)

flags  == <<timedOut, cancelled, hit>>
output == <<out, capped>>
vars   == <<world, timer, listening, flags, output, outcome, crashed>>

Init ==
  /\ WorldInit
  /\ child \in {"unspawned", "alive"}
  /\ timer = "armed"
  /\ listening = TRUE
  /\ timedOut = FALSE /\ cancelled = FALSE /\ hit = FALSE
  /\ out = 0 /\ capped = FALSE
  /\ outcome = "none" /\ crashed = FALSE

(* append: past the cap a chunk is dropped and the outcome says so.         *)
Data ==
  /\ DataReady
  /\ unread' = unread - 1
  /\ IF out >= Cap THEN capped' = TRUE /\ UNCHANGED out
                   ELSE out' = out + 1 /\ UNCHANGED capped
  /\ UNCHANGED <<child, holder, written, fed, aborted, exited, closed, released,
                 timer, listening, flags, outcome, crashed>>

KillAndNote == Kill /\ hit' = (hit \/ child = "alive")

TimerFires ==
  /\ timer = "armed"
  /\ timer' = "fired" /\ timedOut' = TRUE
  /\ KillAndNote
  /\ UNCHANGED <<holder, written, unread, fed, aborted, exited, closed, released,
                 listening, cancelled, output, outcome, crashed>>

(* The turn is cancelled; a listener installed before runs at once.         *)
Abort ==
  /\ ~aborted
  /\ aborted' = TRUE
  /\ IF listening
       THEN cancelled' = TRUE /\ listening' = FALSE /\ KillAndNote
       ELSE UNCHANGED <<cancelled, listening, child, hit>>
  /\ UNCHANGED <<holder, written, unread, fed, exited, closed, released,
                 timer, timedOut, output, outcome, crashed>>

(* settle: the first outcome wins and takes the timer and the listener down. *)
Settle(kind) ==
  IF outcome = "none"
    THEN /\ outcome' = kind
         /\ timer' = IF timer = "armed" THEN "cleared" ELSE timer
         /\ listening' = FALSE
    ELSE UNCHANGED <<outcome, timer, listening>>

ErrorEvent ==
  /\ ErrorReady
  /\ exited' = TRUE
  /\ Settle("spawn-failed")
  /\ UNCHANGED <<process, aborted, closed, released, flags, output, crashed>>

(* Slip of ExitEvent: every exit settles, killed or not. *)
ExitEventAlways ==
  /\ ExitReady
  /\ exited' = TRUE
  /\ Settle("completed") /\ released' = TRUE
  /\ UNCHANGED <<process, aborted, closed, flags, output, crashed>>

(* Only a killed command settles on exit, and its pipes are let go.         *)
ExitEvent ==
  /\ ExitReady
  /\ exited' = TRUE
  /\ IF timedOut \/ cancelled
       THEN Settle("completed") /\ released' = TRUE
       ELSE UNCHANGED <<outcome, timer, listening, released>>
  /\ UNCHANGED <<process, aborted, closed, flags, output, crashed>>

CloseEvent ==
  /\ CloseReady
  /\ closed' = TRUE
  /\ Settle("completed")
  /\ UNCHANGED <<process, aborted, exited, released, flags, output, crashed>>

(* child.stdin has no error listener.                                       *)
InputError ==
  /\ InputBroken
  /\ crashed' = TRUE
  /\ fed' = TRUE
  /\ UNCHANGED <<child, holder, written, unread, aborted, exited, closed, released,
                 timer, listening, flags, output, outcome>>

Command ==
  /\ Writes \/ TakesInput \/ Forks \/ Exits \/ HolderExits
  /\ UNCHANGED <<aborted, exited, closed, released, timer, listening, flags, output,
                 outcome, crashed>>

Events == Data \/ ErrorEvent \/ ExitEvent \/ CloseEvent

Next == ~crashed /\ (Command \/ Abort \/ TimerFires \/ Events \/ InputError)

Spec == Init /\ [][Next]_vars

(* Node delivers its events; nothing makes a command or a descendant end.   *)
FairSpec == Spec /\ WF_vars(~crashed /\ Events)

(* The timer is due as well.                                                *)
TimedSpec == FairSpec /\ WF_vars(~crashed /\ TimerFires)

-----------------------------------------------------------------------------
(* Properties.                                                             *)

(* The types of the broker's locals, on top of the process's.              *)
TypeOK ==
  /\ WorldOK
  /\ timer \in {"armed", "fired", "cleared"}
  /\ outcome \in {"none", "completed", "spawn-failed"}
  /\ out \in 0 .. Cap
  /\ {listening, timedOut, cancelled, capped, hit, crashed} \subseteq BOOLEAN

(* A command that ended on its own is reported with everything it and its  *)
(* descendant wrote, up to the cap, and says so when the cap cut it.       *)
OutputIsComplete ==
  outcome = "completed" /\ ~(timedOut \/ cancelled) =>
    /\ out = IF written < Cap THEN written ELSE Cap
    /\ capped <=> written > Cap

(* An outcome is final and nothing it started is left armed: no timer can  *)
(* kill, no listener can cancel, after the promise settled.                *)
StaysSettled == outcome # "none" => outcome' = outcome /\ UNCHANGED <<timer, listening, flags>>
SettledIsQuiet == [][StaysSettled]_vars

(* A kill that found the process alive settles the command, whatever a     *)
(* descendant does with the pipes.                                         *)
KillReturns == hit ~> outcome # "none" \/ crashed

(* With no descendant and no earlier cancel, a cancel settles the command. *)
CancelReturns == aborted ~> outcome # "none"

-----------------------------------------------------------------------------
(* Promises of the documentation the code does not keep; see README.md.    *)

(* broker.ts: "a timeout and a cancellation both return promptly".         *)
TimeoutReturns == timer = "fired" ~> outcome # "none"

(* sandbox's exec.ts: an unread stdin must fail one command, not the engine. *)
EngineSurvives == ~crashed

-----------------------------------------------------------------------------
(* The inductive invariant, proved in Processes_proofs.                     *)

(* What was read of a pipe nobody let go of is kept up to the cap; only a   *)
(* command that was killed is let go of, and only one that has ended, its   *)
(* descendant with it, is closed.                                           *)
Taken == written - unread
Accounted ==
  ~released => /\ out = IF Taken < Cap THEN Taken ELSE Cap
               /\ capped <=> Taken > Cap
Ended ==
  /\ released => timedOut \/ cancelled
  /\ exited => child # "alive"
  /\ closed => exited /\ ~holder /\ (unread = 0 \/ released)
  /\ outcome = "completed" => closed \/ timedOut \/ cancelled
Disarmed == outcome # "none" => timer # "armed" /\ ~listening

BInv == TypeOK /\ Accounted /\ Ended /\ Disarmed

=============================================================================
