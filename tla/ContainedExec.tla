----------------------------- MODULE ContainedExec -----------------------------
(***************************************************************************)
(* runContained of @adze/sandbox: the same command as SubprocessBroker     *)
(* runs, but the command leads a process group, teardown kills the group,  *)
(* and a grace timer settles the promise when close never arrives.         *)
(***************************************************************************)
EXTENDS ChildProcess

VARIABLES
  timer,      (* "armed", "fired" or "cleared".                           *)
  graces,     (* Grace timers armed; only the last one's handle is kept.  *)
  listening,  (* The abort listener is installed.                         *)
  timedOut, cancelled,
  out, capped,
  outcome     (* What runContained resolved to: "none" while pending.     *)

flags  == <<timedOut, cancelled>>
output == <<out, capped>>
vars   == <<world, timer, graces, listening, flags, output, outcome>>

(* A signal that is already aborted tears the command down at once.         *)
Init ==
  /\ WorldInit
  /\ child \in {"unspawned", IF aborted THEN "gone" ELSE "alive"}
  /\ timer = "armed" /\ graces = (IF aborted THEN 1 ELSE 0)
  /\ cancelled = aborted /\ listening = ~aborted
  /\ timedOut = FALSE /\ out = 0 /\ capped = FALSE /\ outcome = "none"

(* Slip of TearDown: the group is killed and close is relied on. *)
TearDownWithoutGrace ==
  /\ Kill
  /\ holder' \in {FALSE, holder}
  /\ UNCHANGED graces

(* The process, then its group, best effort; then the grace period.         *)
TearDown ==
  /\ Kill
  /\ holder' \in {FALSE, holder}
  /\ graces' = graces + 1

(* append, as in the other broker.                                         *)
Data ==
  /\ DataReady
  /\ unread' = unread - 1
  /\ IF out >= Cap THEN capped' = TRUE /\ UNCHANGED out
                   ELSE out' = out + 1 /\ UNCHANGED capped
  /\ UNCHANGED <<child, holder, written, fed, aborted, exited, closed, released,
                 timer, graces, listening, flags, outcome>>

TimerFires ==
  /\ timer = "armed"
  /\ timer' = "fired" /\ timedOut' = TRUE
  /\ TearDown
  /\ UNCHANGED <<written, unread, fed, aborted, exited, closed, released,
                 listening, cancelled, output, outcome>>

Abort ==
  /\ ~aborted
  /\ aborted' = TRUE
  /\ IF listening
       THEN cancelled' = TRUE /\ listening' = FALSE /\ TearDown
       ELSE UNCHANGED <<cancelled, listening, child, holder, graces>>
  /\ UNCHANGED <<written, unread, fed, exited, closed, released, timer, timedOut,
                 output, outcome>>

(* Slip of Finish: the timer and the listener stay. *)
FinishUnclean(kind, left) ==
  /\ outcome' = IF outcome = "none" THEN kind ELSE outcome
  /\ graces' = left
  /\ UNCHANGED <<timer, listening>>

(* finish, with `left' grace timers still armed: the first outcome wins and *)
(* clears the timer, the listener and the grace timer it has a handle of.   *)
Finish(kind, left) ==
  IF outcome = "none"
    THEN /\ outcome' = kind
         /\ timer' = IF timer = "armed" THEN "cleared" ELSE timer
         /\ listening' = FALSE
         /\ graces' = IF left > 0 THEN left - 1 ELSE 0
    ELSE graces' = left /\ UNCHANGED <<outcome, timer, listening>>

ErrorEvent ==
  /\ ErrorReady
  /\ exited' = TRUE
  /\ Finish("spawn-failed", graces)
  /\ UNCHANGED <<process, aborted, closed, released, flags, output>>

(* Nobody listens to exit.                                                  *)
ExitEvent ==
  /\ ExitReady
  /\ exited' = TRUE
  /\ UNCHANGED <<process, aborted, closed, released, timer, graces, listening, flags,
                 output, outcome>>

CloseEvent ==
  /\ CloseReady
  /\ closed' = TRUE
  /\ Finish("completed", graces)
  /\ UNCHANGED <<process, aborted, exited, released, flags, output>>

GraceFires ==
  /\ graces > 0
  /\ Finish("completed", graces - 1)
  /\ UNCHANGED <<process, aborted, exited, closed, released, flags, output>>

(* An EPIPE on stdin is swallowed by a listener of its own.                 *)
InputError ==
  /\ InputBroken
  /\ fed' = TRUE
  /\ UNCHANGED <<child, holder, written, unread, aborted, exited, closed, released,
                 timer, graces, listening, flags, output, outcome>>

Command ==
  /\ Writes \/ TakesInput \/ Forks \/ Exits \/ HolderExits
  /\ UNCHANGED <<aborted, exited, closed, released, timer, graces, listening, flags,
                 output, outcome>>

Events == Data \/ ErrorEvent \/ ExitEvent \/ CloseEvent \/ InputError

Next == Command \/ Abort \/ TimerFires \/ GraceFires \/ Events

Spec == Init /\ [][Next]_vars

(* Events are delivered and a grace period ends.                            *)
FairSpec == Spec /\ WF_vars(Events) /\ WF_vars(GraceFires)

-----------------------------------------------------------------------------
(* Properties.                                                             *)

(* The types of runContained's locals, on top of the process's.            *)
TypeOK ==
  /\ WorldOK
  /\ timer \in {"armed", "fired", "cleared"}
  /\ graces \in 0 .. 2
  /\ outcome \in {"none", "completed", "spawn-failed"}
  /\ out \in 0 .. Cap
  /\ {listening, timedOut, cancelled, capped} \subseteq BOOLEAN

(* A command that was not torn down is reported with everything it and its *)
(* descendants wrote, up to the cap, and says so when the cap cut it.       *)
OutputIsComplete ==
  outcome = "completed" /\ ~(timedOut \/ cancelled) =>
    /\ out = IF written < Cap THEN written ELSE Cap
    /\ capped <=> written > Cap

(* An outcome is final: no timer kills and no cancel is noted after it.     *)
StaysSettled == outcome # "none" => outcome' = outcome /\ UNCHANGED <<timer, listening, flags>>
SettledIsQuiet == [][StaysSettled]_vars

(* Whatever escapes the group kill, a timeout and a cancel both return,    *)
(* the cancel of a command that had not even started included.             *)
TimeoutReturns == timer = "fired" ~> outcome # "none"
CancelReturns  == aborted ~> outcome # "none"

(* An outcome reached under an aborted signal says it was cancelled.       *)
SaysCancelled == outcome = "none" /\ outcome' = "completed" /\ aborted => cancelled
CancelIsReported == [][SaysCancelled]_vars

-----------------------------------------------------------------------------
(* The inductive invariant, proved in Processes_proofs.                     *)

(* The pipes are never let go of: what was read of them is kept up to the   *)
(* cap, and a command that is closed has ended, its descendant with it.     *)
Taken == written - unread
Accounted ==
  /\ out = IF Taken < Cap THEN Taken ELSE Cap
  /\ capped <=> Taken > Cap
Ended ==
  /\ ~released
  /\ exited => child # "alive"
  /\ closed => exited /\ ~holder /\ unread = 0
  /\ outcome = "completed" => closed \/ timedOut \/ cancelled

(* A grace timer was armed by the timer or by the listener, once each; and  *)
(* until there is an outcome the listener is there or has noted the cancel. *)
Graced ==
  /\ graces > 0 => timedOut \/ cancelled
  /\ graces > 1 => timedOut /\ cancelled
  /\ timedOut => timer # "armed"
  /\ cancelled => ~listening
Disarmed == outcome # "none" => timer # "armed" /\ ~listening
Noted == outcome = "none" => (aborted => cancelled) /\ (aborted \/ listening)

CInv == TypeOK /\ Accounted /\ Ended /\ Graced /\ Disarmed /\ Noted

=============================================================================
