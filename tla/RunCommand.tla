------------------------------ MODULE RunCommand ------------------------------
(***************************************************************************)
(* One `adze run` process (commands/run.ts): from the prompt to the exit   *)
(* code, with the approval channel that reads stdin (agent/approval.ts),   *)
(* Ctrl-C, the failures and their exit codes (agent/failure.ts), and the   *)
(* trajectory file written beside the session (sessions/store.ts).         *)
(*                                                                         *)
(* The engine's turn is the module TurnMachine; here it is what the        *)
(* command sees of it: events, requests for approval one at a time, and an *)
(* outcome or an error.                                                    *)
(***************************************************************************)
EXTENDS Naturals, Sequences, SequencesExt, FiniteSets

CONSTANTS
  Scripts,      (* What stdin holds until its end: sequences of answers.    *)
  StopReasons,  (* Of a turn that neither was cancelled nor aborted.        *)
  MaxEvents, MaxAsks,  (* Bounds of the turn.                               *)
  Torn,         (* A file that was opened and not written.                  *)
  None

RunAssumption ==
  /\ \A s \in Scripts : s \in Seq(STRING)
  /\ {"end-turn", "error"} \subseteq StopReasons
  /\ StopReasons \cap {"cancelled", "refused"} = {}
  /\ MaxEvents \in Nat \ {0} /\ MaxAsks \in Nat

VARIABLES
  phase,       (* "start", "agent", "session", "turn", "asking", "settled", *)
               (* "writing", "closing", "failed", "rescuing" or "exited".   *)
  script, policy, wanted,    (* stdin, the approval policy, the trajectory  *)
                             (* flag: the invocation.                       *)
  keyed,                     (* The provider accepts a request: it has its   *)
                             (* API key.                                    *)
  arrived, ended,            (* Lines readline has emitted; it has closed.  *)
  opened, buffered, waiting, (* The LineReader.                             *)
  askers,                    (* Whose request each was: the turn's or a     *)
                             (* subagent's; one channel serves both.        *)
  decisions,                 (* What the channel answered, in order.        *)
  events, marked,            (* The TrajectoryTracker.                      *)
  armed, pressed, cancelled, (* The SIGINT handler; the engine was told.    *)
  stop, error,               (* How the turn ended.                         *)
  file,                      (* The trajectory: None, Torn, or how many     *)
                             (* events it holds.                            *)
  storage,                   (* "works" or "full".                          *)
  exit                       (* The exit code; 130 when SIGINT ends it.     *)

reader   == <<arrived, ended, opened, buffered, waiting>>
given    == <<script, policy, wanted, keyed, storage>>
handler  == <<armed, pressed, cancelled>>
captured == <<events, marked>>
outcome  == <<stop, error>>
vars == <<phase, given, reader, askers, decisions, captured, handler, outcome, file, exit>>

Init ==
  /\ phase = "start"
  /\ script \in Scripts /\ policy \in {"on-request", "never"}
  /\ wanted \in BOOLEAN /\ keyed \in BOOLEAN /\ storage \in {"works", "full"}
  /\ arrived = 0 /\ ended = FALSE
  /\ opened = FALSE /\ buffered = <<>> /\ waiting = FALSE
  /\ askers = <<>> /\ decisions = <<>>
  /\ events = 0 /\ marked = FALSE
  /\ armed = FALSE /\ pressed = 0 /\ cancelled = FALSE
  /\ stop = None /\ error = None
  /\ file = None /\ exit = None

-----------------------------------------------------------------------------
(* Leaving.                                                                *)

(* renderFailure: what the invocation got wrong is a usage error.           *)
ExitFor(kind) == IF kind \in {"usage", "config", "provider"} THEN 2 ELSE 1

(* ApprovalChannel.close: the reader's, or the denying channel's, which     *)
(* has nothing to close.                                                    *)
CloseChannel ==
  /\ IF policy = "never" THEN UNCHANGED <<ended, opened, waiting, buffered>>
     ELSE /\ ended' = TRUE /\ opened' = FALSE
          /\ waiting' = FALSE /\ buffered' = <<>>
  /\ UNCHANGED arrived

Leave(code) == phase' = "exited" /\ exit' = code

(* An empty prompt, or a configuration that does not load: the channel does *)
(* not exist yet.                                                           *)
Refuse ==
  /\ phase = "start"
  /\ \E kind \in {"usage", "config"} : Leave(ExitFor(kind)) /\ error' = kind
  /\ UNCHANGED <<given, reader, askers, decisions, captured, handler, stop, file>>

LoadConfig ==
  /\ phase = "start"
  /\ phase' = "agent"
  /\ UNCHANGED <<given, reader, askers, decisions, captured, handler, outcome, file, exit>>

(* The rest runs in a try: an error is kept until the trajectory is.        *)
Fail(kind) == phase' = "failed" /\ error' = kind

(* buildAgent: no model to select, a provider that is not configured.  That *)
(* the provider has a key is not asked here.                                *)
BuildAgent ==
  /\ phase = "agent"
  /\ \/ phase' = "session" /\ UNCHANGED error
     \/ \E kind \in {"provider", "other"} : Fail(kind)
  /\ UNCHANGED <<given, reader, askers, decisions, captured, handler, stop, file, exit>>

(* sessionCreate, then submitAndAwait: the handler is on before the turn    *)
(* starts and armed when it has; no signal is served in between.            *)
SessionCreate ==
  /\ phase = "session"
  /\ \/ /\ marked' = TRUE /\ armed' = TRUE /\ phase' = "turn"
        /\ UNCHANGED error
     \/ Fail("other") /\ UNCHANGED <<marked, armed>>
  /\ UNCHANGED <<given, reader, askers, decisions, events, pressed, cancelled, stop,
                 file, exit>>

-----------------------------------------------------------------------------
(* The turn.                                                               *)

(* TrajectoryTracker.sink: one more event of the engine.                    *)
Captures == IF events < MaxEvents THEN events + 1 ELSE events

decisionFor(answer) ==
  CASE answer \in {"y", "yes"}           -> "allow-once"
    [] answer \in {"a", "all", "always"} -> "allow-session"
    [] answer \in {"q", "quit", "abort"} -> "abort"
    [] OTHER                             -> "deny"

(* Quitting ends the turn that asked: a subagent's is then a failed call of *)
(* its parent, which goes on.                                               *)
Over == \E k \in DOMAIN decisions : decisions[k] = "abort" /\ askers[k] = "turn"

TurnWorks ==
  /\ phase = "turn" /\ ~Over /\ ~cancelled
  /\ events < MaxEvents /\ events' = Captures
  /\ UNCHANGED <<phase, given, reader, askers, decisions, marked, handler, outcome,
                 file, exit>>

(* ApprovalChannel.request.  Under never the channel denies by itself;      *)
(* otherwise read opens stdin at its first call and takes the oldest line   *)
(* that nobody has read.                                                    *)
Request ==
  /\ phase = "turn" /\ keyed /\ ~Over /\ Len(decisions) < MaxAsks
  /\ events' = Captures
  /\ \E who \in {"turn", "subagent"} : askers' = Append(askers, who)
  /\ IF policy = "never"
     THEN /\ decisions' = Append(decisions, "deny")
          /\ UNCHANGED <<phase, reader>>
     ELSE
       /\ opened' = TRUE
       /\ IF buffered # <<>>
          THEN /\ decisions' = Append(decisions, decisionFor(Head(buffered)))
               /\ buffered' = Tail(buffered)
               /\ UNCHANGED <<phase, waiting>>
          ELSE IF ended
          THEN /\ decisions' = Append(decisions, "deny")
               /\ UNCHANGED <<phase, waiting, buffered>>
          ELSE /\ phase' = "asking" /\ waiting' = TRUE
               /\ UNCHANGED <<decisions, buffered>>
       /\ UNCHANGED <<arrived, ended>>
  /\ UNCHANGED <<given, marked, handler, outcome, file, exit>>

(* rl.question attached one listener, and lost what came after its line.    *)
askedOneByOne(lines) ==
  IF waiting
  THEN /\ decisions' = Append(decisions, decisionFor(Head(lines)))
       /\ waiting' = FALSE /\ phase' = "turn"
       /\ UNCHANGED buffered
  ELSE UNCHANGED <<buffered, decisions, waiting, phase>>

(* A chunk of stdin: a line event for each of its lines, at once.  The      *)
(* first goes to who waits, the others to the buffer.                       *)
Deliver(lines) ==
  IF waiting
  THEN /\ decisions' = Append(decisions, decisionFor(Head(lines)))
       /\ waiting' = FALSE /\ phase' = "turn"
       /\ buffered' = buffered \o Tail(lines)
  ELSE /\ buffered' = buffered \o lines
       /\ UNCHANGED <<decisions, waiting, phase>>

LinesArrive ==
  /\ opened /\ ~ended /\ arrived < Len(script)
  /\ \E n \in arrived + 1 .. Len(script) :
       /\ arrived' = n
       /\ Deliver(SubSeq(script, arrived + 1, n))
  /\ UNCHANGED <<given, ended, opened, askers, captured, handler, outcome, file, exit>>

(* Nobody may be left waiting when the stream ends.                         *)
settleAll ==
  /\ waiting' = FALSE
  /\ IF waiting
     THEN decisions' = Append(decisions, "deny") /\ phase' = "turn"
     ELSE UNCHANGED <<decisions, phase>>

InputEnds ==
  /\ opened /\ ~ended /\ arrived = Len(script)
  /\ ended' = TRUE
  /\ settleAll
  /\ UNCHANGED <<given, arrived, opened, buffered, askers, captured, handler, outcome,
                 file, exit>>

(* turn.completed is emitted before awaitTurn resumes the command, which    *)
(* takes the handler off.  Without a key the first request throws inside    *)
(* the step, which makes it the outcome of the turn.                        *)
TurnEnds ==
  /\ phase = "turn"
  /\ stop' \in IF Over THEN {"refused"}
               ELSE (IF keyed THEN StopReasons ELSE StopReasons \ {"end-turn"})
                      \cup (IF cancelled THEN {"cancelled"} ELSE {})
  /\ events' = Captures
  /\ armed' = FALSE
  /\ phase' = "settled"
  /\ UNCHANGED <<given, reader, askers, decisions, marked, pressed, cancelled, error,
                 file, exit>>

(* The turn's promise rejects: a ceiling that cannot be computed, or a sink *)
(* that throws.  What a request throws the step has caught.                 *)
TurnThrows ==
  /\ phase = "turn"
  /\ Fail("other")
  /\ armed' = FALSE
  /\ UNCHANGED <<given, reader, askers, decisions, captured, pressed, cancelled, stop,
                 file, exit>>

-----------------------------------------------------------------------------
(* After the turn.                                                         *)

(* writeTrajectoryFile: the file is truncated before it is filled.  A disk  *)
(* that is full is a warning, or nothing when the run has failed already.   *)
OpenTrajectory(next, after) ==
  IF wanted /\ storage = "works"
  THEN file' = Torn /\ phase' = next
  ELSE UNCHANGED file /\ phase' = after

PersistTrajectory ==
  /\ phase = "settled"
  /\ OpenTrajectory("writing", "closing")
  /\ UNCHANGED <<given, reader, askers, decisions, captured, handler, outcome, exit>>

FileWritten ==
  /\ phase = "writing"
  /\ file' = events /\ phase' = "closing"
  /\ UNCHANGED <<given, reader, askers, decisions, captured, handler, outcome, exit>>

(* The summary, sessionClose, and the exit code of the turn; approvals are  *)
(* closed by the finally.                                                   *)
ExitOfTurn == IF stop = "end-turn" THEN 0 ELSE 1

Finish ==
  /\ phase = "closing"
  /\ Leave(ExitOfTurn)
  /\ CloseChannel
  /\ UNCHANGED <<given, askers, decisions, captured, handler, outcome, file>>

(* persistFailedTrajectory: only of a session that has emitted something.   *)
RescueNeeded == marked /\ events > 0

Rescue ==
  /\ phase = "failed" /\ RescueNeeded /\ wanted /\ storage = "works"
  /\ file' = Torn /\ phase' = "rescuing"
  /\ UNCHANGED <<given, reader, askers, decisions, captured, handler, outcome, exit>>

RenderFailure ==
  /\ \/ phase = "rescuing" /\ file' = events
     \/ /\ phase = "failed" /\ ~(RescueNeeded /\ wanted /\ storage = "works")
        /\ UNCHANGED file
  /\ Leave(ExitFor(error))
  /\ CloseChannel
  /\ UNCHANGED <<given, askers, decisions, captured, handler, outcome>>

-----------------------------------------------------------------------------
(* Ctrl-C.  The handler cancels the turn at the first press and exits at    *)
(* the second; where no handler is on, the signal ends the process.         *)
FirstPress ==
  /\ armed /\ pressed = 0
  /\ pressed' = 1 /\ cancelled' = TRUE
  /\ UNCHANGED <<phase, given, reader, askers, decisions, captured, armed, outcome,
                 file, exit>>

SecondPress ==
  /\ armed /\ pressed = 1
  /\ pressed' = 2 /\ Leave(130)
  /\ UNCHANGED <<given, reader, askers, decisions, captured, armed, cancelled, outcome,
                 file>>

Killed ==
  /\ ~armed /\ phase # "exited"
  /\ Leave(130)
  /\ UNCHANGED <<given, reader, askers, decisions, captured, handler, outcome, file>>

TurnSteps == TurnWorks \/ Request \/ TurnEnds \/ TurnThrows
Process ==
  \/ Refuse \/ LoadConfig \/ BuildAgent \/ SessionCreate \/ TurnSteps
  \/ PersistTrajectory \/ FileWritten \/ Finish \/ Rescue \/ RenderFailure
Input   == phase # "exited" /\ (LinesArrive \/ InputEnds)
Signal  == phase # "exited" /\ (FirstPress \/ SecondPress \/ Killed)

Next == Process \/ Input \/ Signal

Fairness == WF_vars(Process) /\ WF_vars(Input)

(* The process runs, the turn comes to its end (TurnMachine), and stdin,   *)
(* while somebody reads it, brings its lines and ends.                      *)
Spec == Init /\ [][Next]_vars /\ Fairness

-----------------------------------------------------------------------------
TypeOK ==
  /\ phase \in {"start", "agent", "session", "turn", "asking", "settled", "writing",
                "closing", "failed", "rescuing", "exited"}
  /\ arrived \in 0..Len(script) /\ events \in 0..MaxEvents /\ pressed \in 0..2
  /\ {ended, opened, waiting, marked, armed, cancelled} \subseteq BOOLEAN
  /\ buffered \in Seq(STRING) /\ Range(askers) \subseteq {"turn", "subagent"}
  /\ Len(askers) = Len(decisions) + (IF waiting THEN 1 ELSE 0)
  /\ \A i \in DOMAIN decisions :
       decisions[i] \in {"allow-once", "allow-session", "abort", "deny"}
  /\ file \in {None, Torn} \/ file \in 0..MaxEvents

(* "Why lines are queued" (approval.ts:85-99): the k-th request is answered *)
(* by the k-th line of stdin however the lines were chunked, and denied     *)
(* only after the last line; nothing typed is lost, used twice or credited  *)
(* to another request.                                                      *)
EachLineItsRequest ==
  policy = "on-request" =>
    \A k \in DOMAIN decisions :
      IF k <= Len(script) THEN decisions[k] = decisionFor(script[k])
      ELSE decisions[k] = "deny"

(* A request never waits for a line that sits in the buffer, nor for a      *)
(* stream that has ended (approval.ts, settleAll); under never nobody asks. *)
NobodyWaitsInVain ==
  /\ waiting => buffered = <<>> /\ ~ended
  /\ phase = "asking" <=> (waiting /\ phase # "exited")
  /\ policy = "never" => ~opened /\ Range(decisions) \subseteq {"deny"}

(* The exit code (run.ts:330, failure.ts): 0 is a turn that ended by        *)
(* itself, over a provider that could be asked; 2 an invocation that was    *)
(* found wrong before there was a session; and a cancelled, over-budget or  *)
(* failed turn is 1, and so is one whose own request the user answered by   *)
(* quitting.                                                                *)
ExitTellsTheOutcome ==
  /\ exit = 0 => stop = "end-turn" /\ error = None /\ keyed
  /\ exit = 2 => stop = None /\ ~marked /\ decisions = <<>>
  /\ Over /\ exit \in {0, 1, 2} => exit = 1

(* Whatever way the command came to its exit code, the trajectory holds     *)
(* every event that the engine emitted, unless nobody wanted it or the disk *)
(* was full (run.ts:177-183, 300-310).                                      *)
TrajectoryIsWhole ==
  exit \in {0, 1, 2} /\ marked /\ events > 0 /\ wanted /\ storage = "works"
    => file = events

(* The command exits, prompts or no prompts: end of input is an answer      *)
(* (approval.ts:13-18).                                                     *)
RunExits == <>(phase = "exited")

-----------------------------------------------------------------------------
(* Promises of the documentation the code does not keep; see README.md.    *)

(* run.ts:11-13: "A bad flag or a missing API key is `2`, so a script can   *)
(* tell "fix your setup" from "the agent could not finish"."                *)
MissingKeyIsUsage == ~keyed /\ exit \in {0, 1, 2} => exit = 2

(* approval.ts:161, 192: "[q]uit the turn", "Deny *and* end the turn".      *)
QuitEndsTheTurn == "abort" \in Range(decisions) /\ exit \in {0, 1, 2} => exit = 1 /\ stop = "refused"
=============================================================================
