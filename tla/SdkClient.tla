-------------------------------- MODULE SdkClient --------------------------------
(***************************************************************************)
(* The embedding client of @adze/sdk: sessions created, closed and disposed *)
(* of while the turns submitted through them run in the engine, whose side  *)
(* is the part the client sees: one turn in flight per session, a cancel    *)
(* flag, and a completion anyone may await (packages/sdk/src/internal/      *)
(* client.ts over packages/core/src/engine.ts).  An await ends an action.   *)
(***************************************************************************)
EXTENDS Naturals, FiniteSets

CONSTANTS
  Sessions,  (* The sessions that may be created.                         *)
  MaxTurns,  (* Bound: turns submitted through the client.                *)
  Overrides, (* Approval policies a submit may bring along.               *)
  Consumer   (* What the embedder does beyond awaiting run(): see below.   *)

(* "late": results are asked for at any time; "inside": a listener closes   *)
(* while submit is under way; "again": dispose while a close is under way;  *)
(* "early": dispose while a session is being created.                       *)
Habits == {"late", "inside", "again", "early"}
Policies == {"never", "asks"}

ClientAssumption ==
  MaxTurns \in Nat \ {0} /\ Overrides \subseteq Policies /\ Consumer \subseteq Habits

VARIABLES
  client,  (* Where dispose is.                                           *)
  dues,    (* The sessions whose close dispose itself is running.          *)
  sess,    (* sess[s]: the fields of SessionImpl and where its close is.   *)
  members, (* client.sessions.                                            *)
  known,   (* engine.runtimes.                                            *)
  gate,    (* gate[s]: the approval policy of the engine's session.        *)
  turn,    (* turn[t]: the engine's turn and the handle on it.             *)
  refused  (* History: turns whose approval request the router denied.     *)

vars == <<client, dues, sess, members, known, gate, turn, refused>>

Turns == 1 .. MaxTurns
Nobody == 0

Session ==
  [at: {"none", "creating", "open", "closing", "deleting", "closed"},
   active: Turns \cup {Nobody}, waits: Turns \cup {Nobody}, policy: Policies, counted: Nat]
TurnRecord ==
  [at: {"unused", "running", "asking", "ended", "failed"}, of: Sessions \cup {Nobody},
   cancelled: BOOLEAN, returned: BOOLEAN, result: {"unasked", "awaited", "given"}]

Init ==
  /\ client = "live" /\ dues = {} /\ members = {} /\ known = {} /\ refused = {}
  /\ sess = [s \in Sessions |-> [at |-> "none", active |-> Nobody, waits |-> Nobody,
                                 policy |-> "asks", counted |-> 0]]
  /\ gate = [s \in Sessions |-> "asks"]
  /\ turn = [t \in Turns |-> [at |-> "unused", of |-> Nobody, cancelled |-> FALSE,
                              returned |-> FALSE, result |-> "unasked"]]

Running(t) == turn[t].at \in {"running", "asking"}
Over(t) == turn[t].at \in {"ended", "failed"}
TurnsOf(s) == {t \in Turns : turn[t].of = s}
InFlight(s) == {t \in TurnsOf(s) : Running(t)}

-----------------------------------------------------------------------------
(* Sessions.                                                               *)

CreateStarts(s) ==
  /\ client = "live" /\ sess[s].at = "none"
  /\ sess' = [sess EXCEPT ![s].at = "creating"]
  /\ UNCHANGED <<client, dues, members, known, gate, turn, refused>>

(* The engine's sessionCreate returned.  The client is not looked at again.  *)
CreateEnds(s) ==
  /\ sess[s].at = "creating"
  /\ \E p \in Policies :
       /\ sess' = [sess EXCEPT ![s].at = "open", ![s].policy = p]
       /\ gate' = [gate EXCEPT ![s] = p]
  /\ members' = members \cup {s} /\ known' = known \cup {s}
  /\ UNCHANGED <<client, dues, turn, refused>>

(* Slip of CancelActive: the turn is cancelled and its result not asked for. *)
CancelActiveOnly(S, ts) ==
  LET handles == {sess[s].active : s \in S} \ {Nobody}
  IN [t \in Turns |-> IF t \in handles THEN [ts[t] EXCEPT !.cancelled = @ \/ Running(t)] ELSE ts[t]]

(* close cancels through the handle it knows of and asks for its result.    *)
CancelActive(S, ts) ==
  LET handles == {sess[s].active : s \in S} \ {Nobody}
  IN [t \in Turns |->
        IF t \in handles
          THEN [ts[t] EXCEPT !.cancelled = @ \/ Running(t),
                             !.result = IF @ = "unasked" THEN "awaited" ELSE @]
          ELSE ts[t]]

(* The sessions of S with their close begun: it waits for the active turn.  *)
Closing(S) ==
  [s \in Sessions |->
     IF s \in S THEN [sess[s] EXCEPT !.at = "closing", !.waits = sess[s].active] ELSE sess[s]]

(* A submit of s the engine has begun and the SDK has not returned from.    *)
Submitting(s) == \E t \in InFlight(s) : ~turn[t].returned

Close(s) ==
  /\ sess[s].at = "open" /\ (Submitting(s) => "inside" \in Consumer)
  /\ sess' = Closing({s}) /\ turn' = CancelActive({s}, turn)
  /\ UNCHANGED <<client, dues, members, known, gate, refused>>

(* The turn close waited for has settled: engine.sessionClose.              *)
CloseWaited(s) ==
  /\ sess[s].at = "closing"
  /\ sess[s].waits # Nobody => turn[sess[s].waits].result = "given"
  /\ sess' = [sess EXCEPT ![s].at = "deleting"]
  /\ known' = known \ {s}
  /\ turn' = [t \in Turns |-> IF t \in InFlight(s) THEN [turn[t] EXCEPT !.cancelled = TRUE] ELSE turn[t]]
  /\ UNCHANGED <<client, dues, members, gate, refused>>

CloseEnds(s) ==
  /\ sess[s].at = "deleting"
  /\ sess' = [sess EXCEPT ![s].at = "closed"]
  /\ members' = members \ {s}
  /\ UNCHANGED <<client, dues, known, gate, turn, refused>>

-----------------------------------------------------------------------------
(* The client.                                                             *)

(* dispose closes every session it knows of; a close that is already under  *)
(* way returns to it at once.                                               *)
Dispose ==
  LET open == {s \in members : sess[s].at = "open"} IN
  /\ client = "live"
  /\ (\E s \in members : sess[s].at \in {"closing", "deleting"}) => "again" \in Consumer
  /\ (\E s \in Sessions : sess[s].at = "creating") => "early" \in Consumer
  /\ (\E s \in open : Submitting(s)) => "inside" \in Consumer
  /\ client' = "disposing" /\ dues' = open
  /\ sess' = Closing(open) /\ turn' = CancelActive(open, turn)
  /\ UNCHANGED <<members, known, gate, refused>>

DisposeEnds ==
  /\ client = "disposing"
  /\ \A s \in dues : sess[s].at = "closed"
  /\ client' = "disposed" /\ members' = {}
  /\ UNCHANGED <<dues, sess, known, gate, turn, refused>>

-----------------------------------------------------------------------------
(* Turns.                                                                  *)

(* submit, down to the listeners of turn.started, which run inside it.  An  *)
(* override is in force in the engine from here on.                         *)
SubmitStarts(s) ==
  /\ sess[s].at = "open" /\ s \in known /\ InFlight(s) = {}
  /\ "late" \in Consumer \/ \A t \in TurnsOf(s) : turn[t].result = "given"
  /\ \E t \in Turns :
       /\ turn[t].at = "unused" /\ \A u \in 1 .. t - 1 : turn[u].at # "unused"
       /\ turn' = [turn EXCEPT ![t].at = "running", ![t].of = s]
  /\ \E p \in Overrides \cup {gate[s]} : gate' = [gate EXCEPT ![s] = p]
  /\ UNCHANGED <<client, dues, sess, members, known, refused>>

(* Slip of SubmitReturns: the accessors keep what the session was created with. *)
SubmitReturnsStale(t) ==
  /\ Running(t) /\ ~turn[t].returned
  /\ sess' = [sess EXCEPT ![turn[t].of].active = t]
  /\ turn' = [turn EXCEPT ![t].returned = TRUE,
                          ![t].result = IF "late" \in Consumer THEN @ ELSE "awaited"]
  /\ UNCHANGED <<client, dues, members, known, gate, refused>>

(* turnSubmit returned: the accessors report the override and the handle    *)
(* becomes the active one, closed session or not.                           *)
SubmitReturns(t) ==
  /\ Running(t) /\ ~turn[t].returned
  /\ sess' = [sess EXCEPT ![turn[t].of].active = t, ![turn[t].of].policy = gate[turn[t].of]]
  /\ turn' = [turn EXCEPT ![t].returned = TRUE,
                          ![t].result = IF "late" \in Consumer THEN @ ELSE "awaited"]
  /\ UNCHANGED <<client, dues, members, known, gate, refused>>

Result(t) ==
  /\ "late" \in Consumer /\ turn[t].returned /\ turn[t].result = "unasked"
  /\ turn' = [turn EXCEPT ![t].result = "awaited"]
  /\ UNCHANGED <<client, dues, sess, members, known, gate, refused>>

HandleCancel(t) ==
  /\ turn[t].returned /\ Running(t) /\ turn[t].of \in known
  /\ turn' = [turn EXCEPT ![t].cancelled = TRUE]
  /\ UNCHANGED <<client, dues, sess, members, known, gate, refused>>

(* ApprovalRouter: whether any session could have asked.                     *)
promptingIsPossible == \E s \in members : sess[s].policy = "asks"

(* The engine's gate asks; what the router denies goes back to the turn.    *)
Asks(t) ==
  /\ turn[t].at = "running" /\ turn[t].returned /\ gate[turn[t].of] = "asks"
  /\ IF promptingIsPossible
       THEN turn' = [turn EXCEPT ![t].at = "asking"] /\ UNCHANGED refused
       ELSE refused' = refused \cup {t} /\ UNCHANGED turn
  /\ UNCHANGED <<client, dues, sess, members, known, gate>>

(* The consumer's handler answered, well or badly.                           *)
Answered(t) ==
  /\ turn[t].at = "asking"
  /\ turn' = [turn EXCEPT ![t].at = "running"]
  /\ UNCHANGED <<client, dues, sess, members, known, gate, refused>>

TurnEnds(t) ==
  /\ turn[t].at = "running" /\ turn[t].returned
  /\ \E at \in {"ended", "failed"} : turn' = [turn EXCEPT ![t].at = at]
  /\ UNCHANGED <<client, dues, sess, members, known, gate, refused>>

(* Slip of Collect: the result is not memoized. *)
CollectAgain(t) ==
  /\ turn[t].result \in {"awaited", "given"} /\ Over(t)
  /\ turn' = [turn EXCEPT ![t].result = "given"]
  /\ sess' = IF turn[t].at = "ended" /\ sess[turn[t].of].counted <= MaxTurns
               THEN [sess EXCEPT ![turn[t].of].active = Nobody, ![turn[t].of].counted = @ + 1]
               ELSE sess
  /\ UNCHANGED <<client, dues, members, known, gate, refused>>

(* awaitTurn delivered the outcome: onSettled counts it and forgets the     *)
(* active handle, whichever that is.                                        *)
Collect(t) ==
  /\ turn[t].result = "awaited" /\ Over(t)
  /\ turn' = [turn EXCEPT ![t].result = "given"]
  /\ sess' = IF turn[t].at = "ended"
               THEN [sess EXCEPT ![turn[t].of].active = Nobody, ![turn[t].of].counted = @ + 1]
               ELSE sess
  /\ UNCHANGED <<client, dues, members, known, gate, refused>>

-----------------------------------------------------------------------------
SessionStep(s) == CreateEnds(s) \/ CloseWaited(s) \/ CloseEnds(s)
TurnStep(t) == SubmitReturns(t) \/ TurnEnds(t) \/ Collect(t)

Next ==
  \/ \E s \in Sessions :
       CreateStarts(s) \/ Close(s) \/ SubmitStarts(s) \/ SessionStep(s)
  \/ \E t \in Turns : Result(t) \/ HandleCancel(t) \/ Asks(t) \/ Answered(t) \/ TurnStep(t)
  \/ Dispose \/ DisposeEnds

Spec == Init /\ [][Next]_vars

(* The engine's awaits return, and the embedder answers what it is asked.    *)
(* A turn may ask again and again, so its end takes strong fairness: a turn  *)
(* has a step budget (TurnMachine).                                          *)
FairSpec ==
  /\ Spec
  /\ \A s \in Sessions : WF_vars(SessionStep(s))
  /\ \A t \in Turns :
       /\ WF_vars(SubmitReturns(t)) /\ WF_vars(Answered(t)) /\ SF_vars(TurnEnds(t))
       /\ WF_vars(Collect(t))
  /\ WF_vars(DisposeEnds)

-----------------------------------------------------------------------------
(* Properties.                                                             *)

(* The types of the client.                                                *)
TypeOK ==
  /\ client \in {"live", "disposing", "disposed"}
  /\ dues \subseteq Sessions /\ members \subseteq Sessions /\ known \subseteq Sessions
  /\ refused \subseteq Turns
  /\ sess \in [Sessions -> Session] /\ gate \in [Sessions -> Policies]
  /\ turn \in [Turns -> TurnRecord]

(* A session the engine no longer knows has no turn that runs on unstopped, *)
(* whatever the consumer closed, disposed of or never asked for.            *)
ClosedMeansCancelled ==
  \A s \in Sessions : sess[s].at \in {"deleting", "closed"} =>
    \A t \in InFlight(s) : turn[t].cancelled

(* No turn is counted twice in a session's totals, and none that failed.    *)
CountedOnce ==
  \A s \in Sessions :
    sess[s].counted = Cardinality({t \in TurnsOf(s) : turn[t].at = "ended" /\ turn[t].result = "given"})

(* While its session and its client are open, no turn the policy lets ask is *)
(* refused by the router in the handler's place: the accessors it goes by, which follow     *)
(* every override, never say "never" of a session that asks.                 *)
NoFalseRefusal ==
  [][client # "disposed" => \A t \in refused' \ refused : sess[turn[t].of].at # "open"]_vars

(* When dispose has returned no turn is running any more.                    *)
DisposeWaits ==
  client = "disposed" => \A t \in Turns : ~Running(t)

(* A close returns, however the turn it waits for ends.                      *)
CloseReturns ==
  \A s \in Sessions : sess[s].at = "closing" ~> sess[s].at = "closed"

-----------------------------------------------------------------------------
(* Promises of the documentation the code does not keep; see README.md.    *)

(* client.ts, on why close awaits the turn: a cancelled turn has finished    *)
(* unwinding before the session goes away.                                   *)
CloseWaits == \A s \in Sessions : sess[s].at = "closed" => InFlight(s) = {}

(* client.ts: usage() is "accumulated from the turns submitted through this  *)
(* session"; what close returns leaves out a turn nobody asked the result of. *)
UsageIsWhole ==
  [][\A s \in Sessions : sess[s].at = "deleting" /\ sess'[s].at = "closed" =>
       \A t \in TurnsOf(s) : turn[t].at = "ended" => turn[t].result = "given"]_vars

(* docs/guides/embedding.md: dispose "closes every session".                 *)
NothingOutlivesDispose == client = "disposed" => known = {}

=============================================================================
