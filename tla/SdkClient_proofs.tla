---------------------------- MODULE SdkClient_proofs ----------------------------
(***************************************************************************)
(* Proofs about SdkClient, for any number of sessions and turns, any        *)
(* overrides, and embedders of every habit; for DisposeWaits, for the       *)
(* embedder that has none.                                                  *)
(***************************************************************************)
EXTENDS SdkClient, FiniteSetTheorems, TLAPS

-----------------------------------------------------------------------------
(* The inductive invariant.                                                 *)

Made(s) == sess[s].at \notin {"none", "creating"}

(* A turn belongs to a session that was made, is returned when it is used,  *)
(* and its result is given when it is over.                                 *)
TurnsAreOwned ==
  \A t \in Turns :
    /\ turn[t].at = "unused" => ~turn[t].returned
    /\ turn[t].at # "unused" => turn[t].of \in Sessions /\ Made(turn[t].of)
    /\ turn[t].result = "given" => Over(t)

(* The engine lets a session have one turn at a time.                       *)
OneInFlight ==
  \A t, u \in Turns : Running(t) /\ Running(u) /\ turn[t].of = turn[u].of => t = u

(* Until it is disposed of, the client knows every session not closed.      *)
OpenAreMembers ==
  client # "disposed" =>
    \A s \in Sessions : sess[s].at \in {"open", "closing", "deleting"} => s \in members

(* The accessors say what the engine enforces, but while a submit is under  *)
(* way.                                                                     *)
PolicyIsTheGates ==
  \A s \in Sessions :
    Made(s) /\ (\A t \in Turns : Running(t) /\ turn[t].of = s => turn[t].returned)
      => sess[s].policy = gate[s]

CInv ==
  /\ TypeOK /\ TurnsAreOwned /\ OneInFlight /\ OpenAreMembers /\ PolicyIsTheGates
  /\ ClosedMeansCancelled /\ CountedOnce

-----------------------------------------------------------------------------
(* What a step does to a turn that goes on.                                 *)

GoesOn(t) ==
  /\ turn'[t].of = turn[t].of /\ turn'[t].returned = turn[t].returned
  /\ turn'[t].at = "unused" <=> turn[t].at = "unused"
  /\ Running(t)' => Running(t)
  /\ Running(t) /\ ~Running(t)' => turn[t].returned
  /\ turn[t].cancelled => turn'[t].cancelled
  /\ Over(t) => turn'[t].at = turn[t].at
  /\ turn'[t].result = "given" <=> turn[t].result = "given"

LEMMA Fields ==
  ASSUME TypeOK
  PROVE  /\ \A t \in Turns : turn[t] \in TurnRecord /\ turn[t].of \in Sessions \cup {Nobody}
                             /\ {turn[t].cancelled, turn[t].returned} \subseteq BOOLEAN
         /\ \A s \in Sessions : /\ sess[s] \in Session /\ sess[s].counted \in Nat /\ sess[s].policy \in Policies
                                /\ sess[s].active \in Turns \cup {Nobody}
<1>1. \A t \in Turns : turn[t] \in TurnRecord
  BY DEF TypeOK
<1>2. \A s \in Sessions : sess[s] \in Session
  BY DEF TypeOK
<1> QED BY <1>1, <1>2 DEF TurnRecord, Session

(* The turns a session has counted.                                         *)
Collected(s) == {t \in TurnsOf(s) : turn[t].at = "ended" /\ turn[t].result = "given"}

LEMMA TurnsAreFinite ==
  ASSUME ClientAssumption, NEW s
  PROVE  IsFiniteSet(Collected(s)) /\ Cardinality(Collected(s)) \in Nat
<1>1. IsFiniteSet(Turns)
  BY FS_Interval DEF Turns, ClientAssumption
<1>2. Collected(s) \subseteq Turns
  BY DEF Collected, TurnsOf
<1> QED BY <1>1, <1>2, FS_Subset, FS_CardinalityType

LEMMA TotalsStay ==
  ASSUME CInv, \A s \in Sessions : sess'[s].counted = sess[s].counted /\ Collected(s)' = Collected(s)
  PROVE  CountedOnce'
BY DEF CInv, CountedOnce, Collected

(* A step that starts, returns and collects no turn.                        *)
LEMMA TurnsGoOn ==
  ASSUME CInv, TypeOK', OpenAreMembers', \A t \in Turns : GoesOn(t), gate' = gate,
         \A s \in Sessions :
           /\ sess'[s].policy = sess[s].policy /\ sess'[s].counted = sess[s].counted
           /\ Made(s)' <=> Made(s)
           /\ sess'[s].at \in {"deleting", "closed"} =>
                \/ sess[s].at \in {"deleting", "closed"}
                \/ \A t \in InFlight(s) : turn'[t].cancelled
  PROVE  CInv'
<1> USE DEF CInv
<1>1. TurnsAreOwned'
  BY DEF TurnsAreOwned, GoesOn, Over, Made
<1>2. OneInFlight'
  BY DEF OneInFlight, GoesOn
<1>3. PolicyIsTheGates'
  <2> SUFFICES ASSUME NEW s \in Sessions, Made(s)', \A t \in Turns : Running(t)' /\ turn'[t].of = s => turn'[t].returned
               PROVE  sess'[s].policy = gate'[s]
    BY DEF PolicyIsTheGates, Turns
  <2>1. \A t \in Turns : Running(t) /\ turn[t].of = s => turn[t].returned
    BY DEF GoesOn
  <2> QED BY <2>1 DEF PolicyIsTheGates
<1>4. ClosedMeansCancelled'
  <2> SUFFICES ASSUME NEW s \in Sessions, sess'[s].at \in {"deleting", "closed"}, NEW t \in Turns,
                      turn'[t].of = s, Running(t)'
               PROVE  turn'[t].cancelled
    BY DEF ClosedMeansCancelled, InFlight, TurnsOf, Turns
  <2>1. t \in InFlight(s)
    BY DEF GoesOn, InFlight, TurnsOf
  <2> QED BY <2>1 DEF ClosedMeansCancelled, GoesOn
<1>5. \A t \in Turns : turn'[t].result = "given" => turn'[t].at = turn[t].at
  BY DEF TurnsAreOwned, GoesOn
<1>6. ASSUME NEW s \in Sessions PROVE Collected(s)' = Collected(s)
  BY <1>5 DEF Collected, TurnsOf, GoesOn, Turns, TurnsAreOwned
<1>7. CountedOnce'
  BY <1>6, TotalsStay
<1> QED BY <1>1, <1>2, <1>3, <1>4, <1>7

LEMMA SameTurn == ASSUME NEW t, turn'[t] = turn[t] PROVE GoesOn(t)
BY DEF GoesOn, Running, Over

-----------------------------------------------------------------------------
(* Every step keeps the invariant.                                          *)

LEMMA CreateStartsKeeps == ASSUME CInv, NEW s \in Sessions, CreateStarts(s) PROVE CInv'
<1> USE DEF CInv
<1>1. /\ sess' = [sess EXCEPT ![s].at = "creating"] /\ sess[s].at = "none"
      /\ UNCHANGED <<client, dues, members, known, gate, turn, refused>>
  BY DEF CreateStarts
<1>2. /\ sess' \in [Sessions -> Session]
      /\ \A r \in Sessions : sess'[r].policy = sess[r].policy /\ sess'[r].counted = sess[r].counted
      /\ \A r \in Sessions \ {s} : sess'[r] = sess[r]
      /\ sess'[s].at = "creating"
  BY <1>1, Fields DEF TypeOK, Session
<1>3. TypeOK'
  BY <1>1, <1>2 DEF TypeOK
<1>4. OpenAreMembers'
  BY <1>1, <1>2 DEF OpenAreMembers
<1>5. \A t \in Turns : GoesOn(t)
  BY <1>1, SameTurn
<1> QED BY <1>1, <1>2, <1>3, <1>4, <1>5, TurnsGoOn DEF Made

LEMMA CreateEndsKeeps == ASSUME CInv, NEW s \in Sessions, CreateEnds(s) PROVE CInv'
<1> USE DEF CInv
<1>1. PICK p \in Policies : /\ sess' = [sess EXCEPT ![s].at = "open", ![s].policy = p]
                            /\ gate' = [gate EXCEPT ![s] = p]
  BY DEF CreateEnds
<1>2. /\ sess[s].at = "creating" /\ members' = members \cup {s} /\ known' = known \cup {s}
      /\ UNCHANGED <<client, dues, turn, refused>>
  BY DEF CreateEnds
<1>3. /\ sess' \in [Sessions -> Session]
      /\ \A r \in Sessions : sess'[r].counted = sess[r].counted
      /\ \A r \in Sessions \ {s} : sess'[r] = sess[r]
      /\ sess'[s].at = "open" /\ sess'[s].policy = p
  BY <1>1, Fields DEF TypeOK, Session
<1>4. TypeOK'
  BY <1>1, <1>2, <1>3 DEF TypeOK
<1>5. TurnsAreOwned' /\ OneInFlight'
  BY <1>2, <1>3 DEF TurnsAreOwned, OneInFlight, Running, Over, Made
<1>6. OpenAreMembers'
  BY <1>2, <1>3 DEF OpenAreMembers
<1>7. PolicyIsTheGates'
  BY <1>1, <1>2, <1>3 DEF PolicyIsTheGates, Made, Running, TypeOK
<1>8. ClosedMeansCancelled'
  BY <1>2, <1>3 DEF ClosedMeansCancelled, InFlight, TurnsOf, Running
<1>9. CountedOnce'
  BY <1>2, <1>3, TotalsStay DEF Collected, TurnsOf
<1> QED BY <1>4, <1>5, <1>6, <1>7, <1>8, <1>9

(* A close that begins cancels turns and asks for their results.            *)
LEMMA CancelActiveGoesOn ==
  ASSUME CInv, NEW S \in SUBSET Sessions, turn' = CancelActive(S, turn)
  PROVE  turn' \in [Turns -> TurnRecord] /\ \A t \in Turns : GoesOn(t)
<1> USE DEF CInv
<1> DEFINE handles == {sess[s].active : s \in S} \ {Nobody}
           new(t) == IF t \in handles
                       THEN [turn[t] EXCEPT !.cancelled = @ \/ Running(t),
                                            !.result = IF @ = "unasked" THEN "awaited" ELSE @]
                       ELSE turn[t]
<1>1. turn' = [t \in Turns |-> new(t)]
  BY DEF CancelActive
<1>2. ASSUME NEW t \in Turns, t \notin handles PROVE turn'[t] \in TurnRecord /\ GoesOn(t)
  <2>1. turn'[t] = turn[t]
    BY <1>1, <1>2
  <2> QED BY <2>1, SameTurn, Fields
<1>3. ASSUME NEW t \in Turns, t \in handles PROVE turn'[t] \in TurnRecord /\ GoesOn(t)
  <2>1. PICK b \in BOOLEAN : b = (turn[t].cancelled \/ Running(t))
    BY DEF Running
  <2>2. PICK r \in {"awaited", "given"} : r = (IF turn[t].result = "unasked" THEN "awaited" ELSE turn[t].result)
    BY Fields DEF TurnRecord
  <2>3. turn'[t] = [turn[t] EXCEPT !.cancelled = b, !.result = r]
    BY <1>1, <1>3, <2>1, <2>2
  <2>4. turn[t] \in TurnRecord
    BY Fields
  <2>5. turn'[t] \in TurnRecord
    BY <2>3, <2>4 DEF TurnRecord
  <2>6. turn'[t].at = turn[t].at /\ turn'[t].of = turn[t].of /\ turn'[t].returned = turn[t].returned
        /\ turn'[t].result = r /\ turn'[t].cancelled = b
    BY <2>3, <2>4 DEF TurnRecord
  <2>7. r = "given" <=> turn[t].result = "given"
    BY <2>2
  <2>8. turn[t].cancelled => turn'[t].cancelled
    BY <2>1, <2>6
  <2> QED BY <2>5, <2>6, <2>7, <2>8 DEF GoesOn, Running, Over
<1>4. turn' \in [Turns -> TurnRecord]
  <2>1. \A t \in Turns : new(t) \in TurnRecord
    BY <1>1, <1>2, <1>3
  <2> HIDE DEF new
  <2> QED BY <1>1, <2>1
<1> QED BY <1>2, <1>3, <1>4

LEMMA ClosingKeeps ==
  ASSUME CInv, NEW S \in SUBSET Sessions, \A s \in S : sess[s].at = "open"
  PROVE  /\ Closing(S) \in [Sessions -> Session]
         /\ \A s \in Sessions : /\ Closing(S)[s].policy = sess[s].policy
                                /\ Closing(S)[s].counted = sess[s].counted
                                /\ Closing(S)[s].active = sess[s].active
                                /\ s \in S => Closing(S)[s].at = "closing" /\ Closing(S)[s].waits = sess[s].active
                                /\ s \notin S => Closing(S)[s] = sess[s]
<1>1. ASSUME NEW s \in Sessions
      PROVE  [sess[s] EXCEPT !.at = "closing", !.waits = sess[s].active] \in Session
  BY Fields DEF CInv, Session
<1> QED BY <1>1, Fields DEF CInv, Closing, Session

LEMMA ClosesKeep ==
  ASSUME CInv, NEW S \in SUBSET Sessions, \A s \in S : sess[s].at = "open",
         sess' = Closing(S), turn' = CancelActive(S, turn),
         UNCHANGED <<members, known, gate, refused>>, dues' \subseteq Sessions,
         client' = client \/ (client = "live" /\ client' = "disposing")
  PROVE  CInv'
<1> USE DEF CInv
<1>1. turn' \in [Turns -> TurnRecord] /\ \A t \in Turns : GoesOn(t)
  BY CancelActiveGoesOn
<1>2. /\ sess' \in [Sessions -> Session]
      /\ \A s \in Sessions : /\ sess'[s].policy = sess[s].policy /\ sess'[s].counted = sess[s].counted
                             /\ s \in S => sess'[s].at = "closing"
                             /\ s \notin S => sess'[s] = sess[s]
  BY ClosingKeeps
<1>3. TypeOK'
  BY <1>1, <1>2 DEF TypeOK
<1>4. OpenAreMembers'
  BY <1>2 DEF OpenAreMembers
<1>5. \A s \in Sessions : (Made(s)' <=> Made(s))
                          /\ (sess'[s].at \in {"deleting", "closed"} => sess[s].at \in {"deleting", "closed"})
  BY <1>2 DEF Made
<1> QED BY <1>1, <1>2, <1>3, <1>4, <1>5, TurnsGoOn

LEMMA CloseKeeps == ASSUME CInv, NEW s \in Sessions, Close(s) PROVE CInv'
<1>1. /\ sess[s].at = "open" /\ sess' = Closing({s}) /\ turn' = CancelActive({s}, turn)
      /\ UNCHANGED <<client, dues, members, known, gate, refused>>
  BY DEF Close
<1>2. {s} \in SUBSET Sessions /\ (\A r \in {s} : sess[r].at = "open") /\ dues' \subseteq Sessions
  BY <1>1 DEF CInv, TypeOK
<1> QED BY <1>1, <1>2, ClosesKeep

LEMMA DisposeKeeps == ASSUME CInv, Dispose PROVE CInv'
<1> DEFINE open == {s \in members : sess[s].at = "open"}
<1>1. /\ client = "live" /\ client' = "disposing" /\ dues' = open
      /\ sess' = Closing(open) /\ turn' = CancelActive(open, turn)
      /\ UNCHANGED <<members, known, gate, refused>>
  BY DEF Dispose
<1>2. open \in SUBSET Sessions /\ \A s \in open : sess[s].at = "open"
  BY DEF CInv, TypeOK
<1> HIDE DEF open
<1> QED BY <1>1, <1>2, ClosesKeep

(* What the engine forgets, it cancels.                                     *)
LEMMA CloseWaitedKeeps ==
  ASSUME CInv, NEW s \in Sessions, CloseWaited(s)
  PROVE  /\ CInv' /\ (\A t \in Turns : GoesOn(t)) /\ sess'[s].at = "deleting" /\ sess'[s].waits = sess[s].waits
         /\ \A r \in Sessions : sess'[r].active = sess[r].active /\ (r # s => sess'[r] = sess[r])
<1> USE DEF CInv
<1>1. /\ sess[s].at = "closing" /\ sess' = [sess EXCEPT ![s].at = "deleting"] /\ known' = known \ {s}
      /\ turn' = [t \in Turns |-> IF t \in InFlight(s) THEN [turn[t] EXCEPT !.cancelled = TRUE] ELSE turn[t]]
      /\ UNCHANGED <<client, dues, members, gate, refused>>
  BY DEF CloseWaited
<1>2. ASSUME NEW t \in Turns
      PROVE  turn'[t] \in TurnRecord /\ GoesOn(t) /\ (t \in InFlight(s) => turn'[t].cancelled)
  <2>1. turn[t] \in TurnRecord
    BY Fields
  <2>2. CASE t \in InFlight(s)
    <3>1. turn'[t] = [turn[t] EXCEPT !.cancelled = TRUE]
      BY <1>1, <2>2
    <3> QED BY <2>1, <3>1 DEF TurnRecord, GoesOn, Running, Over
  <2>3. CASE t \notin InFlight(s)
    <3>1. turn'[t] = turn[t]
      BY <1>1, <2>3
    <3> QED BY <2>1, <2>3, <3>1, SameTurn
  <2> QED BY <2>2, <2>3
<1>3. turn' \in [Turns -> TurnRecord]
  <2>1. turn' = [t \in Turns |-> turn'[t]]
    BY <1>1
  <2> QED BY <1>2, <2>1
<1>4. /\ sess' \in [Sessions -> Session]
      /\ \A r \in Sessions : sess'[r].policy = sess[r].policy /\ sess'[r].counted = sess[r].counted
                             /\ sess'[r].active = sess[r].active
      /\ \A r \in Sessions \ {s} : sess'[r] = sess[r]
      /\ sess'[s].at = "deleting" /\ sess'[s].waits = sess[s].waits
  BY <1>1, Fields DEF TypeOK, Session
<1>5. TypeOK'
  BY <1>1, <1>3, <1>4 DEF TypeOK
<1>6. OpenAreMembers'
  BY <1>1, <1>4 DEF OpenAreMembers
<1>7. \A r \in Sessions : /\ Made(r)' <=> Made(r)
                          /\ sess'[r].at \in {"deleting", "closed"} =>
                               \/ sess[r].at \in {"deleting", "closed"}
                               \/ \A t \in InFlight(r) : turn'[t].cancelled
  BY <1>1, <1>2, <1>4 DEF Made, InFlight, TurnsOf
<1>8. CInv'
  BY <1>1, <1>2, <1>4, <1>5, <1>6, <1>7, TurnsGoOn
<1> QED BY <1>2, <1>4, <1>8

LEMMA CloseEndsKeeps == ASSUME CInv, NEW s \in Sessions, CloseEnds(s) PROVE CInv'
<1> USE DEF CInv
<1>1. /\ sess[s].at = "deleting" /\ sess' = [sess EXCEPT ![s].at = "closed"] /\ members' = members \ {s}
      /\ UNCHANGED <<client, dues, known, gate, turn, refused>>
  BY DEF CloseEnds
<1>2. /\ sess' \in [Sessions -> Session]
      /\ \A r \in Sessions : sess'[r].policy = sess[r].policy /\ sess'[r].counted = sess[r].counted
      /\ \A r \in Sessions \ {s} : sess'[r] = sess[r]
      /\ sess'[s].at = "closed"
  BY <1>1, Fields DEF TypeOK, Session
<1>3. TypeOK'
  BY <1>1, <1>2 DEF TypeOK
<1>4. OpenAreMembers'
  BY <1>1, <1>2 DEF OpenAreMembers
<1>5. \A t \in Turns : GoesOn(t)
  BY <1>1, SameTurn
<1>6. \A r \in Sessions : (Made(r)' <=> Made(r))
                          /\ (sess'[r].at \in {"deleting", "closed"} => sess[r].at \in {"deleting", "closed"})
  BY <1>1, <1>2 DEF Made
<1> QED BY <1>1, <1>2, <1>3, <1>4, <1>5, <1>6, TurnsGoOn

LEMMA DisposeEndsKeeps == ASSUME CInv, DisposeEnds PROVE CInv'
<1> USE DEF CInv
<1>1. client' = "disposed" /\ members' = {} /\ UNCHANGED <<dues, sess, known, gate, turn, refused>>
  BY DEF DisposeEnds
<1>2. TypeOK' /\ OpenAreMembers'
  BY <1>1 DEF TypeOK, OpenAreMembers
<1>3. \A t \in Turns : GoesOn(t)
  BY <1>1, SameTurn
<1> QED BY <1>1, <1>2, <1>3, TurnsGoOn DEF Made

(* A step of one turn that no session notices.                              *)
LEMMA OneGoesOn ==
  ASSUME CInv, NEW t \in Turns, NEW new \in TurnRecord, turn' = [turn EXCEPT ![t] = new], GoesOn(t),
         UNCHANGED <<client, dues, sess, members, known, gate>>, refused' \subseteq Turns
  PROVE  CInv'
<1> USE DEF CInv
<1>1. turn' \in [Turns -> TurnRecord] /\ \A u \in Turns \ {t} : turn'[u] = turn[u]
  BY DEF TypeOK
<1>2. TypeOK' /\ OpenAreMembers'
  BY <1>1 DEF TypeOK, OpenAreMembers
<1>3. \A u \in Turns : GoesOn(u)
  BY <1>1, SameTurn
<1> QED BY <1>2, <1>3, TurnsGoOn DEF Made

LEMMA HandlesKeep ==
  ASSUME CInv, NEW t \in Turns, Result(t) \/ HandleCancel(t) \/ Asks(t) \/ Answered(t) \/ TurnEnds(t)
  PROVE  /\ CInv' /\ GoesOn(t) /\ (\A u \in Turns \ {t} : turn'[u] = turn[u])
         /\ UNCHANGED <<client, dues, sess, members>>
<1> USE DEF CInv
<1>1. turn[t] \in TurnRecord
  BY Fields
<1>2. CASE turn' = turn /\ Asks(t)
  <2>1. refused' \subseteq Turns /\ UNCHANGED <<client, dues, sess, members, known, gate>>
    BY <1>2 DEF Asks, TypeOK
  <2>2. turn' = [turn EXCEPT ![t] = turn[t]]
    BY <1>2 DEF TypeOK
  <2> QED BY <1>1, <1>2, <2>1, <2>2, SameTurn, OneGoesOn
<1>3. CASE ~(turn' = turn /\ Asks(t))
  <2>1. PICK new : /\ new \in TurnRecord /\ turn' = [turn EXCEPT ![t] = new]
                   /\ new.of = turn[t].of /\ new.returned = turn[t].returned
                   /\ \/ /\ new.at = turn[t].at
                         /\ \/ new.cancelled = turn[t].cancelled /\ turn[t].result # "given" /\ new.result # "given"
                            \/ new.cancelled /\ new.result = turn[t].result
                      \/ /\ new.cancelled = turn[t].cancelled /\ new.result = turn[t].result
                         /\ turn[t].at \in {"running", "asking"}
                         /\ \/ new.at \in {"running", "asking"}
                            \/ new.at \in {"ended", "failed"} /\ turn[t].returned
    <3>1. CASE Result(t)
      <4> WITNESS [turn[t] EXCEPT !.result = "awaited"]
      <4> QED BY <1>1, <3>1 DEF Result, TurnRecord
    <3>2. CASE HandleCancel(t)
      <4> WITNESS [turn[t] EXCEPT !.cancelled = TRUE]
      <4> QED BY <1>1, <3>2 DEF HandleCancel, TurnRecord
    <3>3. CASE Asks(t)
      <4> WITNESS [turn[t] EXCEPT !.at = "asking"]
      <4> QED BY <1>1, <1>3, <3>3 DEF Asks, TurnRecord
    <3>4. CASE Answered(t)
      <4> WITNESS [turn[t] EXCEPT !.at = "running"]
      <4> QED BY <1>1, <3>4 DEF Answered, TurnRecord
    <3>5. CASE TurnEnds(t)
      <4>1. PICK at \in {"ended", "failed"} : turn' = [turn EXCEPT ![t].at = at]
        BY <3>5 DEF TurnEnds
      <4> WITNESS [turn[t] EXCEPT !.at = at]
      <4> QED BY <1>1, <3>5, <4>1 DEF TurnEnds, TurnRecord
    <3> QED BY <3>1, <3>2, <3>3, <3>4, <3>5
  <2>2. turn'[t] = new /\ \A u \in Turns \ {t} : turn'[u] = turn[u]
    BY <2>1 DEF TypeOK
  <2>3. GoesOn(t)
    BY <2>1, <2>2 DEF GoesOn, Running, Over
  <2>4. refused' \subseteq Turns /\ UNCHANGED <<client, dues, sess, members, known, gate>>
    BY DEF Result, HandleCancel, Asks, Answered, TurnEnds, TypeOK
  <2> QED BY <2>1, <2>2, <2>3, <2>4, OneGoesOn
<1> QED BY <1>2, <1>3

LEMMA SubmitStartsKeeps == ASSUME ClientAssumption, CInv, NEW s \in Sessions, SubmitStarts(s) PROVE CInv'
<1> USE DEF CInv
<1>1. PICK t \in Turns : turn[t].at = "unused" /\ turn' = [turn EXCEPT ![t].at = "running", ![t].of = s]
  BY DEF SubmitStarts
<1>2. PICK p \in Policies : gate' = [gate EXCEPT ![s] = p]
  BY DEF SubmitStarts, ClientAssumption, TypeOK
<1>3. /\ sess[s].at = "open" /\ InFlight(s) = {}
      /\ UNCHANGED <<client, dues, sess, members, known, refused>>
  BY DEF SubmitStarts
<1>4. /\ turn' \in [Turns -> TurnRecord] /\ \A u \in Turns \ {t} : turn'[u] = turn[u]
      /\ turn'[t].at = "running" /\ turn'[t].of = s /\ turn'[t].returned = turn[t].returned
      /\ turn'[t].result = turn[t].result
  BY <1>1, Fields DEF TypeOK, TurnRecord
<1>5. ~turn[t].returned /\ turn[t].result # "given"
  BY <1>1 DEF TurnsAreOwned, Over
<1>6. TypeOK'
  BY <1>2, <1>3, <1>4 DEF TypeOK
<1>7. TurnsAreOwned'
  BY <1>3, <1>4, <1>5 DEF TurnsAreOwned, Over, Made
<1>8. OneInFlight'
  BY <1>3, <1>4 DEF OneInFlight, InFlight, TurnsOf, Running
<1>9. OpenAreMembers'
  BY <1>3 DEF OpenAreMembers
<1>10. ASSUME NEW r \in Sessions, Made(r)', \A u \in Turns : Running(u)' /\ turn'[u].of = r => turn'[u].returned
       PROVE  sess'[r].policy = gate'[r]
  <2>1. r # s
    BY <1>4, <1>5, <1>10 DEF Running
  <2>2. \A u \in Turns : Running(u) /\ turn[u].of = r => turn[u].returned
    BY <1>1, <1>4, <1>10, <2>1 DEF Running
  <2>3. gate'[r] = gate[r] /\ Made(r)
    BY <1>2, <1>3, <1>10, <2>1 DEF TypeOK, Made
  <2> QED BY <1>3, <2>2, <2>3 DEF PolicyIsTheGates
<1>11. PolicyIsTheGates'
  BY <1>10 DEF PolicyIsTheGates, Turns
<1>12. ClosedMeansCancelled'
  BY <1>3, <1>4 DEF ClosedMeansCancelled, InFlight, TurnsOf, Running, Turns
<1>13. ASSUME NEW r \in Sessions PROVE Collected(r)' = Collected(r)
  BY <1>1, <1>4 DEF Collected, TurnsOf, Turns
<1>14. CountedOnce'
  BY <1>3, <1>13, TotalsStay
<1> QED BY <1>6, <1>7, <1>8, <1>9, <1>11, <1>12, <1>14

LEMMA SubmitReturnsEffect ==
  ASSUME CInv, NEW t \in Turns, SubmitReturns(t)
  PROVE  /\ sess' \in [Sessions -> Session] /\ turn' \in [Turns -> TurnRecord]
         /\ turn[t].of \in Sessions /\ Made(turn[t].of) /\ Running(t) /\ ~turn[t].returned
         /\ \A r \in Sessions : sess'[r].at = sess[r].at /\ sess'[r].counted = sess[r].counted
                                /\ sess'[r].waits = sess[r].waits
         /\ \A r \in Sessions \ {turn[t].of} : sess'[r] = sess[r]
         /\ sess'[turn[t].of].policy = gate[turn[t].of] /\ sess'[turn[t].of].active = t
         /\ \A u \in Turns \ {t} : turn'[u] = turn[u]
         /\ turn'[t].at = turn[t].at /\ turn'[t].of = turn[t].of /\ turn'[t].cancelled = turn[t].cancelled
         /\ turn'[t].returned /\ turn'[t].result # "given" /\ turn[t].result # "given"
         /\ UNCHANGED <<client, dues, members, known, gate, refused>>
<1> USE DEF CInv
<1> DEFINE s == turn[t].of
<1>1. Running(t) /\ ~turn[t].returned /\ UNCHANGED <<client, dues, members, known, gate, refused>>
  BY DEF SubmitReturns
<1>2. s \in Sessions /\ Made(s) /\ turn[t].result # "given"
  BY <1>1 DEF TurnsAreOwned, Running, Over
<1>3. sess' = [sess EXCEPT ![s].active = t, ![s].policy = gate[s]] /\ gate[s] \in Policies
  BY <1>2 DEF SubmitReturns, TypeOK
<1>4. /\ sess' \in [Sessions -> Session]
      /\ \A r \in Sessions : sess'[r].at = sess[r].at /\ sess'[r].counted = sess[r].counted
                             /\ sess'[r].waits = sess[r].waits
      /\ \A r \in Sessions \ {s} : sess'[r] = sess[r]
      /\ sess'[s].policy = gate[s] /\ sess'[s].active = t
  BY <1>2, <1>3, Fields DEF TypeOK, Session
<1>5. PICK r \in {"unasked", "awaited"} : turn' = [turn EXCEPT ![t].returned = TRUE, ![t].result = r]
  BY <1>2, Fields DEF SubmitReturns, TurnRecord
<1>6. /\ turn' \in [Turns -> TurnRecord] /\ \A u \in Turns \ {t} : turn'[u] = turn[u]
      /\ turn'[t].at = turn[t].at /\ turn'[t].of = turn[t].of /\ turn'[t].cancelled = turn[t].cancelled
      /\ turn'[t].returned /\ turn'[t].result # "given"
  BY <1>5, Fields DEF TypeOK, TurnRecord
<1> QED BY <1>1, <1>2, <1>4, <1>6

LEMMA SubmitReturnsKeeps == ASSUME CInv, NEW t \in Turns, SubmitReturns(t) PROVE CInv'
<1> USE DEF CInv
<1>1. /\ sess' \in [Sessions -> Session] /\ turn' \in [Turns -> TurnRecord]
      /\ turn[t].of \in Sessions /\ Made(turn[t].of) /\ Running(t) /\ ~turn[t].returned
      /\ \A r \in Sessions : sess'[r].at = sess[r].at /\ sess'[r].counted = sess[r].counted
      /\ \A r \in Sessions \ {turn[t].of} : sess'[r] = sess[r]
      /\ sess'[turn[t].of].policy = gate[turn[t].of]
      /\ \A u \in Turns \ {t} : turn'[u] = turn[u]
      /\ turn'[t].at = turn[t].at /\ turn'[t].of = turn[t].of /\ turn'[t].cancelled = turn[t].cancelled
      /\ turn'[t].returned /\ turn'[t].result # "given" /\ turn[t].result # "given"
      /\ UNCHANGED <<client, dues, members, known, gate, refused>>
  BY SubmitReturnsEffect
<1>2. TypeOK' /\ OpenAreMembers'
  BY <1>1 DEF TypeOK, OpenAreMembers
<1>3. TurnsAreOwned'
  BY <1>1 DEF TurnsAreOwned, Over, Running, Made
<1>4. OneInFlight'
  BY <1>1 DEF OneInFlight, Running
<1>5. ASSUME NEW r \in Sessions, Made(r)', \A u \in Turns : Running(u)' /\ turn'[u].of = r => turn'[u].returned
      PROVE  sess'[r].policy = gate'[r]
  <2>1. CASE r = turn[t].of
    BY <2>1, <1>1
  <2>2. CASE r # turn[t].of
    <3>1. \A u \in Turns : Running(u) /\ turn[u].of = r => turn[u].returned
      BY <1>1, <1>5, <2>2 DEF Running
    <3> QED BY <1>1, <1>5, <2>2, <3>1 DEF PolicyIsTheGates, Made
  <2> QED BY <2>1, <2>2
<1>6. PolicyIsTheGates'
  BY <1>5 DEF PolicyIsTheGates, Turns
<1>7. ClosedMeansCancelled'
  BY <1>1 DEF ClosedMeansCancelled, InFlight, TurnsOf, Running, Turns
<1>8. ASSUME NEW r \in Sessions PROVE Collected(r)' = Collected(r)
  BY <1>1 DEF Collected, TurnsOf, Turns
<1>9. CountedOnce'
  BY <1>1, <1>8, TotalsStay
<1> QED BY <1>2, <1>3, <1>4, <1>6, <1>7, <1>9

LEMMA CollectEffect ==
  ASSUME CInv, NEW t \in Turns, Collect(t)
  PROVE  /\ turn[t].of \in Sessions /\ Over(t) /\ turn[t].result = "awaited"
         /\ turn' \in [Turns -> TurnRecord] /\ \A u \in Turns \ {t} : turn'[u] = turn[u]
         /\ turn'[t].at = turn[t].at /\ turn'[t].of = turn[t].of /\ turn'[t].cancelled = turn[t].cancelled
         /\ turn'[t].returned = turn[t].returned /\ turn'[t].result = "given"
         /\ sess' \in [Sessions -> Session]
         /\ \A r \in Sessions : sess'[r].at = sess[r].at /\ sess'[r].policy = sess[r].policy
                                /\ sess'[r].waits = sess[r].waits
         /\ \A r \in Sessions \ {turn[t].of} : sess'[r] = sess[r]
         /\ sess'[turn[t].of].active \in {Nobody, sess[turn[t].of].active}
         /\ sess'[turn[t].of].counted = sess[turn[t].of].counted + (IF turn[t].at = "ended" THEN 1 ELSE 0)
         /\ UNCHANGED <<client, dues, members, known, gate, refused>>
<1> USE DEF CInv
<1> DEFINE s == turn[t].of
<1>1. Over(t) /\ turn[t].result = "awaited" /\ UNCHANGED <<client, dues, members, known, gate, refused>>
  BY DEF Collect
<1>2. s \in Sessions
  BY <1>1 DEF TurnsAreOwned, Over
<1>3. turn' = [turn EXCEPT ![t].result = "given"]
  BY DEF Collect
<1>4. /\ turn' \in [Turns -> TurnRecord] /\ \A u \in Turns \ {t} : turn'[u] = turn[u]
      /\ turn'[t].at = turn[t].at /\ turn'[t].of = turn[t].of /\ turn'[t].cancelled = turn[t].cancelled
      /\ turn'[t].returned = turn[t].returned /\ turn'[t].result = "given"
  BY <1>3, Fields DEF TypeOK, TurnRecord
<1>5. /\ sess' \in [Sessions -> Session]
      /\ \A r \in Sessions : sess'[r].at = sess[r].at /\ sess'[r].policy = sess[r].policy
                             /\ sess'[r].waits = sess[r].waits
      /\ \A r \in Sessions \ {s} : sess'[r] = sess[r]
      /\ sess'[s].active \in {Nobody, sess[s].active}
      /\ sess'[s].counted = sess[s].counted + (IF turn[t].at = "ended" THEN 1 ELSE 0)
  <2>1. sess[s] \in Session /\ sess[s].counted \in Nat /\ sess \in [Sessions -> Session]
    BY <1>2, Fields DEF TypeOK
  <2>2. CASE turn[t].at = "ended"
    <3>1. sess' = [sess EXCEPT ![s].active = Nobody, ![s].counted = sess[s].counted + 1]
      BY <2>2 DEF Collect
    <3> QED BY <1>2, <2>1, <2>2, <3>1, Fields DEF Session
  <2>3. CASE turn[t].at # "ended"
    <3>1. sess' = sess
      BY <2>3 DEF Collect
    <3> QED BY <1>2, <2>1, <2>3, <3>1
  <2> QED BY <2>2, <2>3
<1> QED BY <1>1, <1>2, <1>4, <1>5

LEMMA CollectKeeps == ASSUME ClientAssumption, CInv, NEW t \in Turns, Collect(t) PROVE CInv'
<1> USE DEF CInv
<1> DEFINE s == turn[t].of
<1>1. /\ s \in Sessions /\ Over(t) /\ turn[t].result = "awaited"
      /\ turn' \in [Turns -> TurnRecord] /\ \A u \in Turns \ {t} : turn'[u] = turn[u]
      /\ turn'[t].at = turn[t].at /\ turn'[t].of = turn[t].of /\ turn'[t].cancelled = turn[t].cancelled
      /\ turn'[t].returned = turn[t].returned /\ turn'[t].result = "given"
      /\ sess' \in [Sessions -> Session]
      /\ \A r \in Sessions : sess'[r].at = sess[r].at /\ sess'[r].policy = sess[r].policy
      /\ \A r \in Sessions \ {s} : sess'[r] = sess[r]
      /\ sess'[s].counted = sess[s].counted + (IF turn[t].at = "ended" THEN 1 ELSE 0)
      /\ UNCHANGED <<client, dues, members, known, gate, refused>>
  BY CollectEffect
<1>2. TypeOK' /\ OpenAreMembers'
  BY <1>1 DEF TypeOK, OpenAreMembers
<1>3. TurnsAreOwned'
  BY <1>1 DEF TurnsAreOwned, Over, Made
<1>4. OneInFlight'
  BY <1>1 DEF OneInFlight, Running
<1>5. PolicyIsTheGates'
  <2> SUFFICES ASSUME NEW r \in Sessions, Made(r)',
                      \A u \in Turns : Running(u)' /\ turn'[u].of = r => turn'[u].returned
               PROVE  sess'[r].policy = gate'[r]
    BY DEF PolicyIsTheGates, Turns
  <2>1. \A u \in Turns : Running(u) /\ turn[u].of = r => turn[u].returned
    BY <1>1 DEF Running
  <2> QED BY <1>1, <2>1 DEF PolicyIsTheGates, Made
<1>6. ClosedMeansCancelled'
  BY <1>1 DEF ClosedMeansCancelled, InFlight, TurnsOf, Running, Turns
<1>7. ASSUME NEW r \in Sessions PROVE sess'[r].counted = Cardinality(Collected(r)')
  <2>1. sess[r].counted = Cardinality(Collected(r)) /\ IsFiniteSet(Collected(r)) /\ sess[r].counted \in Nat
    BY TurnsAreFinite, Fields DEF CountedOnce, Collected
  <2>2. CASE r = s /\ turn[t].at = "ended"
    <3>1. Collected(r)' = Collected(r) \cup {t} /\ t \notin Collected(r)
      BY <1>1, <2>2 DEF Collected, TurnsOf, Turns
    <3>2. Cardinality(Collected(r) \cup {t}) = Cardinality(Collected(r)) + 1
      BY <2>1, <3>1, FS_AddElement
    <3> QED BY <1>1, <2>1, <2>2, <3>1, <3>2
  <2>3. CASE ~(r = s /\ turn[t].at = "ended")
    <3>1. Collected(r)' = Collected(r)
      BY <1>1, <2>3 DEF Collected, TurnsOf, Turns
    <3>2. sess'[r].counted = sess[r].counted
      BY <1>1, <2>1, <2>3
    <3> QED BY <2>1, <3>1, <3>2
  <2> QED BY <2>2, <2>3
<1>8. CountedOnce'
  BY <1>7 DEF CountedOnce, Collected
<1> QED BY <1>2, <1>3, <1>4, <1>5, <1>6, <1>8

LEMMA CInvStep == ASSUME ClientAssumption, CInv, [Next]_vars PROVE CInv'
<1>1. CASE UNCHANGED vars
  <2>1. UNCHANGED <<client, dues, sess, members, known, gate, turn, refused>>
    BY <1>1 DEF vars
  <2>2. (TypeOK /\ OpenAreMembers)' /\ \A t \in Turns : GoesOn(t)
    BY <2>1, SameTurn DEF CInv, TypeOK, OpenAreMembers
  <2> QED BY <2>1, <2>2, TurnsGoOn DEF Made
<1> QED
  BY <1>1, CreateStartsKeeps, CloseKeeps, SubmitStartsKeeps, CreateEndsKeeps, CloseWaitedKeeps, CloseEndsKeeps,
     HandlesKeep, SubmitReturnsKeeps, CollectKeeps, DisposeKeeps, DisposeEndsKeeps
     DEF Next, SessionStep, TurnStep

LEMMA CInvInit == ASSUME Init PROVE CInv
<1>1. /\ sess = [s \in Sessions |-> [at |-> "none", active |-> Nobody, waits |-> Nobody,
                                      policy |-> "asks", counted |-> 0]]
      /\ turn = [t \in Turns |-> [at |-> "unused", of |-> Nobody, cancelled |-> FALSE,
                                   returned |-> FALSE, result |-> "unasked"]]
  BY DEF Init
<1>2. TypeOK
  BY <1>1 DEF Init, TypeOK, Session, TurnRecord, Policies
<1>3. TurnsAreOwned /\ OneInFlight /\ OpenAreMembers /\ PolicyIsTheGates /\ ClosedMeansCancelled
  BY <1>1 DEF TurnsAreOwned, OneInFlight, OpenAreMembers, PolicyIsTheGates, ClosedMeansCancelled, Running, Made
<1>4. \A s \in Sessions : Collected(s) = {} /\ sess[s].counted = 0
  BY <1>1 DEF Collected, TurnsOf
<1>5. CountedOnce
  BY <1>4, FS_EmptySet DEF CountedOnce, Collected
<1> QED BY <1>2, <1>3, <1>5 DEF CInv

LEMMA CInvMeans == ASSUME CInv PROVE TypeOK /\ ClosedMeansCancelled /\ CountedOnce
BY DEF CInv

LEMMA AlwaysCInv == ASSUME ClientAssumption PROVE Spec => []CInv
BY CInvInit, CInvStep, PTL DEF Spec

-----------------------------------------------------------------------------
(* The theorems.                                                            *)

(* A session the engine no longer knows has no turn that runs on            *)
(* uncancelled, and its totals hold every turn that ended and was collected *)
(* exactly once, whatever the embedder closes twice, disposes of early or   *)
(* never asks for (client.ts close, dispose, onSettled).                    *)
THEOREM ClosedAndCountedOnce ==
  ASSUME ClientAssumption
  PROVE  Spec => [](TypeOK /\ ClosedMeansCancelled /\ CountedOnce)
BY CInvMeans, AlwaysCInv, PTL

LEMMA RefusalStep ==
  ASSUME CInv, Next, client # "disposed", NEW t \in refused' \ refused
  PROVE  sess[turn[t].of].at # "open"
<1> USE DEF CInv
<1> SUFFICES ASSUME sess[turn[t].of].at = "open" PROVE FALSE
  OBVIOUS
<1>1. Asks(t) /\ t \in Turns /\ ~promptingIsPossible
  <2>1. refused' # refused
    OBVIOUS
  <2>2. PICK u \in Turns : Asks(u)
    BY <2>1 DEF Next, SessionStep, TurnStep, CreateStarts, Close, SubmitStarts, CreateEnds, CloseWaited,
       CloseEnds, Result, HandleCancel, Answered, SubmitReturns, TurnEnds, Collect, Dispose, DisposeEnds
  <2>3. ~promptingIsPossible /\ refused' = refused \cup {u}
    BY <2>1, <2>2 DEF Asks
  <2> QED BY <2>2, <2>3
<1>2. Running(t) /\ turn[t].returned /\ gate[turn[t].of] = "asks"
  BY <1>1 DEF Asks, Running
<1>3. turn[t].of \in Sessions /\ Made(turn[t].of) /\ turn[t].of \in members
  BY <1>1, <1>2 DEF TurnsAreOwned, OpenAreMembers, Running
<1>4. sess[turn[t].of].policy = "asks"
  BY <1>1, <1>2, <1>3 DEF OneInFlight, PolicyIsTheGates
<1> QED BY <1>1, <1>3, <1>4 DEF promptingIsPossible

(* While its session and its client are open the router never refuses, in   *)
(* the handler's place, a turn that the engine's policy lets ask, however   *)
(* submits override it: the accessors it goes by are of the policy in force *)
(* (client.ts promptingIsPossible, session.ts submit).                      *)
THEOREM NobodyIsRefusedFalsely == ASSUME ClientAssumption PROVE Spec => NoFalseRefusal
<1>1. ASSUME CInv, [Next]_vars
      PROVE  [client # "disposed" => \A t \in refused' \ refused : sess[turn[t].of].at # "open"]_vars
  BY <1>1, RefusalStep
<1> QED BY <1>1, AlwaysCInv, PTL DEF Spec, NoFalseRefusal

-----------------------------------------------------------------------------
(* An embedder without habits.  It awaits every run, so of the turns of a   *)
(* session one at most has a result to come, the active one once submit has *)
(* returned; so a close waits for the right one.                            *)

Due(t) == turn[t].at # "unused" /\ turn[t].result # "given"
Owed(s) == {t \in TurnsOf(s) : Due(t)}

ActiveIsDue ==
  \A t \in Turns : /\ Due(t) /\ turn[t].returned => sess[turn[t].of].active = t
                   /\ Over(t) => turn[t].returned

OthersAreGiven ==
  \A t, u \in Turns :
    Due(t) /\ u # t /\ turn[u].at # "unused" /\ turn[u].of = turn[t].of => turn[u].result = "given"

CloseKnowsIt ==
  \A t \in Turns : Due(t) =>
    /\ sess[turn[t].of].at = "closing" => turn[t].returned /\ sess[turn[t].of].waits = t
    /\ sess[turn[t].of].at \notin {"deleting", "closed"}

DisposeHasAll ==
  /\ client # "live" => \A s \in Sessions :
       \/ sess[s].at \in {"none", "closed"}
       \/ s \in dues /\ sess[s].at \in {"closing", "deleting"}
  /\ client = "disposed" => \A s \in Sessions : sess[s].at \in {"none", "closed"}

DInv == CInv /\ ActiveIsDue /\ OthersAreGiven /\ CloseKnowsIt /\ DisposeHasAll

LEMMA RunningIsDue == ASSUME CInv, NEW t \in Turns, Running(t) PROVE Due(t) /\ turn[t].of \in Sessions
BY DEF CInv, TurnsAreOwned, Running, Over, Due

(* A step that starts, returns and collects no turn.                        *)
LEMMA CarefulGoesOn ==
  ASSUME DInv, CInv', \A t \in Turns : GoesOn(t), DisposeHasAll',
         \A s \in Sessions :
           /\ sess'[s].active = sess[s].active
           /\ \/ sess'[s].at \in {sess[s].at, "open"} /\ sess'[s].waits = sess[s].waits
              \/ sess'[s].at = "closing" /\ sess'[s].waits = sess[s].active
                 /\ \A t \in Owed(s) : turn[t].returned
              \/ sess'[s].at \in {"creating", "deleting", "closed"} /\ Owed(s) = {}
  PROVE  DInv'
<1>1. ASSUME NEW t \in Turns, Due(t)'
      PROVE  Due(t) /\ turn'[t].of = turn[t].of /\ turn'[t].returned = turn[t].returned
             /\ turn[t].of \in Sessions /\ t \in Owed(turn[t].of)
  BY <1>1 DEF GoesOn, DInv, CInv, TurnsAreOwned, Owed, TurnsOf, Due
<1>2. ActiveIsDue'
  <2>1. ASSUME NEW t \in Turns, Over(t)' PROVE turn'[t].returned
    <3>1. turn[t] \in TurnRecord
      BY DEF DInv, CInv, TypeOK
    <3>2. turn[t].at \in {"unused", "running", "asking", "ended", "failed"}
      BY <3>1 DEF TurnRecord
    <3>3. GoesOn(t) /\ (Over(t) => turn[t].returned)
      BY DEF DInv, ActiveIsDue
    <3>4. CASE Over(t)
      BY <3>3, <3>4 DEF GoesOn
    <3>5. CASE Running(t)
      <4>1. ~Running(t)'
        BY <2>1 DEF Over, Running
      <4> QED BY <3>3, <3>5, <4>1 DEF GoesOn
    <3>6. turn[t].at # "unused"
      BY <2>1, <3>3 DEF GoesOn, Over
    <3> QED BY <3>2, <3>4, <3>5, <3>6 DEF Over, Running
  <2> QED BY <1>1, <2>1 DEF DInv, ActiveIsDue, Turns
<1>3. OthersAreGiven'
  BY <1>1 DEF DInv, OthersAreGiven, GoesOn, Turns
<1>4. CloseKnowsIt'
  <2> SUFFICES ASSUME NEW t \in Turns, Due(t)'
               PROVE  /\ sess'[turn'[t].of].at = "closing" => turn'[t].returned /\ sess'[turn'[t].of].waits = t
                      /\ sess'[turn'[t].of].at \notin {"deleting", "closed"}
    BY DEF CloseKnowsIt, Turns
  <2> DEFINE s == turn[t].of
  <2>1. Due(t) /\ turn'[t].of = s /\ turn'[t].returned = turn[t].returned /\ s \in Sessions /\ t \in Owed(s)
    BY <1>1
  <2>2. /\ sess[s].at = "closing" => turn[t].returned /\ sess[s].waits = t
        /\ sess[s].at \notin {"deleting", "closed"}
        /\ turn[t].returned => sess[s].active = t
    BY <2>1 DEF DInv, CloseKnowsIt, ActiveIsDue
  <2> HIDE DEF s
  <2> QED BY <2>1, <2>2
<1> QED BY <1>2, <1>3, <1>4 DEF DInv

LEMMA CarefulSessions ==
  ASSUME Consumer = {}, DInv, NEW s \in Sessions, CreateStarts(s) \/ CreateEnds(s) \/ CloseEnds(s)
  PROVE  DInv'
<1>1. CInv'
  BY CreateStartsKeeps, CreateEndsKeeps, CloseEndsKeeps DEF DInv
<1>2. /\ UNCHANGED <<client, dues, turn>> /\ \A r \in Sessions : sess'[r].active = sess[r].active
      /\ \A r \in Sessions \ {s} : sess'[r] = sess[r]
      /\ \/ sess[s].at = "none" /\ sess'[s].at = "creating" /\ client = "live"
         \/ sess[s].at = "creating" /\ sess'[s].at = "open" /\ sess'[s].waits = sess[s].waits
         \/ sess[s].at = "deleting" /\ sess'[s].at = "closed"
  <2>1. sess \in [Sessions -> Session] /\ sess[s] \in Session
    BY DEF DInv, CInv, TypeOK
  <2>2. CASE CreateStarts(s)
    BY <2>1, <2>2 DEF CreateStarts, Session
  <2>3. CASE CreateEnds(s)
    <3>1. PICK p \in Policies : sess' = [sess EXCEPT ![s].at = "open", ![s].policy = p]
      BY <2>3 DEF CreateEnds
    <3> QED BY <2>1, <2>3, <3>1 DEF CreateEnds, Session
  <2>4. CASE CloseEnds(s)
    BY <2>1, <2>4 DEF CloseEnds, Session
  <2> QED BY <2>2, <2>3, <2>4
<1>3. sess[s].at \in {"none", "deleting"} => Owed(s) = {}
  BY DEF DInv, CInv, TurnsAreOwned, CloseKnowsIt, Owed, TurnsOf, Due, Made
<1>4. DisposeHasAll'
  BY <1>2 DEF DInv, DisposeHasAll
<1>5. \A t \in Turns : GoesOn(t)
  BY <1>2, SameTurn
<1> QED BY <1>1, <1>2, <1>3, <1>4, <1>5, CarefulGoesOn

LEMMA CarefulCloseWaited == ASSUME Consumer = {}, DInv, NEW s \in Sessions, CloseWaited(s) PROVE DInv'
<1>1. /\ CInv' /\ (\A t \in Turns : GoesOn(t)) /\ sess'[s].at = "deleting"
      /\ \A r \in Sessions : sess'[r].active = sess[r].active /\ (r # s => sess'[r] = sess[r])
  BY CloseWaitedKeeps DEF DInv
<1>2. sess[s].at = "closing" /\ UNCHANGED <<client, dues>>
      /\ (sess[s].waits # Nobody => turn[sess[s].waits].result = "given")
  BY DEF CloseWaited
<1>3. ASSUME NEW t \in Owed(s) PROVE FALSE
  <2>1. t \in Turns /\ Due(t) /\ turn[t].of = s /\ t # Nobody
    BY DEF Owed, TurnsOf, Turns, Nobody
  <2>2. sess[s].waits = t
    BY <1>2, <2>1 DEF DInv, CloseKnowsIt
  <2> QED BY <1>2, <2>1, <2>2 DEF Due
<1>4. DisposeHasAll'
  BY <1>1, <1>2 DEF DInv, DisposeHasAll
<1> QED BY <1>1, <1>2, <1>3, <1>4, CarefulGoesOn

LEMMA CarefulCloses ==
  ASSUME Consumer = {}, DInv, CInv', NEW S \in SUBSET Sessions, \A s \in S : sess[s].at = "open" /\ ~Submitting(s),
         sess' = Closing(S), turn' = CancelActive(S, turn), DisposeHasAll'
  PROVE  DInv'
<1>1. \A t \in Turns : GoesOn(t)
  BY CancelActiveGoesOn DEF DInv
<1>2. \A s \in Sessions : /\ sess'[s].active = sess[s].active
                          /\ s \in S => sess'[s].at = "closing" /\ sess'[s].waits = sess[s].active
                          /\ s \notin S => sess'[s] = sess[s]
  BY ClosingKeeps DEF DInv
<1>3. \A s \in S : \A t \in Owed(s) : turn[t].returned
  <2> SUFFICES ASSUME NEW s \in S, NEW t \in Owed(s), ~turn[t].returned PROVE FALSE
    OBVIOUS
  <2>1. t \in Turns /\ turn[t] \in TurnRecord /\ turn[t].of = s /\ turn[t].at # "unused" /\ ~Over(t)
    BY Fields DEF Owed, TurnsOf, Due, DInv, CInv, ActiveIsDue
  <2>2. t \in InFlight(s)
    BY <2>1 DEF InFlight, TurnsOf, Running, Over, TurnRecord
  <2> QED BY <2>2 DEF Submitting
<1> QED BY <1>1, <1>2, <1>3, CarefulGoesOn

LEMMA CarefulClose == ASSUME Consumer = {}, DInv, NEW s \in Sessions, Close(s) PROVE DInv'
<1>1. /\ sess[s].at = "open" /\ sess' = Closing({s}) /\ turn' = CancelActive({s}, turn) /\ ~Submitting(s)
      /\ UNCHANGED <<client, dues>>
  BY DEF Close
<1>2. client = "live"
  BY <1>1 DEF DInv, DisposeHasAll
<1>3. CInv' /\ DisposeHasAll'
  BY <1>1, <1>2, CloseKeeps DEF DInv, DisposeHasAll
<1>4. {s} \in SUBSET Sessions /\ \A r \in {s} : sess[r].at = "open" /\ ~Submitting(r)
  BY <1>1
<1> QED BY <1>1, <1>3, <1>4, CarefulCloses

LEMMA CarefulDispose == ASSUME Consumer = {}, DInv, Dispose PROVE DInv'
<1> DEFINE open == {s \in members : sess[s].at = "open"}
<1>1. /\ client = "live" /\ client' = "disposing" /\ dues' = open
      /\ sess' = Closing(open) /\ turn' = CancelActive(open, turn)
      /\ \A s \in members : sess[s].at \notin {"closing", "deleting"}
      /\ \A s \in Sessions : sess[s].at # "creating"
      /\ \A s \in open : ~Submitting(s)
  BY DEF Dispose
<1>2. open \in SUBSET Sessions /\ \A s \in open : sess[s].at = "open" /\ ~Submitting(s)
  BY <1>1 DEF DInv, CInv, TypeOK
<1>3. \A s \in Sessions : sess[s] \in Session /\ (sess[s].at \in {"open", "closing", "deleting"} => s \in members)
  BY <1>1, Fields DEF DInv, CInv, OpenAreMembers
<1>4. \A s \in Sessions : /\ s \in open => sess'[s].at = "closing"
                          /\ s \notin open => sess'[s] = sess[s]
  BY <1>1, <1>2, ClosingKeeps DEF DInv
<1>5. ASSUME NEW s \in Sessions, s \notin open PROVE sess[s].at \in {"none", "closed"}
  BY <1>1, <1>3, <1>5 DEF Session
<1>6. DisposeHasAll'
  BY <1>1, <1>4, <1>5 DEF DisposeHasAll
<1>7. CInv'
  BY DisposeKeeps DEF DInv
<1> HIDE DEF open
<1> QED BY <1>1, <1>2, <1>6, <1>7, CarefulCloses

LEMMA CarefulDisposeEnds == ASSUME Consumer = {}, DInv, DisposeEnds PROVE DInv'
<1>1. /\ client = "disposing" /\ client' = "disposed" /\ UNCHANGED <<dues, sess, turn>>
      /\ \A s \in dues : sess[s].at = "closed"
  BY DEF DisposeEnds
<1>2. CInv'
  BY DisposeEndsKeeps DEF DInv
<1>3. DisposeHasAll'
  BY <1>1 DEF DInv, DisposeHasAll
<1>4. \A t \in Turns : GoesOn(t)
  BY <1>1, SameTurn
<1> QED BY <1>1, <1>2, <1>3, <1>4, CarefulGoesOn

LEMMA CarefulHandles ==
  ASSUME Consumer = {}, DInv, NEW t \in Turns, Result(t) \/ HandleCancel(t) \/ Asks(t) \/ Answered(t) \/ TurnEnds(t)
  PROVE  DInv'
<1>1. /\ CInv' /\ GoesOn(t) /\ (\A u \in Turns \ {t} : turn'[u] = turn[u])
      /\ UNCHANGED <<client, dues, sess>>
  BY HandlesKeep DEF DInv
<1>2. \A u \in Turns : GoesOn(u)
  BY <1>1, SameTurn
<1>3. DisposeHasAll'
  BY <1>1 DEF DInv, DisposeHasAll
<1> QED BY <1>1, <1>2, <1>3, CarefulGoesOn

LEMMA CarefulSubmitStarts ==
  ASSUME ClientAssumption, Consumer = {}, DInv, NEW s \in Sessions, SubmitStarts(s) PROVE DInv'
<1>1. PICK t \in Turns : turn[t].at = "unused" /\ turn' = [turn EXCEPT ![t].at = "running", ![t].of = s]
  BY DEF SubmitStarts
<1>2. /\ sess[s].at = "open" /\ InFlight(s) = {} /\ UNCHANGED <<client, dues, sess>>
      /\ \A u \in TurnsOf(s) : turn[u].result = "given"
  BY DEF SubmitStarts
<1>3. /\ \A u \in Turns \ {t} : turn'[u] = turn[u]
      /\ turn'[t].at = "running" /\ turn'[t].of = s /\ turn'[t].returned = turn[t].returned
      /\ ~turn[t].returned
  BY <1>1, Fields DEF DInv, CInv, TypeOK, TurnRecord, TurnsAreOwned
<1>4. CInv'
  BY SubmitStartsKeeps DEF DInv
<1>5. ActiveIsDue'
  BY <1>2, <1>3 DEF DInv, ActiveIsDue, Due, Over, Turns
<1>6. OthersAreGiven'
  <2> SUFFICES ASSUME NEW u \in Turns, NEW v \in Turns, Due(u)', v # u, turn'[v].at # "unused",
                      turn'[v].of = turn'[u].of
               PROVE  turn'[v].result = "given"
    BY DEF OthersAreGiven, Turns
  <2>1. CASE u = t
    BY <2>1, <1>2, <1>3 DEF TurnsOf
  <2>2. CASE u # t /\ v = t
    BY <2>2, <1>2, <1>3 DEF Due, TurnsOf
  <2>3. CASE u # t /\ v # t
    BY <2>3, <1>3 DEF DInv, OthersAreGiven, Due
  <2> QED BY <2>1, <2>2, <2>3
<1>7. CloseKnowsIt'
  BY <1>2, <1>3 DEF DInv, CloseKnowsIt, Due, Turns
<1>8. DisposeHasAll'
  BY <1>2 DEF DInv, DisposeHasAll
<1> QED BY <1>4, <1>5, <1>6, <1>7, <1>8 DEF DInv

LEMMA CarefulSubmitReturns == ASSUME Consumer = {}, DInv, NEW t \in Turns, SubmitReturns(t) PROVE DInv'
<1>1. /\ Running(t) /\ ~turn[t].returned /\ turn[t].of \in Sessions
      /\ \A r \in Sessions : sess'[r].at = sess[r].at /\ sess'[r].waits = sess[r].waits
      /\ \A r \in Sessions \ {turn[t].of} : sess'[r] = sess[r]
      /\ sess'[turn[t].of].active = t
      /\ \A u \in Turns \ {t} : turn'[u] = turn[u]
      /\ turn'[t].at = turn[t].at /\ turn'[t].of = turn[t].of
      /\ UNCHANGED <<client, dues>>
  BY SubmitReturnsEffect DEF DInv
<1>2. CInv'
  BY SubmitReturnsKeeps DEF DInv
<1>3. Due(t)
  BY <1>1, RunningIsDue DEF DInv
<1>4. ASSUME NEW u \in Turns \ {t}, Due(u)'
      PROVE  Due(u) /\ turn'[u] = turn[u] /\ turn[u].of \in Sessions /\ turn[u].of # turn[t].of
  BY <1>1, <1>3, <1>4 DEF DInv, CInv, TurnsAreOwned, OthersAreGiven, Due
<1>5. ActiveIsDue'
  <2>1. ASSUME NEW u \in Turns, Over(u)' PROVE turn'[u].returned
    BY <1>1, <2>1 DEF DInv, ActiveIsDue, Over, Running
  <2> QED BY <1>1, <1>4, <2>1 DEF DInv, ActiveIsDue, Turns
<1>6. OthersAreGiven'
  <2> SUFFICES ASSUME NEW u \in Turns, NEW v \in Turns, Due(u)', v # u, turn'[v].at # "unused",
                      turn'[v].of = turn'[u].of
               PROVE  turn'[v].result = "given"
    BY DEF OthersAreGiven, Turns
  <2>1. CASE u = t
    BY <2>1, <1>1, <1>3 DEF DInv, OthersAreGiven
  <2>2. CASE u # t
    BY <2>2, <1>1, <1>4 DEF DInv, OthersAreGiven
  <2> QED BY <2>1, <2>2
<1>7. sess[turn[t].of].at \notin {"closing", "deleting", "closed"}
  BY <1>1, <1>3 DEF DInv, CloseKnowsIt
<1>8. CloseKnowsIt'
  BY <1>1, <1>4, <1>7 DEF DInv, CloseKnowsIt, Turns
<1>9. DisposeHasAll'
  BY <1>1 DEF DInv, DisposeHasAll
<1> QED BY <1>2, <1>5, <1>6, <1>8, <1>9 DEF DInv

LEMMA CarefulCollect == ASSUME ClientAssumption, Consumer = {}, DInv, NEW t \in Turns, Collect(t) PROVE DInv'
<1>1. /\ Over(t) /\ turn[t].result = "awaited" /\ turn[t].of \in Sessions
      /\ \A r \in Sessions : sess'[r].at = sess[r].at /\ sess'[r].waits = sess[r].waits
      /\ \A r \in Sessions \ {turn[t].of} : sess'[r] = sess[r]
      /\ \A u \in Turns \ {t} : turn'[u] = turn[u]
      /\ turn'[t].at = turn[t].at /\ turn'[t].of = turn[t].of /\ turn'[t].result = "given"
      /\ turn'[t].returned = turn[t].returned /\ UNCHANGED <<client, dues>>
  BY CollectEffect DEF DInv
<1>2. CInv'
  BY CollectKeeps DEF DInv
<1>3. ASSUME NEW u \in Turns, Due(u)'
      PROVE  u # t /\ Due(u) /\ turn'[u] = turn[u] /\ turn[u].of \in Sessions /\ turn[u].of # turn[t].of
  BY <1>1, <1>3 DEF Due, Over, DInv, CInv, TurnsAreOwned, OthersAreGiven
<1>4. ActiveIsDue' /\ CloseKnowsIt'
  <2>1. ASSUME NEW u \in Turns, Over(u)' PROVE turn'[u].returned
    BY <1>1, <2>1 DEF DInv, ActiveIsDue, Over
  <2>2. ActiveIsDue'
    BY <1>1, <1>3, <2>1 DEF DInv, ActiveIsDue, Turns
  <2>3. CloseKnowsIt'
    BY <1>1, <1>3 DEF DInv, CloseKnowsIt, Turns
  <2> QED BY <2>2, <2>3
<1>5. OthersAreGiven'
  <2> SUFFICES ASSUME NEW u \in Turns, NEW v \in Turns, Due(u)', v # u, turn'[v].at # "unused",
                      turn'[v].of = turn'[u].of
               PROVE  turn'[v].result = "given"
    BY DEF OthersAreGiven, Turns
  <2> QED BY <1>1, <1>3 DEF DInv, OthersAreGiven
<1>6. DisposeHasAll'
  BY <1>1 DEF DInv, DisposeHasAll
<1> QED BY <1>2, <1>4, <1>5, <1>6 DEF DInv

LEMMA DInvStep == ASSUME ClientAssumption, Consumer = {}, DInv, [Next]_vars PROVE DInv'
<1>1. CASE UNCHANGED vars
  <2>1. UNCHANGED <<client, dues, sess, members, known, gate, turn, refused>>
    BY <1>1 DEF vars
  <2>2. CInv' /\ DisposeHasAll' /\ \A t \in Turns : GoesOn(t)
    BY <1>1, <2>1, CInvStep, SameTurn DEF DInv, DisposeHasAll
  <2> QED BY <2>1, <2>2, CarefulGoesOn
<1> QED
  BY <1>1, CarefulSessions, CarefulCloseWaited, CarefulClose, CarefulDispose, CarefulDisposeEnds, CarefulHandles,
     CarefulSubmitStarts, CarefulSubmitReturns, CarefulCollect DEF Next, SessionStep, TurnStep

(* The engine knows the sessions that are open or wait for their turn.      *)
KnownAreOpen == \A s \in Sessions : s \in known <=> sess[s].at \in {"open", "closing"}

LEMMA KnownStep == ASSUME CInv, KnownAreOpen, [Next]_vars PROVE KnownAreOpen'
<1>1. sess \in [Sessions -> Session] /\ \A s \in Sessions : sess[s] \in Session
  BY DEF CInv, TypeOK
<1>2. ASSUME NEW s \in Sessions, CreateStarts(s) PROVE KnownAreOpen'
  BY <1>1, <1>2 DEF CreateStarts, KnownAreOpen, Session
<1>3. ASSUME NEW s \in Sessions, CreateEnds(s) PROVE KnownAreOpen'
  <2>1. PICK p \in Policies : sess' = [sess EXCEPT ![s].at = "open", ![s].policy = p]
    BY <1>3 DEF CreateEnds
  <2> QED BY <1>1, <1>3, <2>1 DEF CreateEnds, KnownAreOpen, Session
<1>4. ASSUME NEW s \in Sessions, CloseWaited(s) PROVE KnownAreOpen'
  BY <1>1, <1>4 DEF CloseWaited, KnownAreOpen, Session
<1>5. ASSUME NEW s \in Sessions, CloseEnds(s) PROVE KnownAreOpen'
  BY <1>1, <1>5 DEF CloseEnds, KnownAreOpen, Session
<1>6. ASSUME NEW S \in SUBSET Sessions, \A s \in S : sess[s].at = "open", sess' = Closing(S), known' = known
      PROVE  KnownAreOpen'
  BY <1>6, ClosingKeeps DEF KnownAreOpen
<1>7. ASSUME NEW s \in Sessions, Close(s) PROVE KnownAreOpen'
  <2>1. {s} \in SUBSET Sessions /\ (\A r \in {s} : sess[r].at = "open") /\ sess' = Closing({s}) /\ known' = known
    BY <1>7 DEF Close
  <2> QED BY <1>6, <2>1
<1>8. CASE Dispose
  <2>1. {s \in members : sess[s].at = "open"} \in SUBSET Sessions
    BY DEF CInv, TypeOK
  <2> QED BY <1>6, <1>8, <2>1 DEF Dispose
<1>9. ASSUME NEW t \in Turns, SubmitReturns(t) PROVE KnownAreOpen'
  <2>1. \A r \in Sessions : sess'[r].at = sess[r].at
    BY <1>9, SubmitReturnsEffect
  <2> QED BY <1>9, <2>1 DEF SubmitReturns, KnownAreOpen
<1>10. ASSUME NEW t \in Turns, Collect(t) PROVE KnownAreOpen'
  <2>1. \A r \in Sessions : sess'[r].at = sess[r].at
    BY <1>10, CollectEffect
  <2> QED BY <1>10, <2>1 DEF Collect, KnownAreOpen
<1>11. CASE UNCHANGED <<sess, known>>
  BY <1>11 DEF KnownAreOpen
<1> QED
  BY <1>2, <1>3, <1>4, <1>5, <1>7, <1>8, <1>9, <1>10, <1>11
     DEF Next, SessionStep, TurnStep, SubmitStarts, Result, HandleCancel, Asks, Answered, TurnEnds, DisposeEnds, vars

LEMMA DInvInit == ASSUME Init PROVE DInv /\ KnownAreOpen
<1>1. CInv
  BY CInvInit
<1> QED BY <1>1 DEF Init, DInv, ActiveIsDue, OthersAreGiven, CloseKnowsIt, DisposeHasAll, KnownAreOpen, Due, Over

LEMMA DInvMeans == ASSUME DInv PROVE CloseWaits /\ DisposeWaits
<1>1. CloseWaits
  BY RunningIsDue DEF DInv, CloseKnowsIt, CloseWaits, InFlight, TurnsOf
<1>2. DisposeWaits
  BY RunningIsDue DEF DInv, CInv, TurnsAreOwned, CloseKnowsIt, DisposeHasAll, DisposeWaits, Made, Due
<1> QED BY <1>1, <1>2

(* To an embedder that awaits every run and closes nothing twice, close and *)
(* dispose keep what is written of them: a session that is closed has no    *)
(* turn running, the usage close returns holds every turn that ended, and   *)
(* when dispose has returned no turn is running and the engine knows no     *)
(* session any more (client.ts close, dispose, usage).                      *)
THEOREM ClosesWait ==
  ASSUME ClientAssumption, Consumer = {}
  PROVE  Spec => /\ [](CloseWaits /\ DisposeWaits /\ NothingOutlivesDispose)
                 /\ UsageIsWhole
<1>1. DInv /\ KnownAreOpen => NothingOutlivesDispose
  BY DEF DInv, CInv, TypeOK, DisposeHasAll, KnownAreOpen, NothingOutlivesDispose
<1>2. DInv /\ [Next]_vars =>
        [\A s \in Sessions : sess[s].at = "deleting" /\ sess'[s].at = "closed" =>
           \A t \in TurnsOf(s) : turn[t].at = "ended" => turn[t].result = "given"]_vars
  BY DEF DInv, CloseKnowsIt, Due, TurnsOf
<1>3. DInv /\ KnownAreOpen /\ [Next]_vars => DInv' /\ KnownAreOpen'
  BY DInvStep, KnownStep DEF DInv
<1> QED BY <1>1, <1>2, <1>3, DInvInit, DInvMeans, PTL DEF Spec, UsageIsWhole

=============================================================================
