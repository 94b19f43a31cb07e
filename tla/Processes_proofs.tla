---------------------------- MODULE Processes_proofs ----------------------------
(***************************************************************************)
(* Proofs of MCProcesses' safety properties, for every number of chunks,    *)
(* every cap, and every number of servers, lists and calls: an invariant    *)
(* of each broker and one of McpClientHost, kept by every step, and then    *)
(* the three of them side by side.                                          *)
(***************************************************************************)
EXTENDS MCProcesses, TLAPS

-----------------------------------------------------------------------------
(* The plain broker.                                                        *)

LEMMA BInvInit ==
  ASSUME Broker!ChunksAssumption, Broker!WorldAssumption PROVE Broker!Init => Broker!BInv
<1> SUFFICES ASSUME Broker!Init PROVE Broker!BInv
  OBVIOUS
<1>1. aborted \in BOOLEAN /\ fed \in BOOLEAN
  BY DEF Broker!Init, Broker!WorldInit, Broker!WorldAssumption
<1> QED
  <2>1. Broker!TypeOK
    <3>1. {holder, fed, aborted, exited, closed, released} \subseteq BOOLEAN
      BY <1>1 DEF Broker!Init, Broker!WorldInit
    <3>2. {listening, timedOut, cancelled, capped, hit, crashed} \subseteq BOOLEAN
      BY DEF Broker!Init
    <3>3. written \in 0 .. BrokerChunks /\ unread \in 0 .. written /\ out \in 0 .. BrokerCap
      BY DEF Broker!Init, Broker!WorldInit, Broker!ChunksAssumption
    <3>4. child \in {"unspawned", "alive", "gone"} /\ timer = "armed" /\ outcome = "none"
      BY DEF Broker!Init
    <3> QED BY <3>1, <3>2, <3>3, <3>4 DEF Broker!TypeOK, Broker!WorldOK
  <2>2. Broker!Accounted
    <3>1. out = 0 /\ Broker!Taken = 0 /\ ~capped
      BY DEF Broker!Init, Broker!WorldInit, Broker!Taken
    <3> QED BY <3>1 DEF Broker!Accounted, Broker!ChunksAssumption
  <2>3. Broker!Ended /\ Broker!Disarmed
    BY DEF Broker!Init, Broker!WorldInit, Broker!Ended, Broker!Disarmed
  <2> QED BY <2>1, <2>2, <2>3 DEF Broker!BInv

LEMMA BInvStep ==
  ASSUME Broker!ChunksAssumption, Broker!BInv, [Broker!Next]_(Broker!vars)
  PROVE  Broker!BInv' /\ Broker!StaysSettled
<1> USE DEF Broker!ChunksAssumption, Broker!BInv, Broker!TypeOK, Broker!WorldOK, Broker!Accounted,
            Broker!Taken, Broker!Ended, Broker!Disarmed, Broker!StaysSettled,
            Broker!flags, Broker!output, Broker!process, Broker!world
<1>1. CASE Broker!Command
  <2>1. CASE Broker!Writes
    <3>1. Broker!Taken' = Broker!Taken
      BY <2>1 DEF Broker!Writes
    <3>2. Broker!Accounted'
      BY <1>1, <3>1 DEF Broker!Command
    <3> QED BY <1>1, <2>1, <3>2 DEF Broker!Command, Broker!Writes
  <2>2. CASE Broker!TakesInput \/ Broker!Forks \/ Broker!Exits \/ Broker!HolderExits
    BY <1>1, <2>2 DEF Broker!Command, Broker!TakesInput, Broker!Forks, Broker!Exits, Broker!HolderExits
  <2> QED BY <1>1, <2>1, <2>2 DEF Broker!Command
<1>2. CASE Broker!Abort
  BY <1>2 DEF Broker!Abort, Broker!KillAndNote, Broker!Kill
<1>3. CASE Broker!TimerFires
  BY <1>3 DEF Broker!TimerFires, Broker!KillAndNote, Broker!Kill
<1>4. CASE Broker!Data
  <2>1. ~released /\ unread > 0 /\ Broker!Taken' = Broker!Taken + 1 /\ Broker!Taken \in Nat
    BY <1>4 DEF Broker!Data, Broker!DataReady
  <2>2. Broker!Accounted'
    <3>1. CASE out >= BrokerCap
      <4>1. capped' /\ out' = out /\ Broker!Taken >= BrokerCap
        BY <1>4, <2>1, <3>1 DEF Broker!Data
      <4>2. out = BrokerCap
        BY <2>1, <3>1
      <4> QED BY <2>1, <4>1, <4>2
    <3>2. CASE out < BrokerCap
      <4>1. out' = out + 1 /\ out = Broker!Taken /\ ~(Broker!Taken > BrokerCap)
        BY <1>4, <2>1, <3>2 DEF Broker!Data
      <4>2. ~capped
        BY <2>1, <4>1
      <4>3. ~capped'
        BY <1>4, <3>2, <4>2 DEF Broker!Data
      <4> QED BY <2>1, <3>2, <4>1, <4>3
    <3> QED BY <3>1, <3>2
  <2>3. unread' \in 0 .. written' /\ out' \in 0 .. BrokerCap
    BY <1>4, <2>1 DEF Broker!Data
  <2>4. capped' \in BOOLEAN
    BY <1>4 DEF Broker!Data
  <2>5. UNCHANGED <<child, holder, written, fed, aborted, exited, closed, released, timer, listening,
                    timedOut, cancelled, hit, outcome, crashed>>
    BY <1>4 DEF Broker!Data
  <2>6. Broker!Ended' /\ Broker!Disarmed' /\ Broker!StaysSettled
    BY <2>1, <2>5
  <2>7. Broker!TypeOK'
    BY <2>3, <2>4, <2>5
  <2> QED BY <2>2, <2>6, <2>7
<1>5. CASE Broker!ErrorEvent
  BY <1>5 DEF Broker!ErrorEvent, Broker!ErrorReady, Broker!Settle
<1>6. CASE Broker!ExitEvent
  BY <1>6 DEF Broker!ExitEvent, Broker!ExitReady, Broker!Settle
<1>7. CASE Broker!CloseEvent
  BY <1>7 DEF Broker!CloseEvent, Broker!CloseReady, Broker!Settle
<1>8. CASE Broker!InputError
  BY <1>8 DEF Broker!InputError, Broker!InputBroken
<1>9. CASE UNCHANGED Broker!vars
  BY <1>9 DEF Broker!vars
<1> QED BY <1>1, <1>2, <1>3, <1>4, <1>5, <1>6, <1>7, <1>8, <1>9 DEF Broker!Next, Broker!Events

----------------------------------------------------------------------------
(* The sandbox's broker.                                                     *)

LEMMA CInvInit ==
  ASSUME Sandbox!ChunksAssumption, Sandbox!WorldAssumption PROVE Sandbox!Init => Sandbox!CInv
<1> SUFFICES ASSUME Sandbox!Init PROVE Sandbox!CInv
  OBVIOUS
<1>1. aborted \in BOOLEAN /\ fed \in BOOLEAN
  BY DEF Sandbox!Init, Sandbox!WorldInit, Sandbox!WorldAssumption
<1>2. {holder, fed, aborted, exited, closed, released} \subseteq BOOLEAN
  BY <1>1 DEF Sandbox!Init, Sandbox!WorldInit
<1>3. {listening, timedOut, cancelled, capped} \subseteq BOOLEAN
  BY <1>1 DEF Sandbox!Init
<1>4. written \in 0 .. SandboxChunks /\ unread \in 0 .. written /\ out \in 0 .. SandboxCap
      /\ graces \in 0 .. 2
  BY DEF Sandbox!Init, Sandbox!WorldInit, Sandbox!ChunksAssumption
<1>5. child \in {"unspawned", "alive", "gone"} /\ timer = "armed" /\ outcome = "none"
  BY DEF Sandbox!Init
<1>6. Sandbox!TypeOK
  BY <1>2, <1>3, <1>4, <1>5 DEF Sandbox!TypeOK, Sandbox!WorldOK
<1>7. Sandbox!Accounted
  <2>1. out = 0 /\ Sandbox!Taken = 0 /\ ~capped
    BY DEF Sandbox!Init, Sandbox!WorldInit, Sandbox!Taken
  <2> QED BY <2>1 DEF Sandbox!Accounted, Sandbox!ChunksAssumption
<1>8. Sandbox!Ended /\ Sandbox!Disarmed /\ Sandbox!Noted
  BY <1>1 DEF Sandbox!Init, Sandbox!WorldInit, Sandbox!Ended, Sandbox!Disarmed, Sandbox!Noted
<1>9. Sandbox!Graced
  <2>1. graces = (IF cancelled THEN 1 ELSE 0) /\ ~timedOut /\ (cancelled => ~listening)
    BY <1>1 DEF Sandbox!Init
  <2> QED BY <2>1 DEF Sandbox!Graced
<1> QED BY <1>6, <1>7, <1>8, <1>9 DEF Sandbox!CInv

LEMMA CInvStep ==
  ASSUME Sandbox!ChunksAssumption, Sandbox!CInv, [Sandbox!Next]_(Sandbox!vars)
  PROVE  Sandbox!CInv' /\ Sandbox!StaysSettled /\ Sandbox!SaysCancelled
<1> USE DEF Sandbox!CInv, Sandbox!StaysSettled, Sandbox!SaysCancelled, Sandbox!flags, Sandbox!output,
            Sandbox!process, Sandbox!world
<1>a. ASSUME UNCHANGED <<written, unread, out, capped>>
      PROVE  Sandbox!Accounted' /\ unread' \in 0 .. written' /\ written' \in 0 .. SandboxChunks
             /\ out' \in 0 .. SandboxCap
             /\ capped' \in BOOLEAN
  BY <1>a DEF Sandbox!Accounted, Sandbox!Taken, Sandbox!TypeOK, Sandbox!WorldOK
<1>1. CASE Sandbox!Command
  <2>1. UNCHANGED <<aborted, exited, closed, released, timer, graces, listening, timedOut, cancelled,
          out, capped, outcome>>
    BY <1>1 DEF Sandbox!Command
  <2>2. Sandbox!Taken' = Sandbox!Taken /\ unread' \in 0 .. written' /\ written' \in 0 .. SandboxChunks
    BY <1>1 DEF Sandbox!Command, Sandbox!Writes, Sandbox!TakesInput, Sandbox!Forks, Sandbox!Exits,
                Sandbox!HolderExits, Sandbox!Taken, Sandbox!TypeOK, Sandbox!WorldOK,
                Sandbox!ChunksAssumption
  <2>3. child' \in {child, "gone"} /\ holder' \in BOOLEAN /\ fed' \in BOOLEAN
    BY <1>1 DEF Sandbox!Command, Sandbox!Writes, Sandbox!TakesInput, Sandbox!Forks, Sandbox!Exits,
                Sandbox!HolderExits, Sandbox!TypeOK, Sandbox!WorldOK
  <2>4. child # "alive" /\ ~holder => unread' = unread /\ ~holder'
    BY <1>1 DEF Sandbox!Command, Sandbox!Writes, Sandbox!TakesInput, Sandbox!Forks, Sandbox!Exits,
                Sandbox!HolderExits
  <2>5. Sandbox!TypeOK'
    BY <2>1, <2>2, <2>3 DEF Sandbox!TypeOK, Sandbox!WorldOK
  <2>6. Sandbox!Accounted'
    BY <2>1, <2>2 DEF Sandbox!Accounted
  <2>7. Sandbox!Ended'
    BY <2>1, <2>3, <2>4 DEF Sandbox!Ended
  <2>8. Sandbox!Graced' /\ Sandbox!Disarmed' /\ Sandbox!Noted'
    BY <2>1 DEF Sandbox!Graced, Sandbox!Disarmed, Sandbox!Noted
  <2> QED BY <2>1, <2>5, <2>6, <2>7, <2>8
<1>2. CASE Sandbox!Abort
  <2>1. UNCHANGED <<written, unread, fed, exited, closed, released, timer, timedOut, out, capped,
          outcome>>
        /\ aborted' = TRUE
    BY <1>2 DEF Sandbox!Abort
  <2>2. CASE listening
    <3>1. cancelled' = TRUE /\ listening' = FALSE /\ graces' = graces + 1
      BY <1>2, <2>2 DEF Sandbox!Abort, Sandbox!TearDown
    <3>2. child' \in {child, "gone"} /\ holder' \in {FALSE, holder}
      BY <1>2, <2>2 DEF Sandbox!Abort, Sandbox!TearDown, Sandbox!Kill
    <3>3. ~cancelled /\ graces \in {0, 1} /\ graces' \in 0 .. 2
      BY <2>2, <3>1 DEF Sandbox!Graced, Sandbox!TypeOK
    <3>4. Sandbox!TypeOK'
      BY <1>a, <2>1, <3>1, <3>2, <3>3 DEF Sandbox!TypeOK, Sandbox!WorldOK
    <3>5. Sandbox!Ended'
      <4>1. child # "alive" => child' # "alive"
        BY <3>2
      <4>2. ~holder => ~holder'
        BY <3>2, Zenon
      <4> QED BY <2>1, <3>1, <4>1, <4>2 DEF Sandbox!Ended
    <3>6. graces' > 1 => graces > 0
      BY <3>1, <3>3
    <3>7. Sandbox!Graced'
      BY <2>1, <3>1, <3>3, <3>6 DEF Sandbox!Graced
    <3>8. Sandbox!Disarmed' /\ Sandbox!Noted' /\ Sandbox!StaysSettled /\ Sandbox!SaysCancelled
      BY <2>1, <2>2, <3>1 DEF Sandbox!Disarmed, Sandbox!Noted
    <3> QED BY <1>a, <2>1, <3>4, <3>5, <3>7, <3>8
  <2>3. CASE ~listening
    <3>1. UNCHANGED <<cancelled, listening, child, holder, graces>>
      BY <1>2, <2>3 DEF Sandbox!Abort
    <3>2. Sandbox!TypeOK'
      BY <1>a, <2>1, <3>1 DEF Sandbox!TypeOK, Sandbox!WorldOK
    <3>3. Sandbox!Ended' /\ Sandbox!Graced' /\ Sandbox!Disarmed' /\ Sandbox!Noted'
          /\ Sandbox!StaysSettled /\ Sandbox!SaysCancelled
      BY <2>1, <2>3, <3>1 DEF Sandbox!Ended, Sandbox!Graced, Sandbox!Disarmed, Sandbox!Noted
    <3> QED BY <1>a, <2>1, <3>2, <3>3
  <2> QED BY <2>2, <2>3
<1>3. CASE Sandbox!TimerFires
  <2>1. timer = "armed" /\ timer' = "fired" /\ timedOut' = TRUE /\ graces' = graces + 1
    BY <1>3 DEF Sandbox!TimerFires, Sandbox!TearDown
  <2>2. child' \in {child, "gone"} /\ holder' \in {FALSE, holder}
    BY <1>3 DEF Sandbox!TimerFires, Sandbox!TearDown, Sandbox!Kill
  <2>3. UNCHANGED <<written, unread, fed, aborted, exited, closed, released, listening, cancelled, out,
          capped, outcome>>
    BY <1>3 DEF Sandbox!TimerFires
  <2>4. ~timedOut /\ graces \in {0, 1} /\ graces' \in 0 .. 2
    BY <2>1 DEF Sandbox!Graced, Sandbox!TypeOK
  <2>5. Sandbox!TypeOK'
    BY <1>a, <2>1, <2>2, <2>3, <2>4 DEF Sandbox!TypeOK, Sandbox!WorldOK
  <2>6. Sandbox!Ended'
    <3>1. child # "alive" => child' # "alive"
      BY <2>2
    <3>2. ~holder => ~holder'
      BY <2>2, Zenon
    <3> QED BY <2>1, <2>3, <3>1, <3>2 DEF Sandbox!Ended
  <2>7. graces' > 1 => graces > 0
    BY <2>1, <2>4
  <2>8. Sandbox!Graced'
    BY <2>1, <2>3, <2>4, <2>7 DEF Sandbox!Graced
  <2>9. Sandbox!Disarmed' /\ Sandbox!Noted' /\ Sandbox!StaysSettled /\ Sandbox!SaysCancelled
    BY <2>1, <2>3 DEF Sandbox!Disarmed, Sandbox!Noted
  <2> QED BY <1>a, <2>3, <2>5, <2>6, <2>8, <2>9
<1>4. CASE Sandbox!Data
  <2>1. unread > 0 /\ Sandbox!Taken' = Sandbox!Taken + 1 /\ Sandbox!Taken \in Nat
        /\ out \in 0 .. SandboxCap
    BY <1>4 DEF Sandbox!Data, Sandbox!DataReady, Sandbox!Taken, Sandbox!TypeOK, Sandbox!WorldOK,
                Sandbox!ChunksAssumption
  <2>2. Sandbox!Accounted'
    <3>1. CASE out >= SandboxCap
      <4>1. capped' /\ out' = out /\ Sandbox!Taken >= SandboxCap
        BY <1>4, <2>1, <3>1 DEF Sandbox!Data, Sandbox!Accounted, Sandbox!ChunksAssumption
      <4>2. out = SandboxCap
        BY <2>1, <3>1 DEF Sandbox!ChunksAssumption
      <4> QED BY <2>1, <4>1, <4>2 DEF Sandbox!Accounted, Sandbox!ChunksAssumption
    <3>2. CASE out < SandboxCap
      <4>1. out' = out + 1 /\ out = Sandbox!Taken /\ ~(Sandbox!Taken > SandboxCap)
        BY <1>4, <2>1, <3>2 DEF Sandbox!Data, Sandbox!Accounted, Sandbox!ChunksAssumption
      <4>2. ~capped
        BY <2>1, <4>1 DEF Sandbox!Accounted
      <4>3. ~(out >= SandboxCap)
        BY <2>1, <3>2 DEF Sandbox!ChunksAssumption
      <4>4. ~capped'
        BY <1>4, <4>2, <4>3 DEF Sandbox!Data
      <4> QED BY <2>1, <3>2, <4>1, <4>4 DEF Sandbox!Accounted, Sandbox!ChunksAssumption
    <3> QED BY <2>1, <3>1, <3>2 DEF Sandbox!ChunksAssumption
  <2>3. unread' \in 0 .. written' /\ out' \in 0 .. SandboxCap /\ capped' \in BOOLEAN
    <3>1. unread' \in 0 .. written' /\ out' \in 0 .. SandboxCap
      BY <1>4, <2>1 DEF Sandbox!Data, Sandbox!TypeOK, Sandbox!WorldOK, Sandbox!ChunksAssumption
    <3>2. capped' \in {TRUE, capped} /\ capped \in BOOLEAN
      BY <1>4 DEF Sandbox!Data, Sandbox!TypeOK
    <3> QED BY <3>1, <3>2
  <2>4. UNCHANGED <<child, holder, written, fed, aborted, exited, closed, released, timer, graces,
                    listening, timedOut, cancelled, outcome>>
    BY <1>4 DEF Sandbox!Data
  <2>5. Sandbox!Ended'
    <3>1. ~closed
      BY <2>1 DEF Sandbox!Ended
    <3> QED BY <2>4, <3>1 DEF Sandbox!Ended
  <2>6. Sandbox!Graced' /\ Sandbox!Disarmed' /\ Sandbox!Noted' /\ Sandbox!StaysSettled
        /\ Sandbox!SaysCancelled
    BY <2>4 DEF Sandbox!Graced, Sandbox!Disarmed, Sandbox!Noted
  <2>7. Sandbox!TypeOK'
    BY <2>3, <2>4 DEF Sandbox!TypeOK, Sandbox!WorldOK
  <2> QED BY <2>2, <2>5, <2>6, <2>7
<1>f. ASSUME NEW kind \in {"completed", "spawn-failed"}, NEW left \in 0 .. graces,
             Sandbox!Finish(kind, left),
             UNCHANGED <<child, holder, written, unread, fed, aborted, released, timedOut, cancelled,
               out, capped>>,
             exited' \in {TRUE, exited}, closed' \in {TRUE, closed},
             kind = "completed" => timedOut \/ cancelled \/ closed',
             aborted => cancelled \/ outcome # "none"
      PROVE  /\ Sandbox!TypeOK' /\ Sandbox!Accounted' /\ Sandbox!Graced' /\ Sandbox!Disarmed'
             /\ Sandbox!Noted' /\ Sandbox!StaysSettled /\ Sandbox!SaysCancelled
             /\ outcome' = "completed" => closed' \/ timedOut' \/ cancelled'
  <2>1. graces \in 0 .. 2 /\ left \in 0 .. 2 /\ outcome \in {"none", "completed", "spawn-failed"}
    BY DEF Sandbox!TypeOK
  <2>2. graces' \in 0 .. 2 /\ (graces' > 0 => graces > 0) /\ (graces' > 1 => graces > 1)
    <3>1. graces' \in {left - 1, 0, left} /\ (graces' = left - 1 => left > 0)
      BY <1>f, <2>1 DEF Sandbox!Finish
    <3> QED BY <2>1, <3>1
  <2>3. CASE outcome = "none"
    <3>1. outcome' = kind /\ timer' \in {"cleared", timer} /\ timer' # "armed" /\ listening' = FALSE
      BY <1>f, <2>3 DEF Sandbox!Finish
    <3>2. Sandbox!TypeOK'
      BY <1>f, <1>a, <2>2, <3>1 DEF Sandbox!TypeOK, Sandbox!WorldOK
    <3>3. Sandbox!Graced'
      BY <1>f, <2>2, <3>1 DEF Sandbox!Graced
    <3>4. Sandbox!Disarmed' /\ Sandbox!Noted' /\ Sandbox!StaysSettled /\ Sandbox!SaysCancelled
      BY <1>f, <2>3, <3>1 DEF Sandbox!Disarmed, Sandbox!Noted
    <3> QED BY <1>f, <1>a, <3>1, <3>2, <3>3, <3>4
  <2>4. CASE outcome # "none"
    <3>1. outcome' = outcome /\ timer' = timer /\ listening' = listening
      BY <1>f, <2>4 DEF Sandbox!Finish
    <3>2. Sandbox!TypeOK'
      BY <1>f, <1>a, <2>2, <3>1 DEF Sandbox!TypeOK, Sandbox!WorldOK
    <3>3. Sandbox!Graced'
      BY <1>f, <2>2, <3>1 DEF Sandbox!Graced
    <3>4. Sandbox!Disarmed' /\ Sandbox!Noted' /\ Sandbox!StaysSettled /\ Sandbox!SaysCancelled
      BY <1>f, <2>4, <3>1 DEF Sandbox!Disarmed, Sandbox!Noted
    <3>5. outcome' = "completed" => closed' \/ timedOut' \/ cancelled'
      <4>1. closed => closed'
        BY <1>f
      <4> QED BY <1>f, <3>1, <4>1 DEF Sandbox!Ended
    <3> QED BY <1>f, <1>a, <3>2, <3>3, <3>4, <3>5
  <2> QED BY <2>3, <2>4
<1>n. aborted => cancelled \/ outcome # "none"
  BY DEF Sandbox!Noted
<1>g. graces \in 0 .. graces /\ (graces > 0 => graces - 1 \in 0 .. graces)
  BY DEF Sandbox!TypeOK
<1>5. CASE Sandbox!ErrorEvent
  <2>1. Sandbox!Finish("spawn-failed", graces) /\ exited' = TRUE /\ child = "unspawned"
        /\ UNCHANGED <<child, holder, written, unread, fed, aborted, closed, released, timedOut,
          cancelled, out, capped>>
    BY <1>5 DEF Sandbox!ErrorEvent, Sandbox!ErrorReady
  <2>2. /\ Sandbox!TypeOK' /\ Sandbox!Accounted' /\ Sandbox!Graced' /\ Sandbox!Disarmed'
        /\ Sandbox!Noted' /\ Sandbox!StaysSettled /\ Sandbox!SaysCancelled
        /\ outcome' = "completed" => closed' \/ timedOut' \/ cancelled'
    BY <1>f, <1>n, <1>g, <2>1
  <2> QED BY <2>1, <2>2 DEF Sandbox!Ended
<1>6. CASE Sandbox!ExitEvent
  <2>1. exited' = TRUE /\ child = "gone"
        /\ UNCHANGED <<child, holder, written, unread, fed, aborted, closed, released, timer, graces,
          listening,
                       timedOut, cancelled, out, capped, outcome>>
    BY <1>6 DEF Sandbox!ExitEvent, Sandbox!ExitReady
  <2>2. Sandbox!TypeOK'
    BY <1>a, <2>1 DEF Sandbox!TypeOK, Sandbox!WorldOK
  <2>3. Sandbox!Ended' /\ Sandbox!Graced' /\ Sandbox!Disarmed' /\ Sandbox!Noted'
        /\ Sandbox!StaysSettled /\ Sandbox!SaysCancelled
    BY <2>1 DEF Sandbox!Ended, Sandbox!Graced, Sandbox!Disarmed, Sandbox!Noted
  <2> QED BY <1>a, <2>1, <2>2, <2>3
<1>7. CASE Sandbox!CloseEvent
  <2>1. Sandbox!Finish("completed", graces) /\ closed' = TRUE /\ exited /\ ~holder
        /\ UNCHANGED <<child, holder, written, unread, fed, aborted, exited, released, timedOut,
          cancelled, out, capped>>
    BY <1>7 DEF Sandbox!CloseEvent, Sandbox!CloseReady
  <2>2. /\ Sandbox!TypeOK' /\ Sandbox!Accounted' /\ Sandbox!Graced' /\ Sandbox!Disarmed'
        /\ Sandbox!Noted' /\ Sandbox!StaysSettled /\ Sandbox!SaysCancelled
        /\ outcome' = "completed" => closed' \/ timedOut' \/ cancelled'
    BY <1>f, <1>n, <1>g, <2>1
  <2>3. unread = 0
    BY <1>7 DEF Sandbox!CloseEvent, Sandbox!CloseReady, Sandbox!Ended
  <2> QED BY <2>1, <2>2, <2>3 DEF Sandbox!Ended
<1>8. CASE Sandbox!GraceFires
  <2>1. Sandbox!Finish("completed", graces - 1) /\ graces > 0
        /\ UNCHANGED <<child, holder, written, unread, fed, aborted, exited, closed, released,
          timedOut, cancelled, out, capped>>
    BY <1>8 DEF Sandbox!GraceFires
  <2>2. timedOut \/ cancelled
    BY <2>1 DEF Sandbox!Graced
  <2>3. /\ Sandbox!TypeOK' /\ Sandbox!Accounted' /\ Sandbox!Graced' /\ Sandbox!Disarmed'
        /\ Sandbox!Noted' /\ Sandbox!StaysSettled /\ Sandbox!SaysCancelled
        /\ outcome' = "completed" => closed' \/ timedOut' \/ cancelled'
    BY <1>f, <1>n, <1>g, <2>1, <2>2
  <2> QED BY <2>1, <2>3 DEF Sandbox!Ended
<1>9. CASE Sandbox!InputError
  <2>1. fed' = TRUE
        /\ UNCHANGED <<child, holder, written, unread, aborted, exited, closed, released, timer,
          graces, listening,
                       timedOut, cancelled, out, capped, outcome>>
    BY <1>9 DEF Sandbox!InputError
  <2>2. Sandbox!TypeOK'
    BY <1>a, <2>1 DEF Sandbox!TypeOK, Sandbox!WorldOK
  <2>3. Sandbox!Ended' /\ Sandbox!Graced' /\ Sandbox!Disarmed' /\ Sandbox!Noted'
        /\ Sandbox!StaysSettled /\ Sandbox!SaysCancelled
    BY <2>1 DEF Sandbox!Ended, Sandbox!Graced, Sandbox!Disarmed, Sandbox!Noted
  <2> QED BY <1>a, <2>1, <2>2, <2>3
<1>10. CASE UNCHANGED Sandbox!vars
  BY <1>10 DEF Sandbox!vars, Sandbox!TypeOK, Sandbox!WorldOK, Sandbox!Accounted, Sandbox!Taken,
              Sandbox!Ended, Sandbox!Graced, Sandbox!Disarmed, Sandbox!Noted
<1> QED BY <1>1, <1>2, <1>3, <1>4, <1>5, <1>6, <1>7, <1>8, <1>9, <1>10 DEF Sandbox!Next, Sandbox!Events

-----------------------------------------------------------------------------
(* McpClientHost, with any number of servers and lists.                     *)

LEMMA HostInvInit ==
  ASSUME NEW n, NEW l, NEW a, NEW q, Host(n, l, a, q)!HostAssumption
  PROVE  Host(n, l, a, q)!Init => Host(n, l, a, q)!HostInv
<1> SUFFICES ASSUME Host(n, l, a, q)!Init PROVE Host(n, l, a, q)!HostInv
  OBVIOUS
<1> DEFINE I == Host(n, l, a, q)!Servers
           fresh == [proc |-> "none", phase |-> "none", list |-> 1, offers |-> {}, answered |-> {},
                     warned |-> {}, news |-> FALSE, linked |-> FALSE, owed |-> FALSE,
                     shut |-> FALSE, dead |-> "no"]
<1>1. n \in Nat \ {0} /\ l \in Nat \ {0}
  BY DEF Host!HostAssumption
<1>2. fresh \in Host(n, l, a, q)!Server
  BY <1>1 DEF Host!Server
<1>3. server \in [I -> Host(n, l, a, q)!Server] /\ \A i \in I : server[i] = fresh
  BY <1>2 DEF Host!Init
<1>4. call \in [a -> Host(n, l, a, q)!Call] /\ \A c \in a : call[c].at = "idle"
  BY DEF Host!Init, Host!Call
<1>5. Host(n, l, a, q)!TypeOK
  BY <1>1, <1>3, <1>4 DEF Host!Init, Host!TypeOK
<1>6. ASSUME NEW i \in I
      PROVE  Host(n, l, a, q)!InTurn(i) /\ Host(n, l, a, q)!Stopped(i) /\ Host(n, l, a, q)!Listed(server[i])
  <2>1. i > at /\ server[i].phase = "none" /\ server[i].proc = "none" /\ ~server[i].shut
    BY <1>1, <1>3 DEF Host!Init, Host!Servers
  <2>2. ~(i < at)
    BY <1>1, <2>1 DEF Host!Init, Host!Servers
  <2>3. Host(n, l, a, q)!InTurn(i) /\ Host(n, l, a, q)!Stopped(i)
    BY <2>1, <2>2 DEF Host!Init, Host!InTurn, Host!Stopped
  <2>4. Host(n, l, a, q)!Listed(server[i])
    BY <1>3 DEF Host!Listed
  <2> QED BY <2>3, <2>4
<1> QED BY <1>4, <1>5, <1>6 DEF Host!HostInv, Host!Init

(* A step that replaces the record of one server.                           *)
LEMMA OneServer ==
  ASSUME NEW n, NEW l, NEW a, NEW q, Host(n, l, a, q)!HostInv, UNCHANGED <<at, host>>,
         NEW i \in Host(n, l, a, q)!Servers, NEW r \in Host(n, l, a, q)!Server,
         server' = [server EXCEPT ![i] = r], Host(n, l, a, q)!Listed(r),
         connections' \in {connections, connections \cup {i}},
         failures' \in {failures, failures \cup {i}},
         closing' = closing,
         call' \in [a -> Host(n, l, a, q)!Call],
         \A c \in a : call'[c].at = "waiting" => call'[c].of \in Host(n, l, a, q)!Servers,
         Host(n, l, a, q)!InTurn(i)', Host(n, l, a, q)!Stopped(i)'
  PROVE  Host(n, l, a, q)!HostInv'
<1> DEFINE I == Host(n, l, a, q)!Servers
<1>1. server \in [I -> Host(n, l, a, q)!Server]
  BY DEF Host!HostInv, Host!TypeOK
<1>2. server' \in [I -> Host(n, l, a, q)!Server] /\ server'[i] = r
      /\ \A j \in I : j # i => server'[j] = server[j]
  BY <1>1
<1>3. connections' \subseteq I /\ failures' \subseteq I /\ closing' \subseteq I
  BY DEF Host!HostInv, Host!TypeOK
<1>4. Host(n, l, a, q)!TypeOK'
  BY <1>2, <1>3 DEF Host!HostInv, Host!TypeOK
<1>5. ASSUME NEW j \in I, j # i
      PROVE  Host(n, l, a, q)!InTurn(j)' /\ Host(n, l, a, q)!Stopped(j)' /\ Host(n, l, a, q)!Listed(server'[j])
  <2>1. server'[j] = server[j] /\ (j \in connections' <=> j \in connections)
        /\ (j \in failures' <=> j \in failures) /\ (j \in closing' <=> j \in closing)
    BY <1>2, <1>5
  <2>2. Host(n, l, a, q)!InTurn(j) /\ Host(n, l, a, q)!Stopped(j) /\ Host(n, l, a, q)!Listed(server[j])
    BY DEF Host!HostInv
  <2> QED BY <2>1, <2>2 DEF Host!InTurn, Host!Stopped
<1>6. \A j \in I : Host(n, l, a, q)!InTurn(j)' /\ Host(n, l, a, q)!Stopped(j)' /\ Host(n, l, a, q)!Listed(server'[j])
  BY <1>2, <1>5
<1>7. host' # "open" /\ ~q => at' \notin I
  BY DEF Host!HostInv
<1> QED BY <1>4, <1>6, <1>7 DEF Host!HostInv

(* The events of the servers, the answers and the ends of calls leave the   *)
(* phase of a server alone and start no process.                            *)
LEMMA QuietServer ==
  ASSUME NEW n, NEW l, NEW a, NEW q, Host(n, l, a, q)!HostInv, UNCHANGED <<at, host, connections, failures>>,
         NEW i \in Host(n, l, a, q)!Servers, NEW r \in Host(n, l, a, q)!Server,
         server' = [server EXCEPT ![i] = r], Host(n, l, a, q)!Listed(r),
         r.phase = server[i].phase, (r.proc = server[i].proc \/ r.proc = "gone"),
         closing' = closing, r.shut # server[i].shut => i \in closing /\ host # "open" /\ r.shut /\ r.proc = "gone",
         call' \in [a -> Host(n, l, a, q)!Call],
         \A c \in a : call'[c].at = "waiting" => call'[c].of \in Host(n, l, a, q)!Servers
  PROVE  Host(n, l, a, q)!HostInv'
<1>1. server'[i] = r
  BY DEF Host!HostInv, Host!TypeOK
<1>2. Host(n, l, a, q)!InTurn(i) /\ Host(n, l, a, q)!Stopped(i)
  BY DEF Host!HostInv
<1>3. Host(n, l, a, q)!InTurn(i)'
  BY <1>1, <1>2 DEF Host!InTurn
<1>4. Host(n, l, a, q)!Stopped(i)'
  BY <1>1, <1>2 DEF Host!Stopped
<1> QED BY <1>3, <1>4, OneServer

(* What the client's news of the end of a server does to the calls.         *)
LEMMA CallsFailTyped ==
  ASSUME NEW n, NEW l, NEW a, NEW q, Host(n, l, a, q)!HostInv, NEW i, call' = Host(n, l, a, q)!CallsFail(i)
  PROVE  /\ call' \in [a -> Host(n, l, a, q)!Call]
         /\ \A c \in a : call'[c].at = "waiting" => call'[c].of \in Host(n, l, a, q)!Servers
<1> SUFFICES ASSUME NEW c \in a
             PROVE  /\ call'[c] \in Host(n, l, a, q)!Call
                    /\ call'[c].at = "waiting" => call'[c].of \in Host(n, l, a, q)!Servers
  BY DEF Host!CallsFail
<1>1. call[c] \in Host(n, l, a, q)!Call /\ (call[c].at = "waiting" => call[c].of \in Host(n, l, a, q)!Servers)
  BY DEF Host!HostInv, Host!TypeOK
<1>2. call'[c] = IF call[c].of = i /\ call[c].at = "waiting"
                   THEN [call[c] EXCEPT !.at = "failed"] ELSE call[c]
  BY DEF Host!CallsFail
<1> QED BY <1>1, <1>2 DEF Host!Call

LEMMA MarkDead ==
  ASSUME NEW n, NEW l, NEW a, NEW q, NEW r \in Host(n, l, a, q)!Server, Host(n, l, a, q)!Listed(r),
         NEW cause \in {"closed", "error", "shutdown"}
  PROVE  /\ Host(n, l, a, q)!markDead(r, cause) \in Host(n, l, a, q)!Server
         /\ Host(n, l, a, q)!markDead(r, cause).phase = r.phase
         /\ Host(n, l, a, q)!markDead(r, cause).proc = r.proc
         /\ Host(n, l, a, q)!markDead(r, cause).shut = r.shut
         /\ Host(n, l, a, q)!Listed(Host(n, l, a, q)!markDead(r, cause))
<1> DEFINE dead == [r EXCEPT !.dead = cause]
<1>1. dead \in Host(n, l, a, q)!Server /\ dead.phase = r.phase /\ dead.proc = r.proc
      /\ dead.shut = r.shut /\ dead.offers = r.offers
      /\ dead.answered = r.answered /\ dead.warned = r.warned /\ dead.list = r.list
  BY DEF Host!Server
<1>2. Host(n, l, a, q)!Listed(dead)
  BY <1>1 DEF Host!Listed
<1>3. Host(n, l, a, q)!markDead(r, cause) \in {r, dead}
  BY DEF Host!markDead
<1> QED BY <1>1, <1>2, <1>3

(* The list asked for next comes after all that were asked for.              *)
LEMMA NextKind ==
  ASSUME NEW l \in Nat \ {0}, NEW kind \in 1 .. l + 1, kind <= l
  PROVE  kind \in 1 .. l /\ kind + 1 \in 1 .. l + 1
OBVIOUS

LEMMA AllEarlier ==
  ASSUME NEW l \in Nat \ {0}, NEW kind \in 1 .. l, NEW before \in SUBSET (1 .. l),
         \A k \in before : k < kind
  PROVE  kind \notin before /\ \A k \in before \cup {kind} : k < kind + 1
OBVIOUS

LEMMA HostInvStep ==
  ASSUME NEW n, NEW l, NEW a, NEW q, Host(n, l, a, q)!HostAssumption, Host(n, l, a, q)!HostInv,
         Host(n, l, a, q)!Next \/ UNCHANGED Host(n, l, a, q)!vars
  PROVE  Host(n, l, a, q)!HostInv'
<1> DEFINE I == Host(n, l, a, q)!Servers
           R == Host(n, l, a, q)!Server
<1>n. n \in Nat \ {0} /\ l \in Nat \ {0}
  BY DEF Host!HostAssumption
<1>t. /\ at \in 0 .. n + 1 /\ host \in {"open", "closing", "closed"}
      /\ connections \subseteq I /\ failures \subseteq I /\ closing \subseteq I
      /\ server \in [I -> R] /\ call \in [a -> Host(n, l, a, q)!Call]
  BY DEF Host!HostInv, Host!TypeOK
<1>o. host # "open" /\ ~q => at \notin I
  BY DEF Host!HostInv
<1>i. \A i \in I : Host(n, l, a, q)!InTurn(i) /\ Host(n, l, a, q)!Stopped(i) /\ Host(n, l, a, q)!Listed(server[i])
  BY DEF Host!HostInv
<1>c. \A c \in a : call[c].at = "waiting" => call[c].of \in I
  BY DEF Host!HostInv
<1>1. CASE (at = 0 => host = "open") /\ Host(n, l, a, q)!Connect
  <2> DEFINE next == at + 1
  <2>1. /\ at < n /\ next \in I /\ at' = next /\ (host # "open" => q)
        /\ UNCHANGED <<connections, host, closing, call>>
    <3>1. at < n /\ at' = next /\ UNCHANGED <<connections, host, closing, call>>
      BY <1>1 DEF Host!Connect
    <3>2. next \in I
      BY <1>n, <1>t, <3>1 DEF Host!Servers
    <3>3. at # 0 => at \in I
      BY <1>n, <1>t, <3>1 DEF Host!Servers
    <3> QED BY <1>1, <1>o, <3>1, <3>2, <3>3
  <2>2. /\ server[next].phase = "none" /\ next \notin failures /\ next \notin connections \cup closing
        /\ ~server[next].shut
    <3>1. next > at
      BY <1>t
    <3> QED BY <1>i, <2>1, <3>1 DEF Host!InTurn, Host!Stopped
  <2>3. PICK r \in R :
          /\ server' = [server EXCEPT ![next] = r] /\ Host(n, l, a, q)!Listed(r) /\ ~r.shut
          /\ \/ r.phase = "failed" /\ r.proc # "up" /\ failures' = failures \cup {next}
             \/ r.phase = "handshake" /\ failures' = failures
    <3>1. PICK ok \in BOOLEAN : /\ server' = Host(n, l, a, q)!buildTransport(next, ok)
                                /\ failures' = IF ok THEN failures ELSE failures \cup {next}
      BY <1>1 DEF Host!Connect
    <3>2. server[next] \in R /\ Host(n, l, a, q)!Listed(server[next]) /\ server[next].proc # "up"
      BY <1>t, <1>i, <2>1, <2>2 DEF Host!Stopped
    <3>3. CASE ok
      <4> DEFINE r == [server[next] EXCEPT !.proc = "up", !.linked = TRUE, !.phase = "handshake"]
      <4>1. r \in R /\ r.phase = "handshake" /\ ~r.shut
        BY <2>2, <3>2 DEF Host!Server
      <4>2. Host(n, l, a, q)!Listed(r)
        BY <3>2 DEF Host!Listed, Host!Server
      <4>3. server' = [server EXCEPT ![next] = r] /\ failures' = failures
        BY <3>1, <3>3 DEF Host!buildTransport
      <4> QED BY <4>1, <4>2, <4>3
    <3>4. CASE ~ok
      <4> DEFINE r == [server[next] EXCEPT !.phase = "failed"]
      <4>1. r \in R /\ r.phase = "failed" /\ r.proc = server[next].proc /\ ~r.shut
        BY <2>2, <3>2 DEF Host!Server
      <4>2. Host(n, l, a, q)!Listed(r)
        BY <3>2 DEF Host!Listed, Host!Server
      <4>3. server' = [server EXCEPT ![next] = r]
        BY <3>1, <3>4, Zenon DEF Host!buildTransport
      <4> QED BY <3>1, <3>2, <3>4, <4>1, <4>2, <4>3
    <3> QED BY <3>1, <3>3, <3>4
  <2>4. server' \in [I -> R] /\ server'[next] = r /\ \A j \in I : j # next => server'[j] = server[j]
    BY <1>t, <2>1, <2>3
  <2>5. Host(n, l, a, q)!TypeOK'
    <3>1. at' \in 0 .. n + 1
      BY <1>n, <1>t, <2>1 DEF Host!Servers
    <3>2. failures' \subseteq I
      BY <1>t, <2>1, <2>3
    <3> QED BY <1>t, <2>1, <2>4, <3>1, <3>2 DEF Host!TypeOK
  <2>6. ASSUME NEW j \in I
        PROVE  Host(n, l, a, q)!InTurn(j)' /\ Host(n, l, a, q)!Stopped(j)' /\ Host(n, l, a, q)!Listed(server'[j])
    <3>1. CASE j = next
      <4>1. ~(j > at') /\ ~(j < at')
        BY <1>t, <2>1, <3>1
      <4>2. j \in failures' <=> r.phase = "failed"
        BY <2>2, <2>3, <3>1
      <4>3. Host(n, l, a, q)!InTurn(j)'
        BY <2>1, <2>2, <2>3, <2>4, <3>1, <4>1, <4>2 DEF Host!InTurn
      <4>4. Host(n, l, a, q)!Stopped(j)'
        BY <2>1, <2>2, <2>3, <2>4, <3>1 DEF Host!Stopped
      <4> QED BY <2>3, <2>4, <3>1, <4>3, <4>4
    <3>2. CASE j # next
      <4>1. server'[j] = server[j] /\ (j \in failures' <=> j \in failures)
        BY <2>3, <2>4, <3>2
      <4>2. j > at' => j > at
        BY <1>t, <2>1 DEF Host!Servers
      <4>3. j < at' => j < at \/ j = at
        BY <1>t, <2>1 DEF Host!Servers
      <4>4. j = at => server[j].phase \in {"failed", "connected"}
        <5>1. j = at => at # 0
          BY <1>n DEF Host!Servers
        <5> QED BY <1>1, <5>1 DEF Host!Connect
      <4>5. Host(n, l, a, q)!InTurn(j)'
        BY <1>i, <2>1, <4>1, <4>2, <4>3, <4>4 DEF Host!InTurn
      <4>6. Host(n, l, a, q)!Stopped(j)'
        BY <1>i, <2>1, <4>1 DEF Host!Stopped
      <4> QED BY <1>i, <4>1, <4>5, <4>6
    <3> QED BY <3>1, <3>2
  <2> QED BY <1>c, <2>1, <2>5, <2>6 DEF Host!HostInv
<1>2. CASE Host(n, l, a, q)!ConnectAllReturns
  <2>1. /\ at = n /\ at' = n + 1 /\ server[n].phase \in {"failed", "connected"}
        /\ UNCHANGED <<connections, failures, host, closing, server, call>>
    BY <1>2 DEF Host!ConnectAllReturns
  <2>2. at' \in 0 .. n + 1 /\ at' \notin I
    BY <1>n, <2>1 DEF Host!Servers
  <2>3. ASSUME NEW j \in I PROVE Host(n, l, a, q)!InTurn(j)' /\ Host(n, l, a, q)!Stopped(j)'
    <3>1. (j < at' => j < at \/ j = n) /\ ~(j > at')
      BY <1>n, <2>1 DEF Host!Servers
    <3> QED BY <1>i, <2>1, <3>1 DEF Host!InTurn, Host!Stopped
  <2>4. Host(n, l, a, q)!TypeOK'
    BY <1>t, <2>1, <2>2 DEF Host!TypeOK
  <2> QED BY <1>c, <1>i, <2>1, <2>2, <2>3, <2>4 DEF Host!HostInv
<1>3. CASE Host(n, l, a, q)!HostClose
  <2>1. /\ host = "open" /\ host' = "closing" /\ closing' = connections /\ (~q => at \notin I)
        /\ UNCHANGED <<at, connections, failures, call>>
    BY <1>3 DEF Host!HostClose
  <2>2. ASSUME NEW j \in I
        PROVE  /\ server'[j] \in R /\ server'[j].phase = server[j].phase
               /\ server'[j].proc = server[j].proc /\ server'[j].shut = server[j].shut
               /\ Host(n, l, a, q)!Listed(server'[j])
    <3>1. server'[j] \in {server[j], Host(n, l, a, q)!markDead(server[j], "shutdown")}
      BY <1>3 DEF Host!HostClose
    <3>2. server[j] \in R /\ Host(n, l, a, q)!Listed(server[j])
      BY <1>t, <1>i
    <3> QED BY <3>1, <3>2, MarkDead
  <2>3. server' \in [I -> R]
    <3>1. server' = [i \in I |-> server'[i]]
      BY <1>3 DEF Host!HostClose
    <3> QED BY <2>2, <3>1
  <2>4. Host(n, l, a, q)!TypeOK'
    BY <1>t, <2>1, <2>3 DEF Host!TypeOK
  <2>5. \A j \in I : Host(n, l, a, q)!InTurn(j)' /\ Host(n, l, a, q)!Stopped(j)'
    BY <1>i, <2>1, <2>2 DEF Host!InTurn, Host!Stopped
  <2> QED BY <1>c, <2>1, <2>2, <2>4, <2>5 DEF Host!HostInv
<1>4. CASE Host(n, l, a, q)!HostCloseEnds
  <2>1. /\ host = "closing" /\ (\A i \in closing : server[i].shut) /\ host' = "closed" /\ connections' = {}
        /\ UNCHANGED <<at, failures, closing, server, call>>
    BY <1>4 DEF Host!HostCloseEnds
  <2>2. Host(n, l, a, q)!TypeOK'
    BY <1>t, <2>1 DEF Host!TypeOK
  <2>3. \A j \in I : Host(n, l, a, q)!InTurn(j)' /\ Host(n, l, a, q)!Stopped(j)'
    BY <1>i, <2>1 DEF Host!InTurn, Host!Stopped
  <2> QED BY <1>c, <1>i, <1>o, <2>1, <2>2, <2>3 DEF Host!HostInv
<1>5. ASSUME NEW i \in I, Host(n, l, a, q)!Handshake(i)
      PROVE  Host(n, l, a, q)!HostInv'
  <2>1. /\ server[i].phase = "handshake"
        /\ UNCHANGED <<at, connections, failures, host, closing, call>>
    BY <1>5 DEF Host!Handshake
  <2>2. PICK p \in {"discovering", "failing"} : server' = [server EXCEPT ![i].phase = p]
    BY <1>5 DEF Host!Handshake
  <2> DEFINE r == [server[i] EXCEPT !.phase = p]
  <2>3. server' = [server EXCEPT ![i] = r]
    BY <2>2, Zenon
  <2>4. r \in R /\ r.phase = p /\ r.shut = server[i].shut
    BY <1>t DEF Host!Server
  <2>5. Host(n, l, a, q)!Listed(r)
    BY <1>t, <1>i DEF Host!Listed, Host!Server
  <2>6. server'[i] = r
    BY <1>t, <2>3
  <2>7. Host(n, l, a, q)!InTurn(i)'
    BY <1>i, <2>1, <2>4, <2>6 DEF Host!InTurn
  <2>8. Host(n, l, a, q)!Stopped(i)'
    <3>1. i \notin closing /\ ~server[i].shut
      BY <1>i, <2>1 DEF Host!InTurn, Host!Stopped
    <3> QED BY <2>1, <2>4, <2>6, <3>1 DEF Host!Stopped
  <2> HIDE DEF r
  <2> QED BY <1>t, <1>c, <2>1, <2>3, <2>4, <2>5, <2>7, <2>8, OneServer
<1>6. ASSUME NEW i \in I, Host(n, l, a, q)!SafeClose(i)
      PROVE  Host(n, l, a, q)!HostInv'
  <2>1. /\ server[i].phase = "failing" /\ failures' = failures \cup {i}
        /\ UNCHANGED <<at, connections, host, closing, call>>
    BY <1>6 DEF Host!SafeClose
  <2> DEFINE r == [server[i] EXCEPT !.phase = "failed", !.proc = "gone", !.linked = FALSE,
    !.news = FALSE]
  <2>3. server' = [server EXCEPT ![i] = r]
    BY <1>6, Zenon DEF Host!SafeClose
  <2>4. r \in R /\ r.phase = "failed" /\ r.proc = "gone" /\ r.shut = server[i].shut
    BY <1>t DEF Host!Server
  <2>5. Host(n, l, a, q)!Listed(r)
    BY <1>t, <1>i DEF Host!Listed, Host!Server
  <2>6. server'[i] = r
    BY <1>t, <2>3
  <2>7. Host(n, l, a, q)!InTurn(i)'
    BY <1>i, <2>1, <2>4, <2>6 DEF Host!InTurn
  <2>8. Host(n, l, a, q)!Stopped(i)'
    <3>1. i \notin closing /\ ~server[i].shut
      BY <1>i, <2>1 DEF Host!InTurn, Host!Stopped
    <3> QED BY <2>1, <2>4, <2>6, <3>1 DEF Host!Stopped
  <2> HIDE DEF r
  <2> QED BY <1>t, <1>c, <2>1, <2>3, <2>4, <2>5, <2>7, <2>8, OneServer
<1>7. ASSUME NEW i \in I, Host(n, l, a, q)!Discover(i)
      PROVE  Host(n, l, a, q)!HostInv'
  <2>1. UNCHANGED <<at, connections, failures, host, closing, call>>
    BY <1>7 DEF Host!Discover
  <2>2. server[i] \in R /\ Host(n, l, a, q)!Listed(server[i])
    BY <1>t, <1>i
  <2>3. PICK kind \in 1 .. l + 1 : kind = server[i].list
    BY <2>2 DEF Host!Server
  <2>4. kind \in 1 .. l /\ kind + 1 \in 1 .. l + 1
    <3>1. kind <= l
      BY <1>7, <2>3 DEF Host!Discover
    <3> QED BY <1>n, <2>3, <3>1, NextKind
  <2>5. PICK answer \in {"none", "lists", "fails", "given up"} :
          server' = [server EXCEPT ![i] = Host(n, l, a, q)!listed(server[i], kind, answer)]
    BY <1>7, <2>3 DEF Host!Discover
  <2>6. PICK r : r = Host(n, l, a, q)!listed(server[i], kind, answer)
    OBVIOUS
  <2>7. PICK offers, warned, owed :
          /\ owed \in BOOLEAN
          /\ r = [server[i] EXCEPT !.list = kind + 1, !.offers = offers, !.answered = offers,
                                   !.warned = warned, !.owed = owed]
          /\ \/ offers = server[i].offers /\ warned = server[i].warned
             \/ offers = server[i].offers /\ warned = server[i].warned \cup {kind}
             \/ offers = server[i].offers \cup {kind} /\ warned = server[i].warned
    <3> DEFINE offers == IF answer = "lists" THEN server[i].offers \cup {kind} ELSE server[i].offers
               warned == IF answer \in {"fails", "given up"} THEN server[i].warned \cup {kind}
                         ELSE server[i].warned
               owed == server[i].owed \/ answer = "given up"
    <3>1. server[i].answered = server[i].offers
      BY <2>2 DEF Host!Listed
    <3>2. r = [server[i] EXCEPT !.list = kind + 1, !.offers = offers, !.answered = offers,
                                !.warned = warned, !.owed = owed]
      BY <2>6, <3>1, Zenon DEF Host!listed
    <3>3. owed \in BOOLEAN
      OBVIOUS
    <3>4. \/ offers = server[i].offers /\ warned = server[i].warned
          \/ offers = server[i].offers /\ warned = server[i].warned \cup {kind}
          \/ offers = server[i].offers \cup {kind} /\ warned = server[i].warned
      OBVIOUS
    <3> HIDE DEF offers, warned, owed
    <3> QED BY <3>2, <3>3, <3>4
  <2>8. offers \subseteq Host(n, l, a, q)!Kinds /\ warned \subseteq Host(n, l, a, q)!Kinds
    <3>1. server[i].offers \subseteq Host(n, l, a, q)!Kinds /\ server[i].warned \subseteq Host(n, l, a, q)!Kinds
      BY <2>2 DEF Host!Server
    <3>2. kind \in Host(n, l, a, q)!Kinds
      BY <2>4 DEF Host!Kinds
    <3> QED BY <2>7, <3>1, <3>2
  <2>10. /\ r \in R /\ r.phase = server[i].phase /\ r.proc = server[i].proc /\ r.shut = server[i].shut
         /\ r.list = kind + 1 /\ r.offers = offers /\ r.answered = offers /\ r.warned = warned
    BY <2>2, <2>7, <2>8, <2>4 DEF Host!Server
  <2>11. Host(n, l, a, q)!Listed(r)
    <3> DEFINE before == server[i].offers \cup server[i].warned
    <3>1. before \in SUBSET (1 .. l) /\ \A k \in before : k < kind
      BY <2>2, <2>3 DEF Host!Server, Host!Kinds, Host!Listed
    <3>2. kind \notin before /\ \A k \in before \cup {kind} : k < kind + 1
      <4> HIDE DEF before
      <4> QED BY <1>n, <2>4, <3>1, AllEarlier
    <3>3. offers \cap warned = {}
      BY <2>2, <2>7, <3>2 DEF Host!Listed
    <3>4. offers \cup warned \subseteq before \cup {kind}
      BY <2>7
    <3> HIDE DEF before
    <3> QED BY <2>10, <3>2, <3>3, <3>4 DEF Host!Listed
  <2>12. server' = [server EXCEPT ![i] = r]
    BY <2>5, <2>6
  <2> QED BY <1>t, <1>c, <2>1, <2>10, <2>11, <2>12, QuietServer
<1>8. ASSUME NEW i \in I, Host(n, l, a, q)!Connected(i)
      PROVE  Host(n, l, a, q)!HostInv'
  <2>1. /\ server[i].phase = "discovering" /\ connections' = connections \cup {i}
        /\ UNCHANGED <<at, failures, host, closing, call>>
    BY <1>8 DEF Host!Connected
  <2> DEFINE r == [server[i] EXCEPT !.phase = "connected"]
  <2>3. server' = [server EXCEPT ![i] = r]
    BY <1>8, Zenon DEF Host!Connected
  <2>4. r \in R /\ r.phase = "connected" /\ r.shut = server[i].shut /\ r.proc = server[i].proc
    BY <1>t DEF Host!Server
  <2>5. Host(n, l, a, q)!Listed(r)
    BY <1>t, <1>i DEF Host!Listed, Host!Server
  <2>6. server'[i] = r
    BY <1>t, <2>3
  <2>7. host # "open" => q
    <3>1. ~(i > at) /\ ~(i < at)
      BY <1>i, <2>1 DEF Host!InTurn
    <3>2. i = at
      BY <1>n, <1>t, <3>1 DEF Host!Servers
    <3> QED BY <1>o, <3>2
  <2>8. Host(n, l, a, q)!InTurn(i)' /\ Host(n, l, a, q)!Stopped(i)'
    <3>1. Host(n, l, a, q)!InTurn(i)'
      BY <1>i, <2>1, <2>4, <2>6, <2>7 DEF Host!InTurn
    <3>2. ~server[i].shut /\ i \notin closing
      BY <1>i, <2>1 DEF Host!InTurn, Host!Stopped
    <3> QED BY <2>1, <2>4, <2>6, <2>7, <3>1, <3>2 DEF Host!Stopped
  <2> HIDE DEF r
  <2> QED BY <1>t, <1>c, <2>1, <2>3, <2>4, <2>5, <2>8, OneServer
<1>9. ASSUME NEW i \in I, Host(n, l, a, q)!ConnectionCloses(i)
      PROVE  Host(n, l, a, q)!HostInv'
  <2>1. i \in closing /\ call' = Host(n, l, a, q)!CallsFail(i)
        /\ UNCHANGED <<at, connections, failures, host, closing>>
    BY <1>9 DEF Host!ConnectionCloses
  <2> DEFINE r == [server[i] EXCEPT !.proc = "gone", !.news = FALSE, !.linked = FALSE, !.shut = TRUE]
  <2>2. server' = [server EXCEPT ![i] = r]
    BY <1>9, Zenon DEF Host!ConnectionCloses
  <2>3. r \in R /\ r.phase = server[i].phase /\ r.proc = "gone" /\ r.shut
    BY <1>t DEF Host!Server
  <2>4. Host(n, l, a, q)!Listed(r)
    BY <1>t, <1>i DEF Host!Listed, Host!Server
  <2>5. /\ call' \in [a -> Host(n, l, a, q)!Call]
        /\ \A c \in a : call'[c].at = "waiting" => call'[c].of \in I
    BY <2>1, CallsFailTyped
  <2>6. host # "open"
    BY <1>i, <2>1 DEF Host!Stopped
  <2> HIDE DEF r
  <2> QED BY <2>1, <2>2, <2>3, <2>4, <2>5, <2>6, QuietServer
<1>10. ASSUME NEW i \in I, Host(n, l, a, q)!Exits(i)
       PROVE  Host(n, l, a, q)!HostInv'
  <2>1. UNCHANGED <<at, connections, failures, host, closing, call>>
    BY <1>10 DEF Host!Exits
  <2> DEFINE r == [server[i] EXCEPT !.proc = "gone", !.news = TRUE]
  <2>2. server' = [server EXCEPT ![i] = r]
    BY <1>10, Zenon DEF Host!Exits
  <2>3. r \in R /\ r.phase = server[i].phase /\ r.proc = "gone" /\ r.shut = server[i].shut
    BY <1>t DEF Host!Server
  <2>4. Host(n, l, a, q)!Listed(r)
    BY <1>t, <1>i DEF Host!Listed, Host!Server
  <2> HIDE DEF r
  <2> QED BY <1>t, <1>c, <2>1, <2>2, <2>3, <2>4, QuietServer
<1>11. ASSUME NEW i \in I, Host(n, l, a, q)!ErrorEvent(i)
       PROVE  Host(n, l, a, q)!HostInv'
  <2>1. UNCHANGED <<at, connections, failures, host, closing, call>>
    BY <1>11 DEF Host!ErrorEvent
  <2> DEFINE r == Host(n, l, a, q)!markDead(server[i], "error")
  <2>2. server' = [server EXCEPT ![i] = r]
    BY <1>11, Zenon DEF Host!ErrorEvent
  <2>3. r \in R /\ r.phase = server[i].phase /\ r.shut = server[i].shut
        /\ (r.proc = server[i].proc \/ r.proc = "gone")
        /\ Host(n, l, a, q)!Listed(r)
    BY <1>t, <1>i, MarkDead
  <2> HIDE DEF r
  <2> QED BY <1>t, <1>c, <2>1, <2>2, <2>3, QuietServer
<1>12. ASSUME NEW i \in I, Host(n, l, a, q)!CloseEvent(i)
       PROVE  Host(n, l, a, q)!HostInv'
  <2>1. UNCHANGED <<at, connections, failures, host, closing>> /\ call' = Host(n, l, a, q)!CallsFail(i)
    BY <1>12 DEF Host!CloseEvent
  <2> DEFINE d == Host(n, l, a, q)!markDead(server[i], "closed")
             r == [d EXCEPT !.news = FALSE, !.linked = FALSE]
  <2>2. server' = [server EXCEPT ![i] = r]
    BY <1>12, Zenon DEF Host!CloseEvent
  <2>3. d \in R /\ d.phase = server[i].phase /\ d.proc = server[i].proc /\ d.shut = server[i].shut /\ Host(n, l, a, q)!Listed(d)
    BY <1>t, <1>i, MarkDead
  <2> HIDE DEF d
  <2>4. r \in R /\ r.phase = server[i].phase /\ r.shut = server[i].shut
        /\ (r.proc = server[i].proc \/ r.proc = "gone")
    BY <2>3 DEF Host!Server
  <2>5. Host(n, l, a, q)!Listed(r)
    BY <2>3 DEF Host!Listed, Host!Server
  <2>6. /\ call' \in [a -> Host(n, l, a, q)!Call]
        /\ \A c \in a : call'[c].at = "waiting" => call'[c].of \in I
    BY <2>1, CallsFailTyped
  <2> HIDE DEF r
  <2> QED BY <2>1, <2>2, <2>4, <2>5, <2>6, QuietServer
<1>13. ASSUME NEW i \in I, Host(n, l, a, q)!LateAnswer(i)
       PROVE  Host(n, l, a, q)!HostInv'
  <2>1. UNCHANGED <<at, connections, failures, host, closing, call>>
    BY <1>13 DEF Host!LateAnswer
  <2> DEFINE d == Host(n, l, a, q)!markDead(server[i], "error")
             r == [d EXCEPT !.owed = FALSE]
  <2>2. server' = [server EXCEPT ![i] = r]
    BY <1>13, Zenon DEF Host!LateAnswer
  <2>3. d \in R /\ d.phase = server[i].phase /\ d.proc = server[i].proc /\ d.shut = server[i].shut /\ Host(n, l, a, q)!Listed(d)
    BY <1>t, <1>i, MarkDead
  <2> HIDE DEF d
  <2>4. r \in R /\ r.phase = server[i].phase /\ r.shut = server[i].shut
        /\ (r.proc = server[i].proc \/ r.proc = "gone")
    BY <2>3 DEF Host!Server
  <2>5. Host(n, l, a, q)!Listed(r)
    BY <2>3 DEF Host!Listed, Host!Server
  <2> HIDE DEF r
  <2> QED BY <1>t, <1>c, <2>1, <2>2, <2>4, <2>5, QuietServer
<1>14. ASSUME NEW c \in a, Host(n, l, a, q)!GiveUp(c)
       PROVE  Host(n, l, a, q)!HostInv'
  <2>1. /\ UNCHANGED <<at, connections, failures, host, closing>>
        /\ call[c].at = "waiting" /\ call' = [call EXCEPT ![c].at = "failed"]
    BY <1>14 DEF Host!GiveUp
  <2> DEFINE i == call[c].of
             r == [server[i] EXCEPT !.owed = TRUE]
  <2>2. i \in I
    BY <1>c, <2>1
  <2>3. server' = [server EXCEPT ![i] = r]
    BY <1>14, Zenon DEF Host!GiveUp
  <2> HIDE DEF i
  <2>4. r \in R /\ r.phase = server[i].phase /\ r.shut = server[i].shut
        /\ (r.proc = server[i].proc \/ r.proc = "gone")
    BY <1>t, <2>2 DEF Host!Server
  <2>5. Host(n, l, a, q)!Listed(r)
    BY <1>t, <1>i, <2>2 DEF Host!Listed, Host!Server
  <2>6. /\ call' \in [a -> Host(n, l, a, q)!Call]
        /\ \A d \in a : call'[d].at = "waiting" => call'[d].of \in I
    BY <1>t, <1>c, <2>1 DEF Host!Call
  <2> HIDE DEF r
  <2> QED BY <2>1, <2>2, <2>3, <2>4, <2>5, <2>6, QuietServer
<1>15. ASSUME NEW c \in a, NEW i \in I, Host(n, l, a, q)!CallTool(c, i)
       PROVE  Host(n, l, a, q)!HostInv'
  <2>1. UNCHANGED <<at, connections, failures, host, closing, server>>
    BY <1>15 DEF Host!CallTool
  <2>2. PICK said \in {"told", "waiting", "failed"} : call' = [call EXCEPT ![c] = [of |-> i,
          at |-> said]]
    BY <1>15 DEF Host!CallTool
  <2>3. [of |-> i, at |-> said] \in Host(n, l, a, q)!Call
    BY DEF Host!Call
  <2>4. /\ call' \in [a -> Host(n, l, a, q)!Call]
        /\ \A d \in a : call'[d].at = "waiting" => call'[d].of \in I
    BY <1>t, <1>c, <2>2, <2>3
  <2> QED BY <1>t, <1>o, <1>i, <2>1, <2>4
          DEF Host!HostInv, Host!TypeOK, Host!InTurn, Host!Stopped
<1>16. ASSUME NEW c \in a, Host(n, l, a, q)!Answer(c)
       PROVE  Host(n, l, a, q)!HostInv'
  <2>1. UNCHANGED <<at, connections, failures, host, closing, server>> /\ call[c].at = "waiting"
    BY <1>16 DEF Host!Answer
  <2>2. PICK said \in {"ok", "failed"} : call' = [call EXCEPT ![c].at = said]
    BY <1>16 DEF Host!Answer
  <2>3. /\ call' \in [a -> Host(n, l, a, q)!Call]
        /\ \A d \in a : call'[d].at = "waiting" => call'[d].of \in I
    BY <1>t, <1>c, <2>2 DEF Host!Call
  <2> QED BY <1>t, <1>o, <1>i, <2>1, <2>3
          DEF Host!HostInv, Host!TypeOK, Host!InTurn, Host!Stopped
<1>17. CASE UNCHANGED Host(n, l, a, q)!vars
  BY <1>t, <1>o, <1>i, <1>c, <1>17 DEF Host!vars, Host!HostInv, Host!TypeOK, Host!InTurn, Host!Stopped
<1> QED BY <1>1, <1>2, <1>3, <1>4, <1>5, <1>6, <1>7, <1>8, <1>9, <1>10, <1>11, <1>12, <1>13, <1>14,
  <1>15,
           <1>16, <1>17 DEF Host!Next, Host!Adze, Host!Events

-----------------------------------------------------------------------------
(* The suite: each part keeps the invariant of its component.               *)

ProcessesInv ==
  /\ part = "broker" => Broker!BInv
  /\ part = "sandbox" => Sandbox!CInv
  /\ part = "serving" => Host(ServingServers, ServingLists, Asked, FALSE)!HostInv
  /\ part = "hurried" => Host(ServingServers, ServingLists, {c1}, TRUE)!HostInv
  /\ part = "offers" => Host(OffersServers, OffersLists, Asked, TRUE)!HostInv

LEMMA ProcessesInit == Init => ProcessesInv
<1> SUFFICES ASSUME Init PROVE ProcessesInv
  OBVIOUS
<1>1. part = "broker" => Broker!BInv
  BY ConstantsAreLegal, BInvInit DEF Init, ConstantsAreLegal
<1>2. part = "sandbox" => Sandbox!CInv
  BY ConstantsAreLegal, CInvInit DEF Init, ConstantsAreLegal
<1>3. part = "serving" => Host(ServingServers, ServingLists, Asked, FALSE)!HostInv
  BY ConstantsAreLegal, HostInvInit DEF Init, ConstantsAreLegal
<1>4. part = "offers" => Host(OffersServers, OffersLists, Asked, TRUE)!HostInv
  BY ConstantsAreLegal, HostInvInit DEF Init, ConstantsAreLegal
<1>5. part = "hurried" => Host(ServingServers, ServingLists, {c1}, TRUE)!HostInv
  BY ConstantsAreLegal, HostInvInit DEF Init, ConstantsAreLegal
<1> QED BY <1>1, <1>2, <1>3, <1>4, <1>5 DEF ProcessesInv

LEMMA ProcessesStep ==
  ASSUME ProcessesInv, [Next]_vars
  PROVE  /\ ProcessesInv'
         /\ part = "broker" => Broker!StaysSettled
         /\ part = "sandbox" => Sandbox!StaysSettled /\ Sandbox!SaysCancelled
<1>1. part' = part
  BY DEF Next, vars
<1>2. ASSUME part = "broker" PROVE Broker!BInv' /\ Broker!StaysSettled
  <2>1. [Broker!Next]_(Broker!vars)
    <3>1. CASE Next
      BY <1>2, <3>1 DEF Next
    <3>2. CASE UNCHANGED vars
      BY <3>2 DEF vars, execVars, brokerVars, bothVars, Broker!vars, Broker!world, Broker!process,
                  Broker!flags, Broker!output
    <3> QED BY <3>1, <3>2
  <2> QED BY <1>2, <2>1, ConstantsAreLegal, BInvStep DEF ProcessesInv, ConstantsAreLegal
<1>3. ASSUME part = "sandbox" PROVE Sandbox!CInv' /\ Sandbox!StaysSettled /\ Sandbox!SaysCancelled
  <2>1. [Sandbox!Next]_(Sandbox!vars)
    <3>1. CASE Next
      BY <1>3, <3>1 DEF Next
    <3>2. CASE UNCHANGED vars
      BY <3>2 DEF vars, execVars, brokerVars, bothVars, Sandbox!vars, Sandbox!world, Sandbox!process,
                  Sandbox!flags, Sandbox!output
    <3> QED BY <3>1, <3>2
  <2> QED BY <1>3, <2>1, ConstantsAreLegal, CInvStep DEF ProcessesInv, ConstantsAreLegal
<1>4. ASSUME part = "serving" PROVE Host(ServingServers, ServingLists, Asked, FALSE)!HostInv'
  <2>1. \/ Host(ServingServers, ServingLists, Asked, FALSE)!Next
        \/ UNCHANGED Host(ServingServers, ServingLists, Asked, FALSE)!vars
    <3>1. CASE Next
      BY <1>4, <3>1 DEF Next
    <3>2. CASE UNCHANGED vars
      BY <3>2 DEF vars, hostVars, Host!vars
    <3> QED BY <3>1, <3>2
  <2> QED BY <1>4, <2>1, ConstantsAreLegal, HostInvStep DEF ProcessesInv, ConstantsAreLegal
<1>5. ASSUME part = "offers" PROVE Host(OffersServers, OffersLists, Asked, TRUE)!HostInv'
  <2>1. \/ Host(OffersServers, OffersLists, Asked, TRUE)!Next
        \/ UNCHANGED Host(OffersServers, OffersLists, Asked, TRUE)!vars
    <3>1. CASE Next
      BY <1>5, <3>1 DEF Next
    <3>2. CASE UNCHANGED vars
      BY <3>2 DEF vars, hostVars, Host!vars
    <3> QED BY <3>1, <3>2
  <2> QED BY <1>5, <2>1, ConstantsAreLegal, HostInvStep DEF ProcessesInv, ConstantsAreLegal
<1>7. ASSUME part = "hurried" PROVE Host(ServingServers, ServingLists, {c1}, TRUE)!HostInv'
  <2>1. \/ Host(ServingServers, ServingLists, {c1}, TRUE)!Next
        \/ UNCHANGED Host(ServingServers, ServingLists, {c1}, TRUE)!vars
    <3>1. CASE Next
      BY <1>7, <3>1 DEF Next
    <3>2. CASE UNCHANGED vars
      BY <3>2 DEF vars, hostVars, Host!vars
    <3> QED BY <3>1, <3>2
  <2> QED BY <1>7, <2>1, ConstantsAreLegal, HostInvStep DEF ProcessesInv, ConstantsAreLegal
<1>6. ProcessesInv'
  BY <1>1, <1>2, <1>3, <1>4, <1>5, <1>7 DEF ProcessesInv
<1> QED BY <1>2, <1>3, <1>6

(* What either broker reports of a command that ended by itself is          *)
(* everything that was written, to the cap, and says when the cap cut it    *)
(* (broker.ts and exec.ts: append, and the close event).                    *)
THEOREM ReportsAreComplete == Spec => []OutputIsComplete
<1>1. ASSUME ProcessesInv PROVE OutputIsComplete
  <2>1. part = "broker" => Broker!TypeOK /\ Broker!OutputIsComplete
    BY <1>1, ConstantsAreLegal
       DEF ProcessesInv, ConstantsAreLegal, Broker!BInv, Broker!TypeOK, Broker!WorldOK,
           Broker!Accounted,
           Broker!Taken, Broker!Ended, Broker!OutputIsComplete, Broker!ChunksAssumption
  <2>2. part = "sandbox" => Sandbox!TypeOK /\ Sandbox!OutputIsComplete
    BY <1>1, ConstantsAreLegal
       DEF ProcessesInv, ConstantsAreLegal, Sandbox!CInv, Sandbox!TypeOK, Sandbox!WorldOK,
           Sandbox!Accounted,
           Sandbox!Taken, Sandbox!Ended, Sandbox!OutputIsComplete, Sandbox!ChunksAssumption
  <2>3. part = "offers" => Host(OffersServers, OffersLists, Asked, TRUE)!TypeOK
    BY <1>1 DEF ProcessesInv, Host!HostInv
  <2> QED BY <2>1, <2>2, <2>3 DEF OutputIsComplete, TypesHold
<1> QED BY <1>1, ProcessesInit, ProcessesStep, PTL DEF Spec

(* An outcome is final: no timer kills and no cancel is noted after it; and *)
(* one reached under an aborted signal says so (broker.ts settle, exec.ts   *)
(* finish and onAbort).                                                     *)
THEOREM OutcomesAreFinal == Spec => SettledIsQuiet
<1>1. ProcessesInv /\ [Next]_vars =>
        /\ ProcessesInv'
        /\ part = "broker" => Broker!StaysSettled
        /\ part = "sandbox" => Sandbox!StaysSettled /\ Sandbox!SaysCancelled
  BY ProcessesStep
<1> QED BY <1>1, ProcessesInit, PTL DEF Spec, SettledIsQuiet

LEMMA HostInvTidy ==
  ASSUME NEW n, NEW l, NEW a, NEW q, Host(n, l, a, q)!HostAssumption, Host(n, l, a, q)!HostInv
  PROVE  Host(n, l, a, q)!Tidy
<1>1. Host(n, l, a, q)!FailedLeavesNothing
  BY DEF Host!HostInv, Host!TypeOK, Host!InTurn, Host!Stopped, Host!FailedLeavesNothing
<1>2. Host(n, l, a, q)!CloseLeavesNothing
  <2> SUFFICES ASSUME host = "closed", NEW i \in Host(n, l, a, q)!Servers, server[i].proc = "up"
               PROVE  q /\ i \notin closing \cup failures
    BY DEF Host!CloseLeavesNothing
  <2>1. Host(n, l, a, q)!InTurn(i) /\ Host(n, l, a, q)!Stopped(i)
    BY DEF Host!HostInv
  <2>2. i \notin closing \cup failures /\ server[i].phase \notin {"none", "failed"}
    BY <2>1 DEF Host!InTurn, Host!Stopped
  <2>3. CASE server[i].phase = "connected"
    BY <2>1, <2>2, <2>3 DEF Host!Stopped
  <2>4. CASE server[i].phase # "connected"
    <3>1. i = at
      <4>1. ~(i > at) /\ ~(i < at)
        BY <2>1, <2>2, <2>4 DEF Host!InTurn
      <4>2. n \in Nat /\ at \in 0 .. n + 1 /\ i \in 1 .. n
        BY DEF Host!HostInv, Host!TypeOK, Host!Servers, Host!HostAssumption
      <4>3. at \in Nat /\ i \in Nat
        BY <4>2
      <4> QED BY <4>1, <4>3
    <3> QED BY <2>2, <3>1 DEF Host!HostInv
  <2> QED BY <2>3, <2>4
<1>3. Host(n, l, a, q)!WhatAnsweredIsOffered
  BY DEF Host!HostInv, Host!TypeOK, Host!Listed, Host!WhatAnsweredIsOffered
<1> QED BY <1>1, <1>2, <1>3 DEF Host!Tidy

(* A server that could not be connected leaves no process; once close        *)
(* returned none runs that it took, and none at all if connectAll was not at *)
(* work when it came; and a connection offers what its server answered: with *)
(* any number of servers, lists and calls (client.ts).                       *)
THEOREM HostsAreTidy == Spec => []HostIsTidy
<1>1. ASSUME ProcessesInv PROVE HostIsTidy
  BY <1>1, ConstantsAreLegal, HostInvTidy DEF ProcessesInv, HostIsTidy, ConstantsAreLegal
<1> QED BY <1>1, ProcessesInit, ProcessesStep, PTL DEF Spec

=============================================================================
