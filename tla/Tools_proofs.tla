------------------------------ MODULE Tools_proofs ------------------------------
(***************************************************************************)
(* Proofs of MCTools' properties of files: one under any number of calls,   *)
(* commands, saves and milliseconds, and those of a person's chats, for any  *)
(* number of sessions, turns and compactions.                                *)
(***************************************************************************)
EXTENDS MCTools, FiniteSetTheorems, SequenceTheorems, WellFoundedInduction, TLAPS

-----------------------------------------------------------------------------
(* Types.                                                                   *)

LEMMA ContentShapes ==
  ASSUME NEW p
  PROVE
  /\ \A parts : parts \subseteq Files(p)!Actors \cup p.saves => Files(p)!Text(parts) \in Files(p)!Content
  /\ Files(p)!Part \in Files(p)!Content
  /\ \A d \in Files(p)!Content : d = [parts |-> d.parts, whole |-> d.whole] /\ d.parts \subseteq Files(p)!Actors \cup p.saves /\ d.whole \in BOOLEAN
BY DEF Files!Text, Files!Part, Files!Content

LEMMA ToolTypes ==
  ASSUME NEW p, Files(p)!CallsAssumption, Files(p)!TypeOK, NEW c \in Files(p)!Calls, Files(p)!ToolStep(c)
  PROVE  Files(p)!TypeOK'
<1> USE DEF Files!TypeOK
<1>c. c \in Files(p)!Actors /\ c \in Files(p)!Inodes
  BY DEF Files!Actors, Files!Inodes
<1>f. data[file] \in Files(p)!Content /\ data[file].parts \subseteq Files(p)!Actors \cup p.saves
  BY ContentShapes
<1>1. CASE Files(p)!Approve(c)
  BY <1>1, <1>c, <1>f DEF Files!Approve, Files!Goes, Files!Phases, Files!commandVars
<1>2. CASE Files(p)!Read(c)
  BY <1>2, <1>c, <1>f DEF Files!Read, Files!Goes, Files!Phases, Files!commandVars
<1>3. CASE Files(p)!ReadFails(c)
  BY <1>3, <1>c DEF Files!ReadFails, Files!Goes, Files!Phases, Files!Settled, Files!commandVars
<1>4. CASE Files(p)!Refused(c)
  BY <1>4, <1>c DEF Files!Refused, Files!Goes, Files!Phases, Files!Settled, Files!commandVars
<1>5. CASE Files(p)!OpenTemp(c)
  <2> DEFINE inode == IF names[clock] = Files(p)!NoInode THEN c ELSE names[clock]
  <2>1. inode \in Files(p)!Calls /\ inode \in Files(p)!Inodes
    BY DEF Files!Inodes
  <2>2. temp' \in [Files(p)!Calls -> Files(p)!Clock] /\ names' \in [Files(p)!Clock -> Files(p)!Calls \cup {Files(p)!NoInode}]
    BY <1>5, <2>1 DEF Files!OpenTemp
  <2>3. data' \in [Files(p)!Inodes -> Files(p)!Content] /\ fd' \in [Files(p)!Actors -> Files(p)!Inodes]
    BY <1>5, <2>1, <1>c, ContentShapes DEF Files!OpenTemp
  <2>4. pc' \in [Files(p)!Actors -> Files(p)!Phases \cup {"started", "applying", "truncated", "exited"}]
    BY <1>5, <1>c DEF Files!OpenTemp, Files!Goes, Files!Phases
  <2> QED BY <1>5, <2>2, <2>3, <2>4 DEF Files!OpenTemp, Files!commandVars
<1>6. CASE Files(p)!FillTemp(c)
  <2>1. Files(p)!Result(c) \subseteq Files(p)!Actors \cup p.saves
    BY <1>c DEF Files!Result, Files!Actors, Files!Calls
  <2>2. data' \in [Files(p)!Inodes -> Files(p)!Content]
    BY <1>6, <2>1, <1>c, ContentShapes DEF Files!FillTemp
  <2> QED BY <1>6, <1>c, <2>2 DEF Files!FillTemp, Files!Goes, Files!Phases, Files!commandVars
<1>7. CASE Files(p)!Rename(c)
  <2>1. file' \in Files(p)!Inodes
    BY <1>7 DEF Files!Rename, Files!Inodes
  <2>2. names' \in [Files(p)!Clock -> Files(p)!Calls \cup {Files(p)!NoInode}]
    BY <1>7 DEF Files!Rename
  <2> QED BY <1>7, <1>c, <2>1, <2>2 DEF Files!Rename, Files!Goes, Files!Phases, Files!Settled, Files!commandVars
<1>8. CASE Files(p)!WriteFails(c)
  BY <1>8, <1>c DEF Files!WriteFails, Files!Goes, Files!Phases, Files!commandVars
<1>9. CASE Files(p)!Cleanup(c)
  BY <1>9, <1>c DEF Files!Cleanup, Files!Goes, Files!Phases, Files!Settled, Files!commandVars
<1> QED BY <1>1, <1>2, <1>3, <1>4, <1>5, <1>6, <1>7, <1>8, <1>9 DEF Files!ToolStep

LEMMA CommandTypes ==
  ASSUME NEW p, Files(p)!CallsAssumption, Files(p)!TypeOK, NEW k \in p.commands, Files(p)!CommandStep(k)
  PROVE  Files(p)!TypeOK'
<1> USE DEF Files!TypeOK, Files!commandVars, Files!engineVars
<1>k. k \in Files(p)!Actors
  BY DEF Files!Actors
<1>f. data[file] \in Files(p)!Content /\ data[file].parts \subseteq Files(p)!Actors \cup p.saves
  BY ContentShapes
<1>x. Files(p)!EXIT.Ok = 0 /\ Files(p)!EXIT.Failure = 1 /\ Files(p)!EXIT.Usage = 2
  BY DEF Files!EXIT
<1>e. ASSUME NEW from, NEW code \in {0, 1, 2}, Files(p)!Exits(k, from, code)
      PROVE  pc' \in [Files(p)!Actors -> Files(p)!Phases \cup {"started", "applying", "truncated", "exited"}]
             /\ exit' \in [p.commands -> {-1, 0, 1, 2}]
  BY <1>e, <1>k DEF Files!Exits
<1>1. CASE Files(p)!UsageError(k)
  BY <1>1, <1>x, <1>e DEF Files!UsageError
<1>2. CASE Files(p)!CommandReads(k)
  BY <1>2, <1>k, <1>f DEF Files!CommandReads
<1>3. CASE Files(p)!emitRefusal(k)
  BY <1>3, <1>x, <1>e DEF Files!emitRefusal
<1>4. CASE Files(p)!DryRun(k)
  BY <1>4, <1>x, <1>e DEF Files!DryRun
<1>5. CASE Files(p)!Truncates(k)
  BY <1>5, <1>k, ContentShapes DEF Files!Truncates
<1>6. CASE Files(p)!Fills(k)
  <2>1. seen[k].parts \cup {k} \subseteq Files(p)!Actors \cup p.saves
    BY <1>k
  <2>2. data' \in [Files(p)!Inodes -> Files(p)!Content]
    BY <1>6, <2>1, <1>k, ContentShapes DEF Files!Fills
  <2> QED BY <1>6, <2>2, <1>x, <1>e DEF Files!Fills
<1>7. CASE Files(p)!CommandWriteFails(k)
  BY <1>7, <1>x, <1>e DEF Files!CommandWriteFails
<1> QED BY <1>1, <1>2, <1>3, <1>4, <1>5, <1>6, <1>7 DEF Files!CommandStep

LEMMA WorldTypes ==
  ASSUME NEW p, Files(p)!CallsAssumption, Files(p)!TypeOK, (\E s \in p.saves : Files(p)!Save(s)) \/ Files(p)!Tick \/ Files(p)!Crash
  PROVE  Files(p)!TypeOK'
<1> USE DEF Files!TypeOK, Files!commandVars
<1>1. ASSUME NEW s \in p.saves, Files(p)!Save(s)
      PROVE  Files(p)!TypeOK'
  <2>1. data[file] \in Files(p)!Content
    OBVIOUS
  <2>2. [data[file] EXCEPT !.parts = @ \cup {s}] \in Files(p)!Content
    BY <2>1 DEF Files!Content
  <2>3. data' \in [Files(p)!Inodes -> Files(p)!Content]
    BY <1>1, <2>2 DEF Files!Save
  <2> QED BY <1>1, <2>3 DEF Files!Save
<1>2. CASE Files(p)!Tick
  BY <1>2 DEF Files!Tick, Files!Clock, Files!CallsAssumption
<1>3. CASE Files(p)!Crash
  BY <1>3 DEF Files!Crash
<1> QED BY <1>1, <1>2, <1>3

-----------------------------------------------------------------------------
(* The calls of the engine.                                                 *)

(* A call of the engine moves itself alone, and no command.                 *)
LEMMA OwnMove ==
  ASSUME NEW p, Files(p)!CallsAssumption, Files(p)!TypeOK, NEW c \in Files(p)!Calls, Files(p)!ToolStep(c)
  PROVE  /\ pc[c] \in Files(p)!Busy \cup {"approval"} /\ pc'[c] \in Files(p)!Phases
         /\ \A a \in Files(p)!Actors \ {c} : pc'[a] = pc[a]
         /\ c \in Files(p)!Actors /\ c \notin p.commands
         /\ exit' = exit /\ invoked' = invoked
BY DEF Files!TypeOK, Files!ToolStep, Files!Approve, Files!Read, Files!ReadFails, Files!Refused, Files!OpenTemp, Files!FillTemp, Files!Rename, Files!WriteFails,
       Files!Cleanup, Files!Goes, Files!commandVars, Files!Actors, Files!Busy, Files!Writing, Files!Phases, Files!Settled, Files!CallsAssumption

LEMMA ToolsTakeTurns ==
  ASSUME NEW p, Files(p)!CallsAssumption, Files(p)!TypeOK, Files(p)!OneAtWork, NEW c \in Files(p)!Calls, Files(p)!ToolStep(c)
  PROVE  Files(p)!OneAtWork'
<1> SUFFICES ASSUME p.oneSession, NEW a \in Files(p)!Calls, NEW b \in Files(p)!Calls, a # b, pc'[a] \in Files(p)!Busy, pc'[b] \in Files(p)!Busy
             PROVE  FALSE
  BY DEF Files!OneAtWork
<1>1. a \in Files(p)!Actors /\ b \in Files(p)!Actors
  BY DEF Files!Actors
<1>2. CASE Files(p)!Approve(c)
  <2>1. \A d \in Files(p)!Calls : pc[d] \notin Files(p)!Busy
    BY <1>2 DEF Files!Approve, Files!Busy, Files!Writing, Files!Settled
  <2> QED BY <2>1, <1>1, OwnMove
<1>3. CASE ~Files(p)!Approve(c)
  <2>1. pc[c] \in Files(p)!Busy
    BY <1>3 DEF Files!ToolStep, Files!Read, Files!ReadFails, Files!Refused, Files!OpenTemp, Files!FillTemp, Files!Rename, Files!WriteFails, Files!Cleanup,
                Files!Goes, Files!Busy, Files!Writing
  <2> QED BY <2>1, <1>1, OwnMove DEF Files!OneAtWork
<1> QED BY <1>2, <1>3

LEMMA OpensItsOwn ==
  ASSUME NEW p, Files(p)!CallsAssumption, Files(p)!Apart, Files(p)!TypeOK, Files(p)!OneAtWork, Files(p)!NamesAreOwn, NEW c \in Files(p)!Calls, Files(p)!OpenTemp(c)
  PROVE  names[clock] = Files(p)!NoInode
<1> SUFFICES ASSUME names[clock] # Files(p)!NoInode PROVE FALSE
  OBVIOUS
<1> DEFINE d == names[clock]
<1>1. d \in Files(p)!Calls /\ pc[d] \in Files(p)!Writing /\ temp[d] = clock
  BY DEF Files!TypeOK, Files!NamesAreOwn
<1>2. pc[c] \in {"read", "entered"} /\ d # c
  BY <1>1 DEF Files!OpenTemp, Files!Goes, Files!Writing
<1>3. CASE p.oneSession
  BY <1>1, <1>2, <1>3 DEF Files!OneAtWork, Files!Busy
<1>4. CASE ~p.sharedMs
  BY <1>1, <1>2, <1>4 DEF Files!OpenTemp, Files!Writing
<1> QED BY <1>3, <1>4 DEF Files!Apart

LEMMA ToolsOwnTheirNames ==
  ASSUME NEW p, Files(p)!CallsAssumption, Files(p)!Apart, Files(p)!TypeOK, Files(p)!OneAtWork, Files(p)!NamesAreOwn, NEW c \in Files(p)!Calls, Files(p)!ToolStep(c)
  PROVE  Files(p)!NamesAreOwn'
<1> USE DEF Files!TypeOK, Files!NamesAreOwn, Files!Writing
<1>a. Files(p)!Calls \subseteq Files(p)!Actors /\ Files(p)!NoInode \notin Files(p)!Calls
  BY DEF Files!Actors, Files!CallsAssumption
<1>1. CASE Files(p)!Approve(c)
  BY <1>1, <1>a DEF Files!Approve, Files!Goes
<1>2. CASE Files(p)!Read(c)
  BY <1>2, <1>a DEF Files!Read, Files!Goes
<1>3. CASE Files(p)!ReadFails(c)
  BY <1>3, <1>a DEF Files!ReadFails, Files!Goes
<1>4. CASE Files(p)!Refused(c)
  BY <1>4, <1>a DEF Files!Refused, Files!Goes
<1>5. CASE Files(p)!OpenTemp(c)
  <2>1. names[clock] = Files(p)!NoInode
    BY <1>5, OpensItsOwn
  <2>2. pc[c] \in {"read", "entered"} /\ pc' = [pc EXCEPT ![c] = "open"]
    BY <1>5 DEF Files!OpenTemp, Files!Goes
  <2>3. temp' = [temp EXCEPT ![c] = clock] /\ names' = [names EXCEPT ![clock] = c] /\ fd' = [fd EXCEPT ![c] = c]
    BY <1>5, <2>1 DEF Files!OpenTemp
  <2> QED BY <2>1, <2>2, <2>3, <1>a
<1>6. CASE Files(p)!FillTemp(c)
  BY <1>6, <1>a DEF Files!FillTemp, Files!Goes
<1>7. CASE Files(p)!Rename(c)
  BY <1>7, <1>a DEF Files!Rename, Files!Goes
<1>8. CASE Files(p)!WriteFails(c)
  BY <1>8, <1>a DEF Files!WriteFails, Files!Goes
<1>9. CASE Files(p)!Cleanup(c)
  BY <1>9, <1>a DEF Files!Cleanup, Files!Goes
<1> QED BY <1>1, <1>2, <1>3, <1>4, <1>5, <1>6, <1>7, <1>8, <1>9 DEF Files!ToolStep

(* What a step of a call does to the files.                                 *)
LEMMA ToolFiles ==
  ASSUME NEW p, Files(p)!CallsAssumption, Files(p)!Apart, Files(p)!TypeOK, Files(p)!OneAtWork, Files(p)!NamesAreOwn, Files(p)!FullIsResult, NEW c \in Files(p)!Calls, Files(p)!ToolStep(c)
  PROVE  /\ \A i \in Files(p)!Inodes \ {c} : data'[i] = data[i]
         /\ data'[c] \in {data[c], Files(p)!Part, Files(p)!Text(Files(p)!Result(c))}
         /\ \A k \in p.commands : fd'[k] = fd[k]
         /\ \/ file' = file
            \/ Files(p)!Rename(c) /\ file' = c /\ data' = data /\ data[c] = Files(p)!Text(Files(p)!Result(c)) /\ pc'[c] = "done"
<1> USE DEF Files!TypeOK, Files!NamesAreOwn, Files!Writing
<1>a. c \in Files(p)!Actors /\ c \in Files(p)!Inodes /\ p.commands \subseteq Files(p)!Actors /\ c \notin p.commands
  BY DEF Files!Actors, Files!Inodes, Files!CallsAssumption
<1>1. CASE Files(p)!OpenTemp(c)
  <2>1. data' = [data EXCEPT ![c] = Files(p)!Part] /\ fd' = [fd EXCEPT ![c] = c] /\ file' = file
    BY <1>1, OpensItsOwn DEF Files!OpenTemp
  <2> QED BY <2>1, <1>a
<1>2. CASE Files(p)!FillTemp(c)
  <2>1. data' = [data EXCEPT ![c] = Files(p)!Text(Files(p)!Result(c))] /\ fd' = fd /\ file' = file
    BY <1>2 DEF Files!FillTemp, Files!Goes
  <2> QED BY <2>1, <1>a
<1>3. CASE Files(p)!Rename(c)
  BY <1>3, <1>a DEF Files!Rename, Files!Goes, Files!FullIsResult
<1>4. CASE ~Files(p)!OpenTemp(c) /\ ~Files(p)!FillTemp(c) /\ ~Files(p)!Rename(c)
  BY <1>4, <1>a DEF Files!ToolStep, Files!Approve, Files!Read, Files!ReadFails, Files!Refused, Files!WriteFails, Files!Cleanup
<1> QED BY <1>1, <1>2, <1>3, <1>4

(* What a step of a call knows of the file.                                 *)
LEMMA ToolSees ==
  ASSUME NEW p, Files(p)!CallsAssumption, Files(p)!TypeOK, NEW c \in Files(p)!Calls, Files(p)!ToolStep(c)
  PROVE  /\ \A a \in Files(p)!Actors \ {c} : seen'[a] = seen[a]
         /\ seen'[c].parts \in {seen[c].parts, data[file].parts}
BY DEF Files!TypeOK, Files!ToolStep, Files!Approve, Files!Read, Files!ReadFails, Files!Refused, Files!OpenTemp, Files!FillTemp, Files!Rename, Files!WriteFails,
       Files!Cleanup, Files!Actors

LEMMA ToolsLand ==
  ASSUME NEW p, Files(p)!CallsAssumption, Files(p)!Apart, Files(p)!FInv, NEW c \in Files(p)!Calls, Files(p)!ToolStep(c)
  PROVE  Files(p)!FilesHaveLanded' /\ Files(p)!FullIsResult'
<1> USE DEF Files!FInv
<1>a. Files(p)!Calls \subseteq Files(p)!Actors /\ pc[c] # "done" /\ Files(p)!Target \notin Files(p)!Calls
  BY OwnMove DEF Files!Actors, Files!CallsAssumption, Files!Busy, Files!Writing
<1>2. Files(p)!Landed(file)'
  BY <1>a, OwnMove, ToolFiles DEF Files!FilesHaveLanded, Files!Landed
<1>3. Files(p)!FilesHaveLanded'
  <2> SUFFICES ASSUME NEW k \in p.commands PROVE Files(p)!Landed(fd[k])'
    BY <1>2 DEF Files!FilesHaveLanded
  <2>1. fd'[k] = fd[k] /\ Files(p)!Landed(fd[k])
    BY ToolFiles DEF Files!FilesHaveLanded
  <2>2. pc[fd[k]] = "done" /\ fd[k] \in Files(p)!Calls => pc'[fd[k]] = "done"
    BY <1>a, OwnMove
  <2> QED BY <2>1, <2>2 DEF Files!Landed
<1>4. ASSUME NEW d \in Files(p)!Calls, pc'[d] = "full"
      PROVE  data'[d] = Files(p)!Text(Files(p)!Result(d))'
  <2>1. CASE d # c
    <3>1. data'[d] = data[d] /\ pc[d] = "full" /\ seen'[d] = seen[d]
      BY <2>1, <1>4, <1>a, OwnMove, ToolFiles, ToolSees DEF Files!Inodes
    <3> QED BY <3>1 DEF Files!FullIsResult, Files!Text, Files!Result
  <2>2. CASE d = c
    <3>1. Files(p)!FillTemp(c)
      BY <2>2, <1>4, <1>a DEF Files!TypeOK, Files!ToolStep, Files!Approve, Files!Read, Files!ReadFails, Files!Refused, Files!OpenTemp, Files!Rename,
         Files!WriteFails, Files!Cleanup, Files!Goes
    <3>2. data' = [data EXCEPT ![c] = Files(p)!Text(Files(p)!Result(c))] /\ seen' = seen
      BY <3>1 DEF Files!FillTemp, Files!NamesAreOwn, Files!Writing, Files!Goes
    <3> QED BY <2>2, <3>2 DEF Files!TypeOK, Files!Inodes, Files!Text, Files!Result
  <2> QED BY <2>1, <2>2
<1> QED BY <1>3, <1>4 DEF Files!FullIsResult

LEMMA ResultParts ==
  ASSUME NEW p
  PROVE
  /\ Files(p)!Part.parts = {} /\ \A parts : Files(p)!Text(parts).parts = parts /\ Files(p)!Text(parts).whole
  /\ \A c \in Files(p)!Calls : Files(p)!Result(c) \subseteq seen[c].parts \cup {c}
BY DEF Files!Part, Files!Text, Files!Result

LEMMA ToolsLeaveNoTrace ==
  ASSUME NEW p, Files(p)!CallsAssumption, Files(p)!Apart, Files(p)!FInv, NEW c \in Files(p)!Calls, Files(p)!ToolStep(c)
  PROVE  Files(p)!UnfinishedIsUnseen'
<1> USE DEF Files!FInv
<1> SUFFICES ASSUME NEW d \in Files(p)!Calls, pc'[d] # "done"
             PROVE  Files(p)!NoTrace(d)'
  BY DEF Files!UnfinishedIsUnseen
<1>a. Files(p)!Calls \subseteq Files(p)!Actors /\ pc[c] # "done" /\ Files(p)!Target \notin Files(p)!Calls /\ file \in Files(p)!Inodes
  BY OwnMove DEF Files!Actors, Files!CallsAssumption, Files!Busy, Files!Writing, Files!TypeOK
<1>1. pc[d] # "done" /\ Files(p)!NoTrace(d)
  BY <1>a, OwnMove DEF Files!UnfinishedIsUnseen
<1>2. d \notin data[file].parts
  BY <1>a, <1>1 DEF Files!NoTrace, Files!FilesHaveLanded, Files!Landed
<1>3. \A i \in Files(p)!Inodes : d \in data'[i].parts => i = d
  BY <1>1, <1>a, ToolFiles, ResultParts DEF Files!NoTrace
<1>4. \A a \in Files(p)!Actors : d \notin seen'[a].parts
  BY <1>1, <1>2, <1>a, ToolSees DEF Files!NoTrace
<1> QED BY <1>3, <1>4 DEF Files!NoTrace

LEMMA ToolsKeepCommandsHonest ==
  ASSUME NEW p, Files(p)!CallsAssumption, Files(p)!Apart, Files(p)!FInv, NEW c \in Files(p)!Calls, Files(p)!ToolStep(c)
  PROVE  Files(p)!CommandIsHonest'
<1> USE DEF Files!FInv
<1> SUFFICES ASSUME NEW k \in p.commands
             PROVE  /\ (\E i \in Files(p)!Inodes : k \in data'[i].parts) \/ (\E a \in Files(p)!Actors : k \in seen'[a].parts) => Files(p)!Applied(k)'
                    /\ pc'[k] # "exited" => exit'[k] = -1
                    /\ pc'[k] \in {"applying", "truncated"} => Files(p)!BuildRequest(invoked'[k])
                    /\ pc'[k] = "truncated" => ~invoked'[k].dryRun
  BY DEF Files!CommandIsHonest
<1>a. k \in Files(p)!Actors /\ c \in Files(p)!Actors /\ k # c /\ c \in Files(p)!Inodes /\ file \in Files(p)!Inodes
  BY DEF Files!Actors, Files!Inodes, Files!CallsAssumption, Files!TypeOK
<1>1. pc'[k] = pc[k] /\ exit' = exit /\ invoked' = invoked
  BY <1>a, OwnMove
<1>2. Files(p)!Applied(k)' = Files(p)!Applied(k)
  BY <1>1 DEF Files!Applied
<1>3. ASSUME NEW i \in Files(p)!Inodes, k \in data'[i].parts
      PROVE  Files(p)!Applied(k)
  BY <1>3, <1>a, ToolFiles, ResultParts DEF Files!CommandIsHonest
<1>4. ASSUME NEW a \in Files(p)!Actors, k \in seen'[a].parts
      PROVE  Files(p)!Applied(k)
  BY <1>4, <1>a, ToolSees DEF Files!CommandIsHonest
<1> QED BY <1>1, <1>2, <1>3, <1>4 DEF Files!CommandIsHonest

LEMMA ToolsKeepTheFile ==
  ASSUME NEW p, Files(p)!CallsAssumption, Files(p)!Apart, Files(p)!FInv, NEW c \in Files(p)!Calls, Files(p)!ToolStep(c)
  PROVE  Files(p)!OnlyAWriteBreaks' /\ Files(p)!ExitTellsTheEdit'
<1> USE DEF Files!FInv
<1>a. p.commands \subseteq Files(p)!Actors /\ c \in Files(p)!Actors /\ c \notin p.commands /\ c \in Files(p)!Inodes /\ file \in Files(p)!Inodes /\ file # c
  BY OwnMove DEF Files!Actors, Files!Inodes, Files!CallsAssumption, Files!TypeOK, Files!FilesHaveLanded, Files!Landed, Files!Busy, Files!Writing
<1>1. \A k \in p.commands : pc'[k] = pc[k] /\ exit'[k] = exit[k] /\ fd'[k] = fd[k] /\ invoked'[k] = invoked[k]
  BY <1>a, OwnMove, ToolFiles
<1>2. \A k \in p.commands : Files(p)!Applied(k)' = Files(p)!Applied(k)
  BY <1>1 DEF Files!Applied
<1>3. CASE file' = file
  <2>1. data'[file'] = data[file]
    BY <1>3, <1>a, ToolFiles
  <2>2. Files(p)!OnlyAWriteBreaks'
    BY <2>1, <1>3, <1>1 DEF Files!OnlyAWriteBreaks
  <2>3. \A k \in p.commands : \A a \in Files(p)!Actors \ {k} :
          pc[a] \in {"truncated", "exited", "done"} => pc'[a] \in {"truncated", "exited", "done"}
    BY OwnMove DEF Files!Busy, Files!Writing
  <2> QED BY <2>1, <2>2, <2>3, <1>1 DEF Files!ExitTellsTheEdit
<1>4. CASE file' = c /\ data' = data /\ data[c] = Files(p)!Text(Files(p)!Result(c)) /\ pc'[c] = "done"
  <2>1. Files(p)!OnlyAWriteBreaks'
    BY <1>4, ResultParts DEF Files!OnlyAWriteBreaks
  <2>2. \A k \in p.commands : k \in data'[file'].parts => Files(p)!Applied(k)'
    BY <1>4, <1>a, <1>2 DEF Files!CommandIsHonest
  <2>3. \A k \in p.commands : c \in Files(p)!Actors \ {k}
    BY <1>a
  <2> QED BY <2>1, <2>2, <2>3, <1>4 DEF Files!ExitTellsTheEdit, Files!Applied
<1> QED BY <1>3, <1>4, ToolFiles

-----------------------------------------------------------------------------
(* The commands, and the rest of the world.                                 *)

(* A command moves itself alone, and no call.                               *)
LEMMA CommandMove ==
  ASSUME NEW p, Files(p)!CallsAssumption, Files(p)!TypeOK, NEW k \in p.commands, Files(p)!CommandStep(k)
  PROVE  /\ pc[k] \in {"started", "applying", "truncated"} /\ pc'[k] \in {"applying", "truncated", "exited"}
         /\ \A a \in Files(p)!Actors \ {k} : pc'[a] = pc[a] /\ seen'[a] = seen[a] /\ fd'[a] = fd[a]
         /\ \A j \in p.commands \ {k} : exit'[j] = exit[j]
         /\ k \in Files(p)!Actors /\ k \notin Files(p)!Calls
         /\ invoked' = invoked /\ file' = file /\ names' = names /\ temp' = temp
         /\ fd'[k] \in {fd[k], file} /\ seen'[k].parts \in {seen[k].parts, data[file].parts}
BY DEF Files!TypeOK, Files!CommandStep, Files!UsageError, Files!CommandReads, Files!emitRefusal, Files!DryRun, Files!Truncates, Files!Fills,
       Files!CommandWriteFails, Files!Exits, Files!commandVars, Files!engineVars, Files!Actors, Files!CallsAssumption

(* What a command leaves in a file: a part of a text, or what it has read   *)
(* and its own edit, in a file that has landed.                             *)
LEMMA CommandFiles ==
  ASSUME NEW p, Files(p)!CallsAssumption, Files(p)!TypeOK, Files(p)!FilesHaveLanded, NEW k \in p.commands, Files(p)!CommandStep(k)
  PROVE  \/ data' = data
         \/ Files(p)!Truncates(k) /\ data' = [data EXCEPT ![file] = Files(p)!Part] /\ Files(p)!Landed(file)
         \/ Files(p)!Fills(k) /\ data' = [data EXCEPT ![fd[k]] = Files(p)!Text(seen[k].parts \cup {k})] /\ Files(p)!Landed(fd[k])
BY DEF Files!TypeOK, Files!CommandStep, Files!UsageError, Files!CommandReads, Files!emitRefusal, Files!DryRun, Files!Truncates, Files!Fills,
       Files!CommandWriteFails, Files!FilesHaveLanded

LEMMA CommandsLeaveCalls ==
  ASSUME NEW p, Files(p)!CallsAssumption, Files(p)!FInv, NEW k \in p.commands, Files(p)!CommandStep(k)
  PROVE  Files(p)!OneAtWork' /\ Files(p)!NamesAreOwn' /\ Files(p)!FilesHaveLanded' /\ Files(p)!FullIsResult' /\ Files(p)!UnfinishedIsUnseen'
<1> USE DEF Files!FInv
<1>a. Files(p)!Calls \subseteq Files(p)!Actors \ {k} /\ p.commands \subseteq Files(p)!Actors /\ k \in Files(p)!Actors /\ file \in Files(p)!Inodes /\ fd[k] \in Files(p)!Inodes
      /\ Files(p)!Target \notin Files(p)!Calls
  BY CommandMove DEF Files!Actors, Files!TypeOK, Files!CallsAssumption
<1>1. \A c \in Files(p)!Calls : pc'[c] = pc[c] /\ seen'[c] = seen[c] /\ fd'[c] = fd[c]
  BY <1>a, CommandMove
<1>2. Files(p)!OneAtWork'
  BY <1>1 DEF Files!OneAtWork
<1>3. Files(p)!NamesAreOwn'
  <2>1. \A ms \in Files(p)!Clock : names[ms] # Files(p)!NoInode => names[ms] \in Files(p)!Calls
    BY DEF Files!TypeOK
  <2> QED BY <1>1, <2>1, CommandMove DEF Files!NamesAreOwn
<1>4. Files(p)!FilesHaveLanded'
  <2>1. Files(p)!Landed(file)'
    BY <1>1, CommandMove DEF Files!Landed, Files!FilesHaveLanded
  <2>2. ASSUME NEW j \in p.commands
        PROVE  Files(p)!Landed(fd[j])'
    <3>1. Files(p)!Landed(fd[j]) /\ Files(p)!Landed(file) /\ fd'[j] \in {fd[j], file}
      BY <1>a, CommandMove DEF Files!FilesHaveLanded
    <3> QED BY <3>1, <1>1 DEF Files!Landed
  <2> QED BY <2>1, <2>2 DEF Files!FilesHaveLanded
<1>5. Files(p)!FullIsResult'
  <2> SUFFICES ASSUME NEW c \in Files(p)!Calls, pc'[c] = "full"
               PROVE  data'[c] = Files(p)!Text(Files(p)!Result(c))'
    BY DEF Files!FullIsResult
  <2>1. pc[c] = "full" /\ c # file /\ c # fd[k]
    BY <1>1, <1>a DEF Files!FilesHaveLanded, Files!Landed
  <2>2. data'[c] = data[c]
    <3>1. c \in Files(p)!Inodes /\ data \in [Files(p)!Inodes -> Files(p)!Content]
      BY DEF Files!TypeOK, Files!Inodes
    <3>2. CASE data' = data
      BY <3>2
    <3>3. CASE data' = [data EXCEPT ![file] = Files(p)!Part]
      BY <2>1, <3>1, <3>3
    <3>4. CASE data' = [data EXCEPT ![fd[k]] = Files(p)!Text(seen[k].parts \cup {k})]
      BY <2>1, <3>1, <3>4
    <3> QED BY <3>2, <3>3, <3>4, CommandFiles
  <2>3. seen'[c] = seen[c]
    BY <1>1
  <2>4. Files(p)!Text(Files(p)!Result(c))' = Files(p)!Text(Files(p)!Result(c))
    BY <2>3 DEF Files!Text, Files!Result
  <2>5. data[c] = Files(p)!Text(Files(p)!Result(c))
    BY <2>1 DEF Files!FullIsResult
  <2> QED BY <2>2, <2>4, <2>5
<1>6. Files(p)!UnfinishedIsUnseen'
  <2> SUFFICES ASSUME NEW c \in Files(p)!Calls, pc'[c] # "done"
               PROVE  Files(p)!NoTrace(c)'
    BY DEF Files!UnfinishedIsUnseen
  <2>1. pc[c] # "done" /\ Files(p)!NoTrace(c) /\ c # k
    BY <1>1, <1>a DEF Files!UnfinishedIsUnseen
  <2>2. c \notin data[file].parts /\ c \notin seen[k].parts
    BY <2>1, <1>a DEF Files!NoTrace, Files!FilesHaveLanded, Files!Landed
  <2>3. \A i \in Files(p)!Inodes : c \in data'[i].parts => i = c
    <3>1. \A i \in Files(p)!Inodes : c \in data[i].parts => i = c
      BY <2>1 DEF Files!NoTrace
    <3>2. CASE data' = data
      BY <3>1, <3>2
    <3>3. CASE data' = [data EXCEPT ![file] = Files(p)!Part]
      BY <3>1, <3>3, <1>a, ResultParts DEF Files!TypeOK
    <3>4. CASE data' = [data EXCEPT ![fd[k]] = Files(p)!Text(seen[k].parts \cup {k})]
      BY <3>1, <3>4, <2>1, <2>2, <1>a, ResultParts DEF Files!TypeOK
    <3> QED BY <3>2, <3>3, <3>4, CommandFiles
  <2>4. \A a \in Files(p)!Actors : c \notin seen'[a].parts
    BY <2>1, <2>2, <1>a, CommandMove DEF Files!NoTrace
  <2> QED BY <2>3, <2>4 DEF Files!NoTrace
<1> QED BY <1>2, <1>3, <1>4, <1>5, <1>6

(* What a command's step makes of the command itself.                       *)
LEMMA CommandSays ==
  ASSUME NEW p, Files(p)!CallsAssumption, Files(p)!FInv, NEW k \in p.commands, Files(p)!CommandStep(k)
  PROVE  /\ pc'[k] # "exited" => exit'[k] = -1
         /\ pc'[k] \in {"applying", "truncated"} => Files(p)!BuildRequest(invoked[k])
         /\ pc'[k] = "truncated" => ~invoked[k].dryRun
         /\ exit'[k] = Files(p)!EXIT.Ok => invoked[k].dryRun \/ Files(p)!Fills(k)
         /\ Files(p)!Fills(k) => Files(p)!Applied(k)'
<1> USE DEF Files!FInv
<1>1. \A from, code : Files(p)!Exits(k, from, code) => pc'[k] = "exited" /\ exit'[k] = code /\ pc[k] = from
  BY DEF Files!Exits, Files!TypeOK, Files!Actors
<1>2. Files(p)!EXIT.Ok = 0 /\ Files(p)!EXIT.Failure = 1 /\ Files(p)!EXIT.Usage = 2
  BY DEF Files!EXIT
<1>3. k \in Files(p)!Actors /\ (pc[k] # "exited" => exit[k] = -1)
  BY DEF Files!CommandIsHonest, Files!Actors
<1>4. CASE Files(p)!UsageError(k)
  BY <1>4, <1>1, <1>2 DEF Files!UsageError, Files!Fills
<1>5. CASE Files(p)!CommandReads(k)
  BY <1>5, <1>2, <1>3 DEF Files!CommandReads, Files!TypeOK, Files!commandVars, Files!Fills, Files!Exits
<1>6. CASE Files(p)!emitRefusal(k)
  BY <1>6, <1>1, <1>2 DEF Files!emitRefusal, Files!Fills
<1>7. CASE Files(p)!DryRun(k)
  BY <1>7, <1>1 DEF Files!DryRun, Files!Fills
<1>8. CASE Files(p)!Truncates(k)
  BY <1>8, <1>2, <1>3 DEF Files!Truncates, Files!TypeOK, Files!commandVars, Files!CommandIsHonest, Files!Fills, Files!Exits
<1>9. CASE Files(p)!Fills(k)
  BY <1>9, <1>1 DEF Files!Fills, Files!CommandIsHonest, Files!Applied
<1>10. CASE Files(p)!CommandWriteFails(k)
  <2>1. pc'[k] = "exited" /\ exit'[k] = Files(p)!EXIT.Usage
    BY <1>10, <1>1 DEF Files!CommandWriteFails
  <2>2. ~Files(p)!Fills(k)
    BY <2>1, <1>1, <1>2 DEF Files!Fills
  <2> QED BY <2>1, <2>2, <1>2
<1> QED BY <1>4, <1>5, <1>6, <1>7, <1>8, <1>9, <1>10 DEF Files!CommandStep

LEMMA CommandsStayHonest ==
  ASSUME NEW p, Files(p)!CallsAssumption, Files(p)!FInv, NEW k \in p.commands, Files(p)!CommandStep(k)
  PROVE  Files(p)!CommandIsHonest'
<1> USE DEF Files!FInv
<1> SUFFICES ASSUME NEW j \in p.commands
             PROVE  /\ (\E i \in Files(p)!Inodes : j \in data'[i].parts) \/ (\E a \in Files(p)!Actors : j \in seen'[a].parts) => Files(p)!Applied(j)'
                    /\ pc'[j] # "exited" => exit'[j] = -1
                    /\ pc'[j] \in {"applying", "truncated"} => Files(p)!BuildRequest(invoked'[j])
                    /\ pc'[j] = "truncated" => ~invoked'[j].dryRun
  BY DEF Files!CommandIsHonest
<1>a. j \in Files(p)!Actors /\ k \in Files(p)!Actors /\ file \in Files(p)!Inodes /\ fd[k] \in Files(p)!Inodes
  BY DEF Files!Actors, Files!TypeOK
<1>1. j # k => pc'[j] = pc[j] /\ exit'[j] = exit[j] /\ Files(p)!Applied(j)' = Files(p)!Applied(j)
  BY <1>a, CommandMove DEF Files!Applied
<1>2. ~Files(p)!Applied(k)
  BY CommandMove DEF Files!Applied
<1>3. ASSUME NEW i \in Files(p)!Inodes, j \in data'[i].parts
      PROVE  Files(p)!Applied(j)'
  <2>1. CASE j \in data[i].parts \/ j \in seen[k].parts
    BY <2>1, <1>1, <1>2, <1>a DEF Files!CommandIsHonest
  <2>2. CASE j \notin data[i].parts /\ j \notin seen[k].parts
    <3>1. ~(data' = data)
      BY <2>2, <1>3
    <3>2. data' # [data EXCEPT ![file] = Files(p)!Part]
      BY <2>2, <1>3, <1>a, ResultParts DEF Files!TypeOK
    <3>3. Files(p)!Fills(k) /\ data' = [data EXCEPT ![fd[k]] = Files(p)!Text(seen[k].parts \cup {k})]
      BY <3>1, <3>2, CommandFiles
    <3>4. j = k
      BY <3>3, <2>2, <1>3, <1>a, ResultParts DEF Files!TypeOK
    <3> QED BY <3>3, <3>4, CommandSays
  <2> QED BY <2>1, <2>2
<1>4. ASSUME NEW a \in Files(p)!Actors, j \in seen'[a].parts
      PROVE  Files(p)!Applied(j)'
  <2>1. Files(p)!Applied(j)
    BY <1>4, <1>a, CommandMove DEF Files!CommandIsHonest
  <2> QED BY <2>1, <1>1, <1>2
<1>5. j = k => /\ pc'[j] # "exited" => exit'[j] = -1
               /\ pc'[j] \in {"applying", "truncated"} => Files(p)!BuildRequest(invoked'[j])
               /\ pc'[j] = "truncated" => ~invoked'[j].dryRun
  BY CommandSays, CommandMove
<1>6. j # k => /\ pc'[j] # "exited" => exit'[j] = -1
               /\ pc'[j] \in {"applying", "truncated"} => Files(p)!BuildRequest(invoked'[j])
               /\ pc'[j] = "truncated" => ~invoked'[j].dryRun
  BY <1>1, CommandMove DEF Files!CommandIsHonest
<1> QED BY <1>3, <1>4, <1>5, <1>6

LEMMA CommandsAreSeenToBreak ==
  ASSUME NEW p, Files(p)!CallsAssumption, Files(p)!FInv, NEW k \in p.commands, Files(p)!CommandStep(k)
  PROVE  Files(p)!OnlyAWriteBreaks'
<1> USE DEF Files!FInv
<1> SUFFICES ASSUME ~data'[file].whole
             PROVE  \E j \in p.commands : fd'[j] = file /\ (pc'[j] = "truncated" \/ (p.fullDisk /\ exit'[j] = Files(p)!EXIT.Usage))
  BY CommandMove DEF Files!OnlyAWriteBreaks
<1>a. k \in Files(p)!Actors /\ p.commands \subseteq Files(p)!Actors /\ file \in Files(p)!Inodes /\ fd[k] \in Files(p)!Inodes
  BY DEF Files!Actors, Files!TypeOK
<1>1. CASE Files(p)!Truncates(k)
  <2>1. fd'[k] = file /\ pc'[k] = "truncated"
    BY <1>1, <1>a DEF Files!Truncates, Files!TypeOK
  <2> QED BY <2>1
<1>2. CASE ~Files(p)!Truncates(k)
  <2>1. ~data[file].whole /\ (Files(p)!Fills(k) => fd[k] # file)
    <3>1. CASE Files(p)!Fills(k)
      <4>1. data' = [data EXCEPT ![fd[k]] = Files(p)!Text(seen[k].parts \cup {k})]
        BY <3>1 DEF Files!Fills
      <4> QED BY <4>1, <1>a, ResultParts DEF Files!TypeOK
    <3>2. CASE ~Files(p)!Fills(k)
      BY <3>2, <1>2, CommandFiles
    <3> QED BY <3>1, <3>2
  <2>2. PICK j \in p.commands : fd[j] = file /\ (pc[j] = "truncated" \/ (p.fullDisk /\ exit[j] = Files(p)!EXIT.Usage))
    BY <2>1 DEF Files!OnlyAWriteBreaks
  <2>3. CASE j # k
    BY <2>2, <2>3, <1>a, CommandMove
  <2>4. CASE j = k
    <3>1. pc[k] = "truncated" /\ ~Files(p)!Fills(k)
      BY <2>1, <2>2, <2>4, CommandMove DEF Files!CommandIsHonest, Files!EXIT
    <3>2. Files(p)!CommandWriteFails(k)
      BY <3>1, <1>2 DEF Files!CommandStep, Files!UsageError, Files!CommandReads, Files!emitRefusal, Files!DryRun, Files!Exits
    <3>3. p.fullDisk /\ exit'[k] = Files(p)!EXIT.Usage /\ fd'[k] = fd[k]
      BY <3>1, <3>2 DEF Files!CommandWriteFails, Files!Exits, Files!TypeOK
    <3> QED BY <2>2, <2>4, <3>3
  <2> QED BY <2>3, <2>4
<1> QED BY <1>1, <1>2

LEMMA ExitsTell ==
  ASSUME NEW p, Files(p)!CallsAssumption, Files(p)!FInv, NEW k \in p.commands, Files(p)!CommandStep(k)
  PROVE  Files(p)!ExitTellsTheEdit'
<1> USE DEF Files!FInv
<1>a. k \in Files(p)!Actors /\ p.commands \subseteq Files(p)!Actors /\ Files(p)!Calls \subseteq Files(p)!Actors /\ file \in Files(p)!Inodes /\ fd[k] \in Files(p)!Inodes
      /\ file' = file /\ invoked' = invoked
  BY CommandMove DEF Files!Actors, Files!TypeOK
<1>1. ASSUME NEW j \in p.commands, j \in data'[file].parts
      PROVE  Files(p)!Applied(j)'
  BY <1>1, <1>a, CommandsStayHonest DEF Files!CommandIsHonest
<1>2. ASSUME NEW j \in p.commands, exit'[j] = Files(p)!EXIT.Ok, ~invoked[j].dryRun,
             \A a \in Files(p)!Actors \ {j} : pc'[a] \notin {"truncated", "exited", "done"}
      PROVE  j \in data'[file].parts
  <2>1. CASE j = k
    <3>1. Files(p)!Fills(k)
      BY <2>1, <1>2, CommandSays
    <3>2. \A c \in Files(p)!Calls : pc[c] # "done"
      BY <2>1, <1>2, <1>a, CommandMove
    <3>3. fd[k] = file
      BY <3>2 DEF Files!FilesHaveLanded, Files!Landed
    <3> QED BY <2>1, <3>1, <3>3, <1>a, ResultParts DEF Files!Fills, Files!TypeOK
  <2>2. CASE j # k
    <3>1. pc'[k] = "applying"
      BY <2>2, <1>2, <1>a, CommandMove
    <3>2. Files(p)!CommandReads(k)
      BY <3>1 DEF Files!CommandStep, Files!UsageError, Files!emitRefusal, Files!DryRun, Files!Truncates, Files!Fills, Files!CommandWriteFails, Files!Exits,
                  Files!TypeOK, Files!Actors
    <3>3. data' = data /\ exit' = exit /\ pc[k] = "started"
      BY <3>2 DEF Files!CommandReads, Files!commandVars
    <3>4. \A a \in Files(p)!Actors \ {j} : pc[a] \notin {"truncated", "exited", "done"}
      BY <1>2, <3>3, CommandMove
    <3> QED BY <1>2, <3>3, <3>4 DEF Files!ExitTellsTheEdit
  <2> QED BY <2>1, <2>2
<1> QED BY <1>1, <1>2, <1>a DEF Files!ExitTellsTheEdit, Files!Applied

LEMMA WorldKeeps ==
  ASSUME NEW p, Files(p)!CallsAssumption, Files(p)!FInv, (\E s \in p.saves : Files(p)!Save(s)) \/ Files(p)!Tick \/ Files(p)!Crash
  PROVE  Files(p)!FInv'
<1> USE DEF Files!FInv
<1>0. Files(p)!TypeOK'
  BY WorldTypes
<1>1. ASSUME NEW s \in p.saves, Files(p)!Save(s)
      PROVE  Files(p)!FInv'
  <2>a. file \in Files(p)!Inodes /\ s \notin Files(p)!Actors /\ data[file].whole
    BY <1>1 DEF Files!Save, Files!TypeOK, Files!Actors, Files!Calls, Files!CallsAssumption
  <2>b. \A i \in Files(p)!Inodes : \A a \in Files(p)!Actors : a \in data'[i].parts <=> a \in data[i].parts
    BY <1>1, <2>a, ContentShapes DEF Files!Save, Files!TypeOK
  <2>d. \A i \in Files(p)!Inodes : data'[i].whole <=> data[i].whole
    BY <1>1, <2>a, ContentShapes DEF Files!Save, Files!TypeOK
  <2>e. \A i \in Files(p)!Inodes : i # file => data'[i] = data[i]
    BY <1>1, <2>a, ContentShapes DEF Files!Save, Files!TypeOK
  <2>c. Files(p)!Calls \subseteq Files(p)!Actors /\ p.commands \subseteq Files(p)!Actors /\ Files(p)!Calls \subseteq Files(p)!Inodes /\ Files(p)!Target \notin Files(p)!Calls
    BY DEF Files!Actors, Files!Inodes, Files!CallsAssumption
  <2>1. Files(p)!OneAtWork' /\ Files(p)!NamesAreOwn' /\ Files(p)!FilesHaveLanded'
    BY <1>1 DEF Files!Save, Files!commandVars, Files!OneAtWork, Files!NamesAreOwn, Files!FilesHaveLanded, Files!Landed
  <2>2. Files(p)!FullIsResult'
    <3>1. \A c \in Files(p)!Calls : pc[c] = "full" => c # file
      BY <2>c DEF Files!FilesHaveLanded, Files!Landed
    <3>2. pc' = pc /\ seen' = seen
      BY <1>1 DEF Files!Save
    <3>3. \A c \in Files(p)!Calls : Files(p)!Text(Files(p)!Result(c))' = Files(p)!Text(Files(p)!Result(c))
      BY <3>2 DEF Files!Text, Files!Result
    <3> QED BY <3>1, <3>2, <3>3, <2>e, <2>c DEF Files!FullIsResult
  <2>3. Files(p)!UnfinishedIsUnseen'
    <3>1. pc' = pc /\ seen' = seen
      BY <1>1 DEF Files!Save
    <3> QED BY <2>b, <2>c, <3>1 DEF Files!UnfinishedIsUnseen, Files!NoTrace
  <2>4. Files(p)!CommandIsHonest'
    BY <2>b, <2>c, <1>1 DEF Files!Save, Files!commandVars, Files!CommandIsHonest, Files!Applied
  <2>5. Files(p)!OnlyAWriteBreaks'
    BY <2>a, <2>d, <1>1 DEF Files!Save, Files!OnlyAWriteBreaks
  <2>6. Files(p)!ExitTellsTheEdit'
    BY <2>a, <2>b, <2>c, <1>1 DEF Files!Save, Files!commandVars, Files!ExitTellsTheEdit
  <2> QED BY <1>0, <2>1, <2>2, <2>3, <2>4, <2>5, <2>6
<1>2. ASSUME Files(p)!Tick \/ Files(p)!Crash
      PROVE  Files(p)!FInv'
  <2>1. UNCHANGED <<pc, seen, temp, fd, names, data, file, saved, invoked, exit>>
    BY <1>2 DEF Files!Tick, Files!Crash, Files!commandVars
  <2> QED BY <1>0, <2>1 DEF Files!OneAtWork, Files!NamesAreOwn, Files!FilesHaveLanded, Files!Landed, Files!FullIsResult, Files!Text, Files!Result,
             Files!UnfinishedIsUnseen, Files!NoTrace, Files!CommandIsHonest, Files!Applied, Files!OnlyAWriteBreaks, Files!ExitTellsTheEdit
<1> QED BY <1>1, <1>2

-----------------------------------------------------------------------------
(* The theorems.                                                            *)

LEMMA FInvInit ==
  ASSUME NEW p, Files(p)!CallsAssumption, Files(p)!Init
  PROVE  Files(p)!FInv
<1>1. /\ \A c \in Files(p)!Calls : pc[c] = "approval"
      /\ \A k \in p.commands : pc[k] = "started" /\ exit[k] = -1 /\ fd[k] = Files(p)!Target
      /\ \A a \in Files(p)!Actors : seen[a].parts = {}
      /\ \A i \in Files(p)!Inodes : data[i].parts = {} /\ data[i].whole
      /\ \A ms \in Files(p)!Clock : names[ms] = Files(p)!NoInode
      /\ file = Files(p)!Target
  BY DEF Files!Init, Files!Actors, Files!Text, Files!CallsAssumption
<1>2. Files(p)!TypeOK
  <2>1. Files(p)!Text({}) \in Files(p)!Content
    BY ContentShapes
  <2> QED
    BY <2>1 DEF Files!Init, Files!TypeOK, Files!Phases, Files!Actors, Files!Clock, Files!Inodes, Files!CallsAssumption
<1>3. Files(p)!OneAtWork /\ Files(p)!NamesAreOwn /\ Files(p)!FilesHaveLanded /\ Files(p)!FullIsResult
  BY <1>1 DEF Files!OneAtWork, Files!NamesAreOwn, Files!FilesHaveLanded, Files!Landed, Files!FullIsResult, Files!Busy, Files!Writing
<1>4. Files(p)!UnfinishedIsUnseen /\ Files(p)!CommandIsHonest
  BY <1>1 DEF Files!UnfinishedIsUnseen, Files!NoTrace, Files!CommandIsHonest
<1>5. Files(p)!OnlyAWriteBreaks /\ Files(p)!ExitTellsTheEdit
  BY <1>1, <1>2 DEF Files!OnlyAWriteBreaks, Files!ExitTellsTheEdit, Files!EXIT, Files!TypeOK
<1> QED BY <1>2, <1>3, <1>4, <1>5 DEF Files!FInv

LEMMA FInvStep ==
  ASSUME NEW p, Files(p)!CallsAssumption, Files(p)!Apart, Files(p)!FInv, [Files(p)!Next]_(Files(p)!vars)
  PROVE  Files(p)!FInv'
<1>1. ASSUME NEW c \in Files(p)!Calls, Files(p)!ToolStep(c)
      PROVE  Files(p)!FInv'
  BY <1>1, ToolTypes, ToolsTakeTurns, ToolsOwnTheirNames, ToolsLand, ToolsLeaveNoTrace,
     ToolsKeepCommandsHonest, ToolsKeepTheFile DEF Files!FInv
<1>2. ASSUME NEW k \in p.commands, Files(p)!CommandStep(k)
      PROVE  Files(p)!FInv'
  BY <1>2, CommandTypes, CommandsLeaveCalls, CommandsStayHonest, CommandsAreSeenToBreak, ExitsTell DEF Files!FInv
<1>3. CASE UNCHANGED Files(p)!vars
  BY <1>3 DEF Files!vars, Files!commandVars, Files!FInv, Files!TypeOK, Files!OneAtWork, Files!NamesAreOwn, Files!FilesHaveLanded, Files!Landed,
     Files!FullIsResult, Files!Text, Files!Result, Files!UnfinishedIsUnseen, Files!NoTrace, Files!CommandIsHonest, Files!Applied,
     Files!OnlyAWriteBreaks, Files!ExitTellsTheEdit
<1> QED BY <1>1, <1>2, <1>3, WorldKeeps DEF Files!Next, Files!ToolStep, Files!CommandStep

LEMMA EditsGoOnBuilding ==
  ASSUME NEW p, Files(p)!CallsAssumption, p.oneSession, p.commands = {}, p.writes = {}, Files(p)!FInv, Files(p)!EditsBuildOn,
         NEW c \in p.edits, Files(p)!ToolStep(c)
  PROVE  Files(p)!EditsBuildOn'
<1> USE DEF Files!FInv
<1>d. /\ p.edits \subseteq Files(p)!Actors /\ p.edits \subseteq Files(p)!Calls
      /\ p.edits \subseteq Files(p)!Inodes /\ c \in Files(p)!Calls
  BY DEF Files!Actors, Files!Calls, Files!Inodes
<1>e. file \in Files(p)!Inodes /\ pc[c] # "done"
  BY <1>d, OwnMove DEF Files!TypeOK, Files!Busy, Files!Writing
<1>f. file # c
  BY <1>d, <1>e DEF Files!FilesHaveLanded, Files!Landed, Files!CallsAssumption
<1>a. /\ p.edits \subseteq Files(p)!Actors /\ p.edits \subseteq Files(p)!Calls
      /\ p.edits \subseteq Files(p)!Inodes /\ c \in Files(p)!Calls
      /\ file \in Files(p)!Inodes /\ file # c
  BY <1>d, <1>e, <1>f
<1>b. \A d \in p.edits \ {c} : pc'[d] = pc[d] /\ seen'[d] = seen[d]
  BY <1>a, OwnMove, ToolSees
<1>c. \A d \in p.edits : pc[d] = "done" => Files(p)!Kept(d, data[file].parts) /\ d # c
  BY <1>a, OwnMove DEF Files!EditsBuildOn, Files!Busy, Files!Writing
<1>1. CASE Files(p)!Rename(c)
  <2>1. seen' = seen /\ pc[c] = "full" /\ pc'[c] = "done" /\ file' = c /\ data'[c].parts = seen[c].parts \cup {c}
    <3>1. data' = data /\ seen' = seen /\ pc[c] = "full" /\ pc'[c] = "done" /\ file' = c
      BY <1>1, <1>a DEF Files!Rename, Files!Goes, Files!TypeOK, Files!NamesAreOwn, Files!Writing
    <3> QED BY <3>1, <1>a, ResultParts DEF Files!FullIsResult, Files!Result, Files!Text
  <2>2. \A d \in p.edits \ {c} : pc'[d] \notin {"entered", "read", "open", "full"}
    BY <2>1, <1>a, <1>b DEF Files!OneAtWork, Files!Busy, Files!Writing
  <2>3. \A d \in p.edits : pc'[d] = "done" => Files(p)!Kept(d, data'[file'].parts)
    BY <2>1, <1>b DEF Files!EditsBuildOn, Files!Kept
  <2>4. \A d \in p.edits : pc'[d] = "done" => Files(p)!Kept(d, data[file].parts)'
    BY <2>1, <2>3 DEF Files!Kept
  <2> QED BY <2>1, <2>2, <2>4 DEF Files!EditsBuildOn
<1>2. CASE ~Files(p)!Rename(c)
  <2>1. file' = file /\ data'[file] = data[file]
    BY <1>2, <1>a, ToolFiles DEF Files!Apart
  <2>3. pc'[c] # "done"
    BY <1>2, <1>a DEF Files!ToolStep, Files!Approve, Files!Read, Files!ReadFails, Files!Refused, Files!OpenTemp, Files!FillTemp, Files!WriteFails, Files!Cleanup, Files!Goes, Files!TypeOK
  <2>4. /\ pc'[c] = "entered" => seen'[c].there = data[file].parts
        /\ pc'[c] = "read" => pc[c] = "entered" /\ seen'[c].there = seen[c].there /\ seen'[c].parts = data[file].parts
        /\ pc'[c] \in {"open", "full"} => pc[c] \in {"read", "open"} /\ seen'[c] = seen[c]
    BY <1>2, <1>a DEF Files!ToolStep, Files!Approve, Files!Read, Files!ReadFails, Files!Refused, Files!OpenTemp, Files!FillTemp, Files!WriteFails, Files!Cleanup,
       Files!Goes, Files!TypeOK, Files!CallsAssumption, Files!Settled
  <2>5. \A d \in p.edits : pc'[d] = "done" => d # c /\ pc[d] = "done" /\ seen'[d] = seen[d]
    BY <1>b, <2>3
  <2>6. ASSUME NEW d \in p.edits, pc'[d] = "done"
        PROVE  Files(p)!Kept(d, data[file].parts)'
    BY <2>6, <2>5, <2>1, <1>c DEF Files!Kept
  <2>7. ASSUME NEW d \in p.edits, pc'[d] = "entered"
        PROVE  seen'[d].there \subseteq data'[file'].parts
    BY <2>7, <2>1, <2>4, <1>b DEF Files!EditsBuildOn
  <2>8. ASSUME NEW d \in p.edits, pc'[d] \in {"read", "open", "full"}
        PROVE  /\ seen'[d].there \subseteq seen'[d].parts
               /\ \A e \in p.edits : pc'[e] = "done" => Files(p)!Kept(e, seen[d].parts)'
    <3>1. CASE d = c /\ pc'[c] = "read"
      BY <3>1, <2>4, <2>5, <1>c DEF Files!EditsBuildOn, Files!Kept
    <3>2. CASE d = c /\ pc'[c] \in {"open", "full"}
      BY <3>2, <2>4, <2>5 DEF Files!EditsBuildOn, Files!Kept
    <3>3. CASE d # c
      BY <3>3, <2>8, <1>b, <2>5 DEF Files!EditsBuildOn, Files!Kept
    <3> QED BY <2>8, <3>1, <3>2, <3>3
  <2> QED BY <2>6, <2>7, <2>8 DEF Files!EditsBuildOn
<1> QED BY <1>1, <1>2

LEMMA EditsKeepBuilding ==
  ASSUME NEW p, Files(p)!CallsAssumption, p.oneSession, p.commands = {}, p.writes = {},
         Files(p)!FInv, Files(p)!EditsBuildOn, [Files(p)!Next]_(Files(p)!vars)
  PROVE  Files(p)!EditsBuildOn'
<1>1. ASSUME NEW c \in Files(p)!Calls, Files(p)!ToolStep(c)
      PROVE  Files(p)!EditsBuildOn'
  BY <1>1, EditsGoOnBuilding DEF Files!Calls
<1>2. ASSUME NEW s \in p.saves, Files(p)!Save(s)
      PROVE  Files(p)!EditsBuildOn'
  <2>1. pc' = pc /\ seen' = seen /\ file' = file /\ data[file].parts \subseteq data'[file].parts
    BY <1>2 DEF Files!Save, Files!FInv, Files!TypeOK, Files!Content
  <2> QED BY <2>1 DEF Files!EditsBuildOn, Files!Kept
<1>3. CASE Files(p)!Tick \/ Files(p)!Crash \/ UNCHANGED Files(p)!vars
  BY <1>3 DEF Files!Tick, Files!Crash, Files!vars, Files!EditsBuildOn, Files!Kept
<1> QED BY <1>1, <1>2, <1>3 DEF Files!Next, Files!ToolStep

LEMMA FInvMeans ==
  ASSUME NEW p, Files(p)!CallsAssumption, Files(p)!FInv
  PROVE  /\ p.commands = {} => Files(p)!FileIsWhole
         /\ Files(p)!FailureWritesNothing /\ Files(p)!NoTempStays
         /\ Files(p)!ExitTellsTheEdit /\ Files(p)!OnlyAWriteBreaks
<1>1. p.commands = {} => Files(p)!FileIsWhole
  BY DEF Files!FInv, Files!OnlyAWriteBreaks, Files!FileIsWhole
<1>2. Files(p)!FailureWritesNothing
  <2> SUFFICES ASSUME NEW c \in Files(p)!Calls, pc[c] \in {"refused", "failed"}
               PROVE  c \notin data[file].parts
    BY DEF Files!FailureWritesNothing
  <2>1. Files(p)!NoTrace(c) /\ file # c /\ file \in Files(p)!Inodes
    BY DEF Files!FInv, Files!UnfinishedIsUnseen, Files!FilesHaveLanded, Files!Landed, Files!TypeOK, Files!CallsAssumption
  <2> QED BY <2>1 DEF Files!NoTrace
<1>3. Files(p)!NoTempStays
  BY DEF Files!FInv, Files!TypeOK, Files!NamesAreOwn, Files!Writing, Files!Settled, Files!NoTempStays
<1> QED BY <1>1, <1>2, <1>3 DEF Files!FInv

-----------------------------------------------------------------------------
(* The files of the run.                                                    *)

FilesInv ==
  /\ part = "inTurn" => Files(InTurn)!FInv /\ (InTurn.writes = {} => Files(InTurn)!EditsBuildOn)
  /\ part = "atOnce" => Files(AtOnce)!FInv
  /\ part = "byCommand" => Files(ByCommand)!FInv

LEMMA FilesAreLegal ==
  /\ Files(InTurn)!CallsAssumption /\ Files(InTurn)!Apart /\ InTurn.oneSession /\ InTurn.commands = {}
  /\ Files(AtOnce)!CallsAssumption /\ Files(AtOnce)!Apart /\ AtOnce.commands = {}
  /\ Files(ByCommand)!CallsAssumption /\ Files(ByCommand)!Apart
BY ConstantsAreLegal DEF Files!Apart

LEMMA FilesInvInit == ASSUME Init PROVE FilesInv
<1>1. CASE part = "inTurn"
  <2>1. Files(InTurn)!Init
    BY <1>1 DEF Init
  <2>2. Files(InTurn)!FInv
    BY <2>1, FInvInit, FilesAreLegal
  <2>3. Files(InTurn)!EditsBuildOn
    BY <2>1 DEF Files!Init, Files!EditsBuildOn, Files!Actors, Files!Calls
  <2> QED BY <1>1, <2>2, <2>3 DEF FilesInv
<1>2. CASE part = "atOnce"
  <2>1. Files(AtOnce)!Init
    BY <1>2 DEF Init
  <2>2. Files(AtOnce)!FInv
    BY <2>1, FInvInit, FilesAreLegal
  <2> QED BY <1>2, <2>2 DEF FilesInv
<1>3. CASE part = "byCommand"
  <2>1. Files(ByCommand)!Init
    BY <1>3 DEF Init
  <2>2. Files(ByCommand)!FInv
    BY <2>1, FInvInit, FilesAreLegal
  <2> QED BY <1>3, <2>2 DEF FilesInv
<1> QED BY <1>1, <1>2, <1>3 DEF FilesInv

LEMMA FilesInvStep == ASSUME FilesInv, [Next]_vars PROVE FilesInv'
<1>a. part' = part
  BY DEF Next, vars
<1>1. CASE part = "inTurn"
  <2>1. [Files(InTurn)!Next]_(Files(InTurn)!vars)
    BY <1>1 DEF Next, vars, fileVars, Files!vars, Files!commandVars
  <2>2. Files(InTurn)!FInv /\ (InTurn.writes = {} => Files(InTurn)!EditsBuildOn)
    BY <1>1 DEF FilesInv
  <2>3. Files(InTurn)!FInv'
    BY <2>1, <2>2, FInvStep, FilesAreLegal
  <2>4. InTurn.writes = {} => Files(InTurn)!EditsBuildOn'
    BY <2>1, <2>2, EditsKeepBuilding, FilesAreLegal
  <2> QED BY <1>1, <1>a, <2>3, <2>4 DEF FilesInv
<1>2. CASE part = "atOnce"
  <2>1. [Files(AtOnce)!Next]_(Files(AtOnce)!vars)
    BY <1>2 DEF Next, vars, fileVars, Files!vars, Files!commandVars
  <2>2. Files(AtOnce)!FInv'
    BY <1>2, <2>1, FInvStep, FilesAreLegal DEF FilesInv
  <2> QED BY <1>2, <1>a, <2>2 DEF FilesInv
<1>3. CASE part = "byCommand"
  <2>1. [Files(ByCommand)!Next]_(Files(ByCommand)!vars)
    BY <1>3 DEF Next, vars, fileVars, Files!vars, Files!commandVars
  <2>2. Files(ByCommand)!FInv'
    BY <1>3, <2>1, FInvStep, FilesAreLegal DEF FilesInv
  <2> QED BY <1>3, <1>a, <2>2 DEF FilesInv
<1> QED BY <1>a, <1>1, <1>2, <1>3 DEF FilesInv

LEMMA FilesInvMeans == ASSUME FilesInv PROVE DoneEditsStay
<1>1. part = "inTurn" => Files(InTurn)!DoneEditsStay
  BY DEF FilesInv, Files!EditsBuildOn, Files!Kept, Files!DoneEditsStay
<1>2. part = "atOnce" => Files(AtOnce)!FileIsWhole /\ Files(AtOnce)!FailureWritesNothing /\ Files(AtOnce)!NoTempStays
  BY FInvMeans, FilesAreLegal DEF FilesInv
<1>3. part = "byCommand" => Files(ByCommand)!ExitTellsTheEdit /\ Files(ByCommand)!OnlyAWriteBreaks
  BY FInvMeans, FilesAreLegal DEF FilesInv
<1> QED BY <1>1, <1>2, <1>3 DEF DoneEditsStay

(* For any number of calls, saves and commands: in one session an edit that  *)
(* was reported as applied stays in the file, and with it whatever a person  *)
(* had saved until the gate let it in; over calls that share no millisecond  *)
(* the path leads to a whole text, a failure has changed nothing and no      *)
(* temporary file stays; and adze apply exits with 0 only when its edit is   *)
(* in the file, and only its write, at work or broken off, leaves less than  *)
(* a whole text (edit.ts, fs.ts writeFile, apply.ts).                        *)
THEOREM FileEditsStay == Spec => []DoneEditsStay
<1>1. Init => FilesInv
  BY FilesInvInit
<1>2. FilesInv /\ [Next]_vars => FilesInv'
  BY FilesInvStep
<1>3. FilesInv => DoneEditsStay
  BY FilesInvMeans
<1> QED BY <1>1, <1>2, <1>3, PTL DEF Spec

-----------------------------------------------------------------------------
(* Sequences.                                                               *)

LEMMA Prefix ==
  ASSUME NEW S, NEW s \in Seq(S), NEW k \in 0 .. Len(s)
  PROVE  /\ SubSeq(s, 1, k) \in Seq(S)
         /\ Len(SubSeq(s, 1, k)) = k
         /\ \A i \in 1 .. k : SubSeq(s, 1, k)[i] = s[i]
<1>1. Len(s) \in Nat /\ k \in Nat /\ 1 \in Nat /\ k \in 0 .. Len(s)
  BY LenProperties
<1>2. CASE k = 0
  <2>1. SubSeq(s, 1, k) = <<>>
    BY <1>2
  <2> QED BY <2>1, <1>2, EmptySeq
<1>3. CASE k > 0
  <2>1. 1 \in 1 .. Len(s) + 1 /\ k \in 1 - 1 .. Len(s)
    BY <1>1, <1>3
  <2>2. /\ SubSeq(s, 1, k) \in Seq(S)
        /\ Len(SubSeq(s, 1, k)) = IF 1 <= k THEN k - 1 + 1 ELSE 0
        /\ \A i \in 1 .. k - 1 + 1 : SubSeq(s, 1, k)[i] = s[1 + i - 1]
    BY <2>1, SubSeqProperties
  <2>3. k - 1 + 1 = k /\ 1 <= k /\ \A i \in 1 .. k : 1 + i - 1 = i
    BY <1>1, <1>3
  <2> QED BY <2>2, <2>3
<1> QED BY <1>1, <1>2, <1>3

LEMMA Least ==
  ASSUME NEW T, T \subseteq Nat, T # {}
  PROVE  \E x \in T : \A y \in T : x <= y
<1>1. PICK x \in T : \A y \in T : ~(<<y, x>> \in OpToRel(<, Nat))
  BY WFMin, NatLessThanWellFounded
<1>2. ASSUME NEW y \in T PROVE x <= y
  <2>1. ~(<<y, x>> \in {ss \in Nat \X Nat : ss[1] < ss[2]})
    BY <1>1 DEF OpToRel
  <2> QED BY <2>1
<1> QED BY <1>2

(* The k-th of a finite set of numbers.                                     *)
LEMMA KthExists ==
  ASSUME NEW n \in Nat, NEW T \in SUBSET (1 .. n), NEW k \in 1 .. Cardinality(T)
  PROVE  \E i \in T : \E below \in SUBSET T :
           (\A j \in T : j \in below <=> j <= i) /\ Cardinality(below) = k
<1> DEFINE Below(m) == {j \in T : j <= m}
           Reached == {m \in 0 .. n : Cardinality(Below(m)) >= k}
<1>a. T \subseteq 1 .. n /\ n \in 0 .. n /\ \A j \in T : j \in Nat /\ 1 <= j /\ j <= n
  OBVIOUS
<1>1. IsFiniteSet(T) /\ \A m : IsFiniteSet(Below(m)) /\ Cardinality(Below(m)) \in Nat
  <2>1. IsFiniteSet(T)
    <3>1. IsFiniteSet(1 .. n)
      BY FS_Interval
    <3> QED BY <3>1, FS_Subset
  <2>2. ASSUME NEW m PROVE IsFiniteSet(Below(m)) /\ Cardinality(Below(m)) \in Nat
    <3>1. IsFiniteSet(Below(m))
      BY <2>1, FS_Subset
    <3> QED BY <3>1, FS_CardinalityType
  <2> QED BY <2>1, <2>2
<1>2. k \in Nat /\ k >= 1 /\ Cardinality(T) \in Nat /\ k <= Cardinality(T)
  BY <1>1, FS_CardinalityType
<1>b. \A m, j : j \in Below(m) <=> j \in T /\ j <= m
  OBVIOUS
<1>3. n \in Reached
  <2> HIDE DEF Below
  <2>1. Below(n) = T
    BY <1>a, <1>b
  <2> QED BY <2>1, <1>2, <1>a
<1>4. Cardinality(Below(0)) = 0
  <2> HIDE DEF Below
  <2>1. \A j \in T : ~(j <= 0)
    BY <1>a
  <2>2. \A j : j \in Below(0) <=> j \in T /\ j <= 0
    BY <1>b
  <2>3. Below(0) = {}
    BY <2>1, <2>2
  <2> QED BY <2>3, FS_EmptySet
<1>5. PICK m \in Reached : \A y \in Reached : m <= y
  <2> HIDE DEF Below
  <2>1. Reached \subseteq Nat /\ Reached # {}
    BY <1>3
  <2> HIDE DEF Reached
  <2> QED BY <2>1, Least
<1> HIDE DEF Below
<1>6. m \in 1 .. n /\ m - 1 \in 0 .. n /\ Cardinality(Below(m)) >= k
  <2>1. m \in 0 .. n /\ Cardinality(Below(m)) >= k
    BY <1>5
  <2>2. m # 0
    BY <2>1, <1>4, <1>2
  <2> QED BY <2>1, <2>2
<1>7. Cardinality(Below(m - 1)) < k
  <2>1. m - 1 \notin Reached
    <3> HIDE DEF Reached
    <3> QED BY <1>5, <1>6
  <2> QED BY <2>1, <1>6, <1>1, <1>2
<1>c. \A j \in T : j <= m <=> j = m \/ j <= m - 1
  BY <1>a, <1>6
<1>8. m \in T
  <2> SUFFICES ASSUME m \notin T PROVE FALSE
    OBVIOUS
  <2>1. Below(m) = Below(m - 1)
    BY <1>b, <1>c
  <2> QED BY <2>1, <1>7, <1>1, <1>2, <1>6
<1>9. Cardinality(Below(m)) = Cardinality(Below(m - 1)) + 1
  <2>1. m \notin Below(m - 1)
    BY <1>b, <1>6
  <2>2. Below(m) = Below(m - 1) \cup {m}
    BY <1>b, <1>c, <1>8
  <2> QED BY <2>1, <2>2, <1>1, FS_AddElement
<1>11. Cardinality(Below(m)) = k
  BY <1>7, <1>9, <1>6, <1>1, <1>2
<1>12. Below(m) \in SUBSET T /\ \A j \in T : j \in Below(m) <=> j <= m
  BY <1>b
<1> QED BY <1>8, <1>11, <1>12

-----------------------------------------------------------------------------
(* Conversations.                                                           *)

(* The instance has a copy of FiniteSets of its own.                        *)
LEMMA SizesAgree == ASSUME NEW q, NEW S PROVE Chats(q)!Cardinality(S) = Cardinality(S)
BY DEF Chats!Cardinality, Cardinality

LEMMA MessageShapes ==
  ASSUME NEW q, NEW m \in Chats(q)!Message
  PROVE  /\ m.kind \in {"user", "assistant", "summary"}
         /\ m.kind # "summary" => m.turn \in Chats(q)!TurnIds
         /\ m.kind = "user" => m = Chats(q)!User(m.turn)
<1>1. CASE m \in [kind : {"user", "assistant"}, turn : Chats(q)!TurnIds]
  <2>1. m = [kind |-> m.kind, turn |-> m.turn] /\ m.kind \in {"user", "assistant"} /\ m.turn \in Chats(q)!TurnIds
    BY <1>1
  <2> QED BY <2>1 DEF Chats!User
<1>2. CASE m \in [kind : {"summary"}]
  BY <1>2
<1> QED BY <1>1, <1>2 DEF Chats!Message

LEMMA HistoryIsFinite ==
  ASSUME NEW q, NEW h \in Seq(Chats(q)!Message)
  PROVE  /\ Len(h) \in Nat /\ DOMAIN h = 1 .. Len(h)
         /\ \A i \in 1 .. Len(h) : h[i] \in Chats(q)!Message
         /\ Chats(q)!Prompts(h) \subseteq 1 .. Len(h) /\ Chats(q)!Replies(h) \subseteq 1 .. Len(h)
         /\ IsFiniteSet(Chats(q)!Prompts(h)) /\ Cardinality(Chats(q)!Prompts(h)) \in Nat
         /\ IsFiniteSet(Chats(q)!Replies(h)) /\ Cardinality(Chats(q)!Replies(h)) \in Nat
<1>1. Len(h) \in Nat /\ DOMAIN h = 1 .. Len(h) /\ \A i \in 1 .. Len(h) : h[i] \in Chats(q)!Message
  BY LenProperties, ElementOfSeq
<1>2. Chats(q)!Prompts(h) \subseteq 1 .. Len(h) /\ Chats(q)!Replies(h) \subseteq 1 .. Len(h)
  BY <1>1 DEF Chats!Prompts, Chats!Replies
<1>3. IsFiniteSet(1 .. Len(h))
  BY <1>1, FS_Interval
<1>4. IsFiniteSet(Chats(q)!Prompts(h)) /\ IsFiniteSet(Chats(q)!Replies(h))
  BY <1>2, <1>3, FS_Subset
<1> QED BY <1>1, <1>2, <1>4, FS_CardinalityType

(* What comes first in a conversation is one.                               *)
LEMMA StartsAreConversations ==
  ASSUME NEW q, NEW h \in Seq(Chats(q)!Message), NEW k \in 0 .. Len(h), NEW n \in Nat,
         Chats(q)!Conversation(h, n)
  PROVE  /\ SubSeq(h, 1, k) \in Seq(Chats(q)!Message) /\ Len(SubSeq(h, 1, k)) = k
         /\ \A i \in 1 .. k : SubSeq(h, 1, k)[i] = h[i]
         /\ \A i : i \in Chats(q)!Prompts(SubSeq(h, 1, k)) <=> i \in Chats(q)!Prompts(h) /\ i <= k
         /\ Chats(q)!Conversation(SubSeq(h, 1, k), n)
<1> DEFINE g == SubSeq(h, 1, k)
<1>1. g \in Seq(Chats(q)!Message) /\ Len(g) = k /\ \A i \in 1 .. k : g[i] = h[i]
  BY Prefix
<1> HIDE DEF g
<1>2. Len(h) \in Nat /\ DOMAIN h = 1 .. Len(h) /\ DOMAIN g = 1 .. k /\ k \in Nat /\ k <= Len(h)
  BY <1>1, LenProperties
<1>3. \A i : i \in Chats(q)!Prompts(g) <=> i \in Chats(q)!Prompts(h) /\ i <= k
  BY <1>1, <1>2 DEF Chats!Prompts
<1>4. \A i : i \in Chats(q)!Replies(g) <=> i \in Chats(q)!Replies(h) /\ i <= k
  BY <1>1, <1>2 DEF Chats!Replies
<1>5. Chats(q)!InOrder(g)
  <2>1. Chats(q)!InOrder(h)
    BY DEF Chats!Conversation
  <2>2. \A i, j \in Chats(q)!Prompts(g) : i < j => g[i].turn < g[j].turn
    BY <2>1, <1>1, <1>2, <1>3 DEF Chats!InOrder, Chats!Prompts
  <2>3. ASSUME NEW i \in DOMAIN g, g[i].kind = "assistant"
        PROVE  i > 1 /\ g[i - 1] = Chats(q)!User(g[i].turn)
    <3>1. i \in 1 .. k /\ i \in DOMAIN h /\ g[i] = h[i]
      BY <1>1, <1>2
    <3>2. i > 1 /\ h[i - 1] = Chats(q)!User(h[i].turn)
      BY <2>1, <2>3, <3>1 DEF Chats!InOrder
    <3>3. i - 1 \in 1 .. k
      BY <3>1, <3>2, <1>2
    <3> QED BY <3>1, <3>2, <3>3, <1>1
  <2> QED BY <2>2, <2>3 DEF Chats!InOrder
<1>6. \A i \in Chats(q)!Prompts(g) : g[i].turn <= asked
  BY <1>1, <1>2, <1>3 DEF Chats!Conversation, Chats!Prompts
<1>7. n >= Cardinality(Chats(q)!Replies(g))
  <2>1. Chats(q)!Replies(g) \subseteq Chats(q)!Replies(h)
    BY <1>4
  <2>2. Cardinality(Chats(q)!Replies(g)) <= Cardinality(Chats(q)!Replies(h))
    BY <2>1, HistoryIsFinite, FS_Subset
  <2>3. n >= Cardinality(Chats(q)!Replies(h))
    BY SizesAgree DEF Chats!Conversation
  <2> QED BY <2>2, <2>3, <1>1, HistoryIsFinite
<1>8. Chats(q)!Conversation(g, n)
  BY <1>5, <1>6, <1>7, SizesAgree DEF Chats!Conversation
<1> QED BY <1>1, <1>3, <1>8 DEF g

(* Every reply follows a prompt of its own, so there are no fewer prompts.  *)
LEMMA RepliesFollowPrompts ==
  ASSUME NEW q, NEW h \in Seq(Chats(q)!Message), Chats(q)!InOrder(h)
  PROVE  Cardinality(Chats(q)!Replies(h)) <= Cardinality(Chats(q)!Prompts(h))
<1> DEFINE R == Chats(q)!Replies(h)
           P == Chats(q)!Prompts(h)
           f == [i \in R |-> i - 1]
<1>1. \A i \in R : i \in 1 .. Len(h) /\ i > 1 /\ h[i - 1] = Chats(q)!User(h[i].turn) /\ Len(h) \in Nat
  BY HistoryIsFinite DEF Chats!InOrder, Chats!Replies
<1>2. ASSUME NEW i \in R PROVE i - 1 \in P
  <2> HIDE DEF R
  <2>3. Chats(q)!User(h[i].turn).kind = "user"
    BY DEF Chats!User
  <2>1. i \in 1 .. Len(h) /\ i > 1 /\ Len(h) \in Nat /\ h[i - 1].kind = "user"
    BY <1>1, <2>3
  <2>2. i - 1 \in DOMAIN h
    BY <2>1, HistoryIsFinite
  <2> QED BY <2>1, <2>2 DEF Chats!Prompts
<1> HIDE DEF R, P
<1>3. \A i, j \in R : f[i] = f[j] => i = j
  BY <1>1
<1>4. f \in [R -> P]
  BY <1>2
<1>5. f \in Injection(R, P)
  BY <1>3, <1>4 DEF Injection, IsInjective
<1> HIDE DEF f
<1>6. IsFiniteSet(P)
  BY HistoryIsFinite DEF P
<1>7. Cardinality(R) <= Cardinality(P)
  BY <1>5, <1>6, FS_Injection
<1> QED BY <1>7 DEF R, P

(* A reply to the last prompt, counted, makes a conversation again.          *)
LEMMA AnswersAreConversations ==
  ASSUME NEW q, NEW h \in Seq(Chats(q)!Message), NEW n \in Nat,
         Chats(q)!Conversation(h, n), Len(h) \in Chats(q)!Prompts(h)
  PROVE  LET g == Append(h, Chats(q)!Assistant(h[Len(h)].turn))
         IN  /\ g \in Seq(Chats(q)!Message) /\ Len(g) = Len(h) + 1
             /\ \A i \in 1 .. Len(h) : g[i] = h[i]
             /\ \A i : i \in Chats(q)!Prompts(g) <=> i \in Chats(q)!Prompts(h)
             /\ Chats(q)!Conversation(g, n + 1)
<1> DEFINE a == Chats(q)!Assistant(h[Len(h)].turn)
           g == Append(h, a)
<1>1. Len(h) \in 1 .. Len(h) /\ Len(h) \in Nat /\ h[Len(h)].kind = "user" /\ DOMAIN h = 1 .. Len(h)
      /\ h[Len(h)] \in Chats(q)!Message
  BY HistoryIsFinite DEF Chats!Prompts
<1>2. h[Len(h)] = Chats(q)!User(h[Len(h)].turn) /\ h[Len(h)].turn \in Chats(q)!TurnIds
  BY <1>1, MessageShapes
<1>3. a \in Chats(q)!Message /\ a.kind = "assistant" /\ a.turn = h[Len(h)].turn
  BY <1>2 DEF Chats!Assistant, Chats!Message
<1> HIDE DEF a
<1>4. g \in Seq(Chats(q)!Message) /\ Len(g) = Len(h) + 1 /\ g[Len(h) + 1] = a
      /\ \A i \in 1 .. Len(h) : g[i] = h[i]
  BY <1>3, AppendProperties
<1> HIDE DEF g
<1>5. DOMAIN g = 1 .. Len(h) + 1 /\ \A i \in DOMAIN g : i \in DOMAIN h \/ i = Len(h) + 1
  BY <1>1, <1>4, LenProperties
<1>6. \A i : i \in Chats(q)!Prompts(g) <=> i \in Chats(q)!Prompts(h)
  BY <1>1, <1>3, <1>4, <1>5 DEF Chats!Prompts
<1>7. Chats(q)!InOrder(g)
  <2>1. Chats(q)!InOrder(h)
    BY DEF Chats!Conversation
  <2>2. \A i, j \in Chats(q)!Prompts(g) : i < j => g[i].turn < g[j].turn
    BY <2>1, <1>1, <1>4, <1>6 DEF Chats!InOrder, Chats!Prompts
  <2>3. ASSUME NEW i \in DOMAIN g, g[i].kind = "assistant"
        PROVE  i > 1 /\ g[i - 1] = Chats(q)!User(g[i].turn)
    <3>1. CASE i \in DOMAIN h
      <4>1. i > 1 /\ h[i - 1] = Chats(q)!User(h[i].turn) /\ g[i] = h[i]
        BY <2>1, <2>3, <3>1, <1>1, <1>4 DEF Chats!InOrder
      <4>2. i - 1 \in 1 .. Len(h)
        BY <3>1, <4>1, <1>1
      <4> QED BY <4>1, <4>2, <1>4
    <3>2. CASE i = Len(h) + 1
      <4>1. i > 1 /\ i - 1 = Len(h) /\ g[i] = a
        BY <3>2, <1>1, <1>4
      <4> QED BY <4>1, <1>1, <1>2, <1>3, <1>4
    <3> QED BY <1>5, <3>1, <3>2
  <2> QED BY <2>2, <2>3 DEF Chats!InOrder
<1>8. \A i \in Chats(q)!Prompts(g) : g[i].turn <= asked
  BY <1>1, <1>4, <1>6 DEF Chats!Conversation, Chats!Prompts
<1>9. n + 1 >= Cardinality(Chats(q)!Replies(g))
  <2>1. Len(h) + 1 \notin Chats(q)!Replies(h)
    BY <1>1, HistoryIsFinite
  <2>2. \A i : i \in Chats(q)!Replies(g) <=> i \in Chats(q)!Replies(h) \/ i = Len(h) + 1
    BY <1>1, <1>3, <1>4, <1>5 DEF Chats!Replies
  <2>3. Chats(q)!Replies(g) = Chats(q)!Replies(h) \cup {Len(h) + 1}
    BY <2>2
  <2>4. Cardinality(Chats(q)!Replies(g)) = Cardinality(Chats(q)!Replies(h)) + 1
    BY <2>1, <2>3, HistoryIsFinite, FS_AddElement
  <2>5. n >= Cardinality(Chats(q)!Replies(h))
    BY SizesAgree DEF Chats!Conversation
  <2> QED BY <2>4, <2>5, HistoryIsFinite
<1>10. Chats(q)!Conversation(g, n + 1)
  BY <1>7, <1>8, <1>9, SizesAgree DEF Chats!Conversation
<1> QED BY <1>4, <1>6, <1>10 DEF g, a

(* A branch holds no more replies than the turns it is said to hold.         *)
LEMMA BranchesAreConversations ==
  ASSUME NEW q, NEW h \in Seq(Chats(q)!Message), NEW n \in Nat, NEW w \in Nat, Chats(q)!Conversation(h, n)
  PROVE  LET count == Chats(q)!CountTurns(h)
             g     == Chats(q)!SliceHistoryByTurns(h, w)
         IN  /\ g \in Seq(Chats(q)!Message) /\ count \in Nat
             /\ (w = 0 => count = 0) => Chats(q)!Conversation(g, IF w < count THEN w ELSE count)
<1> DEFINE count == Chats(q)!CountTurns(h)
           g     == Chats(q)!SliceHistoryByTurns(h, w)
<1>1. count = Cardinality(Chats(q)!Prompts(h)) /\ count \in Nat
  BY SizesAgree, HistoryIsFinite DEF Chats!CountTurns
<1>2. Chats(q)!InOrder(h) /\ \A i \in Chats(q)!Prompts(h) : h[i].turn <= asked
  BY DEF Chats!Conversation
<1>3. CASE w <= 0 \/ count <= w
  <2>1. g = h
    BY <1>3 DEF Chats!SliceHistoryByTurns
  <2>2. Cardinality(Chats(q)!Replies(h)) <= count
    BY <1>1, <1>2, RepliesFollowPrompts
  <2>3. Chats(q)!Conversation(h, count)
    BY <2>2, <1>1, <1>2, HistoryIsFinite, SizesAgree DEF Chats!Conversation
  <2>4. (w = 0 => count = 0) => (IF w < count THEN w ELSE count) = count
    <3> HIDE DEF count
    <3> QED BY <1>1, <1>3
  <2> HIDE DEF count, g
  <2> QED BY <2>1, <2>3, <2>4, <1>1 DEF g, count
<1>4. CASE ~(w <= 0 \/ count <= w)
  <2> DEFINE P == Chats(q)!Prompts(h)
             m == Chats(q)!Prompt(h, w + 1)
  <2>1. g = SubSeq(h, 1, m - 1)
    BY <1>4 DEF Chats!SliceHistoryByTurns
  <2>2. w \in Nat /\ w >= 1 /\ w + 1 \in 1 .. count /\ w < count
    <3> HIDE DEF count
    <3> QED BY <1>1, <1>4
  <2>3. m \in P /\ Cardinality({j \in P : j <= m}) = w + 1
    <3>1. \E i \in P : Cardinality({j \in P : j <= i}) = w + 1
      <4>1. P \in SUBSET (1 .. Len(h)) /\ Len(h) \in Nat /\ w + 1 \in 1 .. Cardinality(P)
        BY HistoryIsFinite, <2>2, <1>1
      <4> HIDE DEF P
      <4>2. PICK i \in P : \E below \in SUBSET P :
              (\A j \in P : j \in below <=> j <= i) /\ Cardinality(below) = w + 1
        BY <4>1, KthExists
      <4>3. PICK below \in SUBSET P : (\A j \in P : j \in below <=> j <= i) /\ Cardinality(below) = w + 1
        BY <4>2
      <4>4. below = {j \in P : j <= i}
        BY <4>3
      <4> QED BY <4>3, <4>4
    <3>2. m = CHOOSE i \in P : Cardinality({j \in P : j <= i}) = w + 1
      BY SizesAgree DEF Chats!Prompt
    <3> HIDE DEF P, m
    <3> QED BY <3>1, <3>2
  <2>4. m \in Nat /\ m >= 1 /\ m <= Len(h) /\ Len(h) \in Nat
    <3> HIDE DEF m
    <3> QED BY <2>3, HistoryIsFinite
  <2>5. m - 1 \in 0 .. Len(h) /\ m - 1 \in Nat
    <3> HIDE DEF m
    <3> QED BY <2>4
  <2> HIDE DEF m
  <2> DEFINE s == SubSeq(h, 1, m - 1)
  <2>6. /\ s \in Seq(Chats(q)!Message) /\ Chats(q)!Conversation(s, n)
        /\ \A i : i \in Chats(q)!Prompts(s) <=> i \in P /\ i <= m - 1
    BY <2>5, StartsAreConversations
  <2> HIDE DEF s
  <2>7. Cardinality(Chats(q)!Prompts(s)) = w
    <3>1. \A j \in P : j \in Nat
      BY HistoryIsFinite
    <3> HIDE DEF P
    <3>2. m \notin Chats(q)!Prompts(s)
      BY <2>6, <2>4
    <3>3. \A j : j \in {i \in P : i <= m} <=> j \in Chats(q)!Prompts(s) \/ j = m
      <4> SUFFICES ASSUME NEW j PROVE j \in P /\ j <= m <=> j \in Chats(q)!Prompts(s) \/ j = m
        OBVIOUS
      <4>1. CASE j \in P
        <5>1. j <= m <=> j <= m - 1 \/ j = m
          BY <3>1, <4>1, <2>4
        <5> QED BY <5>1, <4>1, <2>6
      <4>2. CASE j \notin P
        BY <4>2, <2>6, <2>3
      <4> QED BY <4>1, <4>2
    <3>4. {i \in P : i <= m} = Chats(q)!Prompts(s) \cup {m}
      BY <3>3
    <3>5. w + 1 = Cardinality(Chats(q)!Prompts(s)) + 1
      BY <3>2, <3>4, <2>3, <2>6, HistoryIsFinite, FS_AddElement
    <3> QED BY <3>5, <2>2, <2>6, HistoryIsFinite
  <2>8. Cardinality(Chats(q)!Replies(s)) <= w
    BY <2>6, <2>7, RepliesFollowPrompts DEF Chats!Conversation
  <2>9. Chats(q)!Conversation(s, w)
    BY <2>6, <2>8, <2>2, HistoryIsFinite, SizesAgree DEF Chats!Conversation
  <2>10. (IF w < count THEN w ELSE count) = w
    BY <2>2
  <2>11. g = s
    BY <2>1 DEF s
  <2> HIDE DEF g, count
  <2> QED BY <2>6, <2>9, <2>10, <2>11, <1>1 DEF g, count
<1> QED BY <1>3, <1>4

-----------------------------------------------------------------------------
(* Session files.                                                           *)

LEMMA LineKinds ==
  ASSUME NEW q
  PROVE  /\ \A m \in Chats(q)!Message : m \in Chats(q)!Line /\ m.kind \notin {"header", "torn"}
         /\ \A m \in Chats(q)!Header : m \in Chats(q)!Line /\ m.kind = "header" /\ m.turns \in Nat /\ m.rolls \in Nat
         /\ Chats(q)!Torn \in Chats(q)!Line /\ Chats(q)!Torn.kind = "torn"
<1>1. \A m \in Chats(q)!Message : m.kind \notin {"header", "torn"}
  BY MessageShapes
<1>2. \A m \in Chats(q)!Header : m.kind = "header" /\ m.turns \in Nat /\ m.rolls \in Nat
  BY DEF Chats!Header
<1> QED BY <1>1, <1>2 DEF Chats!Line, Chats!Torn

LEMMA OverNothing ==
  ASSUME NEW q, NEW new \in Seq(Chats(q)!Line)
  PROVE  Chats(q)!WriteOver(<<>>, new) = new
<1>1. Len(new) \in Nat /\ Len(<<>>) = 0 /\ <<>> \in Seq(Chats(q)!Line)
  BY LenProperties, EmptySeq
<1>2. SubSeq(<<>>, Len(new) + 1, Len(<<>>)) = <<>>
  BY <1>1
<1> QED BY <1>2, ConcatEmptySeq DEF Chats!WriteOver

(* What a save writes reads back as what was saved.                         *)
LEMMA SavesReadBack ==
  ASSUME NEW q, NEW header \in Chats(q)!Header, NEW h \in Seq(Chats(q)!Message)
  PROVE  LET lines == <<header>> \o h
         IN  /\ lines \in Seq(Chats(q)!Line) /\ Len(lines) = Len(h) + 1 /\ lines[1] = header
             /\ \A i \in 1 .. Len(h) : lines[i + 1] = h[i]
             /\ Chats(q)!Saved(lines) /\ Chats(q)!Readable(lines)
             /\ Tail(lines) = h
             /\ \A i \in Chats(q)!Prompts(h) : h[i].turn \in Chats(q)!TurnsOf(lines)
<1> DEFINE lines == <<header>> \o h
<1>1. /\ Len(h) \in Nat /\ DOMAIN h = 1 .. Len(h)
      /\ \A i \in 1 .. Len(h) : h[i] \in Chats(q)!Message
  BY HistoryIsFinite
<1>2. h \in Seq(Chats(q)!Line) /\ <<header>> \in Seq(Chats(q)!Line)
      /\ Len(<<header>>) = 1 /\ <<header>>[1] = header
  <2>1. Chats(q)!Message \subseteq Chats(q)!Line /\ header \in Chats(q)!Line
    BY LineKinds
  <2>2. h \in Seq(Chats(q)!Line)
    BY <2>1, SeqMonotonic
  <2> QED BY <2>1, <2>2
<1>3. /\ lines \in Seq(Chats(q)!Line)
      /\ Len(lines) = 1 + Len(h)
      /\ \A i \in 1 .. 1 + Len(h) : lines[i] = IF i <= 1 THEN <<header>>[i] ELSE h[i - 1]
  BY <1>2, ConcatProperties
<1> HIDE DEF lines
<1>4. Len(lines) = Len(h) + 1 /\ lines[1] = header /\ DOMAIN lines = 1 .. Len(h) + 1
  BY <1>1, <1>2, <1>3, LenProperties
<1>5. \A i \in 1 .. Len(h) : lines[i + 1] = h[i]
  <2> SUFFICES ASSUME NEW i \in 1 .. Len(h) PROVE lines[i + 1] = h[i]
    OBVIOUS
  <2>1. i + 1 \in 1 .. 1 + Len(h) /\ ~(i + 1 <= 1) /\ i + 1 - 1 = i
    BY <1>1
  <2> QED BY <2>1, <1>3
<1>6. \A j \in DOMAIN lines : j # 1 => j - 1 \in 1 .. Len(h) /\ lines[j] = h[j - 1]
  <2> SUFFICES ASSUME NEW j \in 1 .. Len(h) + 1, j # 1 PROVE j - 1 \in 1 .. Len(h) /\ lines[j] = h[j - 1]
    BY <1>4
  <2>1. j - 1 \in 1 .. Len(h) /\ (j - 1) + 1 = j
    BY <1>1
  <2> QED BY <2>1, <1>5
<1>7. Chats(q)!Saved(lines)
  BY <1>1, <1>4, <1>6 DEF Chats!Saved
<1>8. Chats(q)!Readable(lines)
  <2>1. lines # <<>>
    BY <1>1, <1>4, EmptySeq
  <2>2. \A j \in DOMAIN lines : lines[j].kind # "torn"
    BY <1>1, <1>4, <1>6, LineKinds
  <2>3. lines[1].kind = "header"
    BY <1>4, LineKinds
  <2> QED BY <2>1, <2>2, <2>3 DEF Chats!Readable
<1>9. Tail(lines) = h
  <2>1. lines # <<>>
    BY <1>8 DEF Chats!Readable
  <2>2. /\ Tail(lines) \in Seq(Chats(q)!Line)
        /\ Len(Tail(lines)) = Len(lines) - 1
        /\ \A i \in 1 .. Len(Tail(lines)) : Tail(lines)[i] = lines[i + 1]
    BY <2>1, <1>3, HeadTailProperties
  <2>3. Len(Tail(lines)) = Len(h)
    BY <2>2, <1>4, <1>1
  <2> QED BY <2>2, <2>3, <1>2, <1>5, SeqEqual
<1>10. \A i \in Chats(q)!Prompts(h) : h[i].turn \in Chats(q)!TurnsOf(lines)
  <2> SUFFICES ASSUME NEW i \in Chats(q)!Prompts(h) PROVE h[i].turn \in Chats(q)!TurnsOf(lines)
    OBVIOUS
  <2>1. i \in 1 .. Len(h) /\ h[i].kind = "user"
    BY <1>1 DEF Chats!Prompts
  <2>2. i + 1 \in DOMAIN lines /\ lines[i + 1] = h[i]
    BY <2>1, <1>1, <1>4, <1>5
  <2>3. i + 1 \in Chats(q)!Prompts(lines)
    BY <2>1, <2>2 DEF Chats!Prompts
  <2> QED BY <2>2, <2>3 DEF Chats!TurnsOf
<1> QED BY <1>3, <1>4, <1>5, <1>7, <1>8, <1>9, <1>10 DEF lines

(* What a write that broke off leaves is unreadable or a shorter save.      *)
LEMMA PartsReadBack ==
  ASSUME NEW q, NEW header \in Chats(q)!Header, NEW h \in Seq(Chats(q)!Message), NEW k \in 0 .. Len(h)
  PROVE  LET some == SubSeq(<<header>> \o h, 1, k)
         IN  /\ some \in Seq(Chats(q)!Line) /\ Chats(q)!Saved(some)
             /\ Chats(q)!Readable(some) => k - 1 \in 0 .. Len(h) /\ some[1] = header /\ Tail(some) = SubSeq(h, 1, k - 1)
             /\ Append(some, Chats(q)!Torn) \in Seq(Chats(q)!Line)
             /\ Chats(q)!Saved(Append(some, Chats(q)!Torn)) /\ ~Chats(q)!Readable(Append(some, Chats(q)!Torn))
<1> DEFINE lines == <<header>> \o h
           some  == SubSeq(lines, 1, k)
           torn  == Append(some, Chats(q)!Torn)
<1>1. /\ lines \in Seq(Chats(q)!Line) /\ Len(lines) = Len(h) + 1 /\ lines[1] = header
      /\ \A i \in 1 .. Len(h) : lines[i + 1] = h[i]
      /\ Chats(q)!Saved(lines)
  BY SavesReadBack
<1>2. Len(h) \in Nat /\ k \in Nat /\ k <= Len(h)
  BY HistoryIsFinite
<1> HIDE DEF lines
<1>3. some \in Seq(Chats(q)!Line) /\ Len(some) = k /\ \A i \in 1 .. k : some[i] = lines[i]
  <2>1. k \in 0 .. Len(lines)
    BY <1>1, <1>2
  <2> QED BY <2>1, <1>1, Prefix
<1> HIDE DEF some
<1>4. DOMAIN some = 1 .. k /\ DOMAIN lines = 1 .. Len(h) + 1
  BY <1>1, <1>3, LenProperties
<1>5. Chats(q)!Saved(some)
  BY <1>1, <1>2, <1>3, <1>4 DEF Chats!Saved
<1>6. /\ torn \in Seq(Chats(q)!Line) /\ Len(torn) = k + 1 /\ torn[k + 1] = Chats(q)!Torn
      /\ \A i \in 1 .. k : torn[i] = some[i]
  <2>1. Chats(q)!Torn \in Chats(q)!Line
    BY LineKinds
  <2> QED BY <2>1, <1>3, AppendProperties
<1> HIDE DEF torn
<1>7. DOMAIN torn = 1 .. k + 1 /\ \A i \in DOMAIN torn : i \in DOMAIN some \/ i = k + 1
  BY <1>2, <1>4, <1>6, LenProperties
<1>8. Chats(q)!Saved(torn)
  <2> SUFFICES ASSUME NEW i \in DOMAIN torn
               PROVE  torn[i] \in (IF i = 1 THEN Chats(q)!Header ELSE Chats(q)!Message) \cup {Chats(q)!Torn}
    BY DEF Chats!Saved
  <2>1. CASE i \in DOMAIN some
    BY <2>1, <1>4, <1>5, <1>6 DEF Chats!Saved
  <2>2. CASE i = k + 1
    BY <2>2, <1>6
  <2> QED BY <1>7, <2>1, <2>2
<1>9. ~Chats(q)!Readable(torn)
  <2>1. k + 1 \in DOMAIN torn /\ torn[k + 1].kind = "torn"
    BY <1>2, <1>6, <1>7, LineKinds
  <2> QED BY <2>1 DEF Chats!Readable
<1>10. ASSUME Chats(q)!Readable(some)
       PROVE  k - 1 \in 0 .. Len(h) /\ some[1] = header /\ Tail(some) = SubSeq(h, 1, k - 1)
  <2>1. some # <<>> /\ k # 0
    <3>1. some # <<>>
      BY <1>10 DEF Chats!Readable
    <3> QED BY <3>1, <1>3, EmptySeq
  <2>2. k - 1 \in 0 .. Len(h) /\ 1 \in 1 .. k /\ k - 1 \in Nat
    BY <2>1, <1>2
  <2>3. some[1] = header
    BY <2>2, <1>3, <1>1
  <2>4. /\ Tail(some) \in Seq(Chats(q)!Line)
        /\ Len(Tail(some)) = Len(some) - 1
        /\ \A i \in 1 .. Len(Tail(some)) : Tail(some)[i] = some[i + 1]
    BY <2>1, <1>3, HeadTailProperties
  <2>5. Len(Tail(some)) = k - 1
    BY <2>4, <1>3
  <2>6. /\ SubSeq(h, 1, k - 1) \in Seq(Chats(q)!Message) /\ Len(SubSeq(h, 1, k - 1)) = k - 1
        /\ \A i \in 1 .. k - 1 : SubSeq(h, 1, k - 1)[i] = h[i]
    BY <2>2, Prefix
  <2>7. SubSeq(h, 1, k - 1) \in Seq(Chats(q)!Line)
    <3>1. Chats(q)!Message \subseteq Chats(q)!Line
      BY LineKinds
    <3> QED BY <3>1, <2>6, SeqMonotonic
  <2>8. \A i \in 1 .. k - 1 : Tail(some)[i] = SubSeq(h, 1, k - 1)[i]
    <3> SUFFICES ASSUME NEW i \in 1 .. k - 1 PROVE Tail(some)[i] = SubSeq(h, 1, k - 1)[i]
      OBVIOUS
    <3>1. i + 1 \in 1 .. k /\ i \in 1 .. Len(h)
      BY <1>2
    <3>2. Tail(some)[i] = some[i + 1] /\ some[i + 1] = lines[i + 1] /\ lines[i + 1] = h[i] /\ SubSeq(h, 1, k - 1)[i] = h[i]
      BY <3>1, <2>4, <2>5, <2>6, <1>1, <1>3
    <3> QED BY <3>2
  <2>9. Tail(some) = SubSeq(h, 1, k - 1)
    BY <2>4, <2>5, <2>6, <2>7, <2>8, SeqEqual
  <2> QED BY <2>2, <2>3, <2>9
<1> QED BY <1>3, <1>5, <1>6, <1>8, <1>9, <1>10 DEF torn, some, lines

(* A file that can be read holds a conversation behind its header.           *)
LEMMA FilesLoad ==
  ASSUME NEW q, NEW lines \in Seq(Chats(q)!Line), Chats(q)!Saved(lines), Chats(q)!Readable(lines)
  PROVE  /\ lines[1] \in Chats(q)!Header /\ Tail(lines) \in Seq(Chats(q)!Message)
         /\ \A t \in Chats(q)!TurnsOf(lines) : t \in Chats(q)!TurnsOf(Tail(lines))
         /\ Cardinality(Chats(q)!Replies(lines)) <= Cardinality(Chats(q)!Replies(Tail(lines)))
<1> DEFINE h == Tail(lines)
<1>1. lines # <<>> /\ lines[1].kind = "header" /\ \A i \in DOMAIN lines : lines[i].kind # "torn"
  BY DEF Chats!Readable
<1>2. DOMAIN lines = 1 .. Len(lines) /\ Len(lines) \in Nat /\ Len(lines) >= 1
  <2>1. Len(lines) \in Nat \ {0}
    BY <1>1, EmptySeq
  <2> QED BY <2>1, LenProperties
<1>3. /\ h \in Seq(Chats(q)!Line)
      /\ Len(h) = Len(lines) - 1
      /\ \A i \in 1 .. Len(h) : h[i] = lines[i + 1]
  BY <1>1, HeadTailProperties
<1> HIDE DEF h
<1>4. \A i \in DOMAIN lines : lines[i] \in IF i = 1 THEN Chats(q)!Header ELSE Chats(q)!Message
  BY <1>1, LineKinds DEF Chats!Saved
<1>5. lines[1] \in Chats(q)!Header
  BY <1>2, <1>4
<1>6. \A i \in 1 .. Len(h) : h[i] \in Chats(q)!Message
  <2> SUFFICES ASSUME NEW i \in 1 .. Len(h) PROVE h[i] \in Chats(q)!Message
    OBVIOUS
  <2>1. i + 1 \in DOMAIN lines /\ i + 1 # 1
    BY <1>2, <1>3
  <2>2. lines[i + 1] \in Chats(q)!Message
    BY <2>1, <1>4
  <2> QED BY <2>2, <1>3
<1>7. h \in Seq(Chats(q)!Message)
  <2>1. Len(h) \in Nat /\ h \in [1 .. Len(h) -> Chats(q)!Line]
    BY <1>3, LenProperties
  <2>2. h \in [1 .. Len(h) -> Chats(q)!Message]
    BY <2>1, <1>6
  <2> QED BY <2>1, <2>2, SeqDef
<1>8. \A i \in DOMAIN lines : lines[i].kind \in {"user", "assistant"} => i - 1 \in 1 .. Len(h) /\ h[i - 1] = lines[i]
  <2> SUFFICES ASSUME NEW i \in DOMAIN lines, lines[i].kind \in {"user", "assistant"}
               PROVE  i - 1 \in 1 .. Len(h) /\ h[i - 1] = lines[i]
    OBVIOUS
  <2>1. i # 1
    BY <1>1
  <2>2. i - 1 \in 1 .. Len(h) /\ (i - 1) + 1 = i
    BY <2>1, <1>2, <1>3
  <2> QED BY <2>2, <1>3
<1>9. DOMAIN h = 1 .. Len(h)
  BY <1>7, LenProperties
<1>10. \A t \in Chats(q)!TurnsOf(lines) : t \in Chats(q)!TurnsOf(h)
  <2> SUFFICES ASSUME NEW t \in Chats(q)!TurnsOf(lines) PROVE t \in Chats(q)!TurnsOf(h)
    OBVIOUS
  <2>1. PICK i \in DOMAIN lines : lines[i].kind = "user" /\ lines[i].turn = t
    BY DEF Chats!TurnsOf, Chats!Prompts
  <2>2. i - 1 \in DOMAIN h /\ h[i - 1] = lines[i]
    BY <2>1, <1>8, <1>9
  <2>3. i - 1 \in Chats(q)!Prompts(h)
    BY <2>1, <2>2 DEF Chats!Prompts
  <2> QED BY <2>1, <2>2, <2>3 DEF Chats!TurnsOf
<1>11. Cardinality(Chats(q)!Replies(lines)) <= Cardinality(Chats(q)!Replies(h))
  <2> DEFINE R == Chats(q)!Replies(lines)
             A == Chats(q)!Replies(h)
             f == [i \in R |-> i - 1]
  <2>1. \A i \in R : i \in DOMAIN lines /\ i \in Nat /\ lines[i].kind = "assistant"
    BY <1>2 DEF Chats!Replies
  <2> HIDE DEF R
  <2>2. \A i \in R : i - 1 \in A
    <3> SUFFICES ASSUME NEW i \in R PROVE i - 1 \in A
      OBVIOUS
    <3>1. i - 1 \in DOMAIN h /\ h[i - 1].kind = "assistant"
      BY <2>1, <1>8, <1>9
    <3> QED BY <3>1 DEF Chats!Replies
  <2>3. IsFiniteSet(A)
    BY <1>7, HistoryIsFinite
  <2> HIDE DEF A
  <2>4. \A i, j \in R : f[i] = f[j] => i = j
    BY <2>1
  <2>5. f \in [R -> A]
    BY <2>2
  <2>6. f \in Injection(R, A)
    BY <2>4, <2>5 DEF Injection, IsInjective
  <2> HIDE DEF f
  <2>7. Cardinality(R) <= Cardinality(A)
    BY <2>6, <2>3, FS_Injection
  <2> QED BY <2>7 DEF R, A
<1> QED BY <1>5, <1>7, <1>10, <1>11 DEF h

-----------------------------------------------------------------------------
(* The invariant of one person's chats.                                     *)

LEMMA NoFewer == ASSUME NEW i \in Nat, NEW j \in Nat, NEW k \in Nat, i <= j, j <= k PROVE i <= k
OBVIOUS

(* A step that leaves the files alone.                                      *)
LEMMA ChatsMove ==
  ASSUME NEW q, Chats(q)!BoundsAssumption, Chats(q)!ChatInv,
         NEW r \in Chats(q)!Chat, chat' = [chat EXCEPT ![p1] = r], files' = files,
         made' \in made .. q.sessions, asked' \in asked .. q.turns,
         begun' \in [Chats(q)!Ids -> Settings], told' \in [Chats(q)!Ids -> SUBSET Chats(q)!TurnIds],
         \A id \in Chats(q)!Ids : told'[id] \subseteq told[id],
         chat[p1].pc # "writing", r.pc # "writing",
         r.pc # "off" => r.id \in 1 .. made',
         Chats(q)!InOrder(r.history), \A i \in Chats(q)!Prompts(r.history) : r.history[i].turn <= asked',
         r.turns >= Cardinality(Chats(q)!Replies(r.history)),
         r.pc = "turn" => Len(r.history) \in Chats(q)!Prompts(r.history),
         r.pc # "off" =>
           \A t \in told'[r.id] : \E i \in Chats(q)!Prompts(r.history) :
             r.history[i].turn = t /\ (r.pc = "turn" => i < Len(r.history))
  PROVE  Chats(q)!ChatInv'
<1> USE DEF Chats!ChatInv
<1>1. chat' \in [{p1} -> Chats(q)!Chat] /\ chat'[p1] = r
  BY DEF Chats!TypeOK
<1>2. made \in Nat /\ asked \in Nat /\ q.sessions \in Nat /\ q.turns \in Nat /\ made' >= made /\ asked' >= asked
  BY DEF Chats!TypeOK, Chats!BoundsAssumption
<1>3. Chats(q)!TypeOK'
  BY <1>1, <1>2 DEF Chats!TypeOK
<1>4. Chats(q)!IdsAreMade'
  <2>1. \A id \in Chats(q)!Ids : id > made' => files'[id] = <<>> /\ told'[id] = {}
    BY <1>2 DEF Chats!IdsAreMade, Chats!Ids
  <2> QED BY <2>1, <1>1 DEF Chats!IdsAreMade
<1>5. Chats(q)!FilesAreSaves'
  BY <1>1 DEF Chats!FilesAreSaves
<1>6. Chats(q)!ConversationsAreReal'
  <2>1. Chats(q)!Conversation(r.history, r.turns)'
    BY SizesAgree DEF Chats!Conversation
  <2>2. ASSUME NEW id \in Chats(q)!Ids, Chats(q)!Readable(files[id])
        PROVE  Chats(q)!Conversation(Tail(files[id]), files[id][1].turns)'
    <3>1. Chats(q)!Conversation(Tail(files[id]), files[id][1].turns)
      BY <2>2 DEF Chats!ConversationsAreReal
    <3>2. \A i \in Chats(q)!Prompts(Tail(files[id])) : Tail(files[id])[i].turn \in Nat
      <4>1. Tail(files[id]) \in Seq(Chats(q)!Message)
        BY <2>2, FilesLoad DEF Chats!TypeOK, Chats!FilesAreSaves
      <4> QED BY <4>1, HistoryIsFinite, MessageShapes, <1>2 DEF Chats!Prompts, Chats!TurnIds
    <3>3. \A i \in Chats(q)!Prompts(Tail(files[id])) : Tail(files[id])[i].turn <= asked'
      <4> SUFFICES ASSUME NEW i \in Chats(q)!Prompts(Tail(files[id])) PROVE Tail(files[id])[i].turn <= asked'
        OBVIOUS
      <4>1. Tail(files[id])[i].turn <= asked /\ Tail(files[id])[i].turn \in Nat
        BY <3>1, <3>2 DEF Chats!Conversation
      <4>2. asked \in Nat /\ asked' \in Nat /\ asked <= asked'
        BY <1>2, <1>3 DEF Chats!TypeOK
      <4> QED BY <4>1, <4>2, NoFewer
    <3> QED BY <3>1, <3>3 DEF Chats!Conversation
  <2> QED BY <2>1, <2>2, <1>1 DEF Chats!ConversationsAreReal
<1>7. Chats(q)!PromptIsLast'
  BY <1>1 DEF Chats!PromptIsLast
<1>8. Chats(q)!ToldIsHeld'
  <2> SUFFICES /\ Chats(q)!SavedTurnsSurvive'
               /\ \A p \in {p1} : chat'[p].pc # "off" =>
                    \A t \in told'[chat'[p].id] : \E i \in Chats(q)!Prompts(chat'[p].history) :
                      chat'[p].history[i].turn = t /\ (chat'[p].pc = "turn" => i < Len(chat'[p].history))
    BY DEF Chats!ToldIsHeld
  <2>1. Chats(q)!SavedTurnsSurvive'
    BY DEF Chats!ToldIsHeld, Chats!SavedTurnsSurvive
  <2> QED BY <2>1, <1>1
<1> QED BY <1>3, <1>4, <1>5, <1>6, <1>7, <1>8

(* A step that writes the file of the chat's session.                       *)
LEMMA ChatsWrite ==
  ASSUME NEW q, Chats(q)!BoundsAssumption, Chats(q)!ChatInv, chat[p1].pc # "off",
         NEW r \in Chats(q)!Chat, chat' = [chat EXCEPT ![p1] = r],
         NEW lines \in Seq(Chats(q)!Line), files' = [files EXCEPT ![chat[p1].id] = lines],
         made' = made, asked' = asked, begun' = begun, told' \in [Chats(q)!Ids -> SUBSET Chats(q)!TurnIds],
         \A id \in Chats(q)!Ids \ {chat[p1].id} : told'[id] = told[id],
         Chats(q)!Saved(lines),
         Chats(q)!Readable(lines) => Chats(q)!Conversation(Tail(lines), lines[1].turns),
         r.pc = "writing" => lines = <<>>, r.pc # "turn",
         r.pc # "off" => r.id = chat[p1].id,
         Chats(q)!Conversation(r.history, r.turns),
         \A t \in told'[chat[p1].id] :
           /\ r.pc # "off" => \E i \in Chats(q)!Prompts(r.history) : r.history[i].turn = t
           /\ r.pc # "writing" => Chats(q)!Readable(lines) /\ t \in Chats(q)!TurnsOf(lines)
  PROVE  Chats(q)!ChatInv'
<1> USE DEF Chats!ChatInv
<1>1. chat' \in [{p1} -> Chats(q)!Chat] /\ chat'[p1] = r
  BY DEF Chats!TypeOK
<1>2. chat[p1].id \in 1 .. made /\ chat[p1].id \in Chats(q)!Ids /\ made \in Nat
  BY DEF Chats!IdsAreMade, Chats!Ids, Chats!TypeOK, Chats!BoundsAssumption
<1>3. /\ files' \in [Chats(q)!Ids -> Seq(Chats(q)!Line)] /\ files'[chat[p1].id] = lines
      /\ \A id \in Chats(q)!Ids \ {chat[p1].id} : files'[id] = files[id]
  BY <1>2 DEF Chats!TypeOK
<1>4. Chats(q)!TypeOK'
  BY <1>1, <1>3 DEF Chats!TypeOK
<1>5. Chats(q)!IdsAreMade'
  <2>1. \A id \in Chats(q)!Ids : id > made => id # chat[p1].id
    BY <1>2 DEF Chats!Ids
  <2>2. \A id \in Chats(q)!Ids : id > made' => files'[id] = <<>> /\ told'[id] = {}
    BY <2>1, <1>3 DEF Chats!IdsAreMade
  <2> QED BY <2>2, <1>1, <1>2 DEF Chats!IdsAreMade
<1>6. Chats(q)!FilesAreSaves'
  <2>1. \A id \in Chats(q)!Ids : Chats(q)!Saved(files'[id])
    BY <1>3 DEF Chats!FilesAreSaves
  <2>2. r.pc = "writing" => files'[r.id] = <<>>
    BY <1>3
  <2> QED BY <2>1, <2>2, <1>1 DEF Chats!FilesAreSaves, Chats!Saved
<1>7. Chats(q)!ConversationsAreReal'
  <2>1. ASSUME NEW h, NEW n, Chats(q)!Conversation(h, n)
        PROVE  Chats(q)!Conversation(h, n)'
    BY <2>1 DEF Chats!Conversation
  <2>2. Chats(q)!Conversation(r.history, r.turns)'
    BY <2>1
  <2>3. ASSUME NEW id \in Chats(q)!Ids, Chats(q)!Readable(files'[id])
        PROVE  Chats(q)!Conversation(Tail(files[id]), files[id][1].turns)'
    <3>1. Chats(q)!Conversation(Tail(files'[id]), files'[id][1].turns)
      BY <2>3, <1>3 DEF Chats!ConversationsAreReal
    <3> QED BY <3>1 DEF Chats!Conversation
  <2> QED BY <2>2, <2>3, <1>1 DEF Chats!ConversationsAreReal
<1>8. Chats(q)!PromptIsLast'
  BY <1>1 DEF Chats!PromptIsLast
<1>9. Chats(q)!ToldIsHeld'
  <2> SUFFICES /\ Chats(q)!SavedTurnsSurvive'
               /\ \A p \in {p1} : chat'[p].pc # "off" =>
                    \A t \in told'[chat'[p].id] : \E i \in Chats(q)!Prompts(chat'[p].history) :
                      chat'[p].history[i].turn = t /\ (chat'[p].pc = "turn" => i < Len(chat'[p].history))
    BY DEF Chats!ToldIsHeld
  <2>1. ASSUME NEW id \in Chats(q)!Ids, told'[id] # {}, \A p \in {p1} : chat'[p].id = id => chat'[p].pc # "writing"
        PROVE  Chats(q)!Readable(files'[id]) /\ told'[id] \subseteq Chats(q)!TurnsOf(files'[id])
    <3>1. CASE id = chat[p1].id
      <4>1. r.pc # "writing"
        BY <3>1, <2>1, <1>1
      <4> QED BY <3>1, <4>1, <2>1, <1>3
    <3>2. CASE id # chat[p1].id
      <4>1. Chats(q)!Readable(files[id]) /\ told[id] \subseteq Chats(q)!TurnsOf(files[id])
        BY <3>2, <2>1 DEF Chats!ToldIsHeld, Chats!SavedTurnsSurvive
      <4> QED BY <4>1, <3>2, <1>3
    <3> QED BY <3>1, <3>2
  <2>2. Chats(q)!SavedTurnsSurvive'
    BY <2>1 DEF Chats!SavedTurnsSurvive
  <2> QED BY <2>2, <1>1
<1> QED BY <1>4, <1>5, <1>6, <1>7, <1>8, <1>9

-----------------------------------------------------------------------------
LEMMA ChatFields ==
  ASSUME NEW q, NEW c \in Chats(q)!Chat
  PROVE  /\ c.pc \in Chats(q)!Points /\ c.id \in Chats(q)!Ids \cup {0} /\ c.history \in Seq(Chats(q)!Message)
         /\ c.turns \in Nat /\ c.rolls \in Nat /\ c.opened \in Nat /\ c.epoch \in Nat /\ c.settings \in Settings
BY DEF Chats!Chat

LEMMA OffIsAChat ==
  ASSUME NEW q, Chats(q)!BoundsAssumption
  PROVE  /\ Chats(q)!Off \in Chats(q)!Chat /\ Chats(q)!Off.pc = "off" /\ Chats(q)!Off.id = 0
         /\ Chats(q)!Off.history = <<>> /\ Chats(q)!Off.turns = 0
<1>1. (CHOOSE s \in Settings : TRUE) \in Settings
  BY DEF Chats!BoundsAssumption
<1>2. <<>> \in Seq(Chats(q)!Message)
  BY EmptySeq
<1> QED BY <1>1, <1>2 DEF Chats!Off, Chats!Chat, Chats!Points

LEMMA NothingIsAConversation ==
  ASSUME NEW q, NEW n \in Nat
  PROVE  /\ Chats(q)!InOrder(<<>>) /\ Chats(q)!Prompts(<<>>) = {} /\ Chats(q)!Replies(<<>>) = {}
         /\ n >= Cardinality(Chats(q)!Replies(<<>>))
<1>1. DOMAIN <<>> = {}
  OBVIOUS
<1>2. Chats(q)!Prompts(<<>>) = {} /\ Chats(q)!Replies(<<>>) = {}
  BY <1>1 DEF Chats!Prompts, Chats!Replies
<1>3. Chats(q)!InOrder(<<>>)
  BY <1>1, <1>2 DEF Chats!InOrder
<1>4. n >= Cardinality(Chats(q)!Replies(<<>>))
  BY <1>2, FS_EmptySet
<1> QED BY <1>2, <1>3, <1>4

(* The chat is over, or killed while its file is not open.                  *)
LEMMA OffKeeps ==
  ASSUME NEW q, Chats(q)!BoundsAssumption, Chats(q)!ChatInv,
         Chats(q)!Exit(p1) \/ Chats(q)!Killed(p1)
  PROVE  Chats(q)!ChatInv'
<1> DEFINE r == Chats(q)!Off
<1>1. chat' = [chat EXCEPT ![p1] = r] /\ chat[p1].pc # "writing"
      /\ files' = files /\ made' = made /\ asked' = asked /\ told' = told /\ begun' = begun
  BY DEF Chats!Exit, Chats!Killed
<1>2. r \in Chats(q)!Chat /\ r.pc = "off" /\ r.history = <<>> /\ r.turns = 0
  BY OffIsAChat
<1> HIDE DEF r
<1>3. made \in made .. q.sessions /\ asked \in asked .. q.turns
      /\ begun \in [Chats(q)!Ids -> Settings] /\ told \in [Chats(q)!Ids -> SUBSET Chats(q)!TurnIds]
  BY DEF Chats!ChatInv, Chats!TypeOK, Chats!BoundsAssumption
<1>4. Chats(q)!InOrder(r.history) /\ (\A i \in Chats(q)!Prompts(r.history) : r.history[i].turn <= asked')
      /\ r.turns >= Cardinality(Chats(q)!Replies(r.history))
  <2>1. 0 \in Nat
    OBVIOUS
  <2>2. /\ Chats(q)!InOrder(<<>>) /\ Chats(q)!Prompts(<<>>) = {}
        /\ 0 >= Cardinality(Chats(q)!Replies(<<>>))
    BY <2>1, NothingIsAConversation
  <2> QED BY <2>2, <1>2
<1> QED BY <1>1, <1>2, <1>3, <1>4, ChatsMove

(* A session is created, for a conversation that is one.                    *)
LEMMA CreateKeeps ==
  ASSUME NEW q, Chats(q)!BoundsAssumption, Chats(q)!ChatInv, chat[p1].pc # "writing",
         NEW state \in Chats(q)!Chat, Chats(q)!Create(p1, state),
         files' = files, asked' = asked, told' = told,
         Chats(q)!Conversation(state.history, state.turns)
  PROVE  Chats(q)!ChatInv'
<1> DEFINE r == [state EXCEPT !.pc = "saving", !.id = made + 1, !.rolls = 0, !.opened = 0, !.epoch = 0]
<1>1. chat' = [chat EXCEPT ![p1] = r] /\ made' = made + 1 /\ made < q.sessions
  BY DEF Chats!Create
<1>2. made \in Nat /\ q.sessions \in Nat /\ made + 1 \in Chats(q)!Ids
  BY <1>1 DEF Chats!ChatInv, Chats!TypeOK, Chats!Ids, Chats!BoundsAssumption
<1>3. r \in Chats(q)!Chat
  BY <1>2 DEF Chats!Chat, Chats!Points
<1>4. r.pc = "saving" /\ r.id = made + 1 /\ r.history = state.history /\ r.turns = state.turns
  BY DEF Chats!Chat
<1> HIDE DEF r
<1>5. made' \in made .. q.sessions /\ asked \in asked .. q.turns /\ r.id \in 1 .. made'
      /\ told \in [Chats(q)!Ids -> SUBSET Chats(q)!TurnIds]
  BY <1>1, <1>2, <1>4 DEF Chats!ChatInv, Chats!TypeOK, Chats!BoundsAssumption
<1>6. begun' \in [Chats(q)!Ids -> Settings]
  BY <1>2, ChatFields DEF Chats!Create, Chats!ChatInv, Chats!TypeOK
<1>7. told[made + 1] = {}
  BY <1>2 DEF Chats!ChatInv, Chats!IdsAreMade
<1>8. Chats(q)!InOrder(r.history) /\ (\A i \in Chats(q)!Prompts(r.history) : r.history[i].turn <= asked')
      /\ r.turns >= Cardinality(Chats(q)!Replies(r.history))
  BY <1>4, SizesAgree DEF Chats!Conversation
<1> QED BY <1>1, <1>3, <1>4, <1>5, <1>6, <1>7, <1>8, ChatsMove

LEMMA StartKeeps ==
  ASSUME NEW q, Chats(q)!BoundsAssumption, Chats(q)!ChatInv, Chats(q)!Start(p1) \/ Chats(q)!Clear(p1)
  PROVE  Chats(q)!ChatInv'
<1>1. PICK s \in Settings : Chats(q)!Create(p1, [Chats(q)!Off EXCEPT !.settings = s])
  <2>1. CASE Chats(q)!Start(p1)
    BY <2>1 DEF Chats!Start
  <2>2. CASE Chats(q)!Clear(p1)
    <3>1. chat[p1].settings \in Settings
      BY ChatFields DEF Chats!ChatInv, Chats!TypeOK
    <3> QED BY <2>2, <3>1 DEF Chats!Clear
  <2> QED BY <2>1, <2>2
<1>2. files' = files /\ asked' = asked /\ told' = told /\ chat[p1].pc # "writing"
  BY DEF Chats!Start, Chats!Clear
<1> DEFINE state == [Chats(q)!Off EXCEPT !.settings = s]
<1>3. state \in Chats(q)!Chat /\ state.history = <<>> /\ state.turns = 0
  BY OffIsAChat DEF Chats!Chat
<1>4. Chats(q)!Conversation(state.history, state.turns)
  <2> HIDE DEF state
  <2> QED BY <1>3, NothingIsAConversation, SizesAgree DEF Chats!Conversation
<1>5. Chats(q)!Create(p1, state)
  BY <1>1
<1> HIDE DEF state
<1> QED BY <1>2, <1>3, <1>4, <1>5, CreateKeeps

LEMMA ForkKeeps ==
  ASSUME NEW q, Chats(q)!BoundsAssumption, Chats(q)!ChatInv, NEW n \in Nat, Chats(q)!Fork(p1, n)
  PROVE  Chats(q)!ChatInv'
<1> DEFINE h == chat[p1].history
           count == Chats(q)!CountTurns(h)
           wanted == IF n = 0 THEN count ELSE n
           g == Chats(q)!SliceHistoryByTurns(h, wanted)
           turns == IF wanted < count THEN wanted ELSE count
           state == [chat[p1] EXCEPT !.history = g, !.turns = turns]
<1>1. chat[p1] \in Chats(q)!Chat /\ h \in Seq(Chats(q)!Message) /\ chat[p1].turns \in Nat
  BY ChatFields DEF Chats!ChatInv, Chats!TypeOK
<1>2. Chats(q)!Conversation(h, chat[p1].turns)
  BY DEF Chats!ChatInv, Chats!ConversationsAreReal
<1>3. Chats(q)!Create(p1, state) /\ files' = files /\ asked' = asked /\ told' = told /\ chat[p1].pc = "prompt"
  BY DEF Chats!Fork
<1>4. count \in Nat
  BY <1>1, SizesAgree, HistoryIsFinite DEF Chats!CountTurns
<1> HIDE DEF count, h
<1>5. wanted \in Nat /\ turns \in Nat /\ (wanted = 0 => count = 0)
  BY <1>4
<1>6. g \in Seq(Chats(q)!Message) /\ Chats(q)!Conversation(g, turns)
  <2> HIDE DEF wanted
  <2> QED BY <1>1, <1>2, <1>5, BranchesAreConversations DEF count
<1> HIDE DEF g, turns
<1>7. state \in Chats(q)!Chat /\ state.history = g /\ state.turns = turns
  BY <1>1, <1>5, <1>6 DEF Chats!Chat
<1> HIDE DEF state
<1> QED BY <1>3, <1>6, <1>7, CreateKeeps

(* What the invariant says of the chat while it is not off.                 *)
LEMMA ChatIsReal ==
  ASSUME NEW q, Chats(q)!BoundsAssumption, Chats(q)!ChatInv, chat[p1].pc # "off"
  PROVE  /\ chat[p1] \in Chats(q)!Chat /\ chat[p1].history \in Seq(Chats(q)!Message) /\ chat[p1].turns \in Nat
         /\ chat[p1].id \in 1 .. made /\ chat[p1].id \in Chats(q)!Ids
         /\ Chats(q)!Conversation(chat[p1].history, chat[p1].turns) /\ Chats(q)!InOrder(chat[p1].history)
         /\ chat[p1].turns >= Cardinality(Chats(q)!Replies(chat[p1].history))
         /\ \A i \in Chats(q)!Prompts(chat[p1].history) : chat[p1].history[i].turn <= asked
         /\ made \in made .. q.sessions /\ asked \in asked .. q.turns /\ asked \in Nat /\ q.turns \in Nat
         /\ begun \in [Chats(q)!Ids -> Settings] /\ told \in [Chats(q)!Ids -> SUBSET Chats(q)!TurnIds]
<1>1. chat[p1] \in Chats(q)!Chat /\ chat[p1].history \in Seq(Chats(q)!Message) /\ chat[p1].turns \in Nat
  BY ChatFields DEF Chats!ChatInv, Chats!TypeOK
<1>2. chat[p1].id \in 1 .. made
  BY DEF Chats!ChatInv, Chats!IdsAreMade
<1>3. Chats(q)!Conversation(chat[p1].history, chat[p1].turns)
  BY DEF Chats!ChatInv, Chats!ConversationsAreReal
<1>4. made \in made .. q.sessions /\ asked \in asked .. q.turns /\ asked \in Nat /\ q.turns \in Nat
      /\ begun \in [Chats(q)!Ids -> Settings] /\ told \in [Chats(q)!Ids -> SUBSET Chats(q)!TurnIds]
      /\ made \in Nat /\ q.sessions \in Nat
  BY DEF Chats!ChatInv, Chats!TypeOK, Chats!BoundsAssumption
<1>5. chat[p1].id \in Chats(q)!Ids
  BY <1>2, <1>4 DEF Chats!Ids
<1>6. /\ Chats(q)!InOrder(chat[p1].history) /\ chat[p1].turns >= Cardinality(Chats(q)!Replies(chat[p1].history))
      /\ \A i \in Chats(q)!Prompts(chat[p1].history) : chat[p1].history[i].turn <= asked
  BY <1>3, SizesAgree DEF Chats!Conversation
<1> QED BY <1>1, <1>2, <1>3, <1>4, <1>5, <1>6

LEMMA SubmitKeeps ==
  ASSUME NEW q, Chats(q)!BoundsAssumption, Chats(q)!ChatInv, Chats(q)!Submit(p1)
  PROVE  Chats(q)!ChatInv'
<1> DEFINE h == chat[p1].history
           u == Chats(q)!User(asked + 1)
           g == Append(h, u)
           r == [chat[p1] EXCEPT !.pc = "turn", !.history = g]
<1>1. chat[p1].pc = "prompt" /\ asked' = asked + 1 /\ asked < q.turns
      /\ files' = files /\ made' = made /\ told' = told /\ begun' = begun
  BY DEF Chats!Submit
<1>2. /\ chat[p1] \in Chats(q)!Chat /\ h \in Seq(Chats(q)!Message) /\ chat[p1].turns \in Nat
      /\ chat[p1].id \in 1 .. made /\ chat[p1].id \in Chats(q)!Ids /\ asked \in Nat /\ q.turns \in Nat
      /\ Chats(q)!Conversation(h, chat[p1].turns) /\ Chats(q)!InOrder(h)
      /\ chat[p1].turns >= Cardinality(Chats(q)!Replies(h))
      /\ \A i \in Chats(q)!Prompts(h) : h[i].turn <= asked
      /\ made \in made .. q.sessions
      /\ begun \in [Chats(q)!Ids -> Settings] /\ told \in [Chats(q)!Ids -> SUBSET Chats(q)!TurnIds]
  BY <1>1, ChatIsReal
<1>3. u \in Chats(q)!Message /\ u.kind = "user" /\ u.turn = asked + 1
  <2>1. asked + 1 \in Chats(q)!TurnIds
    BY <1>1, <1>2 DEF Chats!TurnIds
  <2> QED BY <2>1 DEF Chats!User, Chats!Message
<1>a. chat' = [chat EXCEPT ![p1] = r]
  BY <1>2 DEF Chats!Submit, Chats!ChatInv, Chats!TypeOK
<1> HIDE DEF u
<1>4. g \in Seq(Chats(q)!Message) /\ Len(g) = Len(h) + 1 /\ g[Len(h) + 1] = u
      /\ \A i \in 1 .. Len(h) : g[i] = h[i]
  BY <1>2, <1>3, AppendProperties
<1> HIDE DEF g
<1>b. r \in Chats(q)!Chat /\ r.pc = "turn" /\ r.history = g /\ r.id = chat[p1].id /\ r.turns = chat[p1].turns
  BY <1>2, <1>4 DEF Chats!Chat, Chats!Points
<1> HIDE DEF r, h
<1>5. Len(h) \in Nat /\ DOMAIN h = 1 .. Len(h) /\ DOMAIN g = 1 .. Len(h) + 1
      /\ (\A i \in DOMAIN g : i \in DOMAIN h \/ i = Len(h) + 1)
  BY <1>2, <1>4, LenProperties
<1>6. /\ \A i : i \in Chats(q)!Prompts(g) <=> i \in Chats(q)!Prompts(h) \/ i = Len(h) + 1
      /\ \A i : i \in Chats(q)!Replies(g) <=> i \in Chats(q)!Replies(h)
  BY <1>3, <1>4, <1>5 DEF Chats!Prompts, Chats!Replies
<1>7. \A i \in Chats(q)!Prompts(h) : g[i] = h[i] /\ i \in 1 .. Len(h) /\ h[i].turn \in Nat
  BY <1>4, <1>5, <1>2, MessageShapes, HistoryIsFinite DEF Chats!Prompts, Chats!TurnIds
<1>8. Chats(q)!InOrder(g)
  <2>1. ASSUME NEW i \in Chats(q)!Prompts(g), NEW j \in Chats(q)!Prompts(g), i < j
        PROVE  g[i].turn < g[j].turn
    <3>1. CASE j \in Chats(q)!Prompts(h)
      <4>1. i \in Chats(q)!Prompts(h)
        BY <2>1, <3>1, <1>5, <1>6, <1>7
      <4> QED BY <4>1, <2>1, <3>1, <1>2, <1>7 DEF Chats!InOrder
    <3>2. CASE j = Len(h) + 1
      <4>1. i \in Chats(q)!Prompts(h)
        BY <2>1, <3>2, <1>5, <1>6
      <4>2. g[i].turn <= asked /\ g[i].turn \in Nat /\ g[j].turn = asked + 1
        BY <4>1, <3>2, <1>2, <1>3, <1>4, <1>7
      <4> QED BY <4>2, <1>2
    <3> QED BY <3>1, <3>2, <1>6
  <2>2. ASSUME NEW i \in DOMAIN g, g[i].kind = "assistant"
        PROVE  i > 1 /\ g[i - 1] = Chats(q)!User(g[i].turn)
    <3>1. i \in DOMAIN h /\ g[i] = h[i]
      BY <2>2, <1>3, <1>4, <1>5
    <3>2. i > 1 /\ h[i - 1] = Chats(q)!User(h[i].turn)
      BY <2>2, <3>1, <1>2 DEF Chats!InOrder
    <3>3. i - 1 \in 1 .. Len(h)
      BY <3>1, <3>2, <1>5
    <3> QED BY <3>1, <3>2, <3>3, <1>4
  <2> QED BY <2>1, <2>2 DEF Chats!InOrder
<1>9. \A i \in Chats(q)!Prompts(g) : g[i].turn <= asked'
  <2> SUFFICES ASSUME NEW i \in Chats(q)!Prompts(g) PROVE g[i].turn <= asked'
    OBVIOUS
  <2>1. CASE i \in Chats(q)!Prompts(h)
    <3>1. g[i].turn <= asked /\ g[i].turn \in Nat
      BY <2>1, <1>2, <1>7
    <3> QED BY <3>1, <1>1, <1>2
  <2>2. CASE i = Len(h) + 1
    <3>1. g[i].turn = asked + 1
      BY <2>2, <1>3, <1>4
    <3> QED BY <3>1, <1>1, <1>2
  <2> QED BY <2>1, <2>2, <1>6
<1>10. chat[p1].turns >= Cardinality(Chats(q)!Replies(g))
  <2>1. Chats(q)!Replies(g) = Chats(q)!Replies(h)
    BY <1>6
  <2> QED BY <2>1, <1>2
<1>11. \A t \in told[chat[p1].id] : \E i \in Chats(q)!Prompts(g) : g[i].turn = t /\ i < Len(g)
  <2> SUFFICES ASSUME NEW t \in told[chat[p1].id]
               PROVE  \E i \in Chats(q)!Prompts(g) : g[i].turn = t /\ i < Len(g)
    OBVIOUS
  <2>1. PICK i \in Chats(q)!Prompts(h) : h[i].turn = t
    BY <1>1 DEF Chats!ChatInv, Chats!ToldIsHeld, h
  <2>2. i < Len(g)
    BY <1>4, <1>5, <1>7
  <2> QED BY <2>1, <2>2, <1>6, <1>7
<1>12. asked' \in asked .. q.turns /\ Len(g) \in Chats(q)!Prompts(g)
  BY <1>1, <1>2, <1>4, <1>6
<1> QED BY <1>1, <1>2, <1>a, <1>b, <1>8, <1>9, <1>10, <1>11, <1>12, ChatsMove

LEMMA TurnEndsKeeps ==
  ASSUME NEW q, Chats(q)!BoundsAssumption, Chats(q)!ChatInv, Chats(q)!TurnEnds(p1)
  PROVE  Chats(q)!ChatInv'
<1> DEFINE h == chat[p1].history
           g == Append(h, Chats(q)!Assistant(h[Len(h)].turn))
           n == chat[p1].turns + 1
           r == [chat[p1] EXCEPT !.pc = "saving", !.turns = n, !.history = g]
<1>1. chat[p1].pc = "turn" /\ files' = files /\ made' = made /\ asked' = asked /\ told' = told /\ begun' = begun
  BY DEF Chats!TurnEnds
<1>2. /\ chat[p1] \in Chats(q)!Chat /\ h \in Seq(Chats(q)!Message) /\ chat[p1].turns \in Nat
      /\ chat[p1].id \in 1 .. made /\ chat[p1].id \in Chats(q)!Ids
      /\ Chats(q)!Conversation(h, chat[p1].turns)
      /\ made \in made .. q.sessions /\ asked \in asked .. q.turns
      /\ begun \in [Chats(q)!Ids -> Settings] /\ told \in [Chats(q)!Ids -> SUBSET Chats(q)!TurnIds]
  BY <1>1, ChatIsReal
<1>3. Len(h) \in Chats(q)!Prompts(h)
  BY <1>1 DEF Chats!ChatInv, Chats!PromptIsLast
<1>a. chat' = [chat EXCEPT ![p1] = r]
  BY <1>2 DEF Chats!TurnEnds, Chats!ChatInv, Chats!TypeOK
<1> HIDE DEF h
<1>4. /\ g \in Seq(Chats(q)!Message) /\ Len(g) = Len(h) + 1
      /\ \A i \in 1 .. Len(h) : g[i] = h[i]
      /\ \A i : i \in Chats(q)!Prompts(g) <=> i \in Chats(q)!Prompts(h)
      /\ Chats(q)!Conversation(g, n)
  BY <1>2, <1>3, AnswersAreConversations
<1>5. n \in Nat
  BY <1>2
<1> HIDE DEF g, n
<1>b. r \in Chats(q)!Chat /\ r.pc = "saving" /\ r.history = g /\ r.id = chat[p1].id /\ r.turns = n
  BY <1>2, <1>4, <1>5 DEF Chats!Chat, Chats!Points
<1> HIDE DEF r
<1>6. Chats(q)!InOrder(g) /\ (\A i \in Chats(q)!Prompts(g) : g[i].turn <= asked') /\ n >= Cardinality(Chats(q)!Replies(g))
  BY <1>1, <1>4, SizesAgree DEF Chats!Conversation
<1>7. \A t \in told[chat[p1].id] : \E i \in Chats(q)!Prompts(g) : g[i].turn = t
  <2> SUFFICES ASSUME NEW t \in told[chat[p1].id]
               PROVE  \E i \in Chats(q)!Prompts(g) : g[i].turn = t
    OBVIOUS
  <2>1. PICK i \in Chats(q)!Prompts(h) : h[i].turn = t
    BY <1>1 DEF Chats!ChatInv, Chats!ToldIsHeld, h
  <2>2. i \in 1 .. Len(h)
    BY <1>2, HistoryIsFinite
  <2> QED BY <2>1, <2>2, <1>4
<1> QED BY <1>1, <1>2, <1>a, <1>b, <1>6, <1>7, ChatsMove

LEMMA TurnRejectsKeeps ==
  ASSUME NEW q, Chats(q)!BoundsAssumption, Chats(q)!ChatInv, Chats(q)!TurnRejects(p1)
  PROVE  Chats(q)!ChatInv'
<1>1. chat[p1].pc = "turn" /\ files' = files /\ made' = made /\ asked' = asked /\ told' = told /\ begun' = begun
  BY DEF Chats!TurnRejects
<1>2. PICK dropped \in {0, 1} :
        chat' = [chat EXCEPT ![p1].pc = "prompt", ![p1].history = SubSeq(@, 1, Len(@) - dropped)]
  BY DEF Chats!TurnRejects
<1> DEFINE h == chat[p1].history
           k == Len(h) - dropped
           g == SubSeq(h, 1, k)
           r == [chat[p1] EXCEPT !.pc = "prompt", !.history = g]
<1>3. /\ chat[p1] \in Chats(q)!Chat /\ h \in Seq(Chats(q)!Message) /\ chat[p1].turns \in Nat
      /\ chat[p1].id \in 1 .. made /\ chat[p1].id \in Chats(q)!Ids
      /\ Chats(q)!Conversation(h, chat[p1].turns)
      /\ made \in made .. q.sessions /\ asked \in asked .. q.turns
      /\ begun \in [Chats(q)!Ids -> Settings] /\ told \in [Chats(q)!Ids -> SUBSET Chats(q)!TurnIds]
  BY <1>1, ChatIsReal
<1>a. chat' = [chat EXCEPT ![p1] = r]
  BY <1>2, <1>3 DEF Chats!ChatInv, Chats!TypeOK
<1>4. Len(h) \in 1 .. Len(h) /\ Len(h) \in Nat
  <2>1. Len(h) \in Chats(q)!Prompts(h)
    BY <1>1 DEF Chats!ChatInv, Chats!PromptIsLast
  <2> HIDE DEF h
  <2> QED BY <2>1, <1>3, HistoryIsFinite
<1>5. \A t \in told[chat[p1].id] : \E i \in Chats(q)!Prompts(h) : h[i].turn = t /\ i < Len(h)
  BY <1>1 DEF Chats!ChatInv, Chats!ToldIsHeld
<1> HIDE DEF h
<1>6. k \in 0 .. Len(h) /\ \A i \in Nat : i < Len(h) => i <= k
  BY <1>4
<1> HIDE DEF k
<1>7. /\ g \in Seq(Chats(q)!Message) /\ \A i \in 1 .. k : g[i] = h[i]
      /\ \A i : i \in Chats(q)!Prompts(g) <=> i \in Chats(q)!Prompts(h) /\ i <= k
      /\ Chats(q)!Conversation(g, chat[p1].turns)
  BY <1>3, <1>6, StartsAreConversations
<1> HIDE DEF g
<1>b. r \in Chats(q)!Chat /\ r.pc = "prompt" /\ r.history = g /\ r.id = chat[p1].id /\ r.turns = chat[p1].turns
  BY <1>3, <1>7 DEF Chats!Chat, Chats!Points
<1> HIDE DEF r
<1>8. /\ Chats(q)!InOrder(g) /\ (\A i \in Chats(q)!Prompts(g) : g[i].turn <= asked')
      /\ chat[p1].turns >= Cardinality(Chats(q)!Replies(g))
  BY <1>1, <1>7, SizesAgree DEF Chats!Conversation
<1>9. \A t \in told[chat[p1].id] : \E i \in Chats(q)!Prompts(g) : g[i].turn = t
  <2> SUFFICES ASSUME NEW t \in told[chat[p1].id]
               PROVE  \E i \in Chats(q)!Prompts(g) : g[i].turn = t
    OBVIOUS
  <2>1. PICK i \in Chats(q)!Prompts(h) : h[i].turn = t /\ i < Len(h)
    BY <1>5
  <2>2. i \in 1 .. Len(h) /\ i \in Nat
    BY <1>3, HistoryIsFinite
  <2>3. i <= k /\ i \in 1 .. k
    BY <2>1, <2>2, <1>6
  <2> QED BY <2>1, <2>3, <1>7
<1> QED BY <1>1, <1>3, <1>a, <1>b, <1>8, <1>9, ChatsMove

LEMMA CompactKeeps ==
  ASSUME NEW q, Chats(q)!BoundsAssumption, Chats(q)!ChatInv, Chats(q)!Compact(p1)
  PROVE  Chats(q)!ChatInv'
<1> DEFINE g == <<Chats(q)!Summary>>
           rolls == chat[p1].rolls + 1
           r == [chat[p1] EXCEPT !.pc = "saving", !.history = g, !.rolls = rolls]
<1>1. /\ chat[p1].pc = "prompt" /\ files' = files /\ made' = made /\ asked' = asked /\ begun' = begun
      /\ told' = [told EXCEPT ![chat[p1].id] = @ \ Chats(q)!TurnsOf(chat[p1].history)]
  BY DEF Chats!Compact
<1>2. /\ chat[p1] \in Chats(q)!Chat /\ chat[p1].turns \in Nat /\ chat[p1].rolls \in Nat
      /\ chat[p1].id \in 1 .. made /\ chat[p1].id \in Chats(q)!Ids
      /\ made \in made .. q.sessions /\ asked \in asked .. q.turns
      /\ begun \in [Chats(q)!Ids -> Settings] /\ told \in [Chats(q)!Ids -> SUBSET Chats(q)!TurnIds]
  BY <1>1, ChatIsReal, ChatFields
<1>a. chat' = [chat EXCEPT ![p1] = r]
  BY <1>2 DEF Chats!Compact, Chats!ChatInv, Chats!TypeOK
<1>3. Chats(q)!Summary \in Chats(q)!Message /\ Chats(q)!Summary.kind = "summary"
  BY DEF Chats!Summary, Chats!Message
<1>4. g \in Seq(Chats(q)!Message) /\ DOMAIN g = {1} /\ g[1] = Chats(q)!Summary
  BY <1>3
<1>c. rolls \in Nat
  BY <1>2
<1> HIDE DEF g, rolls
<1>b. r \in Chats(q)!Chat /\ r.pc = "saving" /\ r.history = g /\ r.id = chat[p1].id /\ r.turns = chat[p1].turns
  BY <1>2, <1>4, <1>c DEF Chats!Chat, Chats!Points
<1> HIDE DEF r
<1>5. Chats(q)!Prompts(g) = {} /\ Chats(q)!Replies(g) = {}
  BY <1>3, <1>4 DEF Chats!Prompts, Chats!Replies
<1>6. Chats(q)!InOrder(g)
  BY <1>3, <1>4, <1>5 DEF Chats!InOrder
<1>7. chat[p1].turns >= Cardinality(Chats(q)!Replies(g))
  BY <1>2, <1>5, FS_EmptySet
<1>8. told' \in [Chats(q)!Ids -> SUBSET Chats(q)!TurnIds] /\ \A id \in Chats(q)!Ids : told'[id] \subseteq told[id]
  BY <1>1, <1>2
<1>9. told'[chat[p1].id] = {}
  <2> SUFFICES told[chat[p1].id] \subseteq Chats(q)!TurnsOf(chat[p1].history)
    BY <1>1, <1>2
  <2>1. \A t \in told[chat[p1].id] : \E i \in Chats(q)!Prompts(chat[p1].history) : chat[p1].history[i].turn = t
    BY <1>1 DEF Chats!ChatInv, Chats!ToldIsHeld
  <2> QED BY <2>1 DEF Chats!TurnsOf
<1> QED BY <1>1, <1>2, <1>a, <1>b, <1>5, <1>6, <1>7, <1>8, <1>9, ChatsMove

LEMMA ResumeKeeps ==
  ASSUME NEW q, Chats(q)!BoundsAssumption, Chats(q)!ChatInv, NEW id \in Chats(q)!Ids, Chats(q)!Resume(p1, id)
  PROVE  Chats(q)!ChatInv'
<1> DEFINE lines == files[id]
           h == Tail(lines)
<1>1. chat[p1].pc = "off" /\ Chats(q)!Readable(lines)
      /\ files' = files /\ made' = made /\ asked' = asked /\ told' = told /\ begun' = begun
  BY DEF Chats!Resume
<1>2. PICK s \in Settings :
        chat' = [chat EXCEPT ![p1] =
          [Chats(q)!Off EXCEPT !.pc = "saving", !.id = id, !.history = Tail(files[id]),
             !.turns = files[id][1].turns, !.rolls = files[id][1].rolls,
             !.opened = files[id][1].rolls, !.settings = s]]
  BY DEF Chats!Resume
<1> DEFINE r == [Chats(q)!Off EXCEPT !.pc = "saving", !.id = id, !.history = h, !.turns = lines[1].turns,
                   !.rolls = lines[1].rolls, !.opened = lines[1].rolls, !.settings = s]
<1>a. chat' = [chat EXCEPT ![p1] = r]
  BY <1>2
<1>3. lines \in Seq(Chats(q)!Line) /\ Chats(q)!Saved(lines)
  BY DEF Chats!ChatInv, Chats!TypeOK, Chats!FilesAreSaves
<1>4. Chats(q)!Conversation(h, lines[1].turns)
  BY <1>1 DEF Chats!ChatInv, Chats!ConversationsAreReal
<1>5. id \in 1 .. made
  <2>1. lines # <<>>
    BY <1>1 DEF Chats!Readable
  <2>2. ~(id > made)
    BY <2>1 DEF Chats!ChatInv, Chats!IdsAreMade
  <2> QED BY <2>2 DEF Chats!ChatInv, Chats!TypeOK, Chats!Ids, Chats!BoundsAssumption
<1>6. told[id] \subseteq Chats(q)!TurnsOf(lines)
  BY <1>1 DEF Chats!ChatInv, Chats!ToldIsHeld, Chats!SavedTurnsSurvive
<1>7. made \in made .. q.sessions /\ asked \in asked .. q.turns
      /\ begun \in [Chats(q)!Ids -> Settings] /\ told \in [Chats(q)!Ids -> SUBSET Chats(q)!TurnIds]
  BY DEF Chats!ChatInv, Chats!TypeOK, Chats!BoundsAssumption
<1> HIDE DEF lines
<1>8. /\ lines[1] \in Chats(q)!Header /\ h \in Seq(Chats(q)!Message)
      /\ \A t \in Chats(q)!TurnsOf(lines) : t \in Chats(q)!TurnsOf(h)
  BY <1>1, <1>3, FilesLoad
<1>9. lines[1].turns \in Nat /\ lines[1].rolls \in Nat
  BY <1>8, LineKinds
<1> HIDE DEF h
<1>b. r \in Chats(q)!Chat /\ r.pc = "saving" /\ r.history = h /\ r.id = id /\ r.turns = lines[1].turns
  <2>1. Chats(q)!Off \in Chats(q)!Chat
    BY OffIsAChat
  <2> QED BY <2>1, <1>8, <1>9 DEF Chats!Chat, Chats!Points
<1> HIDE DEF r
<1>10. /\ Chats(q)!InOrder(h) /\ (\A i \in Chats(q)!Prompts(h) : h[i].turn <= asked')
       /\ lines[1].turns >= Cardinality(Chats(q)!Replies(h))
  BY <1>1, <1>4, SizesAgree DEF Chats!Conversation
<1>11. \A t \in told[id] : \E i \in Chats(q)!Prompts(h) : h[i].turn = t
  BY <1>6, <1>8 DEF Chats!TurnsOf
<1> QED BY <1>1, <1>5, <1>7, <1>a, <1>b, <1>10, <1>11, ChatsMove

(* What a chat would write is what it holds.                                *)
LEMMA ContentReadsBack ==
  ASSUME NEW q, Chats(q)!BoundsAssumption, Chats(q)!ChatInv, chat[p1].pc # "off"
  PROVE  LET c     == chat[p1]
             lines == Chats(q)!Content(p1)
         IN  /\ lines \in Seq(Chats(q)!Line) /\ Chats(q)!Saved(lines) /\ Chats(q)!Readable(lines)
             /\ Chats(q)!Conversation(Tail(lines), lines[1].turns)
             /\ \A i \in Chats(q)!Prompts(c.history) : c.history[i].turn \in Chats(q)!TurnsOf(lines)
<1> DEFINE c == chat[p1]
           header == Chats(q)!HeaderFor(c)
           lines == <<header>> \o c.history
<1>1. c \in Chats(q)!Chat /\ c.history \in Seq(Chats(q)!Message) /\ Chats(q)!Conversation(c.history, c.turns)
  BY ChatIsReal
<1>2. header \in Chats(q)!Header /\ header.turns = c.turns
  BY <1>1, ChatFields DEF Chats!HeaderFor, Chats!Header
<1>3. Chats(q)!Content(p1) = lines
  BY DEF Chats!Content
<1> HIDE DEF header, c
<1>4. /\ lines \in Seq(Chats(q)!Line) /\ lines[1] = header
      /\ Chats(q)!Saved(lines) /\ Chats(q)!Readable(lines)
      /\ Tail(lines) = c.history
      /\ \A i \in Chats(q)!Prompts(c.history) : c.history[i].turn \in Chats(q)!TurnsOf(lines)
  BY <1>1, <1>2, SavesReadBack
<1> HIDE DEF lines
<1>5. Chats(q)!Conversation(Tail(lines), lines[1].turns)
  BY <1>1, <1>2, <1>4
<1> QED BY <1>3, <1>4, <1>5 DEF c

(* And so are its parts, as far as they can be read.                        *)
LEMMA PartsAreReal ==
  ASSUME NEW q, Chats(q)!BoundsAssumption, Chats(q)!ChatInv, chat[p1].pc # "off",
         NEW some \in Chats(q)!Parts(p1)
  PROVE  /\ some \in Seq(Chats(q)!Line) /\ Chats(q)!Saved(some)
         /\ Chats(q)!Readable(some) => Chats(q)!Conversation(Tail(some), some[1].turns)
<1> DEFINE c == chat[p1]
           h == c.history
           header == Chats(q)!HeaderFor(c)
           start(k) == SubSeq(<<header>> \o h, 1, k)
<1>1. c \in Chats(q)!Chat /\ h \in Seq(Chats(q)!Message) /\ Chats(q)!Conversation(h, c.turns) /\ c.turns \in Nat
  BY ChatIsReal
<1>2. header \in Chats(q)!Header /\ header.turns = c.turns
  BY <1>1, ChatFields DEF Chats!HeaderFor, Chats!Header
<1>3. PICK k \in 0 .. Len(h) : some = start(k) \/ some = Append(start(k), Chats(q)!Torn)
  BY DEF Chats!Parts, Chats!Content
<1> HIDE DEF header, h
<1>4. /\ start(k) \in Seq(Chats(q)!Line) /\ Chats(q)!Saved(start(k))
      /\ Chats(q)!Readable(start(k)) =>
           k - 1 \in 0 .. Len(h) /\ start(k)[1] = header /\ Tail(start(k)) = SubSeq(h, 1, k - 1)
      /\ Append(start(k), Chats(q)!Torn) \in Seq(Chats(q)!Line)
      /\ Chats(q)!Saved(Append(start(k), Chats(q)!Torn)) /\ ~Chats(q)!Readable(Append(start(k), Chats(q)!Torn))
  BY <1>1, <1>2, PartsReadBack
<1> HIDE DEF start
<1>5. ASSUME Chats(q)!Readable(start(k))
      PROVE  Chats(q)!Conversation(Tail(start(k)), start(k)[1].turns)
  <2>1. k - 1 \in 0 .. Len(h) /\ start(k)[1] = header /\ Tail(start(k)) = SubSeq(h, 1, k - 1)
    BY <1>4, <1>5
  <2>2. Chats(q)!Conversation(SubSeq(h, 1, k - 1), c.turns)
    BY <2>1, <1>1, StartsAreConversations
  <2> QED BY <2>1, <2>2, <1>2
<1>6. CASE some = start(k)
  BY <1>4, <1>5, <1>6
<1>7. CASE some = Append(start(k), Chats(q)!Torn)
  BY <1>4, <1>7
<1> QED BY <1>3, <1>6, <1>7

LEMMA TruncateKeeps ==
  ASSUME NEW q, Chats(q)!BoundsAssumption, Chats(q)!ChatInv, Chats(q)!Truncate(p1)
  PROVE  Chats(q)!ChatInv'
<1> DEFINE r == [chat[p1] EXCEPT !.pc = "writing"]
<1>1. /\ chat[p1].pc = "saving" /\ files' = [files EXCEPT ![chat[p1].id] = <<>>]
      /\ made' = made /\ asked' = asked /\ told' = told /\ begun' = begun
  BY DEF Chats!Truncate
<1>2. /\ chat[p1] \in Chats(q)!Chat /\ Chats(q)!Conversation(chat[p1].history, chat[p1].turns)
      /\ told \in [Chats(q)!Ids -> SUBSET Chats(q)!TurnIds]
  BY <1>1, ChatIsReal
<1>a. chat' = [chat EXCEPT ![p1] = r]
  BY DEF Chats!Truncate, Chats!ChatInv, Chats!TypeOK
<1>b. r \in Chats(q)!Chat /\ r.pc = "writing" /\ r.id = chat[p1].id /\ r.history = chat[p1].history /\ r.turns = chat[p1].turns
  BY <1>2 DEF Chats!Chat, Chats!Points
<1> HIDE DEF r
<1>3. <<>> \in Seq(Chats(q)!Line) /\ Chats(q)!Saved(<<>>) /\ ~Chats(q)!Readable(<<>>)
  BY EmptySeq DEF Chats!Saved, Chats!Readable
<1>4. \A t \in told[chat[p1].id] : \E i \in Chats(q)!Prompts(chat[p1].history) : chat[p1].history[i].turn = t
  BY <1>1 DEF Chats!ChatInv, Chats!ToldIsHeld
<1>5. Chats(q)!Conversation(r.history, r.turns) /\ r.pc # "turn" /\ r.pc # "off" /\ chat[p1].pc # "off"
  BY <1>1, <1>2, <1>b
<1>6. \A t \in told'[chat[p1].id] :
        /\ r.pc # "off" => \E i \in Chats(q)!Prompts(r.history) : r.history[i].turn = t
        /\ r.pc # "writing" => Chats(q)!Readable(<<>>) /\ t \in Chats(q)!TurnsOf(<<>>)
  BY <1>1, <1>b, <1>4
<1>7. told' \in [Chats(q)!Ids -> SUBSET Chats(q)!TurnIds] /\ \A id \in Chats(q)!Ids \ {chat[p1].id} : told'[id] = told[id]
  BY <1>1, <1>2
<1> QED BY <1>1, <1>a, <1>b, <1>3, <1>5, <1>6, <1>7, ChatsWrite

LEMMA WriteKeeps ==
  ASSUME NEW q, Chats(q)!BoundsAssumption, Chats(q)!ChatInv, Chats(q)!Write(p1)
  PROVE  Chats(q)!ChatInv'
<1> DEFINE c == chat[p1]
           id == c.id
           lines == Chats(q)!Content(p1)
           r == [c EXCEPT !.pc = "prompt"]
<1>1. /\ c.pc = "writing" /\ files' = [files EXCEPT ![id] = Chats(q)!WriteOver(files[id], lines)]
      /\ told' = [told EXCEPT ![id] = told[id] \cup Chats(q)!TurnsOf(c.history)]
      /\ made' = made /\ asked' = asked /\ begun' = begun
  BY DEF Chats!Write
<1>2. /\ c \in Chats(q)!Chat /\ c.history \in Seq(Chats(q)!Message) /\ Chats(q)!Conversation(c.history, c.turns)
      /\ id \in Chats(q)!Ids /\ told \in [Chats(q)!Ids -> SUBSET Chats(q)!TurnIds]
  BY <1>1, ChatIsReal
<1>a. chat' = [chat EXCEPT ![p1] = r]
  BY DEF Chats!Write, Chats!ChatInv, Chats!TypeOK
<1>b. r \in Chats(q)!Chat /\ r.pc = "prompt" /\ r.id = id /\ r.history = c.history /\ r.turns = c.turns
  BY <1>2 DEF Chats!Chat, Chats!Points
<1> HIDE DEF r
<1>3. /\ lines \in Seq(Chats(q)!Line) /\ Chats(q)!Saved(lines) /\ Chats(q)!Readable(lines)
      /\ Chats(q)!Conversation(Tail(lines), lines[1].turns)
      /\ \A i \in Chats(q)!Prompts(c.history) : c.history[i].turn \in Chats(q)!TurnsOf(lines)
  BY <1>1, ContentReadsBack
<1>4. files[id] = <<>>
  BY <1>1 DEF Chats!ChatInv, Chats!FilesAreSaves
<1>5. \A t \in told[id] : \E i \in Chats(q)!Prompts(c.history) : c.history[i].turn = t
  BY <1>1 DEF Chats!ChatInv, Chats!ToldIsHeld
<1> HIDE DEF lines
<1>6. files' = [files EXCEPT ![id] = lines]
  BY <1>1, <1>3, <1>4, OverNothing
<1>7. Chats(q)!TurnsOf(c.history) \subseteq Chats(q)!TurnIds
  BY <1>2, HistoryIsFinite, MessageShapes DEF Chats!TurnsOf, Chats!Prompts
<1>8. told' \in [Chats(q)!Ids -> SUBSET Chats(q)!TurnIds] /\ (\A j \in Chats(q)!Ids \ {id} : told'[j] = told[j])
      /\ \A t : t \in told'[id] <=> t \in told[id] \/ t \in Chats(q)!TurnsOf(c.history)
  BY <1>1, <1>2, <1>7
<1>9. \A t \in told'[id] :
        (\E i \in Chats(q)!Prompts(c.history) : c.history[i].turn = t) /\ t \in Chats(q)!TurnsOf(lines)
  <2> SUFFICES ASSUME NEW t \in told'[id]
               PROVE  (\E i \in Chats(q)!Prompts(c.history) : c.history[i].turn = t) /\ t \in Chats(q)!TurnsOf(lines)
    OBVIOUS
  <2>1. PICK i \in Chats(q)!Prompts(c.history) : c.history[i].turn = t
    BY <1>5, <1>8 DEF Chats!TurnsOf
  <2> QED BY <2>1, <1>3
<1>10. Chats(q)!Conversation(r.history, r.turns) /\ r.pc # "turn" /\ r.pc # "writing" /\ c.pc # "off"
  BY <1>1, <1>2, <1>b
<1>11. \A t \in told'[id] :
         /\ r.pc # "off" => \E i \in Chats(q)!Prompts(r.history) : r.history[i].turn = t
         /\ r.pc # "writing" => Chats(q)!Readable(lines) /\ t \in Chats(q)!TurnsOf(lines)
  BY <1>3, <1>b, <1>9
<1>12. /\ told' \in [Chats(q)!Ids -> SUBSET Chats(q)!TurnIds] /\ \A j \in Chats(q)!Ids \ {id} : told'[j] = told[j]
       /\ made' = made /\ asked' = asked /\ begun' = begun
  BY <1>1, <1>8
<1> QED BY <1>a, <1>b, <1>3, <1>6, <1>10, <1>11, <1>12, ChatsWrite

LEMMA BrokenWriteKeeps ==
  ASSUME NEW q, Chats(q)!BoundsAssumption, Chats(q)!ChatInv, Chats(q)!WriteFails(p1) \/ Chats(q)!KilledInWrite(p1)
  PROVE  Chats(q)!ChatInv'
<1> DEFINE c == chat[p1]
           id == c.id
<1>1. /\ c.pc = "writing" /\ told' = [told EXCEPT ![id] = {}]
      /\ made' = made /\ asked' = asked /\ begun' = begun
  BY DEF Chats!WriteFails, Chats!KilledInWrite
<1>2. /\ c \in Chats(q)!Chat /\ c.history \in Seq(Chats(q)!Message) /\ Chats(q)!Conversation(c.history, c.turns)
      /\ id \in Chats(q)!Ids /\ told \in [Chats(q)!Ids -> SUBSET Chats(q)!TurnIds]
  BY <1>1, ChatIsReal
<1>3. PICK some \in Chats(q)!Parts(p1) : files' = [files EXCEPT ![id] = Chats(q)!WriteOver(files[id], some)]
  BY DEF Chats!WriteFails, Chats!KilledInWrite
<1>4. /\ some \in Seq(Chats(q)!Line) /\ Chats(q)!Saved(some)
      /\ Chats(q)!Readable(some) => Chats(q)!Conversation(Tail(some), some[1].turns)
  BY <1>1, PartsAreReal
<1>5. files[id] = <<>>
  BY <1>1 DEF Chats!ChatInv, Chats!FilesAreSaves
<1>6. files' = [files EXCEPT ![id] = some]
  BY <1>3, <1>4, <1>5, OverNothing
<1>9. told' \in [Chats(q)!Ids -> SUBSET Chats(q)!TurnIds] /\ told'[id] = {}
      /\ \A j \in Chats(q)!Ids \ {id} : told'[j] = told[j]
  BY <1>1, <1>2
<1>7. CASE Chats(q)!WriteFails(p1)
  <2> DEFINE r == [c EXCEPT !.pc = "prompt"]
  <2>1. chat' = [chat EXCEPT ![p1] = r]
    BY <1>7 DEF Chats!WriteFails, Chats!ChatInv, Chats!TypeOK
  <2>2. r \in Chats(q)!Chat /\ r.pc = "prompt" /\ r.id = id /\ r.history = c.history /\ r.turns = c.turns
    BY <1>2 DEF Chats!Chat, Chats!Points
  <2> HIDE DEF r
  <2> QED BY <1>1, <1>2, <1>4, <1>6, <1>9, <2>1, <2>2, ChatsWrite
<1>8. CASE Chats(q)!KilledInWrite(p1)
  <2> DEFINE r == Chats(q)!Off
  <2>1. chat' = [chat EXCEPT ![p1] = r]
    BY <1>8 DEF Chats!KilledInWrite
  <2>2. r \in Chats(q)!Chat /\ r.pc = "off" /\ r.history = <<>> /\ r.turns = 0
    BY OffIsAChat
  <2> HIDE DEF r
  <2>3. Chats(q)!Conversation(r.history, r.turns)
    <3>1. 0 \in Nat
      OBVIOUS
    <3>2. Chats(q)!InOrder(<<>>) /\ Chats(q)!Prompts(<<>>) = {} /\ 0 >= Cardinality(Chats(q)!Replies(<<>>))
      BY <3>1, NothingIsAConversation
    <3> QED BY <3>2, <2>2, SizesAgree DEF Chats!Conversation
  <2> QED BY <1>1, <1>2, <1>4, <1>6, <1>9, <2>1, <2>2, <2>3, ChatsWrite
<1> QED BY <1>7, <1>8

LEMMA ChatInvInit ==
  ASSUME NEW q, Chats(q)!BoundsAssumption, Chats(q)!Init
  PROVE  Chats(q)!ChatInv
<1>1. /\ chat = [p \in {p1} |-> Chats(q)!Off] /\ files = [id \in Chats(q)!Ids |-> <<>>]
      /\ made = 0 /\ asked = 0 /\ told = [id \in Chats(q)!Ids |-> {}]
  BY DEF Chats!Init
<1>2. /\ Chats(q)!Off \in Chats(q)!Chat /\ Chats(q)!Off.pc = "off"
      /\ Chats(q)!Off.history = <<>> /\ Chats(q)!Off.turns = 0
  BY OffIsAChat
<1>3. chat[p1] = Chats(q)!Off /\ \A id \in Chats(q)!Ids : files[id] = <<>> /\ told[id] = {}
  BY <1>1
<1>4. Chats(q)!TypeOK
  <2>1. begun \in [Chats(q)!Ids -> Settings]
    <3>1. (CHOOSE s \in Settings : TRUE) \in Settings
      BY DEF Chats!BoundsAssumption
    <3> QED BY <3>1 DEF Chats!Init
  <2>2. <<>> \in Seq(Chats(q)!Line)
    BY EmptySeq
  <2>3. 0 \in 0 .. q.sessions /\ 0 \in 0 .. q.turns
    BY DEF Chats!BoundsAssumption
  <2> QED BY <1>1, <1>2, <2>1, <2>2, <2>3 DEF Chats!TypeOK
<1>5. Chats(q)!IdsAreMade
  BY <1>2, <1>3 DEF Chats!IdsAreMade
<1>6. Chats(q)!Saved(<<>>) /\ ~Chats(q)!Readable(<<>>)
  BY DEF Chats!Saved, Chats!Readable
<1>7. Chats(q)!FilesAreSaves
  BY <1>2, <1>3, <1>6 DEF Chats!FilesAreSaves
<1>8. Chats(q)!ConversationsAreReal
  <2>1. 0 \in Nat
    OBVIOUS
  <2>2. Chats(q)!InOrder(<<>>) /\ Chats(q)!Prompts(<<>>) = {} /\ 0 >= Cardinality(Chats(q)!Replies(<<>>))
    BY <2>1, NothingIsAConversation
  <2>3. Chats(q)!Conversation(<<>>, 0)
    BY <2>2, SizesAgree DEF Chats!Conversation
  <2> QED BY <2>3, <1>2, <1>3, <1>6 DEF Chats!ConversationsAreReal
<1>9. Chats(q)!PromptIsLast /\ Chats(q)!ToldIsHeld
  BY <1>2, <1>3 DEF Chats!PromptIsLast, Chats!ToldIsHeld, Chats!SavedTurnsSurvive
<1> QED BY <1>4, <1>5, <1>7, <1>8, <1>9 DEF Chats!ChatInv

LEMMA ChatInvStep ==
  ASSUME NEW q, Chats(q)!BoundsAssumption, Chats(q)!ChatInv, [Chats(q)!Next]_(Chats(q)!vars)
  PROVE  Chats(q)!ChatInv'
<1>1. CASE UNCHANGED Chats(q)!vars
  <2>1. chat' = chat /\ files' = files /\ made' = made /\ asked' = asked /\ told' = told /\ begun' = begun
    BY <1>1 DEF Chats!vars
  <2>2. Chats(q)!TypeOK'
    BY <2>1 DEF Chats!ChatInv, Chats!TypeOK
  <2>3. Chats(q)!IdsAreMade'
    BY <2>1 DEF Chats!ChatInv, Chats!IdsAreMade
  <2>4. Chats(q)!FilesAreSaves'
    BY <2>1 DEF Chats!ChatInv, Chats!FilesAreSaves
  <2>5. Chats(q)!ConversationsAreReal'
    BY <2>1 DEF Chats!ChatInv, Chats!ConversationsAreReal, Chats!Conversation
  <2>6. Chats(q)!PromptIsLast'
    BY <2>1 DEF Chats!ChatInv, Chats!PromptIsLast
  <2>7. Chats(q)!ToldIsHeld'
    BY <2>1 DEF Chats!ChatInv, Chats!ToldIsHeld, Chats!SavedTurnsSurvive
  <2> QED BY <2>2, <2>3, <2>4, <2>5, <2>6, <2>7 DEF Chats!ChatInv
<1>2. CASE Chats(q)!handleSlash(p1)
  <2>1. ASSUME NEW n \in 0 .. q.turns, Chats(q)!Fork(p1, n) PROVE Chats(q)!ChatInv'
    BY <2>1, ForkKeeps DEF Chats!BoundsAssumption
  <2> QED BY <1>2, <2>1, StartKeeps, CompactKeeps, OffKeeps DEF Chats!handleSlash
<1>3. ASSUME NEW id \in Chats(q)!Ids, Chats(q)!Resume(p1, id) PROVE Chats(q)!ChatInv'
  BY <1>3, ResumeKeeps
<1>4. CASE \/ Chats(q)!Start(p1) \/ Chats(q)!Submit(p1) \/ Chats(q)!TurnEnds(p1) \/ Chats(q)!TurnRejects(p1)
           \/ Chats(q)!Truncate(p1) \/ Chats(q)!Write(p1) \/ Chats(q)!WriteFails(p1)
           \/ Chats(q)!Killed(p1) \/ Chats(q)!KilledInWrite(p1)
  BY <1>4, StartKeeps, SubmitKeeps, TurnEndsKeeps, TurnRejectsKeeps, TruncateKeeps, WriteKeeps, BrokenWriteKeeps, OffKeeps
<1> QED BY <1>1, <1>2, <1>3, <1>4 DEF Chats!Next, Chats!Idle

LEMMA ChatInvMeans ==
  ASSUME NEW q, Chats(q)!ChatInv
  PROVE  /\ Chats(q)!SavedTurnsSurvive
         /\ Chats(q)!ConversationsInOrder /\ Chats(q)!TurnsAreCounted
<1>1. Chats(q)!SavedTurnsSurvive
  BY DEF Chats!ChatInv, Chats!ToldIsHeld
<1>2. Chats(q)!ConversationsInOrder
  BY DEF Chats!ChatInv, Chats!ConversationsAreReal, Chats!Conversation, Chats!ConversationsInOrder
<1>3. Chats(q)!TurnsAreCounted
  <2> SUFFICES ASSUME NEW id \in Chats(q)!Ids, Chats(q)!Readable(files[id])
               PROVE  files[id][1].turns >= Cardinality(Chats(q)!Replies(files[id]))
    BY SizesAgree DEF Chats!TurnsAreCounted
  <2> DEFINE lines == files[id]
  <2>1. lines \in Seq(Chats(q)!Line) /\ Chats(q)!Saved(lines)
    BY DEF Chats!ChatInv, Chats!TypeOK, Chats!FilesAreSaves
  <2>2. lines[1].turns >= Cardinality(Chats(q)!Replies(Tail(lines)))
    BY SizesAgree DEF Chats!ChatInv, Chats!ConversationsAreReal, Chats!Conversation
  <2>3. Chats(q)!Readable(lines)
    OBVIOUS
  <2> HIDE DEF lines
  <2>4. /\ lines[1] \in Chats(q)!Header /\ Tail(lines) \in Seq(Chats(q)!Message)
        /\ Cardinality(Chats(q)!Replies(lines)) <= Cardinality(Chats(q)!Replies(Tail(lines)))
    BY <2>1, <2>3, FilesLoad
  <2>5. lines[1].turns \in Nat /\ Cardinality(Chats(q)!Replies(Tail(lines))) \in Nat
    BY <2>4, LineKinds, HistoryIsFinite
  <2>6. Cardinality(Chats(q)!Replies(lines)) \in Nat
    <3>1. Chats(q)!Replies(lines) \subseteq 1 .. Len(lines) /\ Len(lines) \in Nat
      BY <2>1, LenProperties DEF Chats!Replies
    <3>2. IsFiniteSet(1 .. Len(lines))
      BY <3>1, FS_Interval
    <3> QED BY <3>1, <3>2, FS_Subset, FS_CardinalityType
  <2>7. lines[1].turns >= Cardinality(Chats(q)!Replies(lines))
    BY <2>2, <2>4, <2>5, <2>6
  <2> QED BY <2>7 DEF lines
<1> QED BY <1>1, <1>2, <1>3

-----------------------------------------------------------------------------
(* The chats of the run.                                                    *)

ChatsInv ==
  /\ part = "chats" => Chats(WholeChat)!ChatInv
  /\ part = "broken" => Chats(BrokenChat)!ChatInv

LEMMA ChatsAreLegal ==
  Chats(WholeChat)!BoundsAssumption /\ Chats(BrokenChat)!BoundsAssumption
BY ConstantsAreLegal

LEMMA ChatsInvInit == ASSUME Init PROVE ChatsInv
<1>1. CASE part = "chats"
  <2>1. Chats(WholeChat)!Init
    BY <1>1 DEF Init
  <2>2. Chats(WholeChat)!ChatInv
    BY <2>1, ChatInvInit, ChatsAreLegal
  <2> QED BY <1>1, <2>2 DEF ChatsInv
<1>2. CASE part = "broken"
  <2>1. Chats(BrokenChat)!Init
    BY <1>2 DEF Init
  <2>2. Chats(BrokenChat)!ChatInv
    BY <2>1, ChatInvInit, ChatsAreLegal
  <2> QED BY <1>2, <2>2 DEF ChatsInv
<1> QED BY <1>1, <1>2 DEF ChatsInv

LEMMA ChatsInvStep == ASSUME ChatsInv, [Next]_vars PROVE ChatsInv'
<1>a. part' = part
  BY DEF Next, vars
<1>1. CASE part = "chats"
  <2>1. [Chats(WholeChat)!Next]_(Chats(WholeChat)!vars)
    BY <1>1 DEF Next, vars, chatVars, Chats!vars
  <2>2. Chats(WholeChat)!ChatInv'
    BY <1>1, <2>1, ChatInvStep, ChatsAreLegal DEF ChatsInv
  <2> QED BY <1>1, <1>a, <2>2 DEF ChatsInv
<1>2. CASE part = "broken"
  <2>1. [Chats(BrokenChat)!Next]_(Chats(BrokenChat)!vars)
    BY <1>2 DEF Next, vars, chatVars, Chats!vars
  <2>2. Chats(BrokenChat)!ChatInv'
    BY <1>2, <2>1, ChatInvStep, ChatsAreLegal DEF ChatsInv
  <2> QED BY <1>2, <1>a, <2>2 DEF ChatsInv
<1> QED BY <1>a, <1>1, <1>2 DEF ChatsInv

(* For any number of sessions, turns and compactions of a person whose chats *)
(* come one after another, killed or out of space at any point: what a        *)
(* completed save put into a session's file is there whenever nobody is       *)
(* writing it, unless a save of that very session broke off since, and what a *)
(* resume or a fork makes is a conversation in order whose header claims no   *)
(* fewer turns than were answered (sessions/store.ts, commands/chat.ts).      *)
THEOREM SavesStay == Spec => []SavedTurnsSurvive
<1>1. Init => ChatsInv
  BY ChatsInvInit
<1>2. ChatsInv /\ [Next]_vars => ChatsInv'
  BY ChatsInvStep
<1>3. ChatsInv => SavedTurnsSurvive
  <2>1. /\ part = "chats" /\ ChatsInv =>
             Chats(WholeChat)!SavedTurnsSurvive /\ Chats(WholeChat)!ConversationsInOrder /\ Chats(WholeChat)!TurnsAreCounted
        /\ part = "broken" /\ ChatsInv =>
             Chats(BrokenChat)!SavedTurnsSurvive /\ Chats(BrokenChat)!ConversationsInOrder /\ Chats(BrokenChat)!TurnsAreCounted
    BY ChatInvMeans, ChatsAreLegal DEF ChatsInv
  <2> QED BY <2>1 DEF SavedTurnsSurvive
<1> QED BY <1>1, <1>2, <1>3, PTL DEF Spec

=============================================================================
