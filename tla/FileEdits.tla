------------------------------- MODULE FileEdits -------------------------------
(***************************************************************************)
(* One file under several tool calls: edit reads it, applies its blocks    *)
(* and writes the result, write replaces it, and writing means filling a   *)
(* temporary file beside it and renaming that over it                      *)
(* (packages/core/src/tools/edit.ts, tools/files.ts, fs.ts); and under      *)
(* adze apply, a process of its own that reads the file, applies an edit    *)
(* and writes the file in place (packages/cli/src/commands/apply.ts).       *)
(*                                                                         *)
(* The calls are those of sessions of one engine, so of one process, and a *)
(* person may save the file from an editor at any time.  A content is the  *)
(* set of the changes in it and whether it is a whole text; what an edit   *)
(* makes of the text it read is the subject of EditApplier.                *)
(***************************************************************************)
EXTENDS Integers, FiniteSets

CONSTANTS
  Edits, Writes,   (* The calls of the edit tool and of the write tool.    *)
  Saves,           (* The saves of the person.                             *)
  MaxClock,        (* Bound: milliseconds that pass.                       *)
  SharedMs,        (* Whether two calls may take the same millisecond.     *)
  OneSession,      (* Whether all calls are of one session.                *)
  Commands,        (* Processes of adze apply, and what they may be asked:  *)
  Invocations,     (* [file, inline, edits, dryRun], see BuildRequest.      *)
  FullDisk         (* Whether a write of a command may break off.          *)

Calls  == Edits \cup Writes
Actors == Calls \cup Commands
Clock  == 0 .. MaxClock
Target == "target"
NoInode == "none"
Inodes == Calls \cup {Target}
EXIT   == [Ok |-> 0, Failure |-> 1, Usage |-> 2]
Settled == {"refused", "failed", "done"}
Phases  == Settled \cup {"approval", "entered", "read", "open", "full", "failing"}

CallsAssumption ==
  /\ Edits \cap Writes = {} /\ Saves \cap Calls = {}
  /\ Target \notin Calls /\ NoInode \notin Calls
  /\ Commands \cap (Calls \cup Saves) = {}
  /\ MaxClock \in Nat /\ {SharedMs, OneSession, FullDisk} \subseteq BOOLEAN

VARIABLES
  pc,      (* Where each call is.                                          *)
  seen,    (* What was there when a call was let in, and what an edit or a *)
           (* command read.                                                *)
  temp,    (* The millisecond in the name of a call's temporary file.      *)
  fd,      (* The file a call has open for writing.                        *)
  names,   (* The file each temporary name leads to.                       *)
  data,    (* What is in each file.                                        *)
  file,    (* The file the path itself leads to.                           *)
  saved,   (* The saves so far.                                            *)
  clock,   (* Date.now().                                                  *)
  alive,   (* The engine's process runs.                                   *)
  invoked, (* What each command was asked.                                 *)
  exit     (* The exit code of each command that has ended.                *)

commandVars == <<invoked, exit>>
engineVars  == <<temp, names, clock, alive>>
vars == <<pc, seen, temp, fd, names, data, file, saved, clock, alive, commandVars>>

Content == [parts: SUBSET (Actors \cup Saves), whole: BOOLEAN]
Text(parts) == [parts |-> parts, whole |-> TRUE]
Part  == [parts |-> {}, whole |-> FALSE]

Init ==
  /\ pc = [c \in Actors |-> IF c \in Calls THEN "approval" ELSE "started"]
  /\ seen = [c \in Actors |-> [there |-> {}, parts |-> {}]]
  /\ temp = [c \in Calls |-> 0]
  /\ fd = [c \in Actors |-> IF c \in Calls THEN c ELSE Target]
  /\ names = [ms \in Clock |-> NoInode]
  /\ data = [i \in Inodes |-> Text({})]
  /\ file = Target /\ saved = {} /\ clock = 0 /\ alive = TRUE
  /\ invoked \in [Commands -> Invocations] /\ exit = [k \in Commands |-> -1]

Goes(c, from, to) == alive /\ pc[c] = from /\ pc' = [pc EXCEPT ![c] = to]

-----------------------------------------------------------------------------
(* The tools.                                                               *)

(* The gate lets the call in; a person may have thought about it for long.  *)
Approve(c) ==
  /\ Goes(c, "approval", "entered")
  /\ OneSession => \A d \in Calls : pc[d] \in Settled \cup {"approval"}
  /\ seen' = [seen EXCEPT ![c].there = data[file].parts]
  /\ UNCHANGED <<temp, fd, names, data, file, saved, clock, alive, commandVars>>

(* Slip of Read: the text is the one there was when the call was proposed. *)
ReadStale(c) ==
  /\ c \in Edits /\ Goes(c, "entered", "read")
  /\ \E parts \in {{}, data[file].parts} : seen' = [seen EXCEPT ![c].parts = parts]
  /\ UNCHANGED <<temp, fd, names, data, file, saved, clock, alive, commandVars>>

Read(c) ==
  /\ c \in Edits /\ Goes(c, "entered", "read")
  /\ seen' = [seen EXCEPT ![c].parts = data[file].parts]
  /\ UNCHANGED <<temp, fd, names, data, file, saved, clock, alive, commandVars>>

ReadFails(c) ==
  /\ c \in Edits /\ Goes(c, "entered", "failed")
  /\ UNCHANGED <<seen, temp, fd, names, data, file, saved, clock, alive, commandVars>>

Refused(c) ==
  /\ c \in Edits /\ Goes(c, "read", "refused")
  /\ UNCHANGED <<seen, temp, fd, names, data, file, saved, clock, alive, commandVars>>

(* What the call is to write.                                               *)
Result(c) == IF c \in Edits THEN seen[c].parts \cup {c} ELSE {c}

-----------------------------------------------------------------------------
(* nodeFileSystem.writeFile.                                                *)

(* The name is made of the process and the millisecond; an existing file    *)
(* of that name is truncated.                                               *)
OpenTemp(c) ==
  LET inode == IF names[clock] = NoInode THEN c ELSE names[clock] IN
  /\ Goes(c, IF c \in Edits THEN "read" ELSE "entered", "open")
  /\ SharedMs \/ \A d \in Calls \ {c} : pc[d] \in {"open", "full", "failing", "failed", "done"} => temp[d] # clock
  /\ temp' = [temp EXCEPT ![c] = clock]
  /\ names' = [names EXCEPT ![clock] = inode]
  /\ data' = [data EXCEPT ![inode] = Part] /\ fd' = [fd EXCEPT ![c] = inode]
  /\ UNCHANGED <<seen, file, saved, clock, alive, commandVars>>

FillTemp(c) ==
  /\ Goes(c, "open", "full")
  /\ data' = [data EXCEPT ![fd[c]] = Text(Result(c))]
  /\ UNCHANGED <<seen, temp, fd, names, file, saved, clock, alive, commandVars>>

Rename(c) ==
  /\ names[temp[c]] # NoInode
  /\ Goes(c, "full", "done")
  /\ file' = names[temp[c]]
  /\ names' = [names EXCEPT ![temp[c]] = NoInode]
  /\ UNCHANGED <<seen, temp, fd, data, saved, clock, alive, commandVars>>

(* The disk is full, or the temporary file has been taken away.             *)
WriteFails(c) ==
  /\ pc[c] \in {"open", "full"}
  /\ Goes(c, pc[c], "failing")
  /\ UNCHANGED <<seen, temp, fd, names, data, file, saved, clock, alive, commandVars>>

Cleanup(c) ==
  /\ Goes(c, "failing", "failed")
  /\ names' = [names EXCEPT ![temp[c]] = NoInode]
  /\ UNCHANGED <<seen, temp, fd, data, file, saved, clock, alive, commandVars>>

-----------------------------------------------------------------------------
(* adze apply.                                                              *)

(* Two sources of edits are ambiguous, none is nothing to apply.            *)
checkEditSource(o) ==
  CASE o.inline # {} /\ o.edits # "none" -> "usage"
    [] o.inline = {} /\ o.edits # "none" -> "file"
    [] o.inline # {} /\ o.edits = "none" -> "inline"
    [] OTHER -> "usage"

(* Both halves of an inline edit and an occurrence that counts; an --edits   *)
(* file that can be read and whose every field is what it must be.          *)
parseEdits(o) ==
  IF checkEditSource(o) = "inline" THEN {"search", "replace"} \subseteq o.inline /\ "bad occurrence" \notin o.inline
  ELSE o.edits = "fine"

(* The file is read before the edits are; o.file is how --file was given.   *)
BuildRequest(o) ==
  o.file = "readable" /\ checkEditSource(o) # "usage" /\ parseEdits(o)

Exits(k, from, code) ==
  /\ pc[k] = from /\ pc' = [pc EXCEPT ![k] = "exited"]
  /\ exit' = [exit EXCEPT ![k] = code]

UsageError(k) ==
  /\ ~BuildRequest(invoked[k]) /\ Exits(k, "started", EXIT.Usage)
  /\ UNCHANGED <<engineVars, seen, fd, data, file, saved, invoked>>

CommandReads(k) ==
  /\ BuildRequest(invoked[k])
  /\ pc[k] = "started" /\ pc' = [pc EXCEPT ![k] = "applying"]
  /\ seen' = [seen EXCEPT ![k].parts = data[file].parts]
  /\ UNCHANGED <<engineVars, fd, data, file, saved, commandVars>>

emitRefusal(k) ==
  /\ Exits(k, "applying", EXIT.Failure)
  /\ UNCHANGED <<engineVars, seen, fd, data, file, saved, invoked>>

DryRun(k) ==
  /\ invoked[k].dryRun /\ Exits(k, "applying", EXIT.Ok)
  /\ UNCHANGED <<engineVars, seen, fd, data, file, saved, invoked>>

(* writeFile empties what the path leads to, and then fills it; either may   *)
(* fail, and the command says that it could not write.                      *)
Truncates(k) ==
  /\ ~invoked[k].dryRun /\ pc[k] = "applying" /\ pc' = [pc EXCEPT ![k] = "truncated"]
  /\ fd' = [fd EXCEPT ![k] = file] /\ data' = [data EXCEPT ![file] = Part]
  /\ UNCHANGED <<engineVars, seen, file, saved, commandVars>>

Fills(k) ==
  /\ Exits(k, "truncated", EXIT.Ok)
  /\ data' = [data EXCEPT ![fd[k]] = Text(seen[k].parts \cup {k})]
  /\ UNCHANGED <<engineVars, seen, fd, file, saved, invoked>>

CommandWriteFails(k) ==
  /\ \/ ~invoked[k].dryRun /\ Exits(k, "applying", EXIT.Usage)
     \/ FullDisk /\ Exits(k, "truncated", EXIT.Usage)
  /\ UNCHANGED <<engineVars, seen, fd, data, file, saved, invoked>>

-----------------------------------------------------------------------------
(* The rest of the world.                                                   *)

Save(s) ==
  /\ s \notin saved /\ data[file].whole
  /\ saved' = saved \cup {s}
  /\ data' = [data EXCEPT ![file].parts = @ \cup {s}]
  /\ UNCHANGED <<pc, seen, temp, fd, names, file, clock, alive, commandVars>>

Tick ==
  /\ clock < MaxClock /\ clock' = clock + 1
  /\ UNCHANGED <<pc, seen, temp, fd, names, data, file, saved, alive, commandVars>>

Crash ==
  /\ alive /\ alive' = FALSE
  /\ UNCHANGED <<pc, seen, temp, fd, names, data, file, saved, clock, commandVars>>

Next ==
  \/ \E c \in Calls : \/ Approve(c) \/ Read(c) \/ ReadFails(c) \/ Refused(c)
                      \/ OpenTemp(c) \/ FillTemp(c) \/ Rename(c) \/ WriteFails(c) \/ Cleanup(c)
  \/ \E k \in Commands : \/ UsageError(k) \/ CommandReads(k) \/ emitRefusal(k) \/ DryRun(k)
                         \/ Truncates(k) \/ Fills(k) \/ CommandWriteFails(k)
  \/ \E s \in Saves : Save(s)
  \/ Tick
  \/ Crash

Spec == Init /\ [][Next]_vars

-----------------------------------------------------------------------------
(* Properties.                                                              *)

(* What every variable may hold (fs.ts nodeFileSystem, edit.ts execute).    *)
TypeOK ==
  /\ pc \in [Actors -> Phases \cup {"started", "applying", "truncated", "exited"}]
  /\ seen \in [Actors -> [there: SUBSET (Actors \cup Saves), parts: SUBSET (Actors \cup Saves)]]
  /\ temp \in [Calls -> Clock] /\ fd \in [Actors -> Inodes]
  /\ names \in [Clock -> Calls \cup {NoInode}]
  /\ data \in [Inodes -> Content] /\ file \in Inodes
  /\ saved \subseteq Saves /\ clock \in Clock /\ alive \in BOOLEAN
  /\ invoked \in [Commands -> Invocations] /\ exit \in [Commands -> {-1, 0, 1, 2}]

(* Whoever writes, fails or crashes, the path leads to a whole text (fs.ts  *)
(* writeFile).  Two calls of one millisecond share their temporary file and *)
(* break it.                                                                *)
FileIsWhole == data[file].whole

(* A call that reports a failure or a refusal has changed nothing (edit.ts  *)
(* execute, files.ts write).  Two calls of one millisecond break it.        *)
FailureWritesNothing ==
  \A c \in Calls : pc[c] \in {"refused", "failed"} => c \notin data[file].parts

(* Calls leave no temporary file behind (fs.ts, the catch of writeFile).    *)
NoTempStays ==
  (\A c \in Calls : pc[c] \in Settled \cup {"approval"}) => \A ms \in Clock : names[ms] = NoInode

(* In one session an edit that was reported as applied stays in the file,  *)
(* and with it whatever was there when the call was let in: what a person  *)
(* saved while the approval was pending, however long that took, is kept   *)
(* (edit.ts execute reads after the gate).                                  *)
DoneEditsStay ==
  Writes = {} => \A c \in Edits : pc[c] = "done" => {c} \cup seen[c].there \subseteq data[file].parts

(* The exit code of adze apply tells what became of the edit: until someone  *)
(* else writes, 0 means that the edit is in the file, or a dry run; and the  *)
(* file never holds an edit that was refused or asked for wrongly, nor that  *)
(* of a dry run (apply.ts:10-12).                                           *)
ExitTellsTheEdit ==
  \A k \in Commands :
    LET othersWrote == \E a \in Actors \ {k} : pc[a] \in {"truncated", "exited", "done"}
    IN  /\ exit[k] = EXIT.Ok /\ ~invoked[k].dryRun /\ ~othersWrote => k \in data[file].parts
        /\ k \in data[file].parts =>
             exit[k] = EXIT.Ok /\ BuildRequest(invoked[k]) /\ ~invoked[k].dryRun

(* A command whose write broke off has exited with the usage code, and only  *)
(* such a one or one that is writing leaves less than a whole text behind.  *)
OnlyAWriteBreaks ==
  ~data[file].whole =>
    \E k \in Commands : fd[k] = file /\ (pc[k] = "truncated" \/ (FullDisk /\ exit[k] = EXIT.Usage))

-----------------------------------------------------------------------------
(* The inductive invariant.                                                 *)

ToolStep(c) ==
  \/ Approve(c) \/ Read(c) \/ ReadFails(c) \/ Refused(c)
  \/ OpenTemp(c) \/ FillTemp(c) \/ Rename(c) \/ WriteFails(c) \/ Cleanup(c)

CommandStep(k) ==
  \/ UsageError(k) \/ CommandReads(k) \/ emitRefusal(k) \/ DryRun(k)
  \/ Truncates(k) \/ Fills(k) \/ CommandWriteFails(k)

(* Calls that do not share a name for their temporary files: no two write in *)
(* the same millisecond, or the calls are of one session.                   *)
Apart == ~SharedMs \/ OneSession

Writing == {"open", "full", "failing"}
Busy    == Writing \cup {"entered", "read"}

(* A session has one call at work at a time (turn.ts, the sequential loop). *)
OneAtWork ==
  OneSession => \A c, d \in Calls : c # d /\ pc[c] \in Busy => pc[d] \notin Busy

(* A temporary name leads to the file of the one call that is writing under *)
(* it, which has that file open.                                            *)
NamesAreOwn ==
  /\ \A ms \in Clock : names[ms] # NoInode => pc[names[ms]] \in Writing /\ temp[names[ms]] = ms
  /\ \A c \in Calls : pc[c] \in Writing => names[temp[c]] = c /\ fd[c] = c

(* The path, and what a command has open, was put there by a finished call. *)
Landed(inode) == inode = Target \/ (inode \in Calls /\ pc[inode] = "done")
FilesHaveLanded == Landed(file) /\ \A k \in Commands : Landed(fd[k])

FullIsResult == \A c \in Calls : pc[c] = "full" => data[c] = Text(Result(c))

(* What a call that is not done may have touched is its own file alone.     *)
NoTrace(c) ==
  /\ \A i \in Inodes : c \in data[i].parts => i = c
  /\ \A a \in Actors : c \notin seen[a].parts
UnfinishedIsUnseen == \A c \in Calls : pc[c] # "done" => NoTrace(c)

(* A command's edit is anywhere only when the command has said so.          *)
Applied(k) ==
  pc[k] = "exited" /\ exit[k] = EXIT.Ok /\ BuildRequest(invoked[k]) /\ ~invoked[k].dryRun
CommandIsHonest ==
  \A k \in Commands :
    /\ (\E i \in Inodes : k \in data[i].parts) \/ (\E a \in Actors : k \in seen[a].parts) => Applied(k)
    /\ pc[k] # "exited" => exit[k] = -1
    /\ pc[k] \in {"applying", "truncated"} => BuildRequest(invoked[k])
    /\ pc[k] = "truncated" => ~invoked[k].dryRun

FInv ==
  /\ TypeOK /\ OneAtWork /\ NamesAreOwn /\ FilesHaveLanded /\ FullIsResult
  /\ UnfinishedIsUnseen /\ CommandIsHonest
  /\ OnlyAWriteBreaks /\ ExitTellsTheEdit

(* What an edit was let in on top of, and every edit done before it, is in  *)
(* what it will write.                                                      *)
Kept(d, parts) == {d} \cup seen[d].there \subseteq parts
EditsBuildOn ==
  \A c \in Edits :
    /\ pc[c] = "done" => Kept(c, data[file].parts)
    /\ pc[c] = "entered" => seen[c].there \subseteq data[file].parts
    /\ pc[c] \in {"read", "open", "full"} =>
         /\ seen[c].there \subseteq seen[c].parts
         /\ \A d \in Edits : pc[d] = "done" => Kept(d, seen[c].parts)

-----------------------------------------------------------------------------
(* Promises the code does not keep; see README.md.                          *)

(* apply.ts:10-12 "the alternative was a corrupted file": a command that did *)
(* not succeed has left the file as it was.  Broken by a write that breaks  *)
(* off: the file was emptied before.                                        *)
FailureLeavesTheFile ==
  (\A k \in Commands : pc[k] = "exited" /\ exit[k] # EXIT.Ok) => data[file].whole

(* What was saved while the command worked is kept, as with the edit tool.  *)
(* Broken by a save between its read and its write.                         *)
CommandKeepsSaves ==
  Calls = {} /\ (\A k \in Commands : pc[k] = "exited") => saved \subseteq data[file].parts

=============================================================================
