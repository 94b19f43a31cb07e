------------------------------ MODULE ChildProcess ------------------------------
(***************************************************************************)
(* What Node and the kernel do with one spawned command, as both brokers   *)
(* rely on it: the program, a descendant that inherited its pipes, what    *)
(* they wrote and nobody has read, and the events still to be delivered.   *)
(* None of it is this repository's code.                                   *)
(***************************************************************************)
EXTENDS Naturals

CONSTANTS
  MaxChunks,  (* Bound: chunks the command and its descendant write.      *)
  Cap,        (* Chunks a broker keeps (MAX_STREAM_BYTES).                *)
  Descends,   (* The command may leave a descendant holding its pipes.    *)
  Feeds,      (* The request pipes text to the command (stdin).           *)
  PreAborted  (* The turn may be cancelled before the command starts.     *)

ChunksAssumption == MaxChunks \in Nat /\ Cap \in Nat \ {0}
WorldAssumption == {Descends, Feeds, PreAborted} \subseteq BOOLEAN

VARIABLES
  child,      (* "unspawned" (spawn failed), "alive" or "gone".           *)
  holder,     (* A descendant is alive and holds the pipes.               *)
  written,    (* Chunks written to the pipes so far.                      *)
  unread,     (* Chunks of them no data event has delivered.              *)
  fed,        (* The text piped to the command was taken.                 *)
  aborted,    (* request.signal.aborted.                                  *)
  exited,     (* The exit event (or error, when unspawned) was delivered. *)
  closed,     (* The close event was delivered.                           *)
  released    (* The broker destroyed its ends of the pipes.              *)

process == <<child, holder, written, unread, fed>>
world   == <<process, aborted, exited, closed, released>>

(* Before any event; each broker says what child may be by then.           *)
WorldInit ==
  /\ aborted \in {FALSE, PreAborted}
  /\ fed = ~Feeds
  /\ holder = FALSE /\ written = 0 /\ unread = 0
  /\ exited = FALSE /\ closed = FALSE /\ released = FALSE

WorldOK ==
  /\ child \in {"unspawned", "alive", "gone"}
  /\ written \in 0 .. MaxChunks /\ unread \in 0 .. written
  /\ {holder, fed, aborted, exited, closed, released} \subseteq BOOLEAN

(* The command, or the descendant after it, writes a chunk.                *)
Writes ==
  /\ child = "alive" \/ holder
  /\ written < MaxChunks
  /\ written' = written + 1 /\ unread' = unread + 1
  /\ UNCHANGED <<child, holder, fed>>

(* The command reads what was piped to it.                                 *)
TakesInput ==
  /\ child = "alive" /\ ~fed
  /\ fed' = TRUE
  /\ UNCHANGED <<child, holder, written, unread>>

Forks ==
  /\ Descends /\ child = "alive" /\ ~holder
  /\ holder' = TRUE
  /\ UNCHANGED <<child, written, unread, fed>>

Exits ==
  /\ child = "alive"
  /\ child' = "gone"
  /\ UNCHANGED <<holder, written, unread, fed>>

HolderExits ==
  /\ holder
  /\ holder' = FALSE
  /\ UNCHANGED <<child, written, unread, fed>>

(* SIGKILL to the process alone, a no-op once it is gone; its descendants  *)
(* go on.                                                                  *)
Kill == child' = (IF child = "alive" THEN "gone" ELSE child)

(* When each event may be delivered.                                       *)
DataReady  == unread > 0 /\ ~released
ExitReady  == child = "gone" /\ ~exited
ErrorReady == child = "unspawned" /\ ~exited
CloseReady == exited /\ ~closed /\ ~holder /\ (unread = 0 \/ released)

(* The command went without taking its input: the write fails with EPIPE.  *)
InputBroken == child = "gone" /\ ~fed /\ ~released

=============================================================================
