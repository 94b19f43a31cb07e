--------------------------------- MODULE McpHost ---------------------------------
(***************************************************************************)
(* McpClientHost and the connections it owns: servers are connected one     *)
(* after the other, asked what they offer, called by turns, die whenever    *)
(* they like, and are closed together (packages/mcp/src/client.ts).  The    *)
(* protocol client underneath is external: it settles every request by an   *)
(* answer, a timeout or the close of its transport, and it reports as an    *)
(* error what it cannot attribute, a late answer among them.                *)
(***************************************************************************)
EXTENDS Naturals

CONSTANTS
  N,         (* Servers in the configuration.                             *)
  Lists,     (* Bound: list calls of discovery, three in the code (tools,  *)
             (* resources, prompts).                                      *)
  Calls,     (* The tool calls of one behaviour.                           *)
  Interrupts (* The surface may close the host while it is connecting.     *)

HostAssumption == {N, Lists} \subseteq Nat \ {0} /\ Interrupts \in BOOLEAN

VARIABLES
  at,          (* The server connectAll is at: 0 before, N + 1 after.       *)
  connections, (* this.connections.                                       *)
  failures,    (* this.failures.                                          *)
  host,        (* Where close is.                                         *)
  closing,     (* The connections close took, whose ends it waits for.     *)
  server,      (* server[i]: process i and the client that talks to it.     *)
  call         (* call[c]: a callTool of a turn.                           *)

vars == <<at, connections, failures, host, closing, server, call>>

Servers == 1 .. N
Kinds == 1 .. Lists

(* news: the transport has ended and the client has not heard; linked: the  *)
(* client has its transport; owed: a request was given up whose answer may  *)
(* still come; answered: history, the lists the server sent; shut: the      *)
(* connection's close has settled.                                          *)
Server ==
  [proc: {"none", "up", "gone"},
   phase: {"none", "handshake", "failing", "failed", "discovering", "connected"},
   list: 1 .. Lists + 1, offers: SUBSET Kinds, answered: SUBSET Kinds, warned: SUBSET Kinds,
   news: BOOLEAN, linked: BOOLEAN, owed: BOOLEAN,
   shut: BOOLEAN, dead: {"no", "closed", "error", "shutdown"}]
Call == [of: Servers \cup {0}, at: {"idle", "waiting", "ok", "failed", "told"}]

Init ==
  /\ at = 0 /\ connections = {} /\ failures = {} /\ host = "open" /\ closing = {}
  /\ server = [i \in Servers |->
       [proc |-> "none", phase |-> "none", list |-> 1, offers |-> {}, answered |-> {}, warned |-> {},
        news |-> FALSE, linked |-> FALSE, owed |-> FALSE,
        shut |-> FALSE, dead |-> "no"]]
  /\ call = [c \in Calls |-> [of |-> 0, at |-> "idle"]]

(* First cause wins; until the connection object exists nobody listens.     *)
markDead(r, cause) ==
  IF r.phase = "connected" /\ r.dead = "no" THEN [r EXCEPT !.dead = cause] ELSE r

(* The client learns that its transport has ended: every request rejects.   *)
CallsFail(i) ==
  [c \in Calls |-> IF call[c].of = i /\ call[c].at = "waiting"
                     THEN [call[c] EXCEPT !.at = "failed"] ELSE call[c]]

-----------------------------------------------------------------------------
(* connectAll and connectServer.                                            *)

(* A configuration that describes no transport fails before anything runs; *)
(* a good one has its process, once started.                                *)
buildTransport(i, ok) ==
  IF ok THEN [server EXCEPT ![i] = [@ EXCEPT !.proc = "up", !.linked = TRUE, !.phase = "handshake"]]
  ELSE [server EXCEPT ![i].phase = "failed"]

(* connectAll goes on to the next server: connectServer returns at once, or *)
(* starts the handshake.                                                    *)
Connect ==
  /\ at < N
  /\ at # 0 => server[at].phase \in {"failed", "connected"}
  /\ at' = at + 1
  /\ \E ok \in BOOLEAN :
       /\ server' = buildTransport(at + 1, ok)
       /\ failures' = IF ok THEN failures ELSE failures \cup {at + 1}
  /\ UNCHANGED <<connections, host, closing, call>>

ConnectAllReturns ==
  /\ at = N /\ server[N].phase \in {"failed", "connected"}
  /\ at' = N + 1
  /\ UNCHANGED <<connections, failures, host, closing, server, call>>

(* The handshake settled: agreed, or refused, timed out, cut off or agreed   *)
(* on a revision outside the accepted list.                                 *)
Handshake(i) ==
  /\ server[i].phase = "handshake"
  /\ \/ server[i].linked /\ server' = [server EXCEPT ![i].phase = "discovering"]
     \/ server' = [server EXCEPT ![i].phase = "failing"]
  /\ UNCHANGED <<at, connections, failures, host, closing, call>>

(* Slip of SafeClose: the failure is returned with its process still up. *)
SafeCloseForgotten(i) ==
  /\ server[i].phase = "failing"
  /\ server' = [server EXCEPT ![i].phase = "failed"]
  /\ failures' = failures \cup {i}
  /\ UNCHANGED <<at, connections, host, closing, call>>

(* safeClose stopped what the failed handshake had started.                 *)
SafeClose(i) ==
  /\ server[i].phase = "failing"
  /\ server' = [server EXCEPT ![i] = [@ EXCEPT !.phase = "failed", !.proc = "gone",
                                                !.linked = FALSE, !.news = FALSE]]
  /\ failures' = failures \cup {i}
  /\ UNCHANGED <<at, connections, host, closing, call>>

(* What discoverServer makes of the answer to one list call: the lists, a    *)
(* warning, and after a timeout one whose answer may still come.            *)
listed(r, kind, answer) ==
  [r EXCEPT !.list = kind + 1,
            !.offers = IF answer = "lists" THEN @ \cup {kind} ELSE @,
            !.answered = IF answer = "lists" THEN @ \cup {kind} ELSE @,
            !.warned = IF answer \in {"fails", "given up"} THEN @ \cup {kind} ELSE @,
            !.owed = @ \/ answer = "given up"]

(* One list call of discoverServer, not advertised ("none"), answered,       *)
(* rejected or given up on.                                                 *)
Discover(i) ==
  LET r == server[i]
      kind == r.list
  IN /\ r.phase = "discovering" /\ r.list <= Lists
     /\ \E answer \in {"none", "lists", "fails", "given up"} :
          /\ answer \in {"lists", "given up"} => r.linked
          /\ server' = [server EXCEPT ![i] = listed(r, kind, answer)]
     /\ UNCHANGED <<at, connections, failures, host, closing, call>>

(* The connection object is made and starts to listen to its client.        *)
Connected(i) ==
  /\ server[i].phase = "discovering" /\ server[i].list > Lists
  /\ server' = [server EXCEPT ![i].phase = "connected"]
  /\ connections' = connections \cup {i}
  /\ UNCHANGED <<at, failures, host, closing, call>>

-----------------------------------------------------------------------------
(* The servers.                                                             *)

Exits(i) ==
  /\ server[i].proc = "up"
  /\ server' = [server EXCEPT ![i] = [@ EXCEPT !.proc = "gone", !.news = TRUE]]
  /\ UNCHANGED <<at, connections, failures, host, closing, call>>

(* A crash reports an error before the close.                               *)
ErrorEvent(i) ==
  /\ server[i].news
  /\ server' = [server EXCEPT ![i] = markDead(@, "error")]
  /\ UNCHANGED <<at, connections, failures, host, closing, call>>

(* The transport closed: onclose, if anybody listens, and the rejections.   *)
CloseEvent(i) ==
  /\ server[i].news
  /\ server' = [server EXCEPT ![i] = [markDead(@, "closed") EXCEPT !.news = FALSE, !.linked = FALSE]]
  /\ call' = CallsFail(i)
  /\ UNCHANGED <<at, connections, failures, host, closing>>

(* An answer to a request that was given up is one the client cannot place. *)
LateAnswer(i) ==
  /\ server[i].proc = "up" /\ server[i].linked /\ server[i].owed
  /\ server' = [server EXCEPT ![i] = [markDead(@, "error") EXCEPT !.owed = FALSE]]
  /\ UNCHANGED <<at, connections, failures, host, closing, call>>

-----------------------------------------------------------------------------
(* callTool.                                                                *)

(* A dead connection answers itself; a client without a transport rejects.  *)
CallTool(c, i) ==
  /\ call[c].at = "idle" /\ server[i].phase = "connected"
  /\ call' = [call EXCEPT ![c] = [of |-> i,
                at |-> IF server[i].dead # "no" THEN "told"
                       ELSE IF server[i].linked THEN "waiting" ELSE "failed"]]
  /\ UNCHANGED <<at, connections, failures, host, closing, server>>

(* The server answered with a result, an error, or a reply without content. *)
Answer(c) ==
  /\ call[c].at = "waiting" /\ server[call[c].of].proc = "up"
  /\ \E outcome \in {"ok", "failed"} : call' = [call EXCEPT ![c].at = outcome]
  /\ UNCHANGED <<at, connections, failures, host, closing, server>>

(* The request timed out or the turn's signal aborted it.                   *)
GiveUp(c) ==
  /\ call[c].at = "waiting"
  /\ call' = [call EXCEPT ![c].at = "failed"]
  /\ server' = [server EXCEPT ![call[c].of].owed = TRUE]
  /\ UNCHANGED <<at, connections, failures, host, closing>>

-----------------------------------------------------------------------------
(* close, called at most once.                                              *)

HostClose ==
  /\ host = "open" /\ (at \in Servers => Interrupts)
  /\ host' = "closing" /\ closing' = connections
  /\ server' = [i \in Servers |-> IF i \in connections THEN markDead(server[i], "shutdown") ELSE server[i]]
  /\ UNCHANGED <<at, connections, failures, call>>

(* Client.close returned or threw: the transport has stopped its process.   *)
ConnectionCloses(i) ==
  /\ i \in closing /\ ~server[i].shut
  /\ server' = [server EXCEPT ![i] = [@ EXCEPT !.proc = "gone", !.news = FALSE, !.linked = FALSE,
                                                !.shut = TRUE]]
  /\ call' = CallsFail(i)
  /\ UNCHANGED <<at, connections, failures, host, closing>>

(* The list is emptied, of what connectAll added in the meantime too.        *)
HostCloseEnds ==
  /\ host = "closing" /\ \A i \in closing : server[i].shut
  /\ host' = "closed" /\ connections' = {}
  /\ UNCHANGED <<at, failures, closing, server, call>>

-----------------------------------------------------------------------------
Adze(i) == Handshake(i) \/ SafeClose(i) \/ Discover(i) \/ Connected(i) \/ ConnectionCloses(i)
Events(i) == Exits(i) \/ ErrorEvent(i) \/ CloseEvent(i) \/ LateAnswer(i)

Next ==
  \/ (at = 0 => host = "open") /\ Connect
  \/ ConnectAllReturns \/ HostClose \/ HostCloseEnds
  \/ \E i \in Servers : Adze(i) \/ Events(i)
  \/ \E c \in Calls : Answer(c) \/ GiveUp(c) \/ \E i \in Servers : CallTool(c, i)

Spec == Init /\ [][Next]_vars

(* Handshakes and requests carry timeouts and the transport's close ends in *)
(* a kill; a server is not obliged to answer, to exit or to stay.           *)
FairSpec ==
  /\ Spec
  /\ WF_vars((at = 0 => host = "open") /\ Connect) /\ WF_vars(ConnectAllReturns) /\ WF_vars(HostCloseEnds)
  /\ \A i \in Servers : WF_vars(Adze(i)) /\ WF_vars(CloseEvent(i))
  /\ \A c \in Calls : WF_vars(GiveUp(c))

-----------------------------------------------------------------------------
(* Properties.                                                             *)

(* The types of the host.                                                  *)
TypeOK ==
  /\ at \in 0 .. N + 1 /\ host \in {"open", "closing", "closed"}
  /\ connections \subseteq Servers /\ failures \subseteq Servers /\ closing \subseteq Servers
  /\ server \in [Servers -> Server] /\ call \in [Calls -> Call]

(* A server that could not be connected leaves no process behind.           *)
FailedLeavesNothing == \A i \in failures : server[i].proc # "up"

(* When close has returned no process of a server it took is up, those      *)
(* included whose connection was given up as dead while the process ran on;  *)
(* and none at all, unless close came while connectAll was at work.          *)
CloseLeavesNothing ==
  host = "closed" =>
    \A i \in Servers : server[i].proc = "up" => Interrupts /\ i \notin closing \cup failures

(* A list that fails costs nothing but itself: the connection offers every   *)
(* list its server answered, and warns of no list it offers.                *)
WhatAnsweredIsOffered ==
  \A i \in connections :
    server[i].offers = server[i].answered /\ server[i].offers \cap server[i].warned = {}

Tidy == FailedLeavesNothing /\ CloseLeavesNothing /\ WhatAnsweredIsOffered

(* connectAll reaches every server of the configuration.                    *)
AllAreTried == (at = 0 /\ host = "open") ~> (at = N + 1 \/ host # "open")

(* No call outlives its request timeout, whatever the server does.           *)
CallsSettle == \A c \in Calls : call[c].at = "waiting" ~> call[c].at # "waiting"

(* A close that has begun returns.                                          *)
CloseReturns == host = "closing" ~> host = "closed"

-----------------------------------------------------------------------------
(* Promises of the documentation the code does not keep; see README.md.     *)

(* client.ts: liveness is tracked; a connection said to be alive has a      *)
(* server, unless the news of its end is on the way.                        *)
AliveMeansUp ==
  \A i \in connections : server[i].dead = "no" => server[i].proc = "up" \/ server[i].news

(* client.ts tells the model of a dead connection that its server "is no     *)
(* longer running".                                                         *)
DeadMeansGone ==
  \A i \in connections : server[i].dead \in {"closed", "error"} => server[i].proc = "gone"

(* "Teardown leaves nothing running" (client.ts), whenever it comes.         *)
NothingRunsAfterClose == host = "closed" => \A i \in Servers : server[i].proc # "up"

-----------------------------------------------------------------------------
(* The inductive invariant, proved in Processes_proofs.                      *)

(* Servers are connected in the order of the configuration, one at a time;  *)
(* what close took was connected.                                           *)
InTurn(i) ==
  /\ i > at => server[i].phase = "none"
  /\ i < at => server[i].phase \in {"failed", "connected"}
  /\ i \in failures <=> server[i].phase = "failed"
  /\ i \in connections \cup closing => server[i].phase = "connected"

(* Who has no process, and what close did not miss.                         *)
Stopped(i) ==
  /\ server[i].phase \in {"none", "failed"} \/ server[i].shut => server[i].proc # "up"
  /\ server[i].shut => i \in closing
  /\ i \in closing => host # "open"
  /\ host = "closed" /\ i \in closing => server[i].shut
  /\ server[i].phase = "connected" =>
       \/ host = "open" /\ i \in connections
       \/ host # "open" /\ (i \in closing \/ Interrupts)

(* What is known of the lists asked for so far.                             *)
Listed(r) ==
  /\ r.offers = r.answered /\ r.offers \cap r.warned = {}
  /\ \A kind \in r.offers \cup r.warned : kind < r.list

HostInv ==
  /\ TypeOK
  /\ host # "open" /\ ~Interrupts => at \notin Servers
  /\ \A i \in Servers : InTurn(i) /\ Stopped(i) /\ Listed(server[i])
  /\ \A c \in Calls : call[c].at = "waiting" => call[c].of \in Servers

=============================================================================
