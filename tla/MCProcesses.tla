------------------------------ MODULE MCProcesses ------------------------------
(***************************************************************************)
(* The processes the repository starts: commands, under the plain broker    *)
(* and under the sandbox's, and the servers of McpClientHost.  The three    *)
(* share no state (the brokers' variables have the same names) and are      *)
(* checked side by side: a behaviour is one of one part, chosen at its      *)
(* start, and the variables of the others are None throughout.              *)
(***************************************************************************)
EXTENDS Naturals

CONSTANTS
  None, c1,
  Descends, PreAborted,          (* Of the commands of both brokers.         *)
  BrokerChunks, BrokerCap, BrokerFeeds,     (* The plain broker's.           *)
  SandboxChunks, SandboxCap, SandboxFeeds,  (* The sandbox's.                *)
  ServingServers, ServingLists,             (* McpClientHost: the servers,   *)
  OffersServers, OffersLists,               (* the lists of a discovery,     *)
  Asked                                     (* and the calls.                *)

VARIABLES
  part,
  child, holder, written, unread, fed, aborted, exited, closed, released,
  timer, listening, timedOut, cancelled, out, capped, outcome, hit, crashed, graces,
  at, connections, failures, host, closing, server, call

(* The plain broker: a command whose output outgrows what is kept; one that *)
(* is fed and may leave a descendant; and one that does neither.            *)
Broker == INSTANCE SubprocessBroker WITH
            MaxChunks <- BrokerChunks, Cap <- BrokerCap, Feeds <- BrokerFeeds
Fed    == INSTANCE SubprocessBroker WITH
            MaxChunks <- 2, Cap <- 1, Descends <- TRUE, Feeds <- TRUE, PreAborted <- TRUE
Alone  == INSTANCE SubprocessBroker WITH
            MaxChunks <- 3, Cap <- 2, Descends <- FALSE, Feeds <- FALSE, PreAborted <- FALSE

(* The sandbox's broker.                                                    *)
Sandbox == INSTANCE ContainedExec WITH
             MaxChunks <- SandboxChunks, Cap <- SandboxCap, Feeds <- SandboxFeeds

(* McpClientHost with two servers, closed while connectAll is not at work,   *)
(* with two calls, and at any time, with one; with all three lists of one    *)
(* server's discovery; and with two servers and one call, for liveness.      *)
Host(servers, lists, calls, interrupts) ==
  INSTANCE McpHost WITH N <- servers, Lists <- lists, Calls <- calls, Interrupts <- interrupts
Settle  == INSTANCE McpHost WITH N <- 2, Lists <- 1, Calls <- {c1}, Interrupts <- FALSE

ASSUME ConstantsAreLegal ==
  /\ Broker!ChunksAssumption /\ Broker!WorldAssumption
  /\ Fed!ChunksAssumption /\ Fed!WorldAssumption
  /\ Alone!ChunksAssumption /\ Alone!WorldAssumption
  /\ Sandbox!ChunksAssumption /\ Sandbox!WorldAssumption
  /\ Host(ServingServers, ServingLists, Asked, FALSE)!HostAssumption
  /\ Host(ServingServers, ServingLists, {c1}, TRUE)!HostAssumption
  /\ Host(OffersServers, OffersLists, Asked, TRUE)!HostAssumption /\ Settle!HostAssumption

bothVars    == <<child, holder, written, unread, fed, aborted, exited, closed, released,
                 timer, listening, timedOut, cancelled, out, capped, outcome>>
brokerVars  == <<bothVars, hit, crashed>>
sandboxVars == <<bothVars, graces>>
execVars    == <<brokerVars, graces>>
hostVars    == <<at, connections, failures, host, closing, server, call>>
vars        == <<part, execVars, hostVars>>

NoExec ==
  /\ child = None /\ holder = None /\ written = None /\ unread = None /\ fed = None
  /\ aborted = None /\ exited = None /\ closed = None /\ released = None
  /\ timer = None /\ listening = None /\ timedOut = None /\ cancelled = None
  /\ out = None /\ capped = None /\ outcome = None
  /\ hit = None /\ crashed = None /\ graces = None
NoHost ==
  /\ at = None /\ connections = None /\ failures = None /\ host = None
  /\ closing = None /\ server = None /\ call = None

Init ==
  \/ part = "broker" /\ Broker!Init /\ graces = None /\ NoHost
  \/ part = "fed" /\ Fed!Init /\ graces = None /\ NoHost
  \/ part = "alone" /\ Alone!Init /\ graces = None /\ NoHost
  \/ part = "sandbox" /\ Sandbox!Init /\ hit = None /\ crashed = None /\ NoHost
  \/ part = "serving" /\ Host(ServingServers, ServingLists, Asked, FALSE)!Init /\ NoExec
  \/ part = "hurried" /\ Host(ServingServers, ServingLists, {c1}, TRUE)!Init /\ NoExec
  \/ part = "offers" /\ Host(OffersServers, OffersLists, Asked, TRUE)!Init /\ NoExec
  \/ part = "settle" /\ Settle!Init /\ NoExec

Next ==
  \/ part = "broker" /\ Broker!Next /\ UNCHANGED <<part, graces, hostVars>>
  \/ part = "fed" /\ Fed!Next /\ UNCHANGED <<part, graces, hostVars>>
  \/ part = "alone" /\ Alone!Next /\ UNCHANGED <<part, graces, hostVars>>
  \/ part = "sandbox" /\ Sandbox!Next /\ UNCHANGED <<part, hit, crashed, hostVars>>
  \/ part = "serving" /\ Host(ServingServers, ServingLists, Asked, FALSE)!Next /\ UNCHANGED <<part, execVars>>
  \/ part = "hurried" /\ Host(ServingServers, ServingLists, {c1}, TRUE)!Next /\ UNCHANGED <<part, execVars>>
  \/ part = "offers" /\ Host(OffersServers, OffersLists, Asked, TRUE)!Next /\ UNCHANGED <<part, execVars>>
  \/ part = "settle" /\ Settle!Next /\ UNCHANGED <<part, execVars>>

InPart(p, A) == part = p /\ A

(* The fairness of each component's FairSpec, in the parts it is for.       *)
Spec ==
  /\ Init /\ [][Next]_vars
  /\ WF_brokerVars(InPart("fed", ~crashed /\ Fed!Events))
  /\ WF_brokerVars(InPart("alone", ~crashed /\ Alone!Events))
  /\ WF_sandboxVars(InPart("sandbox", Sandbox!Events))
  /\ WF_sandboxVars(InPart("sandbox", Sandbox!GraceFires))
  /\ WF_hostVars(InPart("settle", (at = 0 => host = "open") /\ Settle!Connect))
  /\ WF_hostVars(InPart("settle", Settle!ConnectAllReturns))
  /\ WF_hostVars(InPart("settle", Settle!HostCloseEnds))
  /\ \A i \in 1 .. 2 : /\ WF_hostVars(InPart("settle", Settle!Adze(i)))
                       /\ WF_hostVars(InPart("settle", Settle!CloseEvent(i)))
  /\ WF_hostVars(InPart("settle", Settle!GiveUp(c1)))

-----------------------------------------------------------------------------
(* The type invariants of SubprocessBroker, ContainedExec and McpHost.      *)
TypesHold ==
  /\ part = "broker" => Broker!TypeOK
  /\ part = "sandbox" => Sandbox!TypeOK
  /\ part = "offers" => Host(OffersServers, OffersLists, Asked, TRUE)!TypeOK

(* Under both brokers a command that ended on its own is reported with      *)
(* everything it and its descendant wrote, up to the cap, and says so when   *)
(* the cap cut it (packages/core/src/broker.ts, packages/sandbox/src/exec.ts), *)
(* all variables within their types.                                        *)
OutputIsComplete ==
  /\ TypesHold
  /\ part = "broker" => Broker!OutputIsComplete
  /\ part = "sandbox" => Sandbox!OutputIsComplete

(* Under both brokers an outcome is final: no timer kills and no cancel is   *)
(* noted after the promise settled; and the sandbox's says of every outcome  *)
(* reached under an aborted signal that it was cancelled.                    *)
SettledIsQuiet ==
  [][/\ part = "broker" => Broker!StaysSettled
     /\ part = "sandbox" => Sandbox!StaysSettled /\ Sandbox!SaysCancelled]_vars

(* Whatever a descendant does with the pipes, a kill that found the command  *)
(* alive settles it; the sandbox's broker returns after every timeout and    *)
(* every cancel, the plain one after the cancel of a command of its own.     *)
(* McpClientHost: connectAll reaches every server, no call outlives its      *)
(* timeout, and a close that has begun returns, whatever the servers do.    *)
CommandsReturn ==
  /\ InPart("fed", hit) ~> InPart("fed", outcome # "none" \/ crashed)
  /\ InPart("alone", aborted) ~> InPart("alone", outcome # "none")
  /\ InPart("sandbox", timer = "fired" \/ aborted) ~> InPart("sandbox", outcome # "none")
  /\ InPart("settle", at = 0 /\ host = "open") ~> InPart("settle", at = 3 \/ host # "open")
  /\ InPart("settle", call[c1].at = "waiting") ~> InPart("settle", call[c1].at # "waiting")
  /\ InPart("settle", host = "closing") ~> InPart("settle", host = "closed")

(* McpClientHost: a server that could not be connected leaves no process;    *)
(* once close returned none runs that it took, and none at all if connectAll *)
(* was not at work when it came; and a connection offers every list its      *)
(* server answered (packages/mcp/src/client.ts).                             *)
HostIsTidy ==
  /\ part = "serving" => Host(ServingServers, ServingLists, Asked, FALSE)!Tidy
  /\ part = "hurried" => Host(ServingServers, ServingLists, {c1}, TRUE)!Tidy
  /\ part = "offers" => Host(OffersServers, OffersLists, Asked, TRUE)!Tidy

=============================================================================
