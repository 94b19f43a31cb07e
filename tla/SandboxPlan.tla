------------------------------ MODULE SandboxPlan ------------------------------
(***************************************************************************)
(* @adze/sandbox before a command runs: what the host is found to have     *)
(* (capabilities.ts), which broker is chosen and what boundary it reports  *)
(* (select.ts, policy.ts), what it decides of a command (broker-base.ts)   *)
(* and how it wraps the argv (bubblewrap.ts, seatbelt.ts, docker.ts,       *)
(* windows.ts).  What the kernel makes of a wrapping is modelled from its  *)
(* operations: mounts and rules are applied in their order.                *)
(*                                                                         *)
(* A path is a sequence of names from the root of the filesystem.          *)
(***************************************************************************)
EXTENDS Naturals, SequencesExt, FiniteSetsExt, Functions

CONSTANTS
  Hosts,       (* Hosts: platform, tools on the PATH, userns, verified tools. *)
  Requests,    (* What a surface asks for: mode, roots, hosts, docker, helper.*)
  CommandSet,  (* Commands: cwd, optionLike, action, empty.                 *)
  Places,      (* The paths a property asks about.                          *)
  Links,       (* Symbolic links: a function from paths to paths.           *)
  Temporary,   (* os.tmpdir(), a set of paths.                              *)
  Control,     (* Names that hold a control character.                      *)
  None

Within(root, path) == IsPrefix(root, path)

(* The path the kernel sees: the link nearest the root is followed.         *)
Resolved(path) ==
  LET under == {l \in DOMAIN Links : Within(l, path)} IN
  IF under = {} THEN path
  ELSE LET l == CHOOSE l \in under : \A k \in under : Len(l) <= Len(k)
       IN Links[l] \o SubSeq(path, Len(l) + 1, Len(path))

VARIABLES
  host, request,
  mechanisms,  (* The mechanisms found to be available.                     *)
  broker,      (* [mechanism, works], once chosen.                          *)
  reported,    (* The plan the surface shows.                               *)
  command,     (* The command of the pending exec.                          *)
  applied,     (* What exec did: a refusal, or what it spawned and its plan.*)
  pc

vars == <<host, request, mechanisms, broker, reported, command, applied, pc>>

Init ==
  /\ host \in Hosts /\ request \in Requests
  /\ mechanisms = {} /\ broker = None /\ reported = None /\ command = None /\ applied = None
  /\ pc = "detect"

-----------------------------------------------------------------------------
(* Detection.                                                              *)

Found(tool) == tool \in host.path

detectSeatbelt   == host.platform = "darwin" /\ Found("sandbox-exec")
detectBubblewrap == host.platform = "linux" /\ Found("bwrap") /\ host.userns
detectWindows    == host.platform = "win32" /\ Found("taskkill")
detectDocker     == Found("docker")

Detected ==
  {m \in {"seatbelt", "bubblewrap", "windows-process-tree", "docker"} :
     CASE m = "seatbelt" -> detectSeatbelt
       [] m = "bubblewrap" -> detectBubblewrap
       [] m = "windows-process-tree" -> detectWindows
       [] m = "docker" -> detectDocker}

(* detectCapabilities; with a verify, what fails when run is not available. *)
detectCapabilities ==
  /\ pc = "detect"
  /\ mechanisms' = {m \in Detected : request.verify => m \notin host.failing}
  /\ pc' = "select"
  /\ UNCHANGED <<host, request, broker, reported, command, applied>>

-----------------------------------------------------------------------------
(* The plan for a containment and a mechanism.                             *)

(* What a broker says of its mechanism: what it confines, whether it can    *)
(* let single hosts through, and what it admits it does not do.             *)
ConfinesFilesystem(b) ==
  CASE b.mechanism \in {"seatbelt", "bubblewrap", "docker"} -> b.works
    [] b.mechanism = "windows-partial" -> request.helper # None /\ request.helper.filesystem
    [] b.mechanism = "none" -> FALSE

OfHelper(b, flag) ==
  IF b.mechanism = "windows-partial"
    THEN request.helper # None /\ request.helper[flag] ELSE ConfinesFilesystem(b)

ConfinesNetwork(b) == OfHelper(b, "network")
ConfinesTree(b)    == OfHelper(b, "tree")
SupportsAllowlist(b) == b.mechanism = "windows-partial" /\ OfHelper(b, "allowlist")

DegradationsOf(b, mode) ==
  CASE mode = "full-access" -> {}
    [] mode # "full-access" /\ b.mechanism = "windows-partial" ->
         IF request.helper = None THEN {"windows-unconfined"} ELSE {}
    [] mode # "full-access" /\ b.mechanism = "bubblewrap" /\ ~b.works -> {"userns-unavailable"}
    [] mode # "full-access" /\ b.mechanism \in {"bubblewrap", "seatbelt"} /\ b.works ->
         {"syscall-surface-unrestricted"}
    [] OTHER -> {}

(* The degradations of scope 'containment'; the others are notes.           *)
GapsOf(degradations) ==
  degradations \ {"syscall-surface-unrestricted", "network-allowlist-unsupported"}

(* normalizeRoots: absolute ones, and of nested ones the outermost.         *)
normalizeRoots(roots) ==
  LET absolute == {r.path : r \in {s \in roots : s.absolute}} IN
  {r \in absolute : ~\E other \in absolute \ {r} : Within(other, r)}

(* planNetwork: [policy, hosts, enforced], and the degradation it admits.   *)
planNetwork(mode, hosts, b) ==
  LET Plan(policy, named, enforced, admits) ==
        [policy |-> policy, hosts |-> named, enforced |-> enforced, admits |-> admits] IN
  CASE mode = "full-access" -> Plan("unrestricted", {}, TRUE, {})
    [] mode # "full-access" /\ ~ConfinesNetwork(b) ->
         Plan("unrestricted", hosts, FALSE, {"network-unrestricted"})
    [] mode # "full-access" /\ ConfinesNetwork(b) ->
         CASE hosts = {} -> Plan("deny", {}, TRUE, {})
           [] hosts # {} /\ SupportsAllowlist(b) -> Plan("allowlist", hosts, TRUE, {})
           [] hosts # {} /\ ~SupportsAllowlist(b) ->
                Plan("deny", hosts, TRUE, {"network-allowlist-unsupported"})

clampEnforcement(mode, b, degradations) ==
  IF mode = "full-access" THEN "not-applicable"
  ELSE IF GapsOf(degradations) # {} \/ ~ConfinesFilesystem(b) \/ ~ConfinesTree(b) THEN "gate-only"
  ELSE "os-level"

planFor(mode, roots, hosts, b) ==
  LET usable == normalizeRoots(roots)
      network == planNetwork(mode, hosts, b)
      degradations == DegradationsOf(b, mode) \cup network.admits
                      \cup (IF mode # "full-access" /\ ~ConfinesFilesystem(b)
                              THEN {"no-os-containment"} ELSE {})
  IN [mode |-> mode, readable |-> usable,
      writable |-> IF mode = "workspace-write" THEN usable ELSE {},
      readsAnywhere |-> b.mechanism # "docker" \/ ~b.works,
      network |-> [f \in {"policy", "hosts", "enforced"} |-> network[f]],
      degradations |-> degradations,
      enforcement |-> clampEnforcement(mode, b, degradations)]

writeAllowed(plan, path) ==
  \/ plan.mode = "full-access"
  \/ plan.mode = "workspace-write" /\ \E r \in plan.writable : Within(r, path)

-----------------------------------------------------------------------------
(* Selection.                                                              *)

BrokerOf(mechanism, works) == [mechanism |-> mechanism, works |-> works]

select ==
  IF request.docker THEN BrokerOf("docker", TRUE)
  ELSE CASE host.platform = "darwin" ->
              IF "seatbelt" \in mechanisms THEN BrokerOf("seatbelt", TRUE) ELSE BrokerOf("none", FALSE)
         [] host.platform = "linux" ->
              IF "bubblewrap" \in mechanisms THEN BrokerOf("bubblewrap", TRUE) ELSE BrokerOf("none", FALSE)
         [] host.platform = "win32" -> BrokerOf("windows-partial", "windows-process-tree" \in mechanisms)
         [] OTHER -> BrokerOf("none", FALSE)

(* createSandbox, and createCliSandbox, which hands it no network hosts:    *)
(* the plan that is reported is the one of the request it was given.        *)
createSandbox ==
  /\ pc = "select"
  /\ broker' = select
  /\ reported' = planFor(request.mode, request.roots,
                         IF request.fromCli THEN {} ELSE request.hosts, select)
  /\ pc' = "idle"
  /\ UNCHANGED <<host, request, mechanisms, command, applied>>

-----------------------------------------------------------------------------
(* Wrapping.  An operation is [op, at]: what it does to the tree at a path. *)

Op(op, at) == [op |-> op, at |-> at]

InOrder(S) == SetToSeq(S)

(* Slip of buildBubblewrapArgs: the read-only root is bound last.           *)
BoundRootLast(plan) ==
  [i \in 1 .. Cardinality(plan.writable) |-> Op("writable", InOrder(plan.writable)[i])]
  \o <<Op("read-only", <<>>)>>

(* The read-only root first, a fresh /tmp under workspace-write, then the   *)
(* writable roots.                                                          *)
buildBubblewrapArgs(plan) ==
  <<Op("read-only", <<>>)>>
  \o (IF plan.mode = "workspace-write" THEN <<Op("fresh", <<"tmp">>)>> ELSE <<>>)
  \o [i \in 1 .. Cardinality(plan.writable) |-> Op("writable", InOrder(plan.writable)[i])]

(* The roots in both spellings.                                             *)
expandSymlinkedRoots(roots) == roots \cup {Resolved(r) : r \in roots}

(* All writes denied, then the roots and, under workspace-write, the        *)
(* temporary directories allowed.                                           *)
buildSeatbeltProfile(plan) ==
  LET writable == expandSymlinkedRoots(plan.writable)
                  \cup (IF plan.mode = "workspace-write"
                          THEN Temporary \cup {Resolved(t) : t \in Temporary} ELSE {})
  IN <<Op("read-only", <<>>)>>
     \o [i \in 1 .. Cardinality(writable) |-> Op("writable", InOrder(writable)[i])]

(* Nothing of the host is there but what is mounted.                        *)
buildDockerArgs(plan) ==
  <<Op("absent", <<>>)>>
  \o [i \in 1 .. Cardinality(plan.readable) |->
        LET root == InOrder(plan.readable)[i]
        IN Op(IF root \in plan.writable THEN "writable" ELSE "read-only", root)]

(* wrap: bare, or the operations; a helper's are its own.                   *)
Wrapped(plan) ==
  LET bare == [wrapped |-> FALSE, ops |-> <<>>] IN
  CASE broker.mechanism = "none" -> bare
    [] broker.mechanism = "windows-partial" ->
         IF request.helper = None \/ plan.mode = "full-access" THEN bare
         ELSE [wrapped |-> TRUE, ops |-> <<>>]
    [] broker.mechanism = "docker" -> [wrapped |-> TRUE, ops |-> buildDockerArgs(plan)]
    [] broker.mechanism = "seatbelt" ->
         IF plan.mode = "full-access" THEN bare
         ELSE [wrapped |-> TRUE, ops |-> buildSeatbeltProfile(plan)]
    [] broker.mechanism = "bubblewrap" ->
         IF plan.mode = "full-access" THEN bare
         ELSE [wrapped |-> TRUE, ops |-> buildBubblewrapArgs(plan)]

(* A program name the wrapper would read as its own option; a path seatbelt *)
(* cannot spell; a helper that cannot express the plan.                     *)
WrapRefusal(plan) ==
  LET inProfile == {Wrapped(plan).ops[i].at : i \in DOMAIN Wrapped(plan).ops} IN
  IF ~Wrapped(plan).wrapped THEN None
  ELSE IF command'.optionLike THEN "program-name-option-like"
  ELSE IF \/ /\ broker.mechanism = "seatbelt"
             /\ \E path \in inProfile : ToSet(path) \cap Control # {}
          \/ broker.mechanism = "windows-partial" /\ ~request.helper.canWrap
         THEN "mechanism-unavailable"
  ELSE None

-----------------------------------------------------------------------------
(* Deciding and running one command.                                       *)

Reachable(plan) ==
  \/ plan.readsAnywhere \/ plan.mode = "full-access"
  \/ \E r \in plan.readable : Within(r, command'.cwd)

Refused(why) == applied' = [ran |-> FALSE, why |-> why]

(* approvalReason *)
NeedsApproval(plan) ==
  \/ command'.action = "prompt"
  \/ request.approvals = "untrusted"
  \/ /\ command'.action # "allow" /\ plan.mode # "full-access"
     /\ plan.enforcement # "os-level"

(* Whether what the command is wrapped in starts on this host: sandbox-exec *)
(* and bwrap may be denied although they were found, and docker may not be  *)
(* there at all.                                                            *)
Starts ==
  CASE broker.mechanism \in {"none", "windows-partial"} -> TRUE
    [] broker.mechanism \in {"seatbelt", "bubblewrap"} -> broker.mechanism \notin host.failing
    [] broker.mechanism = "docker" -> Found("docker") /\ "docker" \notin host.failing

(* What is spawned, under the plan whose enforcement its outcome carries;   *)
(* a wrapper that does not start runs nothing.                              *)
Spawned(plan) ==
  LET ran == Wrapped(plan).wrapped => Starts IN
  applied' = [ran |-> ran, why |-> IF ran THEN "none" ELSE "not-started", plan |-> plan,
              wrapped |-> Wrapped(plan).wrapped, ops |-> Wrapped(plan).ops]

(* exec up to runContained: decide's order, then the wrapping.              *)
exec ==
  /\ pc = "idle" /\ pc' = "done"
  /\ command' \in CommandSet
  /\ LET plan == planFor(request.mode, request.roots, request.hosts, broker) IN
     CASE command'.empty -> Refused("empty-command")
       [] ~command'.empty /\ command'.action = "forbid" -> Refused("command-forbidden")
       [] ~command'.empty /\ command'.action # "forbid" /\ ~Reachable(plan) ->
            Refused("cwd-outside-roots")
       [] OTHER ->
            IF NeedsApproval(plan) /\ request.approvals = "never" THEN Refused("approval-refused")
            ELSE IF NeedsApproval(plan) /\ ~request.assumeApproved
                   THEN Refused("approval-unavailable")
            ELSE IF WrapRefusal(plan) # None THEN Refused(WrapRefusal(plan))
            ELSE Spawned(plan)
  /\ UNCHANGED <<host, request, mechanisms, broker, reported>>

Next == detectCapabilities \/ createSandbox \/ exec

Spec == Init /\ [][Next]_vars

-----------------------------------------------------------------------------
(* What the kernel lets a wrapped command write: mounts are made in order,  *)
(* and of those that cover a path the deepest, and of equals the last, is   *)
(* the one it is on; a rule is the last that matches.                       *)

Covering(ops, path) == {i \in DOMAIN ops : Within(ops[i].at, path)}

Deciding(ops, path) ==
  LET S == Covering(ops, path) IN
  IF broker.mechanism = "docker"
    THEN CHOOSE i \in S : \A j \in S : Len(ops[j].at) <= Len(ops[i].at)
    ELSE CHOOSE i \in S : \A j \in S : j <= i

(* Seatbelt's rules meet the path the kernel has resolved.                  *)
Seen(path) == IF broker.mechanism = "seatbelt" THEN Resolved(path) ELSE path

Writable(path) ==
  \/ ~applied.wrapped
  \/ applied.ops[Deciding(applied.ops, Seen(path))].op = "writable"

-----------------------------------------------------------------------------
(* Properties.                                                             *)

(* What run, chat and doctor say of the reported plan (commands/doctor.ts,  *)
(* cli/agent/sandbox.ts); doctor neither asks for docker nor has a helper.  *)

containmentLine(plan) ==
  IF plan.enforcement = "not-applicable" THEN <<plan.enforcement>>
  ELSE <<plan.enforcement, broker.mechanism>>

(* The plan as data; the boolean is read off the string.                    *)
containmentJson(plan) ==
  [osLevelContainment |-> plan.enforcement = "os-level", network |-> plan.network,
   degradations |-> plan.degradations]

(* The label of the network, marked where it is not enforced.               *)
networkLabel(plan) ==
  <<plan.network.policy>> \o (IF plan.network.enforced THEN <<>> ELSE <<"not enforced">>)

(* The paragraph under the labels.                                          *)
renderSandbox(plan, platform) ==
  CASE plan.enforcement = "os-level" -> "boundary"
    [] plan.enforcement = "not-applicable" -> "not asked for"
    [] plan.enforcement = "gate-only" -> IF platform = "win32" THEN "none on Windows" ELSE "none on this host"

(* The values createSandbox and exec build.                                *)
TypeOK ==
  /\ pc \in {"detect", "select", "idle", "done"}
  /\ mechanisms \subseteq {"seatbelt", "bubblewrap", "windows-process-tree", "docker"}
  /\ reported # None => reported.enforcement \in {"os-level", "gate-only", "not-applicable"}
  /\ applied # None => applied.ran \in BOOLEAN

WasSpawned == applied # None /\ applied.why \in {"none", "not-started"}

(* A boundary that is claimed is never bare: what is spawned under an       *)
(* os-level plan is wrapped, with no gap admitted, by a mechanism that was  *)
(* found on the host (docker, which select takes at its word, apart) and on *)
(* bubblewrap's with user namespaces; its network is cut, or let through    *)
(* for hosts that were asked for by a helper that can filter them.  Where   *)
(* the mechanisms were verified, it starts.                                 *)
ClaimsAreReal ==
  WasSpawned /\ applied.plan.enforcement = "os-level" =>
    LET plan == applied.plan IN
    /\ applied.wrapped /\ GapsOf(plan.degradations) = {}
    /\ \/ plan.network.policy = "deny"
       \/ /\ plan.network.policy = "allowlist" /\ plan.network.hosts \subseteq request.hosts
          /\ request.helper # None /\ request.helper.allowlist
    /\ broker.mechanism \in {"seatbelt", "bubblewrap"} => broker.mechanism \in Detected
    /\ broker.mechanism = "bubblewrap" => host.userns
    /\ request.verify /\ broker.mechanism # "docker" => applied.ran

InTemporary(path) == \E t \in Temporary : Within(Seen(t), Seen(path))

(* A wrapped command in a containment mode can write exactly where the     *)
(* plan says, and in the temporary directory: neither outside a root, nor  *)
(* less than a root because of a link on the way to it.  A Windows helper  *)
(* applies the plan by means of its own.                                   *)
BoundaryIsThePlan ==
  /\ applied # None /\ applied.ran /\ applied.wrapped
  /\ applied.plan.mode # "full-access" /\ broker.mechanism # "windows-partial"
  => \A path \in Places : ~InTemporary(path) =>
       (Writable(path) <=> \E p \in Places : Seen(p) = Seen(path) /\ writeAllowed(applied.plan, p))

(* Under 'never', and where nobody was asked, what runs is confined, waived *)
(* or allowed by name.                                                     *)
NothingBareUnasked ==
  applied # None /\ applied.ran /\ (request.approvals = "never" \/ ~request.assumeApproved) =>
    applied.wrapped \/ request.mode = "full-access" \/ command.action = "allow"

(* The enforcement that was reported is the one that is applied.           *)
ReportIsTheClaim ==
  WasSpawned => applied.plan.enforcement = reported.enforcement

(* "The reason is listed above" (doctor.ts:612-622), and a boundary is only  *)
(* promised with the network cut and without a gap: whatever was not found,  *)
(* doctor's paragraph, its labels and its list of gaps say the same, and     *)
(* where nothing was found it never says less than that.                     *)
ReasonIsListed ==
  reported # None /\ request.helper = None /\ ~request.docker =>
    LET said == renderSandbox(reported, host.platform)
        json == containmentJson(reported)
    IN  /\ said \in {"none on Windows", "none on this host"} =>
             /\ GapsOf(json.degradations) # {} /\ ~json.network.enforced
             /\ Len(containmentLine(reported)) = 2 /\ Len(networkLabel(reported)) = 2
        /\ said = "boundary" =>
             /\ json.osLevelContainment /\ GapsOf(json.degradations) = {}
             /\ networkLabel(reported) = <<"deny">>
             /\ mechanisms # {}
        /\ mechanisms \subseteq {"docker"} /\ request.mode # "full-access" =>
             said \in {"none on Windows", "none on this host"}

-----------------------------------------------------------------------------
(* Promises the code makes of itself and does not keep.                    *)

(* "A broker that treated presence as proof would report os-level           *)
(* containment on a host where bubblewrap exits 1 on every invocation"      *)
(* (capabilities.ts:9-12): what is reported os-level starts.                *)
FoundMeansWorks == WasSpawned /\ applied.plan.enforcement = "os-level" => applied.ran

(* "Unavailable is reported, never worked around" (capabilities.ts:14): the *)
(* mechanism of an os-level plan is one that was found.                     *)
MechanismWasFound ==
  reported # None /\ reported.enforcement = "os-level" /\ request.helper = None =>
    broker.mechanism \in mechanisms

(* What select.ts says: the reported plan and the enforced plan are the    *)
(* same object's opinion.                                                  *)
ReportIsThePlan == WasSpawned => applied.plan = reported

(* What writeAllowed says of full access, of every broker.                 *)
FullAccessWrites ==
  applied # None /\ applied.ran /\ applied.plan.mode = "full-access" =>
    \A path \in Places : writeAllowed(applied.plan, path) => Writable(path)

=============================================================================
