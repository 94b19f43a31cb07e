------------------------------ MODULE PluginStore ------------------------------
(***************************************************************************)
(* adze plugin add, remove, dev and validate over the two files and the     *)
(* clones under .adze/plugins (packages/cli/src/plugins/store.ts,           *)
(* commands/plugin.ts, plugins/validate.ts).                                *)
(*                                                                         *)
(* A command is a process: several may run at once over one workspace, each *)
(* may be killed at any await, and a file is truncated before it is written. *)
(***************************************************************************)
EXTENDS Naturals, FiniteSetsExt, SequencesExt

CONSTANTS
  Sources,      (* What the user may name: a directory or a URL.           *)
  Processes,    (* Commands that may run at the same time.                 *)
  MaxCommands,  (* Bound: commands begun in a run.                         *)
  Kills,        (* Whether commands may be killed.                         *)
  None

Source == [root: STRING, url: BOOLEAN, id: STRING, parses: BOOLEAN,
           license: [joined: {"or", "and"}, leaves: SUBSET {"allowed", "denied", "other"}],
           engines: BOOLEAN, reads: SUBSET STRING, declares: SUBSET STRING, globs: BOOLEAN,
           files: Seq([kind: {"hook", "provider", "command", "agent"}, name: STRING,
                       script: BOOLEAN, state: {"fine", "missing", "hidden", "garbled"}])]

StoreAssumption ==
  /\ Sources \subseteq Source /\ MaxCommands \in Nat /\ Kills \in BOOLEAN
  /\ \A a, b \in Sources : a.root = b.root => a = b

VARIABLES
  installed,  (* installed.json: its entries, or None when torn.            *)
  dev,        (* dev.json: the override, or None; a torn one reads as none. *)
  clones,     (* Directories git has cloned into.                          *)
  cli,        (* Locals of every command.                                  *)
  begun,      (* Commands begun.                                           *)
  consented,  (* Ghost: the sources the user said yes to.                  *)
  promised    (* Ghost: ids reported as installed and not since as removed. *)

vars == <<installed, dev, clones, cli, begun, consented, promised>>

Idle == [at |-> "idle", source |-> None, cloned |-> FALSE, id |-> None, seen |-> <<>>]

Init ==
  /\ installed = <<>> /\ dev = None /\ clones = {}
  /\ cli = [p \in Processes |-> Idle] /\ begun = 0 /\ consented = {} /\ promised = {}

Entry(s) == [id |-> s.id, root |-> s.root]

(* A file that does not parse reads as nothing installed.                   *)
readInstalled == IF installed = None THEN <<>> ELSE installed

resolvePluginRoots ==
  IF dev = None THEN [i \in DOMAIN readInstalled |-> readInstalled[i].root]
  ELSE IF \E i \in DOMAIN readInstalled : readInstalled[i].id = dev.id
    THEN [i \in DOMAIN readInstalled |->
            IF readInstalled[i].id = dev.id THEN dev.root ELSE readInstalled[i].root]
    ELSE Append([i \in DOMAIN readInstalled |-> readInstalled[i].root], dev.root)

(* What plugin list shows: every entry, which of them is shadowed, and the   *)
(* override; and what doctor shows, of the files alone.                     *)
Row(i, shadowed) ==
  [id |-> readInstalled[i].id, root |-> readInstalled[i].root, shadowed |-> shadowed]
runPluginList ==
  LET shadowed == IF dev # None /\ \E i \in DOMAIN readInstalled : readInstalled[i].id = dev.id
                    THEN dev.id ELSE None
  IN  [i \in DOMAIN readInstalled |-> Row(i, shadowed = readInstalled[i].id)]
renderPlugins ==
  [i \in DOMAIN readInstalled |-> Row(i, dev # None /\ dev.id = readInstalled[i].id)]

-----------------------------------------------------------------------------
(* validate.ts: the gates that fail, of seven; nothing is executed.          *)

licenseGate(license) ==
  IF license.joined = "or"
    THEN "allowed" \in license.leaves /\ "denied" \notin license.leaves
    ELSE license.leaves = {"allowed"}

There(root) == {s \in Sources : s.root = root /\ (s.url => s.root \in clones)}

Declared(s, kind) == SelectSeq(s.files, LAMBDA f : f.kind = kind)
NamesOf(files)    == {<<f.kind, f.name>> : f \in {f \in ToSet(files) : f.state = "fine"}}

(* Every variable a tool refers to is listed.                               *)
checkEnvGate(s) == s.reads \subseteq s.declares

(* A script is scanned; other modules need only be there.                   *)
checkHookModules(s) ==
  \A f \in ToSet(Declared(s, "hook")) :
    f.state # "missing" /\ (f.script => f.state # "hidden")

checkCommandFiles(s) == \A f \in ToSet(Declared(s, "command")) : f.state = "fine"
checkAgentFiles(s)   == \A f \in ToSet(Declared(s, "agent")) : f.state = "fine"

(* The module of a provider is not read.                                    *)
checkProviderModules(s) == \A f \in ToSet(Declared(s, "provider")) : f.state # "missing"

checkSelfDuplicates(s) ==
  \A i, j \in DOMAIN s.files :
    i # j /\ {s.files[i].kind, s.files[j].kind} \in {{"command"}, {"agent"}}
      /\ s.files[i].state = "fine" /\ s.files[j].state = "fine"
      => s.files[i].name # s.files[j].name

checkFilesGate(s) ==
  /\ checkHookModules(s) /\ checkCommandFiles(s) /\ checkAgentFiles(s)
  /\ checkProviderModules(s) /\ checkSelfDuplicates(s)

Names(s) == NamesOf(Declared(s, "command")) \cup NamesOf(Declared(s, "agent"))

(* The names of the plugins that are there and parse, files one by one.     *)
loadInstalledDeclarations ==
  UNION {{[id |-> s.id, name |-> n] : n \in Names(s)} :
           s \in {s \in UNION {There(r) : r \in ToSet(resolvePluginRoots)} : s.parses}}

(* A plugin does not collide with itself.                                   *)
checkCollisionsGate(s) ==
  Names(s) \cap {d.name : d \in {d \in loadInstalledDeclarations : d.id # s.id}} = {}

(* Slip of validatePlugin: the files are not looked at. *)
validateManifestOnly(s) ==
  IF There(s.root) = {} \/ ~s.parses THEN {"manifest"}
  ELSE {gate \in {"license"} : ~licenseGate(s.license)}

validatePlugin(s) ==
  IF There(s.root) = {} \/ ~s.parses THEN {"manifest"}
  ELSE {gate \in {"license", "engines", "env", "globs", "files", "collisions"} :
          CASE gate = "license" -> ~licenseGate(s.license)
            [] gate = "engines" -> ~s.engines
            [] gate = "env"     -> ~checkEnvGate(s)
            [] gate = "globs"   -> ~s.globs
            [] gate = "files"   -> ~checkFilesGate(s)
            [] OTHER            -> ~checkCollisionsGate(s)}

-----------------------------------------------------------------------------
(* Commands.                                                                *)

At(p, at) == cli[p].at = at
To(p, at) == cli' = [cli EXCEPT ![p].at = at]
End(p)    == cli' = [cli EXCEPT ![p] = Idle]

Begin(p, at, s, cloned) ==
  /\ At(p, "idle") /\ begun < MaxCommands /\ begun' = begun + 1
  /\ cli' = [cli EXCEPT ![p] = [Idle EXCEPT !.at = at, !.source = s, !.cloned = cloned, !.id = s.id]]

(* resolveAddRoot: git refuses to clone into a directory that is there.     *)
Add(p) ==
  /\ \E s \in Sources :
       \/ /\ ~s.url /\ Begin(p, "validate", s, FALSE)
          /\ UNCHANGED clones
       \/ /\ s.url /\ s.root \notin clones /\ Begin(p, "validate", s, TRUE)
          /\ clones' = clones \cup {s.root}
  /\ UNCHANGED <<installed, dev, consented, promised>>

CloneFails(p) ==
  /\ At(p, "idle") /\ begun < MaxCommands /\ begun' = begun + 1
  /\ \E s \in Sources : s.url
  /\ UNCHANGED <<installed, dev, clones, cli, consented, promised>>

(* A report that is not ok ends the command; a clone stays where it is.     *)
Validate(p) ==
  /\ At(p, "validate")
  /\ IF validatePlugin(cli[p].source) = {} THEN To(p, "consent") ELSE End(p)
  /\ UNCHANGED <<installed, dev, clones, begun, consented, promised>>

Agrees(p) ==
  /\ At(p, "consent") /\ To(p, "read")
  /\ consented' = consented \cup {Entry(cli[p].source)}
  /\ UNCHANGED <<installed, dev, clones, begun, promised>>

Declines(p) ==
  /\ At(p, "consent") /\ End(p)
  /\ clones' = IF cli[p].cloned THEN clones \ {cli[p].source.root} ELSE clones
  /\ UNCHANGED <<installed, dev, begun, consented, promised>>

(* addInstalledEntry reads the list,                                        *)
ReadToAdd(p) ==
  /\ At(p, "read")
  /\ IF \E i \in DOMAIN readInstalled : readInstalled[i].id = cli[p].id
       THEN End(p)
       ELSE cli' = [cli EXCEPT ![p].at = "write", ![p].seen = readInstalled]
  /\ UNCHANGED <<installed, dev, clones, begun, consented, promised>>

(* and writes what it read with one entry more.                             *)
WriteAdded(p) ==
  /\ At(p, "write") /\ End(p)
  /\ installed' = Append(cli[p].seen, Entry(cli[p].source))
  /\ promised' = promised \cup {cli[p].id}
  /\ UNCHANGED <<dev, clones, begun, consented>>

RemoveStarts(p) ==
  /\ \E s \in Sources : Begin(p, "unread", s, FALSE)
  /\ UNCHANGED <<installed, dev, clones, consented, promised>>

ReadToRemove(p) ==
  /\ At(p, "unread")
  /\ IF \E i \in DOMAIN readInstalled : readInstalled[i].id = cli[p].id
       THEN cli' = [cli EXCEPT ![p].at = "unwrite", ![p].seen = readInstalled]
       ELSE End(p)
  /\ UNCHANGED <<installed, dev, clones, begun, consented, promised>>

WriteRemoved(p) ==
  /\ At(p, "unwrite") /\ To(p, "undev")
  /\ installed' = SelectSeq(cli[p].seen, LAMBDA e : e.id # cli[p].id)
  /\ UNCHANGED <<dev, clones, begun, consented, promised>>

(* The override of the same id goes with it, and the removal is reported.   *)
ClearShadow(p) ==
  /\ At(p, "undev") /\ End(p)
  /\ dev' = IF dev # None /\ dev.id = cli[p].id THEN None ELSE dev
  /\ promised' = promised \ {cli[p].id}
  /\ UNCHANGED <<installed, clones, begun, consented>>

(* A directory whose manifest can be read and parsed.                       *)
readDevCandidate == {s \in Sources : ~s.url /\ s.parses}

(* dev asks only that the manifest parses; there is no consent.             *)
Dev(p) ==
  /\ At(p, "idle") /\ begun < MaxCommands /\ begun' = begun + 1
  /\ \E s \in Sources :
       /\ s \in readDevCandidate
       /\ dev' = [id |-> s.id, root |-> s.root]
  /\ UNCHANGED <<installed, clones, cli, consented, promised>>

ClearDev(p) ==
  /\ At(p, "idle") /\ begun < MaxCommands /\ begun' = begun + 1
  /\ dev' = None
  /\ UNCHANGED <<installed, clones, cli, consented, promised>>

(* Killed, or out of disk: in the middle of a write the file is torn.       *)
Killed(p) ==
  /\ Kills /\ ~At(p, "idle") /\ End(p)
  /\ installed' \in {installed} \cup IF At(p, "write") \/ At(p, "unwrite") THEN {None} ELSE {}
  /\ UNCHANGED <<dev, clones, begun, consented, promised>>

Command(p) ==
  \/ Add(p) \/ CloneFails(p) \/ Validate(p) \/ Agrees(p) \/ Declines(p) \/ ReadToAdd(p) \/ WriteAdded(p)
  \/ RemoveStarts(p) \/ ReadToRemove(p) \/ WriteRemoved(p) \/ ClearShadow(p)
  \/ Dev(p) \/ ClearDev(p) \/ Killed(p)

Next == \E p \in Processes : Command(p)
Spec == Init /\ [][Next]_vars

-----------------------------------------------------------------------------
(* Properties.                                                              *)

Ids == {readInstalled[i].id : i \in DOMAIN readInstalled}

TypeOK ==
  /\ installed = None \/ ToSet(installed) \subseteq {Entry(s) : s \in Sources}
  /\ dev = None \/ dev \in {Entry(s) : s \in Sources}
  /\ clones \subseteq {s.root : s \in Sources} /\ begun \in 0..MaxCommands
  /\ \A p \in Processes : At(p, "idle") => cli[p] = Idle

(* Whatever runs or dies at the same time, a surface sees one directory per *)
(* id, and the override in the place of what it shadows (store.ts           *)
(* resolvePluginRoots); and what list and doctor show is what is loaded.     *)
OneRootPerId ==
  /\ renderPlugins = runPluginList
  /\ \A i \in DOMAIN readInstalled :
       resolvePluginRoots[i] = IF runPluginList[i].shadowed THEN dev.root ELSE runPluginList[i].root
  /\ Len(resolvePluginRoots) > Len(readInstalled) <=>
       dev # None /\ \A i \in DOMAIN readInstalled : ~runPluginList[i].shadowed
  /\ Cardinality(Ids) = Len(readInstalled)
  /\ dev # None => /\ dev.root \in ToSet(resolvePluginRoots)
                   /\ \A i \in DOMAIN readInstalled :
                        readInstalled[i].id = dev.id => resolvePluginRoots[i] = dev.root

(* What is installed was shown to the user and agreed to, and what it takes *)
(* to load it was there: a license, its variables, whole commands and       *)
(* subagents under names of their own (plugin.ts confirmAndRecord).         *)
NothingWithoutConsent ==
  \A i \in DOMAIN readInstalled :
    /\ readInstalled[i] \in consented
    /\ \E s \in Sources :
         /\ Entry(s) = readInstalled[i] /\ s.parses /\ licenseGate(s.license)
         /\ s.reads \subseteq s.declares
         /\ \A f \in ToSet(s.files) : f.kind \in {"command", "agent"} => f.state = "fine"
         /\ Cardinality(Names(s)) = Len(Declared(s, "command")) + Len(Declared(s, "agent"))

(* With one command at a time and no override, what is added brings no name *)
(* that an installed plugin contributes (validate.ts checkCollisionsGate).  *)
NameStaysUnique ==
  \A p \in Processes :
    At(p, "write") /\ Cardinality(Processes) = 1 /\ dev = None /\ installed' \notin {None, installed} =>
      \A t \in Sources : Entry(t) \in ToSet(readInstalled) /\ There(t.root) # {}
                        => Names(cli[p].source) \cap Names(t) = {}
NamesStayUnique == [][NameStaysUnique]_vars

(* With one command at a time and none killed, installed is what was        *)
(* reported, and the override of a removed id went with it.                  *)
ReportsAreTrue ==
  (Cardinality(Processes) = 1 /\ ~Kills /\ \A p \in Processes : At(p, "idle")) => Ids = promised
ShadowGoes ==
  \A p \in Processes : (At(p, "undev") /\ cli'[p].at = "idle" /\ ~Kills) =>
    ~(dev' # None /\ dev'.id = cli[p].id)
RemovalIsComplete == [][ShadowGoes]_vars

(* Claims of the source that its code does not keep.                        *)

(* store.ts:137: remove it first to reinstall.  Broken by a plugin that was *)
(* cloned: remove leaves the directory, and git does not clone into it.     *)
RemovedCanBeReinstalled ==
  \A s \in Sources : s.url /\ s.id \notin Ids /\ s.root \in clones
    => \E p \in Processes : cli[p].source = s

(* store.ts:10: installed.json holds every add entry.  Broken by two adds   *)
(* at once, and by an add after a torn write.                               *)
NoInstallIsLost == (\A p \in Processes : At(p, "idle")) => promised \subseteq Ids

=============================================================================
