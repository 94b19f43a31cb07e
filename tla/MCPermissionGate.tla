---------------------------- MODULE MCPermissionGate ----------------------------
(* A session with a directory beside its workspace, a link that leads out   *)
(* of it, and commands the bash tool wraps in a shell.                     *)
EXTENDS PermissionGate

AllWords == {"bash", "git", "push"}

AllRoots == {"workspace", "extra"}
AllPaths == {"file", "link", "beside"}
SpelledUnder == [p \in AllPaths |-> IF p = "beside" THEN "extra" ELSE "workspace"]
LiesUnder == [p \in AllPaths |->
  CASE p = "file" -> "workspace" [] p = "beside" -> "extra" [] p = "link" -> "outside"]

Bash(text) == [kind |-> "command", target |-> <<"bash">> \o text, requested |-> text]
Direct(argv) == [kind |-> "command", target |-> argv, requested |-> None]
Read(p) == [kind |-> "file-read", target |-> p]
Write(p) == [kind |-> "file-write", target |-> p]
Reach(h) == [kind |-> "network", target |-> h]

Push == Bash(<<"git", "push">>)
Git == Direct(<<"git">>)

AllEffects == {Push, Git, Read("link"), Write("link"), Read("beside"), Write("beside"), Reach("host")}
AllCalls ==
  {{}, {Push}, {Git, Read("beside")}, {Read("beside"), Write("beside")}, {Write("link"), Reach("host")}}

On(action, prefix) == [prefix |-> prefix, action |-> action]
Allow == On("allow", <<"git">>)
Forbid == On("forbid", <<"git", "push">>)
Config(mode, roots, rules) == [mode |-> mode, roots |-> roots, hosts |-> {"host"}, rules |-> rules]

AllSandboxes ==
  {Config("workspace-write", {}, <<Allow, Forbid>>),
   Config("workspace-write", {"extra"}, <<>>),
   Config("workspace-write", {"workspace", "extra"}, <<>>),
   Config("full-access", {}, <<Allow, Forbid, On("prompt", <<"git">>)>>),
   Config("read-only", {"extra"}, <<On("prompt", <<"git">>)>>)}

=============================================================================
