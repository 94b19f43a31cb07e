---------------------------- MODULE PromptExpansion ----------------------------
(***************************************************************************)
(* A slash command becomes a prompt: commands it inlines are run and the    *)
(* providers it names are asked, in one pass over the template              *)
(* (packages/plugin-sdk/src/commands.ts, context.ts).                       *)
(*                                                                         *)
(* A template is a sequence of pieces and so is a prompt.  What a command   *)
(* prints may look like any piece.                                          *)
(***************************************************************************)
EXTENDS Naturals, FiniteSetsExt, SequencesExt

CONSTANTS
  Templates,  (* Templates of the loaded commands.                         *)
  Printed,    (* What a command may print, or a provider find.             *)
  Triggers,   (* Triggers a provider claims.                               *)
  HasRunner,  (* Whether the host has a command runner.                    *)
  MaxBytes    (* maxCommandBytes, in pieces.                               *)

(* "unclosed" is a command block without its second backtick, "empty" one   *)
(* without a command; "@" after a word is punctuation, not a trigger.       *)
Kinds == {"text", "command", "empty", "unclosed", "trigger", "punctuation"}
Piece == [kind: Kinds \cup {"failed"}, value: STRING]

ExpansionAssumption ==
  /\ Templates \subseteq Seq(Piece) /\ Printed \subseteq Seq(Piece)
  /\ HasRunner \in BOOLEAN /\ MaxBytes \in Nat

VARIABLES template, index, output, commandsRun, triggersResolved, diagnostics, warnings,
          expanded   (* Ghost: what each piece of the template became.      *)

vars == <<template, index, output, commandsRun, triggersResolved, diagnostics, warnings, expanded>>

Init ==
  /\ template \in Templates /\ index = 1 /\ output = <<>>
  /\ commandsRun = <<>> /\ triggersResolved = <<>> /\ diagnostics = {} /\ warnings = {}
  /\ expanded = <<>>

Here == template[index]
Scanning(kinds) == index <= Len(template) /\ Here.kind \in kinds

Becomes(pieces) ==
  /\ output' = output \o pieces
  /\ expanded' = Append(expanded, pieces)
  /\ index' = index + 1

Literal ==
  /\ Scanning({"text", "punctuation"})
  /\ Becomes(<<Here>>)
  /\ UNCHANGED <<template, commandsRun, triggersResolved, diagnostics, warnings>>

(* Slip of BadBlock: what cannot be run is left out. *)
BadBlockLeftOut ==
  /\ Scanning({"empty", "unclosed"})
  /\ index' = IF Here.kind = "unclosed" THEN Len(template) + 1 ELSE index + 1
  /\ expanded' = Append(expanded, <<>>)
  /\ UNCHANGED <<template, output, commandsRun, triggersResolved, diagnostics, warnings>>

(* A block that is not closed ends the scan, any other error only refuses   *)
(* the command in the end: the commands after it are still run.             *)
BadBlock ==
  /\ Scanning({"empty", "unclosed"})
  /\ diagnostics' = diagnostics \cup {Here.kind}
  /\ index' = IF Here.kind = "unclosed" THEN Len(template) + 1 ELSE index + 1
  /\ expanded' = Append(expanded, <<>>)
  /\ UNCHANGED <<template, output, commandsRun, triggersResolved, warnings>>

NotRun ==
  /\ Scanning({"command"})
  /\ diagnostics' = diagnostics \cup {IF HasRunner THEN "threw" ELSE "no runner"}
  /\ expanded' = Append(expanded, <<>>)
  /\ index' = index + 1
  /\ UNCHANGED <<template, output, commandsRun, triggersResolved, warnings>>

Clip(pieces) == SubSeq(pieces, 1, Min({Len(pieces), MaxBytes}))
Failed(value) == [kind |-> "failed", value |-> value]

expandCommandBlock ==
  /\ Scanning({"command"}) /\ HasRunner
  /\ \E pieces \in Printed, ok \in BOOLEAN :
       /\ Becomes((IF ok THEN <<>> ELSE <<Failed(Here.value)>>) \o Clip(pieces))
       /\ warnings' = IF Len(pieces) > MaxBytes THEN warnings \cup {Here.value} ELSE warnings
  /\ commandsRun' = Append(commandsRun, Here.value)
  /\ UNCHANGED <<template, triggersResolved, diagnostics>>

(* A trigger nobody claims is prose.                                        *)
expandTrigger ==
  /\ Scanning({"trigger"})
  /\ \/ /\ Here.value \in Triggers
        /\ \E pieces \in Printed : Becomes(pieces)
        /\ triggersResolved' = Append(triggersResolved, Here.value)
     \/ /\ Here.value \notin Triggers
        /\ Becomes(<<Here>>)
        /\ UNCHANGED triggersResolved
  /\ UNCHANGED <<template, commandsRun, diagnostics, warnings>>

Next == Literal \/ BadBlock \/ NotRun \/ expandCommandBlock \/ expandTrigger
Spec == Init /\ [][Next]_vars

Done     == index > Len(template)
Expanded == Done /\ diagnostics = {}

-----------------------------------------------------------------------------
(* Context providers: the files a glob selected, in order, each by its size  *)
(* or unreadable; or the chunks a guest returned, none of them unreadable.   *)

Unreadable == 999

Gather == [used |-> 0, chunks |-> <<>>, truncated |-> FALSE]

Take(max, g, size) ==
  IF g.used >= max THEN [g EXCEPT !.truncated = TRUE]
  ELSE IF size = Unreadable THEN g
  ELSE [used |-> g.used + Min({size, max - g.used}),
        chunks |-> Append(g.chunks, Min({size, max - g.used})),
        truncated |-> g.truncated \/ size > max - g.used]

readWithinBudget(sizes, max) == FoldLeft(LAMBDA g, size : Take(max, g, size), Gather, sizes)

-----------------------------------------------------------------------------
(* Properties.                                                              *)

TypeOK ==
  /\ template \in Templates /\ index \in 1..(Len(template) + 1) /\ output \in Seq(Piece)
  /\ diagnostics \subseteq {"empty", "unclosed", "threw", "no runner"}

Values(kind) == {template[i].value : i \in {i \in DOMAIN template : template[i].kind = kind}}

(* Nothing that was substituted is read again: only commands and triggers   *)
(* the author wrote are run and resolved, in the order of the template, and  *)
(* the prompt is what each piece became (commands.ts interpolate).           *)
NothingIsRescanned ==
  /\ ToSet(commandsRun) \subseteq Values("command") /\ ToSet(triggersResolved) \subseteq Values("trigger")
  /\ output = FlattenSeq(expanded)
  /\ Len(expanded) <= Len(template)

(* A prompt is handed out only if every block in it is a command that was   *)
(* run, once and in order: never with a block left out (commands.ts).        *)
HandedOutWhole ==
  Expanded =>
    /\ commandsRun = [i \in DOMAIN commandsRun |->
                        SelectSeq(template, LAMBDA p : p.kind = "command")[i].value]
    /\ Len(commandsRun) = Len(SelectSeq(template, LAMBDA p : p.kind \in {"command", "empty", "unclosed"}))

(* A provider gives no more than its budget, and says so when something it   *)
(* could read is missing (context.ts readWithinBudget).                      *)
ProviderKeepsBudget(sizes, max) ==
  LET given == readWithinBudget(sizes, max)
      wanted == FoldLeft(LAMBDA n, s : n + IF s = Unreadable THEN 0 ELSE s, 0, sizes)
  IN  /\ given.used <= max /\ given.used = FoldLeft(LAMBDA n, s : n + s, 0, given.chunks)
      /\ given.used < wanted => given.truncated
      /\ ~given.truncated => given.used = wanted

=============================================================================
