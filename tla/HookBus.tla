--------------------------------- MODULE HookBus ---------------------------------
(***************************************************************************)
(* HookBus of @adze/core: one ordered list of hooks shared by every        *)
(* session of the engine.  A fire walks the list and waits on each hook;   *)
(* while it waits, other fires walk the same list and hooks are registered *)
(* and disposed (packages/core/src/hooks.ts).                              *)
(***************************************************************************)
EXTENDS Naturals, SequencesExt

CONSTANTS
  Hooks,     (* The hooks that may be registered, each once.              *)
  Handlers,  (* Those of them that handle the events fired.               *)
  Fires,     (* The fires of one behaviour.                               *)
  Caller,    (* Stands for the caller: the arguments nobody rewrote.      *)
  None,      (* No hook.                                                  *)
  Disposes   (* Hooks may be disposed.                                    *)

HooksAssumption ==
  /\ Handlers \subseteq Hooks
  /\ {Caller, None} \cap Hooks = {}
  /\ Disposes \in BOOLEAN

VARIABLES
  hooks,     (* this.hooks, a live array.                                 *)
  known,     (* Hooks ever registered, in that order (history).           *)
  fire       (* fire[f]: the locals of one fire.                          *)

vars == <<hooks, known, fire>>

Kinds == {"turnStart", "toolPre", "toolPost", "turnEnd"}

(* asked is the hook being awaited and at the iterator's next position;    *)
(* value holds who last rewrote the arguments or replaced the result.  The *)
(* history fields are the hooks asked so far, what each one was given, the *)
(* list as it was at the start, the hooks disposed since and those that     *)
(* answered.                                                               *)
FireRecord ==
  [kind: Kinds, status: {"idle", "waiting", "passed", "denied"}, at: Nat,
   asked: Hooks \cup {None}, value: Hooks \cup {Caller},
   trail: Seq(Hooks), saw: Seq(Hooks \cup {Caller}), start: Seq(Hooks),
   gone: SUBSET Hooks, said: SUBSET Hooks]

Idle ==
  [kind |-> "toolPre", status |-> "idle", at |-> 1, asked |-> None, value |-> Caller,
   trail |-> <<>>, saw |-> <<>>, start |-> <<>>, gone |-> {}, said |-> {}]

Init ==
  /\ hooks = <<>> /\ known = <<>>
  /\ fire = [f \in Fires |-> Idle]

-----------------------------------------------------------------------------
Register(h) ==
  /\ h \in Hooks \ ToSet(known)
  /\ hooks' = Append(hooks, h)
  /\ known' = Append(known, h)
  /\ UNCHANGED fire

(* dispose: the list every fire is walking loses an element at once.        *)
Dispose(h) ==
  /\ Disposes
  /\ \E i \in DOMAIN hooks : hooks[i] = h /\ hooks' = RemoveAt(hooks, i)
  /\ fire' = [f \in Fires |->
       IF fire[f].status = "waiting" THEN [fire[f] EXCEPT !.gone = @ \cup {h}] ELSE fire[f]]
  /\ UNCHANGED known

(* The loop from position r.at on: hooks without a handler are passed over  *)
(* and the next one is asked, or the fire is over.                          *)
Advance(r) ==
  LET rest == {i \in r.at .. Len(hooks) : hooks[i] \in Handlers} IN
  IF rest = {}
    THEN [r EXCEPT !.status = "passed", !.asked = None]
    ELSE LET i == Min(rest) IN
         [r EXCEPT !.status = "waiting", !.at = i + 1, !.asked = hooks[i],
                   !.trail = Append(@, hooks[i]), !.saw = Append(@, r.value)]

Fire(f, kind) ==
  /\ fire[f].status = "idle"
  /\ fire' = [fire EXCEPT ![f] = Advance([Idle EXCEPT !.kind = kind, !.start = hooks])]
  /\ UNCHANGED <<hooks, known>>

Answered(r) == [r EXCEPT !.said = @ \cup {r.asked}]

(* The hook asked answers with a value that changes nothing.                *)
Continues(f) ==
  /\ fire[f].status = "waiting"
  /\ fire' = [fire EXCEPT ![f] = Advance(Answered(@))]
  /\ UNCHANGED <<hooks, known>>

(* tool.pre rewrites the arguments, tool.post replaces the result: the next *)
(* hook is given the new value.                                             *)
Replaces(f) ==
  /\ fire[f].status = "waiting"
  /\ fire[f].kind \in {"toolPre", "toolPost"}
  /\ fire' = [fire EXCEPT ![f] = Advance([Answered(@) EXCEPT !.value = fire[f].asked])]
  /\ UNCHANGED <<hooks, known>>

(* tool.pre only: the first denial ends the fire.                           *)
Denies(f) ==
  /\ fire[f].status = "waiting"
  /\ fire[f].kind = "toolPre"
  /\ fire' = [fire EXCEPT ![f].status = "denied", ![f].asked = None]
  /\ UNCHANGED <<hooks, known>>

(* Slip of Fails: a veto that does not answer is taken for consent. *)
FailsOpen(f) ==
  /\ fire[f].status = "waiting"
  /\ fire' = [fire EXCEPT ![f] = Advance(@)]
  /\ UNCHANGED <<hooks, known>>

(* The hook threw, or withTimeout gave up on it: a tool.pre hook is taken   *)
(* to have denied, any other is passed over.                                *)
Fails(f) ==
  /\ fire[f].status = "waiting"
  /\ fire' = [fire EXCEPT ![f] =
       IF @.kind = "toolPre" THEN [@ EXCEPT !.status = "denied", !.asked = None]
                             ELSE Advance(@)]
  /\ UNCHANGED <<hooks, known>>

Next ==
  \/ \E h \in Hooks : Register(h) \/ Dispose(h)
  \/ \E f \in Fires :
       (\E kind \in Kinds : Fire(f, kind)) \/ Continues(f) \/ Replaces(f) \/ Denies(f) \/ Fails(f)

Spec == Init /\ [][Next]_vars

(* A hook may never answer; the timer of withTimeout always does.           *)
FairSpec == Spec /\ \A f \in Fires : WF_vars(Fails(f))

-----------------------------------------------------------------------------
(* Properties.                                                             *)

(* The types of the bus and of the fires.                                  *)
TypeOK ==
  /\ hooks \in Seq(Hooks) /\ known \in Seq(Hooks)
  /\ fire \in [Fires -> FireRecord]

Before(a, b) == \E p, q \in DOMAIN known : p < q /\ known[p] = a /\ known[q] = b

(* A fire asks hooks in the order they were registered, none of them       *)
(* twice, whatever was registered or disposed while it waited.             *)
AskedInOrder ==
  \A f \in Fires : \A i, j \in DOMAIN fire[f].trail :
    i < j => Before(fire[f].trail[i], fire[f].trail[j])

(* A fire that passed asked every handler that was on the list all along,  *)
(* except one that moved up because a hook before it was disposed; and when *)
(* it is a tool.pre fire each hook it asked has answered, for silence and   *)
(* failure are not consent.                                                 *)
PassedMeansAsked ==
  \A f \in Fires : LET r == fire[f] IN r.status = "passed" =>
    /\ r.kind = "toolPre" => ToSet(r.trail) \subseteq r.said
    /\ \A p \in DOMAIN r.start :
         r.start[p] \in Handlers \ (r.gone \cup ToSet(r.trail)) =>
           \E q \in 1 .. p - 1 : r.start[q] \in r.gone

(* What a fire returns is what its last rewriting hook left, and every     *)
(* hook after that one was given it.                                        *)
RewritesChain ==
  \A f \in Fires : LET r == fire[f] IN
    \A i \in DOMAIN r.trail : r.trail[i] = r.value =>
      \A j \in DOMAIN r.saw : j > i => r.saw[j] = r.value

(* Every fire ends, however many of its hooks never answer.                *)
FiresEnd == \A f \in Fires : fire[f].status = "waiting" ~> fire[f].status # "waiting"

-----------------------------------------------------------------------------
(* Promises of the documentation the code does not keep; see README.md.    *)

(* hooks.ts: "Run `tool.pre` across every hook".                           *)
EveryHookAsked ==
  \A f \in Fires : fire[f].status = "passed" =>
    (ToSet(fire[f].start) \ fire[f].gone) \cap Handlers \subseteq ToSet(fire[f].trail)

-----------------------------------------------------------------------------
(* The inductive invariant, proved in MCTurnParts: the list is in the order *)
(* of registration, and of a fire with locals r                             *)

(* what it has asked is in that order, and comes before what lies ahead of  *)
(* it in the list,                                                          *)
InOrder(r) ==
  /\ \A i \in DOMAIN r.trail : r.trail[i] \in ToSet(known)
  /\ \A i, j \in DOMAIN r.trail : i < j => Before(r.trail[i], r.trail[j])
NothingIsBehind(r) ==
  \A k \in DOMAIN r.trail : \A i \in DOMAIN hooks : i >= r.at => Before(r.trail[k], hooks[i])

(* the list still begins as it did, up to the first hook that is gone, and  *)
(* of that much it has asked what it has passed,                            *)
Untouched(r, p) == \A q \in 1 .. p : r.start[q] \notin r.gone
StillThere(r) ==
  \A p \in DOMAIN r.start : Untouched(r, p) =>
    /\ p \in DOMAIN hooks /\ hooks[p] = r.start[p]
    /\ p < r.at /\ r.start[p] \in Handlers => r.start[p] \in ToSet(r.trail)

(* and what a hook that came after the last rewriting one was given is what *)
(* that one left.                                                           *)
Chained(r) ==
  /\ DOMAIN r.saw = DOMAIN r.trail
  /\ \A i \in DOMAIN r.trail : r.trail[i] = r.value =>
       \A j \in DOMAIN r.saw : j > i => r.saw[j] = r.value

(* A fire about to go on from position r.at.                                *)
Ready(r) ==
  /\ r \in FireRecord /\ r.at >= 1
  /\ InOrder(r) /\ NothingIsBehind(r) /\ StillThere(r) /\ Chained(r)
  /\ r.kind = "toolPre" => ToSet(r.trail) \subseteq r.said

(* A fire that waits, or is over.                                           *)
Walk(r) ==
  /\ r \in FireRecord /\ InOrder(r) /\ Chained(r)
  /\ r.status = "waiting" =>
       /\ NothingIsBehind(r) /\ StillThere(r) /\ r.at >= 1
       /\ r.asked \in Hooks /\ DOMAIN r.trail # {} /\ r.asked = r.trail[Len(r.trail)]
       /\ r.kind = "toolPre" => ToSet(r.trail) \subseteq r.said \cup {r.asked}
  /\ r.status = "passed" =>
       /\ r.kind = "toolPre" => ToSet(r.trail) \subseteq r.said
       /\ \A p \in DOMAIN r.start :
            r.start[p] \in Handlers \ (r.gone \cup ToSet(r.trail)) =>
              \E q \in 1 .. p - 1 : r.start[q] \in r.gone

ListIsSorted ==
  /\ hooks \in Seq(Hooks) /\ known \in Seq(Hooks)
  /\ \A i, j \in DOMAIN known : known[i] = known[j] => i = j
  /\ \A i \in DOMAIN hooks : hooks[i] \in ToSet(known)
  /\ \A i, j \in DOMAIN hooks : i < j => Before(hooks[i], hooks[j])

HInv == ListIsSorted /\ fire \in [Fires -> FireRecord] /\ \A f \in Fires : Walk(fire[f])

=============================================================================
