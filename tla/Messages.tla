-------------------------------- MODULE Messages --------------------------------
(***************************************************************************)
(* The messages of a session's history, down to what replaying it needs:   *)
(* who speaks, how many tool calls an assistant message makes and which    *)
(* call of it a tool message answers (packages/core/src/session.ts).       *)
(***************************************************************************)
EXTENDS Naturals, Sequences

User       == [role |-> "user", n |-> 0]
Asks(n)    == [role |-> "assistant", n |-> n]
Answers(n) == [k \in 1 .. n |-> [role |-> "tool", n |-> k]]
Message    == [role: {"user", "assistant", "tool"}, n: Nat]

(* Session.historyIsLinear: every call an assistant message makes is       *)
(* answered by the tool messages that follow it, in order.                 *)
HistoryIsLinear(h) ==
  \A p \in DOMAIN h : h[p].role = "assistant" =>
    \A k \in 1 .. h[p].n : p + k \in DOMAIN h /\ h[p + k] = [role |-> "tool", n |-> k]

(* Where that is not so: the assistant messages with a call left unanswered. *)
Unanswered(h) ==
  {p \in DOMAIN h : h[p].role = "assistant" /\
     \E k \in 1 .. h[p].n : ~(p + k \in DOMAIN h /\ h[p + k] = [role |-> "tool", n |-> k])}

=============================================================================
