------------------------------ MODULE Conversation ------------------------------
(***************************************************************************)
(* What an embedder may rely on about a session, with no loop in sight:    *)
(* one turn at a time, a turn that puts its prompt on the log once and     *)
(* then only whole exchanges (an assistant message with an answer to each  *)
(* of its tool calls), nothing after a cancel, and one settlement.         *)
(***************************************************************************)
EXTENDS Messages

CONSTANTS MaxTurns, MaxCalls, StopReasons

VARIABLES
  log,        (* The history a provider would be sent.            *)
  phase,      (* "idle", "begun" or "prompted".                   *)
  current,    (* The turn in flight, 0 for none.                  *)
  cancelled,  (* The turn in flight was cancelled.                *)
  result      (* result[t]: "none" until turn t has settled.      *)

promise == <<log, phase, current, cancelled, result>>

Init ==
  /\ log = <<>> /\ phase = "idle" /\ current = 0 /\ cancelled = FALSE
  /\ result = [t \in 1 .. MaxTurns |-> "none"]

(* Turns begin in the order of their ids, each when the last has settled.  *)
Begin(t) ==
  /\ current = 0
  /\ \A s \in 1 .. MaxTurns : s < t <=> result[s] # "none"
  /\ current' = t /\ phase' = "begun" /\ cancelled' = FALSE
  /\ UNCHANGED <<log, result>>

Cancel ==
  /\ current # 0
  /\ cancelled' = TRUE
  /\ UNCHANGED <<log, phase, current, result>>

Prompt ==
  /\ phase = "begun"
  /\ phase' = "prompted"
  /\ \E injected \in {<<>>, <<User>>} : log' = log \o injected \o <<User>>
  /\ UNCHANGED <<current, cancelled, result>>

(* The submission is refused: its budget cannot be enforced.               *)
Refuse ==
  /\ phase = "begun"
  /\ phase' = "idle" /\ current' = 0
  /\ result' = [result EXCEPT ![current] = "threw"]
  /\ UNCHANGED <<log, cancelled>>

Exchange(n) ==
  /\ phase = "prompted" /\ ~cancelled
  /\ log' = Append(log, Asks(n)) \o Answers(n)
  /\ UNCHANGED <<phase, current, cancelled, result>>

Settle(reason) ==
  /\ phase = "prompted"
  /\ reason = "cancelled" => cancelled
  /\ phase' = "idle" /\ current' = 0
  /\ result' = [result EXCEPT ![current] = reason]
  /\ UNCHANGED <<log, cancelled>>

Next ==
  \/ \E t \in 1 .. MaxTurns : Begin(t)
  \/ Cancel
  \/ Prompt
  \/ Refuse
  \/ \E n \in 0 .. MaxCalls : Exchange(n)
  \/ \E reason \in StopReasons : Settle(reason)

Spec == Init /\ [][Next]_promise

=============================================================================
