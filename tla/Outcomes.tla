------------------------------ MODULE Outcomes ------------------------------
(***************************************************************************)
(* What the two workflows of the codec demo promise to whoever starts one, *)
(* without worker, tasks, attempts or seals:                               *)
(*   - a workflow ends once, and what it ended with never changes;         *)
(*   - it ends with the result of its own order, a payment only once its   *)
(*     card was charged;                                                   *)
(*   - it fails only if its input cannot be read, and then nothing was or  *)
(*     will be charged.                                                    *)
(* A card may be charged more than once, even after the payment completed: *)
(* nothing promises otherwise.                                             *)
(***************************************************************************)
EXTENDS Naturals

CONSTANTS
    Workflows,
    Numbers,
    Last4,
    NoResult  \* a workflow that has not completed has none

VARIABLES
    order,   \* what each workflow was started with
    status,  \* "open" or "unreadable" by its input, until it ends
    charges, \* how often its card was charged
    result   \* what it ended with

vars == <<order, status, charges, result>>

Answer(o) == [what |-> IF o.kind = "person" THEN "customer" ELSE "paid",
              about |-> Last4[o.number]]

Init ==
    /\ order \in [Workflows -> [kind: {"person", "payment"}, number: Numbers]]
    /\ status = [w \in Workflows |-> "none"]
    /\ charges = [w \in Workflows |-> 0]
    /\ result = [w \in Workflows |-> NoResult]

Begin(w) ==
    /\ status[w] = "none"
    /\ \E s \in {"open", "unreadable"}: status' = [status EXCEPT ![w] = s]
    /\ UNCHANGED <<order, charges, result>>

Charge(w) ==
    /\ order[w].kind = "payment"
    /\ status[w] \in {"open", "completed"}
    /\ charges' = [charges EXCEPT ![w] = @ + 1]
    /\ UNCHANGED <<order, status, result>>

Complete(w) ==
    /\ status[w] = "open"
    /\ order[w].kind = "payment" => charges[w] > 0
    /\ status' = [status EXCEPT ![w] = "completed"]
    /\ result' = [result EXCEPT ![w] = Answer(order[w])]
    /\ UNCHANGED <<order, charges>>

Refuse(w) ==
    /\ status[w] = "unreadable"
    /\ status' = [status EXCEPT ![w] = "failed"]
    /\ UNCHANGED <<order, charges, result>>

Next == \E w \in Workflows: Begin(w) \/ Charge(w) \/ Complete(w) \/ Refuse(w)

Spec == Init /\ [][Next]_vars
=============================================================================
