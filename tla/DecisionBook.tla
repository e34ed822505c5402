---------------------------- MODULE DecisionBook ----------------------------
(***************************************************************************)
(* What the desk promises about decisions to whoever reads them: each is   *)
(* proposed once, reviewed at most once, and withdrawn at most once, in    *)
(* single steps.  EditorialDesk implements it; Publication builds on it.   *)
(***************************************************************************)
CONSTANT DecisionIds

VARIABLE decision   \* [DecisionIds -> status]

Init == decision = [d \in DecisionIds |-> "absent"]

Propose(d) ==
    /\ decision[d] = "absent"
    /\ decision' = [decision EXCEPT ![d] = "proposed"]

Review(d, next) ==
    /\ decision[d] = "proposed"
    /\ decision' = [decision EXCEPT ![d] = next]

Withdraw(d) ==
    /\ decision[d] \in {"proposed", "approved"}
    /\ decision' = [decision EXCEPT ![d] = "withdrawn"]

Next ==
    \E d \in DecisionIds :
        \/ Propose(d)
        \/ Review(d, "approved") \/ Review(d, "rejected")
        \/ Withdraw(d)

Spec == Init /\ [][Next]_decision

=============================================================================
