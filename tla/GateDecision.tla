---------------------------- MODULE GateDecision ----------------------------
(***************************************************************************)
(* What the end-of-round gate promises, without the control bus, the       *)
(* approval log and the processes that read and write them: every gate is  *)
(* a write-once register.  The first accepted decision fixes it, whoever   *)
(* is told "accepted" is told so of that decision, and the worker acts at  *)
(* most once on a gate, with that decision.  ApprovalGate implements it.   *)
(***************************************************************************)

CONSTANTS Gate,      \* the approvals a run raises
          Action     \* the option values of a gate ("continue", "stop")

VARIABLES decision,  \* the decision a gate was given, "none" before
          told,      \* the decisions of the gate that a caller saw accepted
          acted      \* what the worker did at the gate, "none" before

vars == <<decision, told, acted>>

Init == /\ decision = [g \in Gate |-> "none"]
        /\ told     = [g \in Gate |-> {}]
        /\ acted    = [g \in Gate |-> "none"]

\* The first decision is accepted.
Decide(g, d) == /\ decision[g] = "none"
                /\ decision' = [decision EXCEPT ![g] = d]
                /\ told' = [told EXCEPT ![g] = @ \cup {d}]
                /\ UNCHANGED acted

\* A retry of the same decision is accepted again; no other ever is.
Confirm(g) == /\ decision[g] # "none"
              /\ told' = [told EXCEPT ![g] = @ \cup {decision[g]}]
              /\ UNCHANGED <<decision, acted>>

\* The worker leaves the gate with the decision.
Act(g) == /\ decision[g] # "none"
          /\ acted[g] = "none"
          /\ acted' = [acted EXCEPT ![g] = decision[g]]
          /\ UNCHANGED <<decision, told>>

Next == \E g \in Gate : \/ \E d \in Action : Decide(g, d)
                        \/ Confirm(g)
                        \/ Act(g)

Spec == Init /\ [][Next]_vars
=============================================================================
