----------------------------- MODULE MCReleasePR -----------------------------
(* Two plans, the second superseding the first.                            *)
EXTENDS ReleasePR
CONSTANTS plan1, plan2
MCSupersedes == [q \in {plan1, plan2} |-> IF q = plan2 THEN plan1 ELSE NoPlan]
=============================================================================
