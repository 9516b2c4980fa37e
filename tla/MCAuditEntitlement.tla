--------------------------- MODULE MCAuditEntitlement ---------------------------
(* Small instances of AuditEntitlement for TLC.                                 *)
EXTENDS AuditEntitlement, TLC

CONSTANTS a1, a2, a3, k1, k2, p1, p2

MCPlans == {"free", "plus", "pro"}

MCPeriods == {"month", "billing"}

\* Two audits in the best plan, one in the others.
MCLimit == [plan \in MCPlans |-> IF plan = "pro" THEN 2 ELSE 1]

\* No subscription, or one that changes its plan within a billing period.
MCEntitlements ==
    {[plan |-> "free", period |-> "month"],
     [plan |-> "plus", period |-> "billing"],
     [plan |-> "pro", period |-> "billing"]}

\* The same plan throughout.
MCSteadyPlan == {[plan |-> "plus", period |-> "billing"]}

MCSymmetry == Permutations(Attempts) \cup Permutations(Keys)
=================================================================================
