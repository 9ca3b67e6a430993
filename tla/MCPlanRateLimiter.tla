------------------------- MODULE MCPlanRateLimiter -------------------------
(***************************************************************************)
(* An instance of PlanRateLimiter: a plan with a limit of 1, one with 2,   *)
(* one nobody knows, and one without limit.                                *)
(***************************************************************************)
EXTENDS PlanRateLimiter, TLC

CONSTANTS alice, ip1, ip2

MCLimits == "free" :> 1 @@ "pro" :> 2

User(o, p, i) == [owner |-> o, plan |-> p, ip |-> i]

\* alice from two addresses, under a named plan and under none; a plan that
\* planLimits does not know; a better plan; a key without an owner; an
\* enterprise customer.
MCCaller ==
  {User(alice, "free", ip1), User(alice, "", ip2), User(alice, "trial", ip1),
   User(alice, "pro", ip1),
   User(NoOwner, "free", ip1), User(alice, "enterprise", ip2)}
=============================================================================
