------------------------------ MODULE PlanQuota ------------------------------
(***************************************************************************)
(* What the plan limiter promises (plan_rate_limiter.go:13-19 and 55-57):  *)
(* each account, a plan and the customer who holds it, has a quota that is *)
(* renewed from time to time; a request is let through exactly when some   *)
(* of the quota is left, and uses one unit.                                *)
(***************************************************************************)
EXTENDS Integers

CONSTANTS
  Request,
  Account,
  Quota,      \* [Account -> Nat]
  Unlimited   \* stands for the account of a request that has no limit

VARIABLES
  account,    \* [Request -> Account \cup {Unlimited}]
  verdict,    \* [Request -> {"pending", "admitted", "refused"}]
  left        \* [Account -> Nat], what remains of the quota

vars == <<account, verdict, left>>

Init ==
  /\ verdict = [q \in Request |-> "pending"]
  /\ left = Quota

Decide(q, v) ==
  /\ verdict[q] = "pending"
  /\ verdict' = [verdict EXCEPT ![q] = v]
  /\ UNCHANGED account

Bypass(q) ==
  /\ account[q] = Unlimited
  /\ Decide(q, "admitted")
  /\ UNCHANGED left

Admit(q) ==
  /\ account[q] # Unlimited
  /\ left[account[q]] > 0
  /\ Decide(q, "admitted")
  /\ left' = [left EXCEPT ![account[q]] = @ - 1]

Refuse(q) ==
  /\ account[q] # Unlimited
  /\ left[account[q]] = 0
  /\ Decide(q, "refused")
  /\ UNCHANGED left

Renew(a) ==
  /\ left' = [left EXCEPT ![a] = Quota[a]]
  /\ UNCHANGED <<account, verdict>>

Next ==
  \/ \E q \in Request : Bypass(q) \/ Admit(q) \/ Refuse(q)
  \/ \E a \in Account : Renew(a)

Spec == Init /\ [][Next]_vars
=============================================================================
