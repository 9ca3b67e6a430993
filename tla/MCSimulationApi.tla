-------------------------- MODULE MCSimulationApi --------------------------
(***************************************************************************)
(* Instances of SimulationApi: a customer on the free plan with a quota    *)
(* of 1, one on enterprise, both behind one address.                       *)
(***************************************************************************)
EXTENDS SimulationApi, TLC

CONSTANTS c1, c2, c3, freeKey, bigKey, alice, bob, home

MCOwnerOf == freeKey :> alice @@ bigKey :> bob
MCPlanOf  == freeKey :> "free" @@ bigKey :> "enterprise"
MCLimit   == "free" :> 1

Ask(op, k, body, trace, id) ==
  [op |-> op, key |-> k, ip |-> home, body |-> body, includeTrace |-> trace,
   id |-> id]

Sim(k, body, trace) == Ask("simulate", k, body, trace, c1)
Get(k, id) == Ask("get", k, "good", FALSE, id)
List(k)    == Ask("list", k, "good", FALSE, c1)

\* Everything that can be sent, most of it by the enterprise customer.
MCRequest ==
  {Sim(bigKey, "good", FALSE), Sim(bigKey, "unstorable", TRUE),
   Sim(bigKey, "overlong", FALSE), Sim(bigKey, "garbled", FALSE),
   Sim(bigKey, "invalid", FALSE), Sim(freeKey, "malformed", FALSE),
   Sim(NoKey, "good", FALSE),
   Get(freeKey, c1), List(bigKey),
   Ask("options", NoKey, "good", FALSE, c1),
   Ask("health", NoKey, "good", FALSE, c1)}

\* One simulation and those who read what it leaves.
ReadRequest == {Sim(bigKey, "good", FALSE), Get(freeKey, c1), List(bigKey)}
=============================================================================
