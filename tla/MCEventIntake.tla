---------------------------- MODULE MCEventIntake ----------------------------
(***************************************************************************)
(* Instances of EventIntake: two rules of one client and one type, and one *)
(* rule of another client.                                                 *)
(***************************************************************************)
EXTENDS EventIntake, TLC

CONSTANTS c1, c2, t1, r1, r2, r3

MCRuleClient == r1 :> c1 @@ r2 :> c1 @@ r3 :> c2
MCRuleType == r1 :> t1 @@ r2 :> t1 @@ r3 :> t1

\* The same with a single client.
MCRuleClient1 == r1 :> c1 @@ r2 :> c1
MCRuleType1 == r1 :> t1 @@ r2 :> t1

Symmetry == Permutations(Requests)
=============================================================================
