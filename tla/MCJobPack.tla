----------------------------- MODULE MCJobPack -----------------------------
(* Instances of JobPack: a leader and two members on three nodes, and one  *)
(* job outside the pack.                                                   *)
EXTENDS JobPack

MCMembers == <<"m1", "m2">>
MCOthers == <<"o">>

MCNeed(l, a, b, o) ==
  [j \in Jobs |-> CASE j = "l" -> l [] j = "m1" -> a [] j = "m2" -> b [] OTHER -> o]

\* A pack that fits, beside a small job and one that takes all nodes; one whose
\* second member never fits beside the first; one whose leader never fits beside
\* the members.
MCAsks == {[need |-> MCNeed(1, 1, 1, 1), batch |-> FALSE],
           [need |-> MCNeed(1, 1, 1, 3), batch |-> TRUE],
           [need |-> MCNeed(1, 2, 2, 1), batch |-> FALSE],
           [need |-> MCNeed(2, 1, 1, 2), batch |-> TRUE]}

=============================================================================
