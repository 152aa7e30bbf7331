---------------------------- MODULE MCSandboxes ----------------------------
(* Sandboxes over a directory d with a file f in it, and a path g. *)
EXTENDS Sandboxes, TLC

CONSTANTS c1, c2, c3, s1, s2, d, f, g, new, big, all

MCAncestors == [p \in Paths |-> IF p = f THEN {d} ELSE {}]
MCSize == [x \in {new, big} |-> IF x = big THEN 2 ELSE 1]

Empty == [p \in Paths |-> Nothing]
Filled ==
    [Empty EXCEPT ![d] = Directory(<<Initially, d>>),
                  ![f] = File(new, <<Initially, f>>)]
MCTrees == {Empty, Filled}
Symmetry == Permutations(Calls) \cup Permutations(Sessions)
=============================================================================
