---------------------------- MODULE MCCollectorSW ----------------------------
(* Model-checking instance of CollectorSW, with the bounds of MCCollector: *)
(* nil_value and three further blocks, a cap of three objects, one        *)
(* interpreter local.                                                      *)
EXTENDS CollectorSW

CONSTANTS n, o1, o2, o3, l1

MCObj == {n, o1, o2, o3}
MCLocals == {l1}

\* The free addresses are interchangeable: malloc may return any of them.
Symmetry == Permutations({o1, o2, o3})

=============================================================================
