---------------------------- MODULE MCCollector ----------------------------
(* Model-checking instance of Collector: nil_value and three further       *)
(* blocks, a cap of three objects (nil_value counts), one interpreter      *)
(* local.                                                                  *)
EXTENDS Collector

CONSTANTS n, o1, o2, o3, l1

MCObj == {n, o1, o2, o3}
MCLocals == {l1}

\* The free addresses are interchangeable: malloc may return any of them.
Symmetry == Permutations({o1, o2, o3})

=============================================================================
