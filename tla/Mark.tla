-------------------------------- MODULE Mark --------------------------------
(***************************************************************************)
(* What mark(object) of gcl.c promises (its contract at lines 414-415     *)
(* strengthened to the exact set): in one step it marks every object      *)
(* reachable from the root, keeps the marks it found, and leaves the      *)
(* child fields of every object as they were.                             *)
(***************************************************************************)
EXTENDS GclObjects

VARIABLES cls, head, tail, data, marked, root, done

vars == <<cls, head, tail, data, marked, root, done>>

Init ==
  /\ cls \in {c \in [Obj -> Classes] : WellFormedClasses(c)}
  /\ head \in SlotValues(cls, "cons")
  /\ tail \in SlotValues(cls, "cons")
  /\ data \in SlotValues(cls, "function")
  /\ marked \subseteq Obj
  /\ IsClosed(cls, head, tail, data, marked)
  /\ root \in Obj
  /\ done = FALSE

MarkRoot ==
  /\ ~done
  /\ done' = TRUE
  /\ UNCHANGED <<cls, head, tail, data, root>>
  /\ marked' = marked \cup ReachableFrom(cls, head, tail, data, {root})

SafetySpec == Init /\ [][MarkRoot]_vars

Spec == SafetySpec /\ WF_vars(MarkRoot)

=============================================================================
