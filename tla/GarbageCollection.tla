------------------------- MODULE GarbageCollection -------------------------
(***************************************************************************)
(* What the collector of gcl.c promises its mutator, stated over two sets  *)
(* and a phase: allocated, the objects the heap list holds; live, the      *)
(* objects reachable from the cells on the root stack; collecting, TRUE    *)
(* while gc() runs (the mutator is suspended).                             *)
(*  - A collection frees exactly the objects that are not live, in one     *)
(*    step as far as the mutator can tell, and returns with nothing more   *)
(*    and nothing less freed.                                              *)
(*  - No other step frees an object; outside a collection the heap grows   *)
(*    only by one fresh object at a time (an allocation); no step leaves a *)
(*    live object unallocated: a rooted reference never dangles.           *)
(***************************************************************************)
CONSTANTS Obj, NilValue

VARIABLES allocated, live, collecting

vars == <<allocated, live, collecting>>

Init ==
  /\ allocated = {NilValue}
  /\ live = {NilValue}
  /\ collecting = FALSE

(* gc() is entered: from here on the mutator sees only the live objects.  *)
Collect ==
  /\ ~collecting
  /\ collecting' = TRUE
  /\ allocated' = live
  /\ UNCHANGED live

(* gc() returns, having freed exactly the objects that were not live.     *)
Return ==
  /\ collecting
  /\ collecting' = FALSE
  /\ UNCHANGED <<allocated, live>>

(* register_object links one block that was not an object.                *)
Allocate ==
  /\ ~collecting
  /\ \E o \in Obj \ allocated : allocated' = allocated \cup {o}
  /\ live' \subseteq allocated'
  /\ UNCHANGED collecting

(* Any other step of the mutator: it may root and unroot allocated objects. *)
Mutate ==
  /\ ~collecting
  /\ live' \subseteq allocated
  /\ UNCHANGED <<allocated, collecting>>

Next == Collect \/ Return \/ Allocate \/ Mutate

Spec == Init /\ [][Next]_vars

=============================================================================
