---------------------------- MODULE SchorrWaite ----------------------------
(***************************************************************************)
(* The pointer-reversal marker `mark` of gcl.c (lines 413-527) with the   *)
(* class callbacks it dispatches to: cons_start_marking/cons_mark_next,   *)
(* function_start_marking/function_mark_next and the childless            *)
(* nil_start_marking/atom_start_marking.  One call of mark(root) is       *)
(* modelled, from any heap graph over Obj and any set of objects already  *)
(* marked by earlier roots of the same gc() (a set closed under children, *)
(* the heap_marking invariant with no busy objects).                       *)
(*                                                                         *)
(* pc is the label of mark the procedure is at: start_marking, mark_next, *)
(* or done after the return at line 494.                                   *)
(***************************************************************************)
EXTENDS GclObjects

VARIABLES
  cls,          \* object->class (never changed by mark)
  head, tail,   \* struct cons head / tail
  tailIsNext,   \* struct cons tail_is_next: the cursor of a cons
  data,         \* struct function data
  marked,       \* the set of objects whose marked bit is set
  object,       \* mark's local `object`
  parent,       \* mark's local `parent`
  pc,
  root,         \* ghost: the argument of mark
  marked0,      \* ghost: the marked set at entry
  head0, tail0, data0  \* ghost: the child fields at entry

vars == <<cls, head, tail, tailIsNext, data, marked, object, parent, pc,
          root, marked0, head0, tail0, data0>>

Reach(S) == ReachableFrom(cls, head0, tail0, data0, S)

-----------------------------------------------------------------------------
(* Mutations, each the body of an action below with a plausible slip.     *)

\* cons_start_marking forgetting to reverse head to the incoming parent
StartMarkingConsNoReverse ==
  /\ pc = "start_marking" /\ object \notin marked /\ cls[object] = "cons"
  /\ marked' = marked \cup {object}
  /\ object' = head[object]
  /\ parent' = object
  /\ tailIsNext' = [tailIsNext EXCEPT ![object] = TRUE]
  /\ pc' = "start_marking"
  /\ UNCHANGED <<cls, head, tail, data, root, marked0, head0, tail0, data0>>

\* a class table whose start_marking returns false for a function too
StartMarkingLeafAnyClass ==
  /\ pc = "start_marking"
  /\ object \notin marked
  /\ cls[object] \in {"nil", "atom", "function"}
  /\ marked' = marked \cup {object}
  /\ pc' = "mark_next"
  /\ UNCHANGED <<cls, head, tail, tailIsNext, data, object, parent,
                 root, marked0, head0, tail0, data0>>

\* mark_next jumping back to start_marking instead of returning
MarkNextReturnNoExit ==
  /\ pc = "mark_next"
  /\ parent = NULL
  /\ pc' = "start_marking"
  /\ UNCHANGED <<cls, head, tail, tailIsNext, data, marked, object, parent,
                 root, marked0, head0, tail0, data0>>

\* function_mark_next returning the restored child instead of the function
MarkNextFunctionWrongObject ==
  /\ pc = "mark_next" /\ parent # NULL /\ cls[parent] = "function"
  /\ parent' = data[parent]
  /\ data' = [data EXCEPT ![parent] = object]
  /\ object' = data[parent]
  /\ pc' = "mark_next"
  /\ UNCHANGED <<cls, head, tail, tailIsNext, marked, root, marked0,
                 head0, tail0, data0>>

\* cons_mark_next not clearing tail_is_next when it moves to the tail
MarkNextConsTailNoClear ==
  /\ pc = "mark_next" /\ parent # NULL /\ cls[parent] = "cons"
  /\ tailIsNext[parent]
  /\ head' = [head EXCEPT ![parent] = object]
  /\ object' = tail[parent]
  /\ tail' = [tail EXCEPT ![parent] = head[parent]]
  /\ pc' = "start_marking"
  /\ UNCHANGED <<cls, tailIsNext, data, marked, parent, root, marked0,
                 head0, tail0, data0>>

-----------------------------------------------------------------------------
Init ==
  /\ cls \in {c \in [Obj -> Classes] : WellFormedClasses(c)}
  /\ head \in SlotValues(cls, "cons")
  /\ tail \in SlotValues(cls, "cons")
  /\ data \in SlotValues(cls, "function")
  \* tail_is_next is not initialised by create_cons: any value
  /\ tailIsNext \in {f \in [Obj -> BOOLEAN] :
                       \A o \in Obj : cls[o] # "cons" => ~f[o]}
  /\ marked0 \in {M \in SUBSET Obj : IsClosed(cls, head, tail, data, M)}
  /\ marked = marked0
  /\ root \in Obj
  /\ object = root
  /\ parent = NULL
  /\ pc = "start_marking"
  /\ head0 = head /\ tail0 = tail /\ data0 = data

(* start_marking: an object already marked goes straight to mark_next.   *)
StartMarkingMarked ==
  /\ pc = "start_marking"
  /\ object \in marked
  /\ pc' = "mark_next"
  /\ UNCHANGED <<cls, head, tail, tailIsNext, data, marked, object, parent,
                 root, marked0, head0, tail0, data0>>

(* Mark the object; nil_start_marking / atom_start_marking return false.  *)
StartMarkingLeaf ==
  /\ pc = "start_marking"
  /\ object \notin marked
  /\ cls[object] \in {"nil", "atom"}
  /\ marked' = marked \cup {object}
  /\ pc' = "mark_next"
  /\ UNCHANGED <<cls, head, tail, tailIsNext, data, object, parent,
                 root, marked0, head0, tail0, data0>>

(* Mark the cons; cons_start_marking descends into head, storing the     *)
(* incoming parent in head and setting tail_is_next.                      *)
StartMarkingCons ==
  /\ pc = "start_marking"
  /\ object \notin marked
  /\ cls[object] = "cons"
  /\ marked' = marked \cup {object}
  /\ object' = head[object]
  /\ head' = [head EXCEPT ![object] = parent]
  /\ parent' = object
  /\ tailIsNext' = [tailIsNext EXCEPT ![object] = TRUE]
  /\ pc' = "start_marking"
  /\ UNCHANGED <<cls, tail, data, root, marked0, head0, tail0, data0>>

(* Mark the function; function_start_marking descends into data, storing *)
(* the incoming parent in data.                                           *)
StartMarkingFunction ==
  /\ pc = "start_marking"
  /\ object \notin marked
  /\ cls[object] = "function"
  /\ marked' = marked \cup {object}
  /\ object' = data[object]
  /\ data' = [data EXCEPT ![object] = parent]
  /\ parent' = object
  /\ pc' = "start_marking"
  /\ UNCHANGED <<cls, head, tail, tailIsNext, root, marked0,
                 head0, tail0, data0>>

(* mark_next with parent == 0: the traversal returns.                      *)
MarkNextReturn ==
  /\ pc = "mark_next"
  /\ parent = NULL
  /\ pc' = "done"
  /\ UNCHANGED <<cls, head, tail, tailIsNext, data, marked, object, parent,
                 root, marked0, head0, tail0, data0>>

(* cons_mark_next, tail_is_next set: restore head, move the grandparent  *)
(* into tail and descend into the original tail.                          *)
MarkNextConsTail ==
  /\ pc = "mark_next"
  /\ parent # NULL
  /\ cls[parent] = "cons"
  /\ tailIsNext[parent]
  /\ head' = [head EXCEPT ![parent] = object]
  /\ object' = tail[parent]
  /\ tail' = [tail EXCEPT ![parent] = head[parent]]
  /\ tailIsNext' = [tailIsNext EXCEPT ![parent] = FALSE]
  /\ pc' = "start_marking"
  /\ UNCHANGED <<cls, data, marked, parent, root, marked0,
                 head0, tail0, data0>>

(* cons_mark_next, tail_is_next clear: restore tail and pop the cons.    *)
MarkNextConsDone ==
  /\ pc = "mark_next"
  /\ parent # NULL
  /\ cls[parent] = "cons"
  /\ ~tailIsNext[parent]
  /\ parent' = tail[parent]
  /\ tail' = [tail EXCEPT ![parent] = object]
  /\ object' = parent
  /\ pc' = "mark_next"
  /\ UNCHANGED <<cls, head, tailIsNext, data, marked, root, marked0,
                 head0, tail0, data0>>

(* function_mark_next: restore data and pop the function.                 *)
MarkNextFunction ==
  /\ pc = "mark_next"
  /\ parent # NULL
  /\ cls[parent] = "function"
  /\ parent' = data[parent]
  /\ data' = [data EXCEPT ![parent] = object]
  /\ object' = parent
  /\ pc' = "mark_next"
  /\ UNCHANGED <<cls, head, tailIsNext, tail, marked, root, marked0,
                 head0, tail0, data0>>

Next ==
  \/ StartMarkingMarked
  \/ StartMarkingLeaf
  \/ StartMarkingCons
  \/ StartMarkingFunction
  \/ MarkNextReturn
  \/ MarkNextConsTail
  \/ MarkNextConsDone
  \/ MarkNextFunction

(* mark runs to completion inside gc(): nothing else runs meanwhile.      *)
Spec == Init /\ [][Next]_vars /\ WF_vars(Next)

-----------------------------------------------------------------------------
TypeOK ==
  /\ cls \in [Obj -> Classes]
  /\ head \in [Obj -> Ptr] /\ tail \in [Obj -> Ptr] /\ data \in [Obj -> Ptr]
  /\ tailIsNext \in [Obj -> BOOLEAN]
  /\ marked \subseteq Obj
  /\ object \in Obj
  /\ parent \in Ptr
  /\ pc \in {"start_marking", "mark_next", "done"}

(* The pointer-reversed chain.  Walking from parent, each cons or function *)
(* on the chain holds its own parent in the slot of the child being       *)
(* visited (head when tail_is_next is set, else tail; data for a           *)
(* function).  Unreverse puts the visited child back in that slot and     *)
(* continues with the stored parent.  Its flag ok is FALSE when the       *)
(* chain meets an object that is not a marked cons or function, or runs   *)
(* longer than there are objects.                                          *)
RECURSIVE Unreverse(_, _, _, _)
Unreverse(f, cur, child, fuel) ==
  CASE cur = NULL -> f
    [] fuel = 0 \/ cur \notin marked \/ cls[cur] \notin {"cons", "function"} ->
         [f EXCEPT !.ok = FALSE]
    [] cls[cur] = "function" ->
         Unreverse([f EXCEPT !.data[cur] = child], f.data[cur], cur, fuel - 1)
    [] tailIsNext[cur] ->
         Unreverse([f EXCEPT !.head[cur] = child], f.head[cur], cur, fuel - 1)
    [] OTHER ->
         Unreverse([f EXCEPT !.tail[cur] = child], f.tail[cur], cur, fuel - 1)

Restored ==
  Unreverse([ok |-> TRUE, head |-> head, tail |-> tail, data |-> data],
            parent, object,
            Cardinality(Obj))

(* The parent chain is a finite list of marked cons and function objects *)
(* ending in NULL, and undoing the reversal along it gives back exactly   *)
(* the child fields mark was called with: at every step of mark the heap  *)
(* graph is recoverable, which is what lets cons_mark_next and            *)
(* function_mark_next find the grandparent and restore the fields.        *)
ChainReconstructsHeap ==
  Restored = [ok |-> TRUE, head |-> head0, tail |-> tail0, data |-> data0]

(* The objects on the parent chain (busy in the code's proof).            *)
RECURSIVE ChainSet(_, _)
ChainSet(cur, fuel) ==
  IF cur = NULL \/ fuel = 0 THEN {}
  ELSE {cur} \cup ChainSet(CASE cls[cur] = "function" -> data[cur]
                             [] tailIsNext[cur]       -> head[cur]
                             [] OTHER                 -> tail[cur], fuel - 1)

(* Every marked object that is not on the parent chain has all of its     *)
(* original children marked, except the cons or function on top of the   *)
(* chain waiting for the current object: a marked object is never left    *)
(* with an unmarked child, so when mark returns the marked set is closed  *)
(* (heap_marking with the busy objects of mark_stack).                    *)
MarkedClosedOffChain ==
  LET busy == ChainSet(parent, Cardinality(Obj))
  IN  \A o \in marked \ busy :
        Children(cls, head0, tail0, data0, o) \subseteq marked

(* mark(root) returns: the traversal terminates on every heap graph,      *)
(* cyclic ones included.                                                   *)
Termination == <>(pc = "done")

(* The abstract marker: mark(root) as one step.                            *)
MarkAbs == INSTANCE Mark WITH
  head <- Restored.head, tail <- Restored.tail, data <- Restored.data,
  marked <- CASE ~Restored.ok  -> Ptr  \* a broken chain: no abstract state
              [] pc = "done"   -> marked
              [] OTHER         -> marked0,
  done <- pc = "done"

(* mark implements the abstract marker: it leaves the heap graph as it    *)
(* found it and marks exactly the objects reachable from the root on top  *)
(* of those already marked.  (That the abstract step happens at all is    *)
(* Termination.)                                                           *)
MarkRefinement == MarkAbs!SafetySpec

=============================================================================
