---------------------------- MODULE CollectorSW ----------------------------
(***************************************************************************)
(* gc() of gcl.c with its mark loop running the pointer-reversal marker   *)
(* step by step: the composition of Collector (the heap list, the         *)
(* allocator, the root stack, the mark loop and the sweep) with           *)
(* SchorrWaite (mark and the class callbacks).  Each call                 *)
(* mark(rs->head) at line 562 runs the actions of SchorrWaite on the      *)
(* collector's own heap, marks and tail_is_next fields, interleaved with   *)
(* nothing (the program is single-threaded), and the loop moves to the    *)
(* next root when mark returns.                                            *)
(*                                                                         *)
(* Collector takes each mark call as one atomic step; this module is      *)
(* shown to implement Collector, so the properties checked of Collector   *)
(* (HeapListConsistent, GcRefinement) hold of the step-level collector    *)
(* too.                                                                    *)
(***************************************************************************)
EXTENDS GclObjects, SequencesExt

CONSTANTS Cap, Locals, NilRoot, OperandStack, ContStack, ConsHead, ConsTail,
          FunData

VARIABLES
  heap, count, cls, head, tail, data, marked, roots, cell, pc, pending,
  kind, dst, ret, rs, h,   \* as in Collector
  tailIsNext,  \* struct cons tail_is_next
  object,      \* mark's local object
  parent,      \* mark's local parent
  mpc,         \* mark's label: "idle" outside mark, "start_marking",
               \* "mark_next", "done" after its return
  root, marked0, head0, tail0, data0
               \* history of the running mark call: its argument and the
               \* marks and fields at entry (reset when it returns)

collectorVars == <<heap, count, cls, head, tail, data, marked, roots, cell,
                   pc, pending, kind, dst, ret, rs, h>>
markVars == <<tailIsNext, object, parent, mpc, root, marked0, head0, tail0,
              data0>>
NoFields == [o \in Obj |-> NULL]
vars == <<collectorVars, markVars>>

C == INSTANCE Collector

(* The marker on the collector's heap.                                     *)
SW == INSTANCE SchorrWaite WITH pc <- mpc

(* Only nil_value exists at the start; each cons gets its tail_is_next    *)
(* when it is created (NewConsFlag).                                       *)
Init ==
  /\ C!Init
  /\ tailIsNext = [o \in Obj |-> FALSE]
  /\ object = NULL
  /\ parent = NULL
  /\ mpc = "idle"
  /\ root = NULL
  /\ marked0 = {}
  /\ head0 = NoFields /\ tail0 = NoFields /\ data0 = NoFields

-----------------------------------------------------------------------------
(* Mutation: the loop skips the root after the one just marked.            *)
GcMarkReturnSkip ==
  /\ pc = "mark"
  /\ mpc = "done"
  /\ rs' = rs + 2
  /\ mpc' = "idle"
  /\ object' = NULL
  /\ root' = NULL
  /\ marked0' = {}
  /\ head0' = NoFields /\ tail0' = NoFields /\ data0' = NoFields
  /\ UNCHANGED <<heap, count, cls, head, tail, data, marked, roots, cell, pc,
                 pending, kind, dst, ret, h, tailIsNext, parent>>

(* gc mark loop, rs != 0: call mark(rs->head).                             *)
GcMarkCall ==
  /\ pc = "mark"
  /\ mpc = "idle"
  /\ rs <= Len(roots)
  /\ object' = cell[roots[rs]]
  /\ parent' = NULL
  /\ mpc' = "start_marking"
  /\ root' = cell[roots[rs]]
  /\ marked0' = marked
  /\ head0' = head /\ tail0' = tail /\ data0' = data
  /\ UNCHANGED <<collectorVars, tailIsNext>>

(* A step of mark, on the collector's heap and marks.                     *)
GcMarkStep ==
  /\ pc = "mark"
  /\ mpc \in {"start_marking", "mark_next"}
  /\ SW!Next
  /\ UNCHANGED <<heap, count, roots, cell, pc, pending, kind, dst, ret, rs, h>>

(* mark returned: rs = rs->tail; its locals go out of scope.               *)
GcMarkReturn ==
  /\ pc = "mark"
  /\ mpc = "done"
  /\ rs' = rs + 1
  /\ mpc' = "idle"
  /\ object' = NULL
  /\ root' = NULL
  /\ marked0' = {}
  /\ head0' = NoFields /\ tail0' = NoFields /\ data0' = NoFields
  /\ UNCHANGED <<heap, count, cls, head, tail, data, marked, roots, cell, pc,
                 pending, kind, dst, ret, h, tailIsNext, parent>>

(* create_cons does not write tail_is_next: the malloc'd block holds       *)
(* whatever its previous occupant left there, so the new cons gets either  *)
(* value.                                                                  *)
NewConsFlag ==
  \E b \in BOOLEAN :
    tailIsNext' = IF pc = "idle" /\ pc' = "register" /\ kind' = "cons"
                  THEN [tailIsNext EXCEPT ![pending'] = b]
                  ELSE tailIsNext

(* The rest of Collector, which leaves mark's other state alone.          *)
CollectorStep ==
  /\ mpc = "idle"
  /\ \/ C!Mutator
     \/ C!RegisterGc \/ C!RegisterLink \/ C!RegisterFull
     \/ C!GcMarkDone
     \/ C!SweepKeep \/ C!SweepFree \/ C!SweepDone
  /\ NewConsFlag
  /\ UNCHANGED <<object, parent, mpc, root, marked0, head0, tail0, data0>>

Internal ==
  \/ C!RegisterGc \/ C!RegisterLink \/ C!RegisterFull \/ C!GcMarkDone
  \/ C!SweepKeep \/ C!SweepFree \/ C!SweepDone
  \/ GcMarkCall \/ GcMarkStep \/ GcMarkReturn

Next == GcMarkCall \/ GcMarkStep \/ GcMarkReturn \/ CollectorStep

(* As in Collector: once called, register_object and gc() run on; the     *)
(* interpreter may stop calling.                                           *)
Spec == Init /\ [][Next]_vars /\ WF_vars(Internal)

-----------------------------------------------------------------------------
(* SchorrWaite's invariants of one mark call, now on the heap the         *)
(* collector built, with the marks left by the earlier roots of the same   *)
(* gc() and the stale tail_is_next of reused blocks: the reversed chain     *)
(* gives back the fields mark was called with, and no marked object off    *)
(* the chain has an unmarked child.                                         *)
MarkInvariants ==
  mpc # "idle" => SW!ChainReconstructsHeap /\ SW!MarkedClosedOffChain

(* The heap graph as it is outside mark: the reversal along the parent    *)
(* chain undone.                                                           *)
Restored == SW!Restored

(* The collector with atomic marking, seen from this one: while a mark    *)
(* call runs, the fields are the restored ones, the root it marks counts  *)
(* as marked already, with everything reachable from it, and rs as moved  *)
(* past it.                                                                *)
Atomic == INSTANCE Collector WITH
  head <- Restored.head, tail <- Restored.tail, data <- Restored.data,
  marked <- IF mpc = "idle" THEN marked
            ELSE marked0 \cup ReachableFrom(cls, head0, tail0, data0, {root}),
  rs <- IF mpc = "idle" THEN rs ELSE rs + 1

(* Running mark step by step inside gc() implements the collector that    *)
(* marks each root in one step: between the steps of one mark call no     *)
(* other code runs that sees the reversed fields, each call marks exactly *)
(* what is reachable from its root on top of the earlier marks (objects   *)
(* marked by an earlier root stop the traversal), and the fields are      *)
(* restored before the sweep reads the marks.  With Collector's           *)
(* GcRefinement this makes the step-level collector free exactly the      *)
(* unreachable objects.                                                    *)
CollectorRefinement == Atomic!Init /\ [][Atomic!Next]_(Atomic!vars)

=============================================================================
