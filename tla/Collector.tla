----------------------------- MODULE Collector -----------------------------
(***************************************************************************)
(* The heap of gcl.c seen by its collector: the heap list (heap_head,      *)
(* object_count), the root stack (roots_head, push_root, pop_root,         *)
(* set_root), the allocator (register_object called from create_atom,      *)
(* create_cons and create_function) and the collector driver gc() with its *)
(* mark loop over the root stack and its sweep of the heap list.           *)
(*                                                                         *)
(* The interpreter is an arbitrary client of this interface that respects  *)
(* its preconditions (every argument is an object of the heap list, only   *)
(* cells it pushed are popped, a rooted cell is written by set_root).      *)
(*                                                                         *)
(* One call of mark on *rs->head is one step, the abstract marker Mark,   *)
(* which the module SchorrWaite shows the pointer-reversal code            *)
(* implements; so tail_is_next, which only that code reads, is left out.   *)
(* Within gcl.c, gc() is called only from register_object.                *)
(***************************************************************************)
EXTENDS GclObjects, SequencesExt

CONSTANTS
  Cap,          \* the object cap: 10000 in register_object
  Locals,       \* cells of the interpreter (its local variables)
  NilRoot,      \* &nil_root
  OperandStack, \* &operand_stack
  ContStack,    \* &cont_stack
  ConsHead,     \* &head, parameter of create_cons
  ConsTail,     \* &tail, parameter of create_cons
  FunData       \* &data, parameter of create_function

Globals == {NilRoot, OperandStack, ContStack}
Params == {ConsHead, ConsTail, FunData}
Cells == Globals \cup Params \cup Locals

ASSUME /\ Cap \in Nat \ {0}
       /\ Cardinality(Cells) = Cardinality(Globals) + 3 + Cardinality(Locals)
       \* one block more than the cap: malloc never fails (its failure aborts)
       /\ Cardinality(Obj) > Cap

Kinds == {"atom", "cons", "function"}

VARIABLES
  heap,     \* the heap list from heap_head, linked through object->next
  count,    \* object_count
  cls,      \* object->class, "free" for a block not allocated
  head, tail, data,  \* child fields of cons and function objects
  marked,   \* objects whose marked bit is set
  roots,    \* the root stack from roots_head: cell addresses, top first
  cell,     \* the value each cell holds
  pc,       \* "idle" between calls, "register", "mark", "sweep", "recheck", "halted"
  pending,  \* the object register_object is installing
  kind,     \* its class
  dst,      \* the interpreter cell that receives it
  ret,      \* where gc() returns to: "idle" or "recheck" in register_object
  rs,       \* gc's cursor rs over the root stack (an index)
  h         \* gc's sweep cursor h over the heap list (an index)

vars == <<heap, count, cls, head, tail, data, marked, roots, cell, pc,
          pending, kind, dst, ret, rs, h>>

HeapSet == ToSet(heap)

RootedCells == ToSet(roots)

Reach(S) == ReachableFrom(cls, head, tail, data, S)

(* Objects reachable from the cells on the root stack.                    *)
Live == Reach({cell[c] : c \in RootedCells})

FreeBlocks == {o \in Obj : cls[o] = "free" /\ o # pending}

\* Fields of a block given back by dispose
Cleared(f, o) == [f EXCEPT ![o] = NULL]

-----------------------------------------------------------------------------
(* Mutation: init_globals forgets push_root(&nil_root).                 *)
InitNoNilRoot ==
  /\ heap = <<NilValue>>
  /\ count = 1
  /\ cls = [o \in Obj |-> IF o = NilValue THEN "nil" ELSE "free"]
  /\ head = [o \in Obj |-> NULL]
  /\ tail = [o \in Obj |-> NULL]
  /\ data = [o \in Obj |-> NULL]
  /\ marked = {}
  /\ roots = <<ContStack, OperandStack>>
  /\ cell = [c \in Cells |-> IF c \in Globals THEN NilValue ELSE NULL]
  /\ pc = "idle"
  /\ pending = NULL
  /\ kind = "atom"
  /\ dst = NULL
  /\ ret = "idle"
  /\ rs = 0
  /\ h = 0

(* init_globals: nil_value registered, then the roots nil_root,           *)
(* operand_stack and cont_stack pushed, each cell holding &nil_value.     *)
Init ==
  /\ heap = <<NilValue>>
  /\ count = 1
  /\ cls = [o \in Obj |-> IF o = NilValue THEN "nil" ELSE "free"]
  /\ head = [o \in Obj |-> NULL]
  /\ tail = [o \in Obj |-> NULL]
  /\ data = [o \in Obj |-> NULL]
  /\ marked = {}
  /\ roots = <<ContStack, OperandStack, NilRoot>>
  /\ cell = [c \in Cells |-> IF c \in Globals THEN NilValue ELSE NULL]
  /\ pc = "idle"
  /\ pending = NULL
  /\ kind = "atom"
  /\ dst = NULL
  /\ ret = "idle"
  /\ rs = 0
  /\ h = 0

(* gc(): start the mark loop at roots_head.                               *)
GcBegin(r) ==
  /\ pc' = "mark"
  /\ rs' = 1
  /\ ret' = r

-----------------------------------------------------------------------------
(* Interpreter calls.                                                      *)

(* create_atom: malloc an atom and call register_object.                  *)
CreateAtom(l) ==
  /\ pc = "idle"
  /\ \E a \in FreeBlocks :
       /\ pending' = a
       /\ kind' = "atom"
  /\ dst' = l
  /\ pc' = "register"
  /\ UNCHANGED <<heap, count, cls, head, tail, data, marked, roots, cell,
                 ret, rs, h>>

(* create_cons: malloc, store head and tail, push_root(&head),            *)
(* push_root(&tail), then register_object.                                 *)
CreateCons(l, hd, tl) ==
  /\ pc = "idle"
  /\ \E a \in FreeBlocks :
       /\ pending' = a
       /\ head' = [head EXCEPT ![a] = hd]
       /\ tail' = [tail EXCEPT ![a] = tl]
  /\ kind' = "cons"
  /\ cell' = [cell EXCEPT ![ConsHead] = hd, ![ConsTail] = tl]
  /\ roots' = Cons(ConsTail, Cons(ConsHead, roots))
  /\ dst' = l
  /\ pc' = "register"
  /\ UNCHANGED <<heap, count, cls, data, marked, ret, rs, h>>

(* create_function: malloc, store data, push_root(&data), then            *)
(* register_object.                                                        *)
CreateFunction(l, d) ==
  /\ pc = "idle"
  /\ \E a \in FreeBlocks :
       /\ pending' = a
       /\ data' = [data EXCEPT ![a] = d]
  /\ kind' = "function"
  /\ cell' = [cell EXCEPT ![FunData] = d]
  /\ roots' = Cons(FunData, roots)
  /\ dst' = l
  /\ pc' = "register"
  /\ UNCHANGED <<heap, count, cls, head, tail, marked, ret, rs, h>>

(* create_nil returns &nil_value.                                          *)
CreateNil(l) ==
  /\ pc = "idle"
  /\ cell' = [cell EXCEPT ![l] = NilValue]
  /\ UNCHANGED <<heap, count, cls, head, tail, data, marked, roots, pc,
                 pending, kind, dst, ret, rs, h>>

(* A local receives an object of the heap, as destruct_cons, pop, assoc   *)
(* and pop_cont hand them out.                                             *)
Load(l, v) ==
  /\ pc = "idle"
  /\ cell' = [cell EXCEPT ![l] = v]
  /\ UNCHANGED <<heap, count, cls, head, tail, data, marked, roots, pc,
                 pending, kind, dst, ret, rs, h>>

(* push_root(&l): l must hold an object of the heap.                      *)
PushRoot(l) ==
  /\ pc = "idle"
  /\ l \notin RootedCells
  /\ cell[l] \in HeapSet
  /\ roots' = Cons(l, roots)
  /\ UNCHANGED <<heap, count, cls, head, tail, data, marked, cell, pc,
                 pending, kind, dst, ret, rs, h>>

(* pop_root: the interpreter pops only cells it pushed.                   *)
PopRoot ==
  /\ pc = "idle"
  /\ roots # <<>>
  /\ Head(roots) \in Locals
  /\ roots' = Tail(roots)
  /\ UNCHANGED <<heap, count, cls, head, tail, data, marked, cell, pc,
                 pending, kind, dst, ret, rs, h>>

(* set_root(&c, v): c on the root stack (nil_root is never written).      *)
SetRoot(c, v) ==
  /\ pc = "idle"
  /\ c \in RootedCells \ {NilRoot}
  /\ cell' = [cell EXCEPT ![c] = v]
  /\ UNCHANGED <<heap, count, cls, head, tail, data, marked, roots, pc,
                 pending, kind, dst, ret, rs, h>>

(* parse: a cons whose head is still nil gets the expression as head,     *)
(* otherwise as tail.                                                      *)
ParseStore(o, v) ==
  /\ pc = "idle"
  /\ cls[o] = "cons"
  /\ IF head[o] = NilValue
     THEN head' = [head EXCEPT ![o] = v] /\ UNCHANGED tail
     ELSE tail' = [tail EXCEPT ![o] = v] /\ UNCHANGED head
  /\ UNCHANGED <<heap, count, cls, data, marked, roots, cell, pc,
                 pending, kind, dst, ret, rs, h>>

-----------------------------------------------------------------------------
(* register_object and gc().                                               *)

(* gc() called by a client: an entry point of the interface ("force a     *)
(* collection"), though gcl.c itself calls it only from register_object.  *)
Gc ==
  /\ pc = "idle"
  /\ GcBegin("idle")
  /\ UNCHANGED <<heap, count, cls, head, tail, data, marked, roots, cell,
                 pending, kind, dst, h>>

-----------------------------------------------------------------------------
(* Mutants: plausible slips in register_object and gc().                   *)

(* The collection loops back into register_object's first test, as in    *)
(* `while (object_count == cap) gc();`.                                    *)
RegisterGcRetry ==
  /\ pc = "register"
  /\ count = Cap
  /\ GcBegin("register")
  /\ UNCHANGED <<heap, count, cls, head, tail, data, marked, roots, cell,
                 pending, kind, dst, h>>

(* The second test of object_count against the cap is left out.           *)
RegisterLinkNoRecheck ==
  /\ pc \in {"register", "recheck"}
  /\ pc = "register" => count # Cap
  /\ count' = count + 1
  /\ heap' = Cons(pending, heap)
  /\ marked' = marked \ {pending}
  /\ cls' = [cls EXCEPT ![pending] = kind]
  /\ roots' = CASE kind = "cons"     -> Tail(Tail(roots))
                [] kind = "function" -> Tail(roots)
                [] OTHER             -> roots
  /\ cell' = [c \in Cells |-> CASE c = dst      -> pending
                                [] c \in Params -> NULL
                                [] OTHER        -> cell[c]]
  /\ pending' = NULL
  /\ dst' = NULL
  /\ pc' = "idle"
  /\ UNCHANGED <<head, tail, data, kind, ret, rs, h>>

(* The sweep keeps a marked object but leaves its mark set.               *)
SweepKeepNoUnmark ==
  /\ pc = "sweep"
  /\ h <= Len(heap)
  /\ heap[h] \in marked
  /\ h' = h + 1
  /\ UNCHANGED <<heap, count, cls, head, tail, data, marked, roots, cell, pc,
                 pending, kind, dst, ret, rs>>

-----------------------------------------------------------------------------
(* register_object: object_count == cap, so collect first.                *)
RegisterGc ==
  /\ pc = "register"
  /\ count = Cap
  /\ GcBegin("recheck")
  /\ UNCHANGED <<heap, count, cls, head, tail, data, marked, roots, cell,
                 pending, kind, dst, h>>

(* register_object below the cap: link the object at heap_head, clear its *)
(* mark, set its class; back in create_*, pop the roots pushed for its    *)
(* children and hand it to the caller.                                     *)
RegisterLink ==
  /\ pc \in {"register", "recheck"}
  /\ count # Cap
  /\ count' = count + 1
  /\ heap' = Cons(pending, heap)
  /\ marked' = marked \ {pending}
  /\ cls' = [cls EXCEPT ![pending] = kind]
  /\ roots' = CASE kind = "cons"     -> Tail(Tail(roots))
                [] kind = "function" -> Tail(roots)
                [] OTHER             -> roots
  \* the parameters go out of scope with the frame of create_*
  /\ cell' = [c \in Cells |-> CASE c = dst      -> pending
                                [] c \in Params -> NULL
                                [] OTHER        -> cell[c]]
  /\ pending' = NULL
  /\ dst' = NULL
  /\ pc' = "idle"
  /\ UNCHANGED <<head, tail, data, kind, ret, rs, h>>

(* register_object: still at the cap after gc(): error() aborts.          *)
RegisterFull ==
  /\ pc = "recheck"
  /\ count = Cap
  /\ pc' = "halted"
  /\ UNCHANGED <<heap, count, cls, head, tail, data, marked, roots, cell,
                 pending, kind, dst, ret, rs, h>>

(* gc mark loop: mark the object *rs->head, then rs = rs->tail.                          *)
GcMarkRoot ==
  /\ pc = "mark"
  /\ rs <= Len(roots)
  /\ marked' = marked \cup Reach({cell[roots[rs]]})
  /\ rs' = rs + 1
  /\ UNCHANGED <<heap, count, cls, head, tail, data, roots, cell, pc,
                 pending, kind, dst, ret, h>>

(* rs == 0: the sweep starts with h = &heap_head.                          *)
GcMarkDone ==
  /\ pc = "mark"
  /\ rs > Len(roots)
  /\ pc' = "sweep"
  /\ h' = 1
  /\ UNCHANGED <<heap, count, cls, head, tail, data, marked, roots, cell,
                 pending, kind, dst, ret, rs>>

(* sweep: a marked object stays; its mark is cleared.                     *)
SweepKeep ==
  /\ pc = "sweep"
  /\ h <= Len(heap)
  /\ heap[h] \in marked
  /\ marked' = marked \ {heap[h]}
  /\ h' = h + 1
  /\ UNCHANGED <<heap, count, cls, head, tail, data, roots, cell, pc,
                 pending, kind, dst, ret, rs>>

(* cons_dispose, atom_dispose, function_dispose: free the block (an atom  *)
(* first disposes its string buffer, which holds no object).               *)
FreeObject(o) ==
  /\ cls' = [cls EXCEPT ![o] = "free"]
  /\ head' = Cleared(head, o)
  /\ tail' = Cleared(tail, o)
  /\ data' = Cleared(data, o)
  /\ UNCHANGED pc

(* nil_dispose: abort().  nil_value is a static object, not a block.     *)
NilDispose ==
  /\ pc' = "aborted"
  /\ UNCHANGED <<cls, head, tail, data>>

(* Mutation: the sweep advances h after unlinking, as a loop with        *)
(* h = &o->next in both branches would.                                     *)
SweepFreeAdvance ==
  /\ pc = "sweep"
  /\ h <= Len(heap)
  /\ heap[h] \notin marked
  /\ LET o == heap[h] IN
       /\ count' = count - 1
       /\ heap' = RemoveAt(heap, h)
       /\ IF cls[o] = "nil" THEN NilDispose ELSE FreeObject(o)
  /\ h' = h + 1
  /\ UNCHANGED <<marked, roots, cell, pending, kind, dst, ret, rs>>

(* sweep: an unmarked object is unlinked and counted down, then its       *)
(* class's dispose is called through o->class->dispose.                    *)
SweepFree ==
  /\ pc = "sweep"
  /\ h <= Len(heap)
  /\ heap[h] \notin marked
  /\ LET o == heap[h] IN
       /\ count' = count - 1
       /\ heap' = RemoveAt(heap, h)
       /\ IF cls[o] = "nil" THEN NilDispose ELSE FreeObject(o)
  /\ UNCHANGED <<marked, roots, cell, pending, kind, dst, ret, rs, h>>

(* *h == 0: gc() returns; its locals rs and h go out of scope.            *)
SweepDone ==
  /\ pc = "sweep"
  /\ h > Len(heap)
  /\ pc' = ret
  /\ rs' = 0
  /\ h' = 0
  /\ UNCHANGED <<heap, count, cls, head, tail, data, marked, roots, cell,
                 pending, kind, dst, ret>>

-----------------------------------------------------------------------------
UnrootedLocals == Locals \ RootedCells

Mutator ==
  \/ \E l \in UnrootedLocals : CreateAtom(l) \/ CreateNil(l)
  \/ \E l \in UnrootedLocals, hd, tl \in HeapSet : CreateCons(l, hd, tl)
  \/ \E l \in UnrootedLocals, d \in HeapSet : CreateFunction(l, d)
  \/ \E l \in UnrootedLocals, v \in HeapSet : Load(l, v)
  \/ \E l \in Locals : PushRoot(l)
  \/ PopRoot
  \/ \E c \in Cells, v \in HeapSet : SetRoot(c, v)
  \/ \E o, v \in HeapSet : ParseStore(o, v)
  \/ Gc

Internal ==
  \/ RegisterGc
  \/ RegisterLink
  \/ RegisterFull
  \/ GcMarkRoot
  \/ GcMarkDone
  \/ SweepKeep
  \/ SweepFree
  \/ SweepDone

Next == Mutator \/ Internal

(* One thread: a call, once made, runs on until it returns or aborts; the *)
(* interpreter may stop calling at any time.                               *)
Spec == Init /\ [][Next]_vars /\ WF_vars(Internal)

-----------------------------------------------------------------------------
TypeOK ==
  /\ heap \in Seq(Obj)
  /\ count \in 0..Cap
  /\ cls \in [Obj -> Classes \cup {"free"}]
  /\ head \in [Obj -> Ptr] /\ tail \in [Obj -> Ptr] /\ data \in [Obj -> Ptr]
  /\ marked \subseteq Obj
  /\ roots \in Seq(Cells)
  /\ cell \in [Cells -> Ptr]
  /\ pc \in {"idle", "register", "mark", "sweep", "recheck", "halted",
            "aborted"}
  /\ pending \in Ptr
  /\ kind \in Kinds
  /\ dst \in Locals \cup {NULL}
  /\ ret \in {"idle", "recheck"}
  /\ rs \in Nat /\ h \in Nat

(* The heap list is what the collector takes it to be: object_count is    *)
(* its length and never passes the cap, no object is linked twice, the    *)
(* allocated blocks are exactly the linked objects (the object being      *)
(* registered aside), and outside gc() no object is marked, so the next   *)
(* collection starts from clear marks.                                     *)
HeapListConsistent ==
  /\ count = Len(heap)
  /\ count <= Cap
  /\ IsInjective(heap)
  /\ {o \in Obj : cls[o] # "free"} = HeapSet
  /\ pc \notin {"mark", "sweep"} => marked = {}

(* The abstract collector: while gc() runs, the interpreter already sees  *)
(* the heap it will return, the live objects; when gc() returns the heap  *)
(* list must be exactly that set.                                          *)
GcAbs == INSTANCE GarbageCollection WITH
  allocated <- IF pc \in {"mark", "sweep"} THEN Live ELSE HeapSet,
  live <- Live,
  collecting <- pc \in {"mark", "sweep"}

(* The collector implements GarbageCollection: when gc() returns, the     *)
(* heap list holds exactly the objects reachable from the root stack (no  *)
(* garbage left behind by the sweep), nothing else is ever freed, the     *)
(* heap grows only by the object register_object links,                   *)
(* and no object reachable from a rooted cell is ever unallocated, also   *)
(* when register_object collects while the new object's children are held *)
(* only by the roots create_cons and create_function pushed.               *)
GcRefinement == GcAbs!Spec

(* Every call into the collector returns, or aborts with the cap reached. *)
CallsReturn ==
  (pc \notin {"idle", "halted", "aborted"}) ~> (pc \in {"idle", "halted", "aborted"})

(* The sweep never calls nil_dispose, whose abort() would end the          *)
(* interpreter: nil_value is marked in every collection, because           *)
(* init_globals pushes nil_root below every other root, no pop_root ever   *)
(* removes it, no set_root rewrites it, and the mark loop runs down to the  *)
(* bottom of the root stack before the sweep starts.                        *)
NilNeverDisposed == pc # "aborted"

=============================================================================
