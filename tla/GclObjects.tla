----------------------------- MODULE GclObjects -----------------------------
(***************************************************************************)
(* The object model of gcl.c: every heap value starts with the header     *)
(* struct object { next, marked, class } and the class descriptor decides *)
(* which payload fields are child references.  The four built-in classes *)
(* expose these children (the `inv` predicates of the classes):           *)
(*   nil      : none                  (nil_inv)                           *)
(*   atom     : none, a string buffer (atom_inv)                          *)
(*   cons     : << head, tail >>      (cons_inv)                          *)
(*   function : << data >>            (function_inv)                      *)
(* The payload fields are kept as three functions over addresses: head   *)
(* and tail (struct cons), data (struct function).  A slot a class does   *)
(* not have holds NULL.                                                    *)
(***************************************************************************)
EXTENDS Naturals, FiniteSets

CONSTANTS
  Obj,       \* heap addresses an object may occupy (model values)
  NilValue,  \* &nil_value, the statically allocated nil singleton
  NULL       \* the null pointer

ASSUME NilValue \in Obj /\ NULL \notin Obj

Ptr == Obj \cup {NULL}

Classes == {"nil", "atom", "cons", "function"}

(* The child references the class of o exposes, read from the fields      *)
(* h (head), t (tail) and d (data).                                        *)
Children(cls, h, t, d, o) ==
  CASE cls[o] = "cons"     -> {h[o], t[o]}
    [] cls[o] = "function" -> {d[o]}
    [] OTHER               -> {}

(* The set of objects reachable from the set S.                           *)
RECURSIVE ReachableFrom(_, _, _, _, _)
ReachableFrom(cls, h, t, d, S) ==
  LET S2 == S \cup UNION {Children(cls, h, t, d, o) : o \in S}
  IN  IF S2 = S THEN S ELSE ReachableFrom(cls, h, t, d, S2)

(* A set of objects that contains the children of each of its members.   *)
IsClosed(cls, h, t, d, S) ==
  \A o \in S : Children(cls, h, t, d, o) \subseteq S

(* Well-formed payloads: only the slots of an object's class hold an      *)
(* object; the others hold NULL.  Only nil_value has class nil.           *)
WellFormedClasses(cls) ==
  \A o \in Obj : (cls[o] = "nil") <=> (o = NilValue)

SlotRange(cls, o, c) == IF cls[o] = c THEN Obj ELSE {NULL}

(* The values a slot field may hold for every object under class map cls. *)
SlotValues(cls, c) == {f \in [Obj -> Ptr] : \A o \in Obj : f[o] \in SlotRange(cls, o, c)}

WellFormedFields(cls, h, t, d) ==
  \A o \in Obj : /\ h[o] \in SlotRange(cls, o, "cons")
                 /\ t[o] \in SlotRange(cls, o, "cons")
                 /\ d[o] \in SlotRange(cls, o, "function")

=============================================================================
