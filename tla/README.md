# TLA+ models of the gcl.c garbage collector

`src/examples/gcl.c` is a small Lisp interpreter (GCL) verified with VeriFast.
Its core is a mark-sweep garbage collector. The marker is the Schorr–Waite
pointer-reversal algorithm, and the mutator keeps its transient references
alive by pushing the addresses of its local cells on a root stack. This
directory holds TLA+ modules for the collector and the TLC configurations that
check them.

## 1. The system (inventory)

Everything is single-threaded (spec §5). No callback is re-entered, and `mark`
and `gc` run to completion. The hard behaviours are therefore not thread
interleavings. They are long sequences of legal calls, the order of steps
inside one call, the pointer reversal inside `mark`, and the collection that
`register_object` starts in the middle of an allocation.

| part | code (gcl.c) | state | operations |
|---|---|---|---|
| object model, classes | `struct object`, `struct class`, class tables 843, 952, 1057, 1341 | `next`, `marked`, `class` header; payload per class | the callbacks `start_marking`, `mark_next`, `dispose` |
| built-in classes | nil 807–850, cons 862–977, atom 1005–1081, function 1269–1363 | cons: `head`, `tail`, `tail_is_next`; function: `apply`, `data`; atom: a string buffer | `*_start_marking`, `*_mark_next`, `*_dispose`, `create_*` |
| Schorr–Waite marker | `mark` 413–527 | the locals `object`, `parent` and the label; the reversed fields; the mark bits | `start_marking`: mark the object and descend; `mark_next`: advance or pop |
| collector driver | `gc` 529–668 | the cursors `rs` (root stack) and `h` (heap list) | mark every root, then sweep: keep and unmark, or unlink, count down and dispose |
| allocator | `register_object` 698–737 | `heap_head`, `object_count`, cap 10000 | collect at the cap, test again, `error`, link |
| root stack | `stack_push`/`stack_pop` 85–117; `push_root`, `set_root`, `pop_root` 312–356; `_g` wrappers 767–806 | `roots_head`: a stack of cell addresses | push, write a rooted cell, pop |
| interpreter stacks | `push`, `pop`, `push_cont`, `pop_cont` 1173–1263 | `operand_stack`, `cont_stack` (global roots holding cons lists) | allocate a cons, rebind the root |
| parser | `parse` 1083–1168 | `parent` cons chain | `create_atom`/`create_cons`; store into head or tail |
| evaluator, REPL | `apply`, `eval`, built-ins 1365–1671, `main` 1751–1802 | continuation and operand stacks | trampoline: pop a continuation, apply it |
| tokenizer, string buffers | not in `src/` | – | I/O |

The interactions are these. Every allocation calls `register_object`, which
may call `gc()`. `gc()` calls `mark` on every root-stack entry, and `mark`
dispatches to the class callbacks. The mutator (parser, evaluator, REPL)
interacts with the collector only through the root stack and the constructors.

## 2. Plan

The modules, in order of dependence:

1. `GclObjects`: the object model. Child references per class, reachability
   (`ReachableFrom`, RECURSIVE), and well-formed heaps.
2. `Mark`: the abstract marker. `mark(root)` is one atomic step that marks
   exactly the closure of `root` and leaves every field unchanged.
3. `SchorrWaite`: `mark` step by step, as the callbacks execute it. It is
   checked against `Mark` through a refinement mapping that undoes the
   pointer reversal (`Unreverse`).
4. `GarbageCollection`: the abstract collector. It has two sets,
   `allocated` and `live`, and a phase `collecting`. A collection sets
   `allocated` to `live` in one step, and `gc()` returns with exactly that
   set. Outside a collection the heap grows only by one fresh object at a
   time. No step frees anything else or leaves a live object unallocated.
5. `Collector`: the heap list, `object_count`, the root stack, the allocator
   and `gc()`. The mutator is an arbitrary client that respects the
   preconditions. Each call of `mark` is one step, taken from `Mark` (shown
   correct in step 3). `Collector` is checked against `GarbageCollection`.

6. `Interpreter` (done): the real mutator over the abstract collector. It
   covers `main`'s setup and REPL loop, `parse`'s token loop, the operand and
   continuation stacks as cons lists in the heap, the trampoline of
   `pop_cont`/`apply`, `eval`, `pop_apply` and the built-ins. Properties: no
   rooted or in-use reference dangles across an allocation (the rooting
   discipline at 1396, 1479, 1544, 1556, 1648, 1798), the operand stack
   never underflows, roots stay balanced, the output is right, the
   continuation stack drains.

For later sittings:

7. A reference parse (done): `ParseMatchesGrammar` in `Interpreter`.
8. `CollectorSW` (done): `SchorrWaite` run step by step inside `Collector`'s
   mark loop. It is shown to implement `Collector`, and `SchorrWaite`'s
   invariants hold on the collector's heap.

## 3. Modules and their correspondence to the code

### GclObjects

- `Obj`: the addresses.
- `NilValue`: `&nil_value`.
- `NULL`: the null pointer.
- A payload field is a function from addresses: `head`, `tail`, `data`.
- `Children` is what each class's `inv` predicate exposes.

### SchorrWaite (mark)

- `object` and `parent` are `mark`'s locals.
- `pc` is the label (`start_marking`, `mark_next`, or `done` after the return).
- `tailIsNext` is the cons cursor.
- The ghosts `root`, `marked0`, `head0`, `tail0`, `data0` record the entry state.

There is one action per branch of the code:

| action | code |
|---|---|
| `StartMarkingMarked` | 443–456 |
| `StartMarkingLeaf` | nil and atom `start_marking` return false |
| `StartMarkingCons` | 894–913 |
| `StartMarkingFunction` | 1293–1311 |
| `MarkNextReturn` | `parent == 0` |
| `MarkNextConsTail` | 927–934 |
| `MarkNextConsDone` | 935–941 |
| `MarkNextFunction` | 1323–1328 |

`Init` is any well-formed heap of the four classes, with any set already
marked that is closed under children. That is the `heap_marking` state an
earlier root of the same `gc()` leaves. `tail_is_next` starts arbitrary,
because `create_cons` never writes it.

### Mark

`MarkRoot` is `mark`'s contract, strengthened to the exact marked set (spec §8:
"the marked bit is true for exactly the transitive closure of root").

### Collector

| variable | code |
|---|---|
| `heap` | the list from `heap_head`, top first |
| `count` | `object_count` |
| `cls` | `object->class`; `"free"` for a block not allocated |
| `head`, `tail`, `data` | the payload fields |
| `marked` | the mark bits |
| `roots` | the root stack, top first |
| `cell` | the contents of each root-able cell |

The cells are of three kinds:

- the globals `nil_root`, `operand_stack` and `cont_stack`;
- the parameters `&head`/`&tail` of `create_cons` and `&data` of
  `create_function`;
- the interpreter's locals.

`pc`, `pending`, `kind`, `dst`, `ret`, `rs` and `h` are the control state of a
call in progress.

Mutator actions (only while no call is in progress):

- `CreateAtom`, `CreateCons`, `CreateFunction`: malloc a free block and store
  the children. Cons and function push roots for the children, then call
  `register_object`.
- `CreateNil`.
- `Load`: a local receives a heap object, as `pop`, `pop_cont`,
  `destruct_cons` and `assoc` hand them out.
- `PushRoot`, `PopRoot`, `SetRoot`.
- `ParseStore`: `parse` writes into a cons.
- `Gc`: `gc()` as an entry point (spec §6).

Collector actions:

- `RegisterGc`: 714–719.
- `RegisterLink`: 722–726, then the `pop_root`s of `create_*`.
- `RegisterFull`: `error` at 720–721.
- `GcMarkRoot`: one `mark`, as `Mark`'s step.
- `GcMarkDone`.
- `SweepKeep`: 618–620.
- `SweepFree`: 638–653, with the class's `dispose` called through
  `o->class->dispose`. `FreeObject` is the `dispose` of cons, atom and
  function (`free`, 944–950). `NilDispose` is `nil_dispose`'s `abort()`
  (836–841), which ends in the terminal label `aborted`.
- `SweepDone`.

### GarbageCollection

The actions are these:
- `Collect` is the entry into `gc()`, as the mutator sees it: `allocated`
  becomes `live`.
- `Return` is the return of `gc()`, which must change nothing more.
- `Allocate` is `register_object` linking one object that was not
  allocated.
- `Mutate` is any other step of the mutator; it may only root allocated
  objects.

`collecting` is mapped to `pc` being `mark` or `sweep`. So a sweep that
leaves garbage on the heap list makes `SweepDone` grow `allocated` while
collecting, and no abstract step allows that.

### Interpreter

The interpreter as the collector's mutator. Each action is the code between
two allocations, so a collection can only fall where the code allocates. The
collector is `GarbageCollection`, which `Collector` is shown to implement: in
`NewObject` (`register_object`) the allocation first either collects or not,
nondeterministically. A collection keeps exactly what is reachable from the
cells on the root stack and from the arguments that `create_cons` and
`create_function` push as roots. Which allocation hits the cap depends on the
garbage left by earlier expressions, so any allocation may be the one that
collects. Addresses are never reused (`next`), so a cell that still points
into a freed block shows up as a dangling reference.

- **State.**
  - The heap: `alloc`, `cls`, `head`, `tail`, `data`; `fn` is a function
    object's `apply`; `name` holds an atom's characters, one model value per
    name.
  - The root stack, `roots`, is a sequence of cell names. `cell` holds every
    C local and global pointer, named `<function>_<local>`. The globals are
    `nil_root`, `operand_stack` and `cont_stack`.
  - `pc` is the label the program is at. `bi` says which of main's three
    `map_cons_s_func_nil` calls is running.
  - `mcMap` and `mcRet` are `map_cons`'s map parameter and its caller. They
    are shared because `map_cons` is called from main and from
    `fun_apply_function`.
  - `input`/`output` are the token stream and the printed atoms. `program` is
    the standard input being read.
- **Actions.**

  | code | actions |
  |---|---|
  | `main` setup | `MainForms`, `MsfFunction`/`MsfAtom` (`map_cons_s_func_nil`, `map_cons_s`), `McEntry`/`McCons` (`map_cons`), `MainEnv`, `MainEnvs` |
  | `parse` | `ParseStart`, `ParseAtom`, `ParseOpen`, `ParseSyntaxError`, `ParseReturn`, `ParseHead`, `ParseTail` |
  | REPL loop | `MainData`, `MainCont`, `MainPushCont`, `MainPopCont`, `MainContEmpty`, `MainPop` |
  | trampoline | `Apply`, `PopApply`, `RuntimeError` (apply of a non-function) |
  | `eval` | `EvalAtom`, `EvalForm`, `EvalFormPush`; the application branch is `EvalApp` then `EvalSteps` (three `push_cont`, two `create_cons`, two `create_function`, in the code's order) |
  | built-ins | `QuoteFunction`, `FunFunction`, `FunPush`, `PrintAtom`, `FunApplyFunction`, `FaNewEnvs`, `FaNewData`, `FaNewFunction`, `FaPushCont` |
  | input errors | `EvalError`: an unbound atom, a non-atom given to `print_atom`, a malformed `fun` |

- **Helpers.** `Assoc` (RECURSIVE) and `AtomEquals` translate `assoc` and
  `atom_equals`.

### CollectorSW

This module composes `Collector` with `SchorrWaite`. `C == INSTANCE Collector`
and `SW == INSTANCE SchorrWaite WITH pc <- mpc` share the heap, the mark bits
and the child fields.

- **Mark loop.** Each `mark(rs->head)` call of `gc()`'s mark loop (gcl.c:562)
  has three steps:
  - `GcMarkCall` sets `object` to the root and `parent` to 0.
  - `GcMarkStep` is `SW!Next`, so `start_marking` and `mark_next` reverse
    and restore the collector's own fields.
  - `GcMarkReturn` runs `rs = rs->tail` (564).
- **Other steps.** Every other step is `Collector`'s own (`CollectorStep`),
  taken only while no mark call is running.
- **History variables.** `root`, `marked0`, `head0`, `tail0` and `data0`
  record the running call's argument and its entry state. They are reset
  when it returns.
- **`tail_is_next`.** `create_cons` never writes it, so a new cons gets
  either value (`NewConsFlag`), whatever the block's previous occupant
  left. `cons_start_marking` writes it before any read, and the marker
  leaves it FALSE on every cons it finishes.
- **Refinement mapping to `Collector`.** While a mark call runs:
  - the fields are `SchorrWaite`'s `Restored` (the reversal undone);
  - `marked` is the marks at entry plus everything reachable from the root;
  - `rs` has already moved past the root.

  So the atomic `GcMarkRoot` happens at the call.

## 4. Runs

| run | cfg | checks | result |
|---|---|---|---|
| `sw_safety` | `MCSchorrWaite.cfg` | `TypeOK`, `ChainReconstructsHeap`, `MarkedClosedOffChain`, `Termination` | pass, about 4.0M distinct states, about 1¼ min |
| `sw_refines` | `MCSchorrWaiteRefines.cfg` | `MarkRefinement` (`Mark!SafetySpec`) | pass, about 35 s |
| `collector_safety` | `MCCollector.cfg` | `TypeOK`, `NilNeverDisposed`, `HeapListConsistent` | pass, 490k distinct states, about 10 s |
| `collector_refines` | `MCCollectorRefines.cfg` | `GcRefinement` | pass, 490k distinct states, about 10 s |
| `collector_liveness` | `MCCollectorLive.cfg` | `CallsReturn` | pass, 2.9M distinct states, about 2 min |
| `collector_sw` | `MCCollectorSW.cfg` | `MarkInvariants`, `CollectorRefinement` | pass, 5.6M distinct states, about 3 min |
| `interpreter` | `MCInterpreter.cfg` | `NoDanglingReference`, `NoStackUnderflow`, `RootsBalanced`, `OutputAsExpected`, `ParseMatchesGrammar`, `Termination` | pass, 4.4k distinct states, depth 224, about 5 s |

### What each property says

- **`ChainReconstructsHeap`.** At every step of `mark`, walking the reversed
  chain from `parent` and putting each visited child back gives exactly the
  fields at entry. This is why `cons_mark_next` and `function_mark_next` can
  find the grandparent. It also covers "child pointers bit-identical after
  mark" from spec §8.
- **`MarkedClosedOffChain`.** No marked object off the parent chain has an
  unmarked child, so the marked set is closed when `mark` returns.
- **`Termination`.** `mark` returns on every graph, cyclic ones included.
- **`MarkRefinement`.** `mark` implements the atomic marker.
- **`HeapListConsistent`.** The following hold together:
  - `object_count` equals the length of the heap list and never exceeds the cap.
  - No object is linked twice.
  - The allocated blocks are exactly the listed objects.
  - No object is marked outside `gc()`.

  The VeriFast proof leaves `object_count` unconstrained (gcl.c:235), so this
  is checked here and nowhere else.
- **`GcRefinement`.** The collector implements `GarbageCollection`:
  - When `gc()` returns, the heap list holds exactly the objects reachable
    from the root stack. A sweep that leaves garbage is caught.
  - No other step frees anything, and outside `gc()` the heap grows only by
    the one object `register_object` links.
  - No object reachable from a rooted cell is ever unallocated, including when
    `register_object` collects while the new object's children are held only by
    the parameter roots.

  Its run is separate from `collector_safety`. A sweep slip usually breaks
  `HeapListConsistent` too, and TLC reports an invariant first.
- **`NilNeverDisposed`.** The sweep never calls `nil_dispose`, whose
  `abort()` would end the interpreter. `nil_value` is static, and the only
  thing that keeps it marked is `nil_root`. So this depends on four things:
  - `init_globals` pushes `nil_root` first;
  - no `pop_root` removes it;
  - no `set_root` rewrites it;
  - the mark loop runs down to the bottom entry.

  The `dispose` branch that aborts is an IF inside `SweepFree`. It never
  fires in a passing run, which is exactly what this property checks.
- **`CallsReturn`.** Every call into `register_object` or `gc()` returns, or
  aborts at the cap.
- **`MarkInvariants`** (CollectorSW). While a mark call runs inside `gc()`,
  `SchorrWaite`'s `ChainReconstructsHeap` and `MarkedClosedOffChain` hold
  on the heap the allocator actually built. That heap carries the marks the
  earlier roots of the same `gc()` left, and the stale `tail_is_next` of
  blocks reused after a sweep. The `SchorrWaite` run assumed such a
  pre-marked heap. Here the collector provides it.
- **`CollectorRefinement`.** The step-level collector implements `Collector`
  (`Init /\ [][Next]_vars` of the instance under the mapping above). Every
  mark call marks exactly the closure of its root on top of the earlier
  marks. The fields are restored before the sweep reads the marks.
  `GcRefinement` and `HeapListConsistent` therefore carry over.
- **`NoDanglingReference`** (Interpreter). Everything reachable from the root
  stack, and from the locals the code at the current label still reads
  (`InUse`), is allocated, whichever allocations collected. This covers:
  - the function and data that `pop_apply` (1396) and `main` (1798) apply
    while they are unrooted;
  - `map_cons_s`'s `push_root_g(&value)`;
  - `eval`'s root for `form` and its three roots across six allocations;
  - `fun_apply_function`, which leaves `arg` and `param` unrooted until
    `map_cons` allocates.

  It holds: each of those is rooted, or reachable from a root, at every
  allocation.
- **`NoStackUnderflow`.** Every `pop` finds a value, so the underflow `error`
  at 1198 is dead. Every expression and every built-in pushes exactly one
  value.
- **`RootsBalanced`.** Whenever control is back in the trampoline, the root
  stack is exactly main's. Every handler pops the roots it pushed.
- **`OutputAsExpected`.** The printed atoms are always a prefix of what the
  program should print, and all of it at the end. This checks `eval`, `assoc`,
  the closures of `fun` and the built-ins. It says nothing about the
  collector: in `Interpreter` a freed object keeps its class and fields,
  and only `NoDanglingReference` reads `alloc`. So a collection that frees
  too much shows up only in `NoDanglingReference`.
- **`ParseMatchesGrammar`.** When `parse` returns, the heap below `expr`
  is the tree that the grammar `expr ::= symbol | ( expr expr )` gives for the
  last expression read. The reference is `ParseOne`/`ParseAll`, RECURSIVE
  operators over the tokens consumed. `parse` threads its open pairs through
  the `tail` fields and overwrites them when a pair closes; collections fall
  between its allocations.
- **`Termination`.** The REPL always reaches the end it should: the end of the
  stream, or the `error()` the input provokes. The continuation stack always
  drains.

Every property has a mutant in `PROJECT.json`: an operator defined before the
action it replaces, containing a plausible slip in the code. TLC finds the
property violated under the run's own cfg in each case:

- a flag not cleared;
- a missing pointer reversal;
- a leaf test over all classes;
- a missing return;
- the second cap test dropped;
- a mark not cleared;
- the sweep advancing `h` after a free, which skips the next object
  (`GcRefinement`);
- `init_globals` not pushing `nil_root` (`NilNeverDisposed`);
- `gc()` retried in a loop;
- in CollectorSW:
  - the loop skipping a root (`CollectorRefinement`);
  - `cons_start_marking` not reversing `head` (`MarkInvariants`), as a
    mutant of `SchorrWaite` run under the composite's cfg;
- in Interpreter:
  - `push_root_g(&arg_expr)` dropped in `eval` (`NoDanglingReference`);
  - `print_atom` not pushing its result (`NoStackUnderflow`);
  - one `pop_root_g()` missing in `fun_apply_function` (`RootsBalanced`);
  - the parameter bound to itself (`OutputAsExpected`);
  - a closing element stored into the head instead of the tail (`ParseMatchesGrammar`);
  - `pop_cont` not unlinking the continuation (`Termination`).

### Bounds

- **`SchorrWaite`.** Four addresses, one of them `nil_value`. All
  well-formed heaps are covered: every class assignment, every field value, and
  every closed pre-marked set, from every root. That includes self-loops,
  two-cycles through head and tail, shared children and chains of three. Four
  objects are enough for a cons whose head and tail both lead back into the
  chain.
- **`Collector`.**
  - Four addresses and `Cap = 3`. The cap counts `nil_value`, so it is
    reached after two allocations. At that point gc runs, and the run reaches
    `RegisterFull` when everything is rooted.
  - One interpreter local, plus the three global roots and the three parameter
    cells.
  - One address more than the cap: `malloc` failure aborts in the code
    (`abort()` at 961, 1066, 1348) and is not modelled.
  - Two locals give 11.6M states in about 3½ min, with no new kind of
    behaviour; the parameters and globals already give several roots.
  - `MCCollector.cfg` and `MCCollectorRefines.cfg` use symmetry over the three non-nil addresses (`malloc`
    may return any free block). Every property there is a safety property and
    symmetric in those addresses. The liveness run does not use symmetry.

- **`CollectorSW`.** The bounds are those of `MCCollector`, with the same
  symmetry: four addresses, `Cap = 3`, one local. Two objects plus `nil` can
  form a cons whose head is a cons, and the parameter roots allow sharing and
  cycles made by `ParseStore`. This is enough for reversal chains two deep
  over marks left by an earlier root.
- **`Interpreter`.** The inputs are nine GCL programs, chosen so that every
  action and every branch fires:
  - `(print_atom (quote Hello))`, then `(print_atom ((fun (x x)) (quote A)))`,
    then `((fun (y (print_atom y))) (quote B))`. The last applies a closure
    whose body is itself an application, in an extended environment.
  - `(print_atom (((fun (x (fun (y x)))) (quote A)) (quote B)))`. The outer
    function returns a closure whose `data` holds the environment binding
    `x`. Only that closure keeps the environment alive while `(quote B)` is
    evaluated and the closure applied.
  - One input per reachable `error()`: an unbound atom after a first
    expression, applying an atom, printing a cons, `fun` without a parameter
    pair, a non-atom parameter, a pair missing its `)`, and a stray `)`.

  Addresses run to `MaxAddr = 127`, which is exactly enough: the longest
  program makes 126 allocations after `nil_value`. With 126 the liveness check
  fails for lack of memory. Every allocation may collect, and that covers
  every position of the cap.

### Fairness

- **`SchorrWaite`.** `WF_vars(Next)`. `mark` runs to completion inside `gc()`
  (spec §5), and nothing else runs.
- **`Collector`.** `WF_vars(Internal)` on the steps of `register_object` and
  `gc()` only. Once called, they run on. The client may stop calling at any
  time, so the mutator gets no fairness.
- **`CollectorSW`.** `WF_vars(Internal)`, as in `Collector`. The run checks
  safety only. `mark`'s termination is `SchorrWaite`'s `Termination`, and
  the collector's is `CallsReturn`. A liveness run of the composite without
  symmetry would exceed the time bound.
- **`Interpreter`.** `WF_vars(Next)`. The interpreter is one thread that runs
  until `error()` exits. The end of the input is an `error()` too, from
  `parse`.
- `CHECK_DEADLOCK FALSE` is set in every cfg, for a different reason in each:
  - in `SchorrWaite`, `mark` returns and its last state has no successor;
  - in `Collector`, `error()` ends the process, so the halted state has no
    successor (the same holds for `abort()` in `nil_dispose`).

## 5. Not modelled (yet)

- Branches of `Interpreter` that are dead under `parse`, which builds only atoms
  and conses. `eval`'s "not an atom or a cons" error and `quote_function`'s
  `destruct_cons` failure are left out. `pop`'s underflow error is shown dead
  by `NoStackUnderflow`.
- `Interpreter` uses the abstract collector. The chain `Interpreter` →
  `GarbageCollection` ⇐ `Collector` ⇐ `CollectorSW` justifies this. The
  product of all three is not run, because the state space would be the
  product.
- String buffers and the tokenizer: character data and I/O whose code is not
  in `src/`. Atom names are model values, and tokens are given as a sequence.
- `apply` function pointers, and the `dispose` of atoms freeing their buffer:
  these are abstracted to freeing the block.
- The allocation of root-stack nodes by `stack_push`: the stack is a sequence.
- `int` overflow of `object_count`: it is bounded by the cap, 10000.
