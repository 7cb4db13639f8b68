---------------------------- MODULE Interpreter ----------------------------
(***************************************************************************)
(* The GCL interpreter of gcl.c as the collector's mutator: main's setup   *)
(* of the global environments, the REPL loop, parse, the trampoline of    *)
(* pop_cont/apply over the continuation stack, eval, pop_apply and the     *)
(* built-ins, with the operand and continuation stacks as cons lists in    *)
(* the heap.  Each action is the code between two allocations (or one     *)
(* allocation and the reads before it): only an allocation can collect.   *)
(*                                                                         *)
(* The collector is taken as its abstract specification GarbageCollection *)
(* (which Collector is shown to implement): an allocation first either    *)
(* collects, keeping exactly the objects reachable from the root stack and *)
(* the roots create_* pushed for its arguments, or does not.  Which        *)
(* allocation hits object_count == cap depends on the garbage left by the *)
(* expressions read before, so any allocation may be the one that         *)
(* collects.  Addresses are never reused, so a reference into a freed      *)
(* block stays visible as one.                                             *)
(*                                                                         *)
(* The C locals are cells, named <function>_<local>; a cell is rooted      *)
(* while its name is on the root stack.                                    *)
(***************************************************************************)
EXTENDS GclObjects, SequencesExt

CONSTANTS
  Programs  \* the possible standard inputs: records of the token stream
            \* (in: "(", ")" or the name of a symbol), the atoms the
            \* program is to print (out) and how it ends (ends: "eof" when
            \* the stream ends between expressions, or "error")

ApplyFuncs == {"eval", "pop_apply", "quote_function", "fun_function",
               "print_atom", "fun_apply_function"}

Globals == {"nil_root", "operand_stack", "cont_stack"}

Cells == Globals \cup
  {"main_forms", "main_env", "main_envs", "main_expr", "main_data",
   "main_cont", "mcs_value", "mc_key", "mc_value", "mc_entry",
   "parse_parent", "parse_expr", "apply_function", "apply_data",
   "eval_envs", "eval_f_expr", "eval_arg_expr", "eval_form", "eval_value",
   "eval_function", "eval_functionData", "fun_newFunction",
   "fa_forms", "fa_newEnv", "fa_body", "fa_newEnvs", "fa_newData",
   "fa_newFunction"}

(* The calls map_cons_s_func_nil(key, function, &map) of main.            *)
Builtins ==
  << [key |-> "quote",      fn |-> "quote_function", map |-> "main_forms"],
     [key |-> "fun",        fn |-> "fun_function",   map |-> "main_forms"],
     [key |-> "print_atom", fn |-> "print_atom",     map |-> "main_env"] >>

VARIABLES
  alloc,    \* the allocated objects (the heap list)
  next,     \* the address malloc returns next
  cls, head, tail, data,  \* object class and child fields
  fn,       \* struct function apply: the C function it calls
  name,     \* the characters of an atom
  roots,    \* the root stack: cell names, top first
  cell,     \* the value of each cell
  pc,       \* the statement the interpreter is at
  bi,       \* which map_cons_s_func_nil call of main is running
  mcMap,    \* map_cons's parameter map: the cell it updates
  mcRet,    \* map_cons's caller: "msf" or "fun_apply"
  input,    \* the tokens not yet read
  output,   \* the atoms printed so far
  program   \* the standard input the run reads

heapVars == <<alloc, next, cls, head, tail, data, fn, name>>
vars == <<heapVars, roots, cell, pc, bi, mcMap, mcRet, input, output, program>>

Reach(S) == ReachableFrom(cls, head, tail, data, S \cap Obj)

(* The objects the cells on root stack R hold, under cell values C.       *)
Rooted(R, C) == {C[c] : c \in ToSet(R)}

(* malloc and register_object: the block at next becomes an object; just  *)
(* before, register_object may collect, keeping what is reachable from    *)
(* the root stack R (with cell values C) and from the arguments, which    *)
(* create_cons and create_function push as roots.                          *)
NewObject(c, h, t, d, f, nm, R, C) ==
  /\ next \in Obj
  /\ \E collect \in BOOLEAN :
       alloc' = (IF collect THEN alloc \cap Reach(Rooted(R, C) \cup {h, t, d})
                            ELSE alloc) \cup {next}
  /\ cls' = [cls EXCEPT ![next] = c]
  /\ head' = [head EXCEPT ![next] = h]
  /\ tail' = [tail EXCEPT ![next] = t]
  /\ data' = [data EXCEPT ![next] = d]
  /\ fn' = [fn EXCEPT ![next] = f]
  /\ name' = [name EXCEPT ![next] = nm]
  /\ next' = next + 1

CreateCons(h, t, R, C) == NewObject("cons", h, t, NULL, "none", "none", R, C)
CreateFunction(f, d, R, C) == NewObject("function", NULL, NULL, d, f, "none", R, C)
CreateAtom(nm, R, C) == NewObject("atom", NULL, NULL, NULL, "none", nm, R, C)

(* atom_equals: the same object, or two atoms with equal characters (its *)
(* error for a non-atom is dead: assoc's keys are atoms).                  *)
AtomEquals(a, b) == a = b \/ name[a] = name[b]

(* assoc(key, map): the value of the first entry whose key atom_equals    *)
(* key, or 0.  Maps are built by map_cons only, so every node and entry   *)
(* is a cons and every key an atom.                                        *)
RECURSIVE Assoc(_, _)
Assoc(k, m) ==
  IF m = NilValue THEN NULL
  ELSE IF AtomEquals(k, head[head[m]])
       THEN tail[head[m]]
       ELSE Assoc(k, tail[m])

OS == cell["operand_stack"]
CS == cell["cont_stack"]

Init ==
  \* init_globals: nil_value registered; nil_root, operand_stack and
  \* cont_stack (both &nil_value) pushed
  /\ alloc = {NilValue}
  /\ next = NilValue + 1
  /\ cls = [o \in Obj |-> IF o = NilValue THEN "nil" ELSE "free"]
  /\ head = [o \in Obj |-> NULL]
  /\ tail = [o \in Obj |-> NULL]
  /\ data = [o \in Obj |-> NULL]
  /\ fn = [o \in Obj |-> "none"]
  /\ name = [o \in Obj |-> "none"]
  /\ roots = <<"cont_stack", "operand_stack", "nil_root">>
  /\ cell = [c \in Cells |-> IF c \in Globals THEN NilValue ELSE NULL]
  /\ pc = "main_forms"
  /\ bi = 1
  /\ mcMap = "main_forms"
  /\ mcRet = "msf"
  /\ program \in Programs
  /\ input = program.in
  /\ output = <<>>

-----------------------------------------------------------------------------
(* main's setup and map_cons.                                              *)

(* forms = create_nil(); push_root_g(&forms).                              *)
MainForms ==
  /\ pc = "main_forms"
  /\ cell' = [cell EXCEPT !["main_forms"] = NilValue]
  /\ roots' = Cons("main_forms", roots)
  /\ pc' = "msf_function"
  /\ UNCHANGED <<heapVars, bi, mcMap, mcRet, input, output, program>>

(* map_cons_s_func_nil: func = create_function(function, create_nil());   *)
(* map_cons_s(key, func, map) roots its parameter value.                   *)
MsfFunction ==
  /\ pc = "msf_function"
  /\ CreateFunction(Builtins[bi].fn, NilValue, roots, cell)
  /\ cell' = [cell EXCEPT !["mcs_value"] = next]
  /\ roots' = Cons("mcs_value", roots)
  /\ pc' = "msf_atom"
  /\ UNCHANGED <<bi, mcMap, mcRet, input, output, program>>

(* map_cons_s: atom = create_atom_from_string(key); pop_root_g();          *)
(* map_cons(atom, value, map).                                             *)
MsfAtom ==
  /\ pc = "msf_atom"
  /\ CreateAtom(Builtins[bi].key, roots, cell)
  /\ roots' = Tail(roots)
  /\ cell' = [cell EXCEPT !["mc_key"] = next, !["mc_value"] = cell["mcs_value"]]
  /\ mcMap' = Builtins[bi].map
  /\ mcRet' = "msf"
  /\ pc' = "mc_entry"
  /\ UNCHANGED <<bi, input, output, program>>

(* map_cons: entry = create_cons(key, value).                              *)
McEntry ==
  /\ pc = "mc_entry"
  /\ CreateCons(cell["mc_key"], cell["mc_value"], roots, cell)
  /\ cell' = [cell EXCEPT !["mc_entry"] = next]
  /\ pc' = "mc_cons"
  /\ UNCHANGED <<roots, bi, mcMap, mcRet, input, output, program>>

(* map_cons: cons = create_cons(entry, *map); set_root_g(map, cons); and  *)
(* the return to the caller: main's next setup call, or fun_apply_function.*)
McCons ==
  /\ pc = "mc_cons"
  /\ CreateCons(cell["mc_entry"], cell[mcMap], roots, cell)
  /\ cell' = [cell EXCEPT ![mcMap] = next]
  /\ pc' = CASE mcRet = "fun_apply" -> "fa_newenvs"
             [] bi = 1              -> "msf_function"
             [] bi = 2              -> "main_env"
             [] OTHER               -> "main_envs"
  /\ bi' = IF mcRet = "msf" /\ bi = 1 THEN 2 ELSE bi
  /\ UNCHANGED <<roots, mcMap, mcRet, input, output, program>>

(* env = create_nil(); push_root_g(&env); then the third setup call.      *)
MainEnv ==
  /\ pc = "main_env"
  /\ cell' = [cell EXCEPT !["main_env"] = NilValue]
  /\ roots' = Cons("main_env", roots)
  /\ bi' = 3
  /\ pc' = "msf_function"
  /\ UNCHANGED <<heapVars, mcMap, mcRet, input, output, program>>

(* envs = create_cons(forms, env); push_root_g(&envs).                     *)
MainEnvs ==
  /\ pc = "main_envs"
  /\ CreateCons(cell["main_forms"], cell["main_env"], roots, cell)
  /\ cell' = [cell EXCEPT !["main_envs"] = next]
  /\ roots' = Cons("main_envs", roots)
  /\ pc' = "parse_start"
  /\ UNCHANGED <<bi, mcMap, mcRet, input, output, program>>

-----------------------------------------------------------------------------
(* parse: a stack of open pairs through the tails of conses whose head is *)
(* nil_value until their first element is read.                           *)

(* parent = create_nil(); push_root(&parent).                              *)
ParseStart ==
  /\ pc = "parse_start"
  /\ cell' = [cell EXCEPT !["parse_parent"] = NilValue]
  /\ roots' = Cons("parse_parent", roots)
  /\ pc' = "parse_token"
  /\ UNCHANGED <<heapVars, bi, mcMap, mcRet, input, output, program>>

(* token 'S': expr = create_atom(copy of the token); push_root(&expr).    *)
ParseAtom ==
  /\ pc = "parse_token"
  /\ input # <<>>
  /\ Head(input) \notin {"(", ")"}
  /\ CreateAtom(Head(input), roots, cell)
  /\ cell' = [cell EXCEPT !["parse_expr"] = next]
  /\ roots' = Cons("parse_expr", roots)
  /\ input' = Tail(input)
  /\ pc' = "parse_place"
  /\ UNCHANGED <<bi, mcMap, mcRet, output, program>>

(* token '(': cons = create_cons(create_nil(), parent);                   *)
(* set_root(&parent, cons).                                                *)
ParseOpen ==
  /\ pc = "parse_token"
  /\ input # <<>>
  /\ Head(input) = "("
  /\ CreateCons(NilValue, cell["parse_parent"], roots, cell)
  /\ cell' = [cell EXCEPT !["parse_parent"] = next]
  /\ input' = Tail(input)
  /\ pc' = "parse_token"
  /\ UNCHANGED <<roots, bi, mcMap, mcRet, output, program>>

(* Any other token, or the end of the stream: error("Syntax error").  At  *)
(* the end of the stream between two expressions ("eof") this is how the *)
(* REPL ends.                                                              *)
ParseSyntaxError ==
  /\ pc = "parse_token"
  /\ input = <<>> \/ (input # <<>> /\ Head(input) = ")")
  /\ pc' = IF input = <<>> /\ cell["parse_parent"] = NilValue
           THEN "eof" ELSE "error"
  /\ UNCHANGED <<heapVars, roots, cell, bi, mcMap, mcRet, input, output, program>>

(* parent == &nil_value: pop_root() twice; return expr to main.           *)
ParseReturn ==
  /\ pc = "parse_place"
  /\ cell["parse_parent"] = NilValue
  /\ roots' = Tail(Tail(roots))
  /\ cell' = [cell EXCEPT !["main_expr"] = cell["parse_expr"]]
  /\ pc' = "main_data"
  /\ UNCHANGED <<heapVars, bi, mcMap, mcRet, input, output, program>>

(* The open pair has no element yet: parentCons->head = expr; break;      *)
(* pop_root() (expr).  (parent is always a cons: the abort is dead code.) *)
ParseHead ==
  /\ pc = "parse_place"
  /\ LET p == cell["parse_parent"] IN
       /\ p # NilValue
       /\ cls[p] = "cons"
       /\ head[p] = NilValue
       /\ head' = [head EXCEPT ![p] = cell["parse_expr"]]
  /\ roots' = Tail(roots)
  /\ pc' = "parse_token"
  /\ UNCHANGED <<alloc, next, cls, tail, data, fn, name, cell, bi, mcMap,
                 mcRet, input, output, program>>

(* Mutation: the closing element is stored into the head, as in the      *)
(* first-element branch, instead of the tail.                              *)
ParseTailIntoHead ==
  /\ pc = "parse_place"
  /\ LET p == cell["parse_parent"] IN
       /\ p # NilValue
       /\ cls[p] = "cons"
       /\ head[p] # NilValue
       /\ head' = [head EXCEPT ![p] = cell["parse_expr"]]
       /\ cell' = [cell EXCEPT !["parse_expr"] = p, !["parse_parent"] = tail[p]]
  /\ input' = IF input = <<>> THEN input ELSE Tail(input)
  /\ pc' = IF input # <<>> /\ Head(input) = ")" THEN "parse_place" ELSE "error"
  /\ UNCHANGED <<alloc, next, cls, tail, data, fn, name, roots, bi, mcMap,
                 mcRet, output, program>>

(* The second element closes the pair: newParent = tail; tail = expr;     *)
(* set_root(&expr, parent); set_root(&parent, newParent); the next token  *)
(* must be ')'.                                                            *)
ParseTail ==
  /\ pc = "parse_place"
  /\ LET p == cell["parse_parent"] IN
       /\ p # NilValue
       /\ cls[p] = "cons"
       /\ head[p] # NilValue
       /\ tail' = [tail EXCEPT ![p] = cell["parse_expr"]]
       /\ cell' = [cell EXCEPT !["parse_expr"] = p, !["parse_parent"] = tail[p]]
  /\ input' = IF input = <<>> THEN input ELSE Tail(input)
  /\ pc' = IF input # <<>> /\ Head(input) = ")" THEN "parse_place" ELSE "error"
  /\ UNCHANGED <<alloc, next, cls, head, data, fn, name, roots, bi, mcMap,
                 mcRet, output, program>>

-----------------------------------------------------------------------------
(* The REPL loop of main and the trampoline.                               *)

(* data = create_cons(envs, expr).                                         *)
MainData ==
  /\ pc = "main_data"
  /\ CreateCons(cell["main_envs"], cell["main_expr"], roots, cell)
  /\ cell' = [cell EXCEPT !["main_data"] = next]
  /\ pc' = "main_cont"
  /\ UNCHANGED <<roots, bi, mcMap, mcRet, input, output, program>>

(* cont = create_function(eval, data).                                     *)
MainCont ==
  /\ pc = "main_cont"
  /\ CreateFunction("eval", cell["main_data"], roots, cell)
  /\ cell' = [cell EXCEPT !["main_cont"] = next]
  /\ pc' = "main_push_cont"
  /\ UNCHANGED <<roots, bi, mcMap, mcRet, input, output, program>>

(* push_cont(cont): cons = create_cons(cont, cont_stack);                 *)
(* set_root(&cont_stack, cons).                                            *)
MainPushCont ==
  /\ pc = "main_push_cont"
  /\ CreateCons(cell["main_cont"], CS, roots, cell)
  /\ cell' = [cell EXCEPT !["cont_stack"] = next]
  /\ pc' = "main_pop_cont"
  /\ UNCHANGED <<roots, bi, mcMap, mcRet, input, output, program>>

(* Mutation: pop_cont reads the top continuation but does not unlink it.  *)
MainPopContKeep ==
  /\ pc = "main_pop_cont"
  /\ cls[CS] = "cons"
  /\ cell' = [cell EXCEPT !["apply_function"] = head[CS]]
  /\ pc' = "apply"
  /\ UNCHANGED <<heapVars, roots, bi, mcMap, mcRet, input, output, program>>

(* object = pop_cont(): the top continuation, cont_stack set to the rest; *)
(* apply(object).                                                          *)
MainPopCont ==
  /\ pc = "main_pop_cont"
  /\ cls[CS] = "cons"
  /\ cell' = [cell EXCEPT !["cont_stack"] = tail[CS],
                          !["apply_function"] = head[CS]]
  /\ pc' = "apply"
  /\ UNCHANGED <<heapVars, roots, bi, mcMap, mcRet, input, output, program>>

(* pop_cont() returns 0 on an empty stack: the loop breaks.                *)
MainContEmpty ==
  /\ pc = "main_pop_cont"
  /\ cls[CS] # "cons"
  /\ pc' = "main_pop"
  /\ UNCHANGED <<heapVars, roots, cell, bi, mcMap, mcRet, input, output, program>>

(* pop(): drop the value of the expression; read the next one.            *)
MainPop ==
  /\ pc = "main_pop"
  /\ cls[OS] = "cons"
  /\ cell' = [cell EXCEPT !["operand_stack"] = tail[OS]]
  /\ pc' = "parse_start"
  /\ UNCHANGED <<heapVars, roots, bi, mcMap, mcRet, input, output, program>>

(* apply(function): a function object calls its apply on its data.        *)
Apply ==
  /\ pc = "apply"
  /\ LET f == cell["apply_function"] IN
       /\ cls[f] = "function"
       /\ cell' = [cell EXCEPT !["apply_data"] = data[f]]
       /\ pc' = fn[f]
  /\ UNCHANGED <<heapVars, roots, bi, mcMap, mcRet, input, output, program>>

(* pop_apply: f = pop(); apply(f).                                         *)
PopApply ==
  /\ pc = "pop_apply"
  /\ cls[OS] = "cons"
  /\ cell' = [cell EXCEPT !["operand_stack"] = tail[OS],
                          !["apply_function"] = head[OS]]
  /\ pc' = "apply"
  /\ UNCHANGED <<heapVars, roots, bi, mcMap, mcRet, input, output, program>>

(* apply: error("apply: not a function").                                  *)
RuntimeError ==
  /\ pc = "apply"
  /\ cls[cell["apply_function"]] # "function"
  /\ pc' = "error"
  /\ UNCHANGED <<heapVars, roots, cell, bi, mcMap, mcRet, input, output, program>>

-----------------------------------------------------------------------------
(* eval(data): destruct_cons(data, &envs, &expr);                          *)
(* destruct_cons(envs, &forms, &env) (data is always an (envs . expr)      *)
(* pair, so these cannot fail).                                            *)
EData == cell["apply_data"]
EEnvs == head[EData]
EExpr == tail[EData]
EForms == head[EEnvs]
EEnv == tail[EEnvs]

(* An atom: push(assoc(expr, env)); eval returns.                          *)
EvalAtom ==
  /\ pc = "eval"
  /\ cls[EExpr] = "atom"
  /\ Assoc(EExpr, EEnv) # NULL
  /\ CreateCons(Assoc(EExpr, EEnv), OS, roots, cell)
  /\ cell' = [cell EXCEPT !["operand_stack"] = next]
  /\ pc' = "main_pop_cont"
  /\ UNCHANGED <<roots, bi, mcMap, mcRet, input, output, program>>

(* A cons (f_expr . arg_expr) whose f_expr is an atom bound in forms:     *)
(* push_root_g(&form); value = create_cons(envs, arg_expr).                *)
EvalForm ==
  /\ pc = "eval"
  /\ cls[EExpr] = "cons"
  /\ LET f == head[EExpr]
         a == tail[EExpr]
         C == [cell EXCEPT !["eval_envs"] = EEnvs, !["eval_f_expr"] = f,
                           !["eval_arg_expr"] = a,
                           !["eval_form"] = Assoc(f, EForms)]
         R == Cons("eval_form", roots)
     IN  /\ cls[f] = "atom"
         /\ Assoc(f, EForms) # NULL
         /\ CreateCons(EEnvs, a, R, C)
         /\ cell' = [C EXCEPT !["eval_value"] = next]
         /\ roots' = R
  /\ pc' = "eval_form_push"
  /\ UNCHANGED <<bi, mcMap, mcRet, input, output, program>>

(* push(value); pop_root_g(); apply(form).                                 *)
EvalFormPush ==
  /\ pc = "eval_form_push"
  /\ CreateCons(cell["eval_value"], OS, roots, cell)
  /\ cell' = [cell EXCEPT !["operand_stack"] = next,
                          !["apply_function"] = cell["eval_form"]]
  /\ roots' = Tail(roots)
  /\ pc' = "apply"
  /\ UNCHANGED <<bi, mcMap, mcRet, input, output, program>>

(* Mutation: arg_expr is not rooted across the allocations of eval.       *)
EvalAppNoRootArg ==
  /\ pc = "eval"
  /\ cls[EExpr] = "cons"
  /\ LET f == head[EExpr]
         a == tail[EExpr]
         C == [cell EXCEPT !["eval_envs"] = EEnvs, !["eval_f_expr"] = f,
                           !["eval_arg_expr"] = a]
         R == Cons("eval_f_expr", Cons("eval_envs", roots))
     IN  /\ ~(cls[f] = "atom" /\ Assoc(f, EForms) # NULL)
         /\ CreateFunction("pop_apply", NilValue, R, C)
         /\ cell' = [C EXCEPT !["eval_function"] = next]
         /\ roots' = Cons("eval_envs", R)
  /\ pc' = "eval_app_1"
  /\ UNCHANGED <<bi, mcMap, mcRet, input, output, program>>

(* An application: push_root_g(&envs), (&f_expr), (&arg_expr);            *)
(* function = create_function(pop_apply, create_nil()).                    *)
EvalApp ==
  /\ pc = "eval"
  /\ cls[EExpr] = "cons"
  /\ LET f == head[EExpr]
         a == tail[EExpr]
         C == [cell EXCEPT !["eval_envs"] = EEnvs, !["eval_f_expr"] = f,
                           !["eval_arg_expr"] = a]
         R == Cons("eval_arg_expr", Cons("eval_f_expr", Cons("eval_envs", roots)))
     IN  /\ ~(cls[f] = "atom" /\ Assoc(f, EForms) # NULL)
         /\ CreateFunction("pop_apply", NilValue, R, C)
         /\ cell' = [C EXCEPT !["eval_function"] = next]
         /\ roots' = R
  /\ pc' = "eval_app_1"
  /\ UNCHANGED <<bi, mcMap, mcRet, input, output, program>>

(* push_cont(function); after the third, pop_root_g() three times and     *)
(* return.                                                                 *)
EvalPushCont(from, to) ==
  /\ pc = from
  /\ CreateCons(cell["eval_function"], CS, roots, cell)
  /\ cell' = [cell EXCEPT !["cont_stack"] = next]
  /\ roots' = IF to = "main_pop_cont" THEN Tail(Tail(Tail(roots))) ELSE roots
  /\ pc' = to
  /\ UNCHANGED <<bi, mcMap, mcRet, input, output, program>>

(* functionData = create_cons(envs, e) for e the cell f_expr or arg_expr. *)
EvalThunkData(from, to, e) ==
  /\ pc = from
  /\ CreateCons(cell["eval_envs"], cell[e], roots, cell)
  /\ cell' = [cell EXCEPT !["eval_functionData"] = next]
  /\ pc' = to
  /\ UNCHANGED <<roots, bi, mcMap, mcRet, input, output, program>>

(* function = create_function(eval, functionData).                         *)
EvalThunk(from, to) ==
  /\ pc = from
  /\ CreateFunction("eval", cell["eval_functionData"], roots, cell)
  /\ cell' = [cell EXCEPT !["eval_function"] = next]
  /\ pc' = to
  /\ UNCHANGED <<roots, bi, mcMap, mcRet, input, output, program>>

-----------------------------------------------------------------------------
(* The built-ins.  Each starts with arg = pop().                           *)
Popped == [cell EXCEPT !["operand_stack"] = tail[OS]]
Arg == head[OS]

(* quote_function: destruct_cons(arg, &envs, &body); push(body).           *)
QuoteFunction ==
  /\ pc = "quote_function"
  /\ cls[OS] = "cons"
  /\ cls[Arg] = "cons"
  /\ CreateCons(tail[Arg], Popped["operand_stack"], roots, Popped)
  /\ cell' = [Popped EXCEPT !["operand_stack"] = next]
  /\ pc' = "main_pop_cont"
  /\ UNCHANGED <<roots, bi, mcMap, mcRet, input, output, program>>

(* fun_function: newFunction = create_function(fun_apply_function, arg).  *)
FunFunction ==
  /\ pc = "fun_function"
  /\ cls[OS] = "cons"
  /\ CreateFunction("fun_apply_function", Arg, roots, Popped)
  /\ cell' = [Popped EXCEPT !["fun_newFunction"] = next]
  /\ pc' = "fun_push"
  /\ UNCHANGED <<roots, bi, mcMap, mcRet, input, output, program>>

(* fun_function: push(newFunction).                                        *)
FunPush ==
  /\ pc = "fun_push"
  /\ CreateCons(cell["fun_newFunction"], OS, roots, cell)
  /\ cell' = [cell EXCEPT !["operand_stack"] = next]
  /\ pc' = "main_pop_cont"
  /\ UNCHANGED <<roots, bi, mcMap, mcRet, input, output, program>>

(* Mutation: print_atom returns without pushing its nil result.          *)
PrintAtomNoPush ==
  /\ pc = "print_atom"
  /\ cls[OS] = "cons"
  /\ cls[Arg] = "atom"
  /\ output' = Append(output, name[Arg])
  /\ cell' = Popped
  /\ pc' = "main_pop_cont"
  /\ UNCHANGED <<heapVars, roots, bi, mcMap, mcRet, input, program>>

(* print_atom: print the atom's characters; push(create_nil()).           *)
PrintAtom ==
  /\ pc = "print_atom"
  /\ cls[OS] = "cons"
  /\ cls[Arg] = "atom"
  /\ output' = Append(output, name[Arg])
  /\ CreateCons(NilValue, Popped["operand_stack"], roots, Popped)
  /\ cell' = [Popped EXCEPT !["operand_stack"] = next]
  /\ pc' = "main_pop_cont"
  /\ UNCHANGED <<roots, bi, mcMap, mcRet, input, program>>

(* fun_apply_function(data): destruct_cons(data, &envs, &expr);           *)
(* destruct_cons(envs, &forms, &env); destruct_cons(expr, &param, &body).  *)
FaEnvs == head[cell["apply_data"]]
FaExpr == tail[cell["apply_data"]]
FaParam == head[FaExpr]

(* Mutation: the parameter is bound to itself instead of the argument.    *)
FunApplyFunctionSelfBind ==
  /\ pc = "fun_apply_function"
  /\ cls[OS] = "cons"
  /\ cls[FaExpr] = "cons"
  /\ cls[FaParam] = "atom"
  /\ cell' = [Popped EXCEPT !["fa_newEnv"] = tail[FaEnvs],
                            !["fa_forms"] = head[FaEnvs],
                            !["fa_body"] = tail[FaExpr],
                            !["mc_key"] = FaParam, !["mc_value"] = FaParam]
  /\ roots' = Cons("fa_body", Cons("fa_forms", Cons("fa_newEnv", roots)))
  /\ mcMap' = "fa_newEnv"
  /\ mcRet' = "fun_apply"
  /\ pc' = "mc_entry"
  /\ UNCHANGED <<heapVars, bi, input, output, program>>

(* arg = pop(); the destructs; param must be an atom; newEnv = env;       *)
(* push_root_g(&newEnv), (&forms), (&body); map_cons(param, arg, &newEnv). *)
FunApplyFunction ==
  /\ pc = "fun_apply_function"
  /\ cls[OS] = "cons"
  /\ cls[FaExpr] = "cons"
  /\ cls[FaParam] = "atom"
  /\ cell' = [Popped EXCEPT !["fa_newEnv"] = tail[FaEnvs],
                            !["fa_forms"] = head[FaEnvs],
                            !["fa_body"] = tail[FaExpr],
                            !["mc_key"] = FaParam, !["mc_value"] = Arg]
  /\ roots' = Cons("fa_body", Cons("fa_forms", Cons("fa_newEnv", roots)))
  /\ mcMap' = "fa_newEnv"
  /\ mcRet' = "fun_apply"
  /\ pc' = "mc_entry"
  /\ UNCHANGED <<heapVars, bi, input, output, program>>

(* newEnvs = create_cons(forms, newEnv).                                   *)
FaNewEnvs ==
  /\ pc = "fa_newenvs"
  /\ CreateCons(cell["fa_forms"], cell["fa_newEnv"], roots, cell)
  /\ cell' = [cell EXCEPT !["fa_newEnvs"] = next]
  /\ pc' = "fa_newdata"
  /\ UNCHANGED <<roots, bi, mcMap, mcRet, input, output, program>>

(* newData = create_cons(newEnvs, body).                                   *)
FaNewData ==
  /\ pc = "fa_newdata"
  /\ CreateCons(cell["fa_newEnvs"], cell["fa_body"], roots, cell)
  /\ cell' = [cell EXCEPT !["fa_newData"] = next]
  /\ pc' = "fa_newfunction"
  /\ UNCHANGED <<roots, bi, mcMap, mcRet, input, output, program>>

(* newFunction = create_function(eval, newData).                           *)
FaNewFunction ==
  /\ pc = "fa_newfunction"
  /\ CreateFunction("eval", cell["fa_newData"], roots, cell)
  /\ cell' = [cell EXCEPT !["fa_newFunction"] = next]
  /\ pc' = "fa_push_cont"
  /\ UNCHANGED <<roots, bi, mcMap, mcRet, input, output, program>>

(* Mutation: one of the three pop_root_g() calls is missing.              *)
FaPushContTwoPops ==
  /\ pc = "fa_push_cont"
  /\ CreateCons(cell["fa_newFunction"], CS, roots, cell)
  /\ cell' = [cell EXCEPT !["cont_stack"] = next]
  /\ roots' = Tail(Tail(roots))
  /\ pc' = "main_pop_cont"
  /\ UNCHANGED <<bi, mcMap, mcRet, input, output, program>>

(* push_cont(newFunction); pop_root_g() three times.                       *)
FaPushCont ==
  /\ pc = "fa_push_cont"
  /\ CreateCons(cell["fa_newFunction"], CS, roots, cell)
  /\ cell' = [cell EXCEPT !["cont_stack"] = next]
  /\ roots' = Tail(Tail(Tail(roots)))
  /\ pc' = "main_pop_cont"
  /\ UNCHANGED <<bi, mcMap, mcRet, input, output, program>>

(* The error() calls of eval and the built-ins the input can provoke: an   *)
(* unbound atom, a print_atom argument that is not an atom, a fun whose   *)
(* parameter part is not a cons or whose parameter is not an atom.  (The  *)
(* others are dead: parse yields only atoms and conses, and quote's       *)
(* argument is always the (envs . arg_expr) pair eval pushed.)             *)
EvalError ==
  /\ \/ pc = "eval" /\ cls[EExpr] = "atom" /\ Assoc(EExpr, EEnv) = NULL
     \/ pc = "print_atom" /\ cls[OS] = "cons" /\ cls[Arg] # "atom"
     \/ pc = "fun_apply_function" /\ cls[OS] = "cons"
        /\ (cls[FaExpr] # "cons" \/ (cls[FaExpr] = "cons" /\ cls[FaParam] # "atom"))
  /\ pc' = "error"
  /\ UNCHANGED <<heapVars, roots, cell, bi, mcMap, mcRet, input, output, program>>

-----------------------------------------------------------------------------
EvalSteps ==
  \/ EvalPushCont("eval_app_1", "eval_app_2")
  \/ EvalThunkData("eval_app_2", "eval_app_3", "eval_f_expr")
  \/ EvalThunk("eval_app_3", "eval_app_4")
  \/ EvalPushCont("eval_app_4", "eval_app_5")
  \/ EvalThunkData("eval_app_5", "eval_app_6", "eval_arg_expr")
  \/ EvalThunk("eval_app_6", "eval_app_7")
  \/ EvalPushCont("eval_app_7", "main_pop_cont")

Next ==
  \/ MainForms \/ MsfFunction \/ MsfAtom \/ McEntry \/ McCons
  \/ MainEnv \/ MainEnvs
  \/ ParseStart \/ ParseAtom \/ ParseOpen \/ ParseSyntaxError
  \/ ParseReturn \/ ParseHead \/ ParseTail
  \/ MainData \/ MainCont \/ MainPushCont \/ MainPopCont \/ MainContEmpty
  \/ MainPop \/ Apply \/ PopApply \/ RuntimeError
  \/ EvalAtom \/ EvalForm \/ EvalFormPush \/ EvalApp \/ EvalSteps
  \/ QuoteFunction \/ FunFunction \/ FunPush \/ PrintAtom
  \/ FunApplyFunction \/ FaNewEnvs \/ FaNewData \/ FaNewFunction
  \/ FaPushCont \/ EvalError

(* The interpreter is one thread that runs until error() exits it.        *)
Spec == Init /\ [][Next]_vars /\ WF_vars(Next)

-----------------------------------------------------------------------------
(* The locals the code at each label still reads, rooted or not.           *)
InUse ==
  CASE pc = "mc_entry"       -> {"mc_key", "mc_value"}
    [] pc = "mc_cons"        -> {"mc_entry", mcMap}
    [] pc = "main_data"      -> {"main_envs", "main_expr"}
    [] pc = "main_cont"      -> {"main_data"}
    [] pc = "main_push_cont" -> {"main_cont"}
    [] pc = "apply"          -> {"apply_function"}
    [] pc \in {"eval", "fun_apply_function"} -> {"apply_data"}
    [] pc = "eval_form_push" -> {"eval_value", "eval_form"}
    [] pc = "eval_app_1"     ->
         {"eval_function", "eval_envs", "eval_f_expr", "eval_arg_expr"}
    [] pc = "eval_app_2"     -> {"eval_envs", "eval_f_expr", "eval_arg_expr"}
    [] pc = "eval_app_3"     -> {"eval_functionData", "eval_envs", "eval_arg_expr"}
    [] pc = "eval_app_4"     -> {"eval_function", "eval_envs", "eval_arg_expr"}
    [] pc = "eval_app_5"     -> {"eval_envs", "eval_arg_expr"}
    [] pc = "eval_app_6"     -> {"eval_functionData"}
    [] pc = "eval_app_7"     -> {"eval_function"}
    [] pc = "fun_push"       -> {"fun_newFunction"}
    [] pc = "fa_newenvs"     -> {"fa_forms", "fa_newEnv", "fa_body"}
    [] pc = "fa_newdata"     -> {"fa_newEnvs", "fa_body"}
    [] pc = "fa_newfunction" -> {"fa_newData"}
    [] pc = "fa_push_cont"   -> {"fa_newFunction"}
    [] pc = "parse_token"    -> {"parse_parent"}
    [] pc = "parse_place"    -> {"parse_parent", "parse_expr"}
    [] OTHER                 -> {}

(* No object the program can still reach is freed: everything reachable   *)
(* from the root stack and from the locals the code still reads is        *)
(* allocated.  This is what the push_root_g/pop_root_g calls of main,     *)
(* parse, eval, map_cons_s and fun_apply_function, and the roots create_*  *)
(* pushes for its arguments, are for; it covers the unrooted function and *)
(* data that pop_apply and main's loop pass to apply.                      *)
NoDanglingReference ==
  Reach(Rooted(roots, cell) \cup {cell[c] : c \in InUse}) \subseteq alloc

(* The operand stack never underflows: every pop (main's after each      *)
(* expression, pop_apply's, each built-in's) finds a value, because every *)
(* evaluation pushes exactly one.  So pop's error branch is dead code.     *)
NoStackUnderflow ==
  pc \in {"main_pop", "pop_apply", "quote_function", "fun_function",
         "print_atom", "fun_apply_function"} => cls[OS] = "cons"

(* The roots main keeps while it reads and evaluates expressions.         *)
MainRoots == <<"main_envs", "main_env", "main_forms">> \o
             <<"cont_stack", "operand_stack", "nil_root">>

(* Every handler leaves the root stack as it found it: each time control  *)
(* is back in main's trampoline (pop_cont), the root stack is main's,     *)
(* whatever mix of eval, built-ins, fun_apply_function and map_cons ran.  *)
RootsBalanced ==
  pc \in {"main_pop_cont", "main_pop", "parse_start"} => roots = MainRoots

(* The program prints exactly what its GCL source says: what has been     *)
(* printed is always a prefix of the expected output, and all of it once  *)
(* the input is consumed: eval, assoc, the closures of fun and the       *)
(* built-ins compute what the program means.                             *)
OutputAsExpected ==
  /\ IsPrefix(output, program.out)
  /\ pc \in {"eof", "error"} => output = program.out

(* The REPL reads, evaluates and drops every expression and ends the way  *)
(* its input says: at the end of the stream, or at the error() the input  *)
(* provokes; the trampoline of pop_cont and apply always empties the      *)
(* continuation stack.                                                     *)
Termination == <>(pc = program.ends)

(* The expression an object denotes, read to depth d: an atom's name, or *)
(* the pair of the expressions of head and tail.  A tree parsed from n    *)
(* tokens is less than n deep, so with d = n the cut-off only shows up on *)
(* a heap that is not a tree.                                              *)
RECURSIVE Tree(_, _)
Tree(o, d) ==
  CASE d = 0           -> <<"too deep">>
    [] cls[o] = "atom" -> <<"atom", name[o]>>
    [] cls[o] = "cons" -> <<"pair", Tree(head[o], d - 1), Tree(tail[o], d - 1)>>
    [] OTHER           -> <<"nil">>

(* The grammar parse implements, as a reference: expr ::= symbol |        *)
(* "(" expr expr ")".  ParseOne reads one expression off the front of a   *)
(* well-formed token sequence; ParseAll reads them all.                    *)
RECURSIVE ParseOne(_)
ParseOne(ts) ==
  IF Head(ts) = "("
  THEN LET a == ParseOne(Tail(ts))
           b == ParseOne(a.rest)
       IN  [tree |-> <<"pair", a.tree, b.tree>>, rest |-> Tail(b.rest)]
  ELSE [tree |-> <<"atom", Head(ts)>>, rest |-> Tail(ts)]

RECURSIVE ParseAll(_)
ParseAll(ts) ==
  IF ts = <<>> THEN <<>>
  ELSE LET r == ParseOne(ts) IN <<r.tree>> \o ParseAll(r.rest)

Consumed == SubSeq(program.in, 1, Len(program.in) - Len(input))

(* parse returns the tree the grammar gives for the tokens it read: the   *)
(* chain of open pairs it threads through the tails it later overwrites,  *)
(* and the collections that fall between its allocations, leave the heap *)
(* below main's expr equal to the reference parse of the last expression. *)
ParseMatchesGrammar ==
  pc = "main_data" =>
    Tree(cell["main_expr"], Len(program.in)) = Last(ParseAll(Consumed))

=============================================================================
