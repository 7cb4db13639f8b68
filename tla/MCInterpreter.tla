---------------------------- MODULE MCInterpreter ----------------------------
(* The interpreter run on small GCL programs.  Addresses are 1..MaxAddr   *)
(* with nil_value at 1; MaxAddr leaves room for every allocation the      *)
(* longest program makes, so only the collector's choices vary between    *)
(* the behaviours of one program.                                          *)
EXTENDS Interpreter

MaxAddr == 127  \* the longest program allocates 126 objects after nil_value
MCObj == 1..MaxAddr

\* Prints Hello; applies the identity (fun (x x)) to (quote A) and prints
\* the result; binds y to B and evaluates an application in the body.
Hello == <<"(", "print_atom", "(", "quote", "Hello", ")", ")">>
Identity ==
  <<"(", "print_atom", "(", "(", "fun", "(", "x", "x", ")", ")",
    "(", "quote", "A", ")", ")", ")">>
Body ==
  <<"(", "(", "fun", "(", "y", "(", "print_atom", "y", ")", ")", ")",
    "(", "quote", "B", ")", ")">>

\* A function returning a closure: (fun (y x)) evaluated in the body of
\* the outer function captures the environment binding x to A, which is
\* then held only through the closure's data while (quote B) is evaluated.
Curry ==
  <<"(", "print_atom", "(", "(", "(", "fun", "(", "x", "(", "fun", "(",
    "y", "x", ")", ")", ")", ")", "(", "quote", "A", ")", ")",
    "(", "quote", "B", ")", ")", ")">>

\* Inputs that end in each error() the input can reach.
Unbound == <<"C">>
NotAFunction == <<"(", "(", "quote", "A", ")", "(", "quote", "B", ")", ")">>
PrintCons ==
  <<"(", "print_atom", "(", "quote", "(", "a", "b", ")", ")", ")">>
FunNoPair ==
  <<"(", "(", "fun", "x", ")", "(", "quote", "A", ")", ")">>
FunPairParam ==
  <<"(", "(", "fun", "(", "(", "a", "b", ")", "c", ")", ")",
    "(", "quote", "A", ")", ")">>
Unclosed == <<"(", "a", "b", "c">>
StrayClose == <<")">>

MCPrograms ==
  { [in |-> Hello \o Identity \o Body, out |-> <<"Hello", "A", "B">>,
     ends |-> "eof"],
    [in |-> Curry, out |-> <<"A">>, ends |-> "eof"],
    [in |-> Hello \o Unbound, out |-> <<"Hello">>, ends |-> "error"],
    [in |-> NotAFunction, out |-> <<>>, ends |-> "error"],
    [in |-> PrintCons, out |-> <<>>, ends |-> "error"],
    [in |-> FunNoPair, out |-> <<>>, ends |-> "error"],
    [in |-> FunPairParam, out |-> <<>>, ends |-> "error"],
    [in |-> Unclosed, out |-> <<>>, ends |-> "error"],
    [in |-> StrayClose, out |-> <<>>, ends |-> "error"] }
============================================================================
