------------------------------ MODULE ThrowSites ------------------------------
(***************************************************************************)
(* What the preprocessor, the compiler and the linker make of each          *)
(* THROW_REGISTERED_EXCEPTION (Exception.h) with the help of IS_CONSTEXPR   *)
(* (BuiltinConstant.h) and COMPILETIME_REGISTER (CompiletimeRegistry.h): a  *)
(* static ThrowInfo, with a function that makes the exception if its        *)
(* arguments are constants, and a pointer to it in a section of its own.    *)
(***************************************************************************)
EXTENDS SequencesExt

CONSTANTS
  Errors, \* the errors that exceptions can be
  Null,   \* the null function pointer and the null exception_ptr
  Garbage \* an error made from what happened to be in memory

\* An argument of the exception's constructor: a constant expression, a local
\* variable whose value the compiler knows but that is passed by reference, or
\* a value that is known at run time only.
Argument == {"constant", "constant variable", "variable"}

\* A THROW_REGISTERED_EXCEPTION and the error it throws.
Site == [throwAddr : Nat \ {0}, args : Seq(Argument), error : Errors \cup {Garbage}]

BuiltinConstant(argument) == argument # "variable"

\* Mutant: the repetition of ONE_CONSTANT ends after one argument.
IsConstexprFirst(args) == args = <<>> \/ BuiltinConstant(args[1])

\* FOR_EACH joins one __builtin_constant_p for each argument with &&.
IsConstexpr(args) == \A i \in DOMAIN args : BuiltinConstant(args[i])

\* GET_MACRO counts to 25, and THROW_REGISTERED_EXCEPTION_HELPER adds "true".
Compiles(site) == Len(site.args) + 1 <= 25

\* The variables that [&] makes part of the lambda's object.
Captures(args) == \E i \in DOMAIN args : args[i] # "constant"

\* The lambda's operator(), as LambdaCastHelper casts it to a plain function.
GenExceptionFn(site) == [error |-> site.error, captures |-> Captures(site.args)]

\* What calling it can do: nobody passes the object, so that a captured variable
\* is read from wherever this happens to point.
Generated(fn) == IF fn.captures THEN {fn.error, Garbage, "crash"} ELSE {fn.error}

ThrowInfo(site) ==
  [throwAddr    |-> site.throwAddr,
   GetException |-> IF IsConstexpr(site.args) THEN GenExceptionFn(site) ELSE Null]

\* A unit is a translation unit's sites; the site of an inline function is in
\* each unit that uses the function, with one address.
Compiled(unit) == [i \in DOMAIN unit |-> ThrowInfo(unit[i])]

\* Mutant: one unit's section replaces that of the others.
LinkLast(units) == Compiled(units[Len(units)])

\* The linker concatenates the units' sections between __start_ and __stop_.
Link(units) == FlattenSeq([u \in DOMAIN units |-> Compiled(units[u])])

SitesOf(units) == UNION {{units[u][i] : i \in DOMAIN units[u]} : u \in DOMAIN units}
=============================================================================
