------------------------------- MODULE CppExpr -------------------------------
(***************************************************************************)
(* Data types, the C++ types that store them, and the C++ expressions the  *)
(* code generator writes (zolotone/types, zolotone/codegen/cpp.py).        *)
(*                                                                         *)
(* A type has its name, its widths and, for a Tuple, its items.  A raw     *)
(* value is the sequence of the payloads of a type, of length 1 for a      *)
(* scalar.  Every expression is a record of the same four fields: its      *)
(* operator, a number (a literal, a width, an index), a name and its       *)
(* operands.  CppValue is what a C++ compiler makes of an expression:      *)
(* operands narrower than int are promoted, ac_int arithmetic grows, so    *)
(* that in both modes numbers are integers which only a conversion cuts.   *)
(***************************************************************************)
EXTENDS Formats, Sequences, SequencesExt, Bitwise

Scalar(kind, int, frac) == [k |-> kind, w |-> <<int, frac>>, items |-> <<>>]
UQ(int, frac)  == Scalar("UQ", int, frac)
Q(int, frac)   == Scalar("Q", int, frac)
Bool           == Scalar("Bool", 1, 0)
Tuple(items)   ==
  [ k |-> "Tuple", w |-> <<FoldLeft(LAMBDA n, t : n + t.w[1] + t.w[2], 0, items), 0>>, items |-> items ]
FloatType(f)   ==
  Scalar(f, FormatOf[f].exponent_bits + FormatOf[f].mantissa_bits + Cardinality(FormatOf[f].signs) - 1, 0)

IsTuple(t) == t.items # <<>>
IsNested(t) == \E i \in DOMAIN t.items : IsTuple(t.items[i])
TotalBits(t) == t.w[1] + t.w[2]
IsHomogeneous(t) == \A i \in DOMAIN t.items : t.items[i] = t.items[1]

\* scalar_cpp_type and Tuple.to_cpp_type: the storage class and its widths.
\* Rendering a type without one raises an exception.
HasCppType(t, jittable) ==
  ~ IsNested(t) /\ (jittable /\ ~ IsTuple(t) => TotalBits(t) <= 64)

ScalarCppType(bits, jittable) ==
  IF jittable
  THEN [ c |-> "uint_t",
         n |-> <<IF bits <= 8 THEN 8 ELSE IF bits <= 16 THEN 16 ELSE IF bits <= 32 THEN 32 ELSE 64>> ]
  ELSE [c |-> "ac_uint", n |-> <<bits>>]

TupleCppType(t, jittable) ==
  IF jittable THEN [c |-> "array", n |-> <<Len(t.items)>>]
  ELSE [ c |-> IF IsHomogeneous(t) THEN "array" ELSE "tuple",
         n |-> [i \in DOMAIN t.items |-> TotalBits(t.items[i])] ]

CppType(t, jittable) ==
  IF IsTuple(t) THEN TupleCppType(t, jittable) ELSE ScalarCppType(TotalBits(t), jittable)

-----------------------------------------------------------------------------
(* Expressions *)

Expr(e, n, s, a) == [e |-> e, n |-> n, s |-> s, a |-> a]
Ident(name)      == Expr("name", 0, name, <<>>)
Hole(i)          == Expr("hole", i, "", <<>>)
Literal(v)       == Expr("literal", v, "", <<>>)
Unary(op, x)     == Expr(op, 0, "", <<x>>)
Binary(op, x, y) == Expr(op, 0, "", <<x, y>>)
Choose(c, x, y)  == Expr("?:", 0, "", <<c, x, y>>)
CallOf(f, xs)    == Expr("call", 0, f, xs)

\* (x) & literal, where the literal is all ones of n bits.
LowBits(x, n) == Expr("low", n, "", <<x>>)

\* _cpp_cast of basics.py: T(x).
CastTo(type, x)         == Expr("cast", type.n[1], type.c, <<x>>)
CppCast(t, x, jittable) == CastTo(ScalarCppType(TotalBits(t), jittable), x)

\* _cast of the emitter: uint types are wider than the value and are masked.
Cast(t, x, jittable) ==
  IF IsTuple(t) THEN x
  ELSE CppCast(t, IF jittable THEN LowBits(x, TotalBits(t)) ELSE x, jittable)

-----------------------------------------------------------------------------
(* What expressions are worth.  Numbers are machine integers of TLC: a     *)
(* mask of 31 bits or more keeps any number that is not negative, and a    *)
(* shift by more than 30 clears it.                                        *)

Wrap(v, n) == IF n > 30 /\ v >= 0 THEN v ELSE v % 2^n
Shl(v, n)  == IF v = 0 THEN 0 ELSE v * 2^n
Shr(v, n)  == IF n > 30 THEN 0 ELSE v \div 2^n
Truth(b)   == IF b THEN 1 ELSE 0

\* An operator applied to numbers; a unary operator ignores the second.
Apply(op, v, w) ==
  CASE op = "+" -> v + w   [] op = "-" -> v - w   [] op = "*" -> v * w
    [] op = "<<" -> Shl(v, w)
    [] op = ">>" -> Shr(v, w)
    [] op = "|" -> v | w   [] op = "&" -> v & w   [] op = "^" -> v ^^ w
    [] op = "~" -> (0 - v) - 1
    [] op = "<" -> Truth(v < w)   [] op = "<=" -> Truth(v <= w)
    [] op = ">" -> Truth(v > w)   [] op = ">=" -> Truth(v >= w)
    [] op = "==" -> Truth(v = w)  [] op = "!=" -> Truth(v # w)

RECURSIVE CppValue(_, _)
CppValue(x, env) ==
  LET value(i)  == CppValue(x.a[i], env)
      number(i) == value(i)[1]
  IN CASE x.e = "name"            -> env[x.s]
       [] x.e = "literal"         -> <<x.n>>
       [] x.e \in {"cast", "low"} -> <<Wrap(number(1), x.n)>>
       [] x.e = "?:"              -> IF number(1) # 0 THEN value(2) ELSE value(3)
       [] x.e = "array"           -> <<>> \o [i \in DOMAIN x.a |-> number(i)]
       [] x.e = "at"              -> <<value(1)[x.n + 1]>>
       [] x.e = "at()"            -> <<value(1)[number(2) + 1]>>
       [] x.e = "clz"             -> <<x.n - BitLength(number(1))>>
       [] OTHER -> <<Apply(x.e, number(1), number(Len(x.a)))>>
=============================================================================
