----------------------------- MODULE Components -----------------------------
(***************************************************************************)
(* The components an implementation is generated from                      *)
(* (LOSSLESS_COMPONENTS of zolotone/components/__init__.py): what each     *)
(* accepts, what its specification returns and what its implementation     *)
(* computes.                                                               *)
(*                                                                         *)
(* A type is a record of its kind (Bool, UQ or Q) and its widths; the      *)
(* value of a node is its payload, an unsigned number of that width.       *)
(***************************************************************************)
EXTENDS FixedPoint, Sequences

UQ(int, frac) == [kind |-> "UQ", int |-> int, frac |-> frac]
Q(int, frac)  == [kind |-> "Q", int |-> int, frac |-> frac]
BoolType      == [kind |-> "Bool", int |-> 1, frac |-> 0]

IsFixed(type)    == type.kind # "Bool"
IsDtype(type)    == type.int >= 0 /\ type.frac >= 0 /\ type.int + type.frac >= 1
width(type)      == type.int + type.frac
Payloads(type)   == 0 .. 2^width(type) - 1
Payload(type, n) == [int |-> type.int, frac |-> type.frac, raw |-> n]

\* The number a payload stands for, in units of 2^-frac.
Code(type, n) == IF type.kind = "Q" THEN scaled_integer(Payload(type, n)) ELSE n

\* _fixed_point_real_bounds, as codes.
MinCode(type) == IF type.kind = "Q" THEN -(2^(width(type) - 1)) ELSE 0
MaxCode(type) == 2^(width(type) - (IF type.kind = "Q" THEN 1 ELSE 0)) - 1
FromCode(type, code) == code % 2^width(type)

\* An annotation is a type, or a family of types: its kind alone.
Family(kind) == [kind |-> kind, int |-> -1, frac |-> -1]
IsFamily(annotation) == annotation.int = -1
AnyType == Family("any")

\* _annotation_matches
AnnotationMatches(type, annotation) ==
  \/ annotation = AnyType
  \/ IsFamily(annotation) /\ type.kind = annotation.kind
  \/ type = annotation

Component(name, inputs) == [name |-> name, inputs |-> inputs]

\* In the order in which the search goes through them.
LosslessComponents ==
  LET bool == BoolType  bit == UQ(1, 0)  uq == Family("UQ")  q == Family("Q") IN
  << Component("bool_and", <<bool, bool>>), Component("bool_eq", <<bool, bool>>),
     Component("bool_ne", <<bool, bool>>),  Component("bool_or", <<bool, bool>>),
     Component("negate", <<bool>>),           Component("bool_to_uq", <<bool>>),
     Component("uq_to_bool", <<bit>>),        Component("uq_truncate_msb", <<uq>>),
     Component("q_truncate_msb", <<q>>),      Component("uq_lt", <<uq, uq>>),
     Component("uq_gt", <<uq, uq>>),        Component("uq_le", <<uq, uq>>),
     Component("uq_ge", <<uq, uq>>),        Component("uq_eq", <<uq, uq>>),
     Component("uq_sub", <<uq, uq>>),       Component("uq_add", <<uq, uq>>),
     Component("uq_mul", <<uq, uq>>),       Component("uq_max", <<uq, uq>>),
     Component("uq_min", <<uq, uq>>),       Component("uq_to_q", <<uq>>),
     Component("uq_is_zero", <<uq>>),         Component("q_lt", <<q, q>>),
     Component("q_le", <<q, q>>),           Component("q_gt", <<q, q>>),
     Component("q_ge", <<q, q>>),           Component("q_eq", <<q, q>>),
     Component("q_ne", <<q, q>>),           Component("q_neg", <<q>>),
     Component("q_add", <<q, q>>),          Component("q_sub", <<q, q>>),
     Component("q_mul", <<q, q>>),          Component("q_abs", <<q>>),
     Component("q_to_uq", <<q>>),             Component("_if_then_else", <<bool, AnyType, AnyType>>),
     Component("bit_and", <<bit, bit>>),    Component("bit_or", <<bit, bit>>),
     Component("bit_xor", <<bit, bit>>),    Component("bit_neg", <<bit>>) >>

Comparators == {"uq_lt", "uq_gt", "uq_le", "uq_ge", "uq_eq", "q_lt", "q_le", "q_gt",
                "q_ge", "q_eq", "q_ne"}
Logical     == {"bool_and", "bool_eq", "bool_ne", "bool_or", "negate", "uq_to_bool"}
BitOperators == {"bit_and", "bit_or", "bit_xor", "bit_neg"}

\* The kind of a component's result.
ResultKind(name, types) ==
  CASE name \in Comparators \cup Logical -> "Bool"
    [] name \in BitOperators \cup {"bool_to_uq", "uq_truncate_msb", "uq_sub", "uq_add", "uq_mul",
                                   "uq_max", "uq_min", "uq_is_zero", "q_to_uq"} -> "UQ"
    [] name = "_if_then_else" -> types[2].kind
    [] OTHER -> "Q"

\* A component raises when there is no integer bit to remove, when its result
\* would have no bits at all, and when the branches are of different kinds.
Accepts(name, types) ==
  CASE name \in {"uq_truncate_msb", "q_truncate_msb"} ->
          types[1].int >= 1 /\ width(types[1]) >= 2
    [] name = "q_to_uq" -> types[1].int >= 1 /\ width(types[1]) >= 2
    [] name = "_if_then_else" -> types[2].kind = types[3].kind
    [] OTHER -> TRUE

\* The branches of a conditional are resized to a common type.
if_then_else(kind, sel, in1, in0) ==
  LET int  == Larger(in1.int, in0.int)
      frac == Larger(in1.frac, in0.frac)
      wide(x) == IF kind = "Q" THEN q_resize(x, int, frac) ELSE uq_resize(x, int, frac)
  IN basic_mux_2_1(sel, wide(in0), wide(in1), <<int, frac>>)

Unary(name, x) ==
  CASE name \in {"negate", "bit_neg"} -> bit_neg(x)
    [] name \in {"bool_to_uq", "uq_to_bool"} -> basic_identity(x, Bit)
    [] name = "uq_truncate_msb" -> uq_truncate_msb(x)
    [] name = "q_truncate_msb"  -> q_truncate_msb(x)
    [] name = "uq_to_q"    -> uq_to_q(x)
    [] name = "uq_is_zero" -> uq_is_zero(x)
    [] name = "q_neg"   -> q_neg(x)
    [] name = "q_abs"   -> q_abs(x)
    [] name = "q_to_uq" -> q_to_uq(x)

Arithmetical(name, x, y) ==
  CASE name = "uq_sub" -> uq_sub(x, y)
    [] name = "uq_add" -> uq_add(x, y)
    [] name = "uq_mul" -> uq_mul(x, y)
    [] name = "uq_max" -> uq_max(x, y)
    [] name = "uq_min" -> uq_min(x, y)
    [] name = "q_add"  -> q_add(x, y)
    [] name = "q_sub"  -> q_sub(x, y)
    [] name = "q_mul"  -> q_mul(x, y)

OnBits(name, x, y) ==
  CASE name \in {"bool_and", "bit_and"} -> bit_and(x, y)
    [] name \in {"bool_or", "bit_or"}   -> bit_or(x, y)
    [] name \in {"bool_ne", "bit_xor"}  -> bit_xor(x, y)
    [] name = "bool_eq" -> basic_equal(x, y, Bit)

Comparing(name, x, y) ==
  CASE name = "uq_lt" -> uq_lt(x, y)
    [] name = "uq_gt" -> uq_gt(x, y)
    [] name = "uq_le" -> uq_le(x, y)
    [] name = "uq_ge" -> uq_ge(x, y)
    [] name = "uq_eq" -> uq_eq(x, y)
    [] name = "q_lt"  -> q_lt(x, y)
    [] name = "q_le"  -> q_le(x, y)
    [] name = "q_gt"  -> q_gt(x, y)
    [] name = "q_ge"  -> q_ge(x, y)
    [] name = "q_eq"  -> q_eq(x, y)
    [] name = "q_ne"  -> q_ne(x, y)

\* The implementation of a component on nodes of the given kind.
Implementation(name, kind, x) ==
  IF Len(x) = 1 THEN Unary(name, x[1])
  ELSE IF Len(x) = 3 THEN if_then_else(kind, x[1], x[2], x[3])
  ELSE IF name \in Comparators THEN Comparing(name, x[1], x[2])
  ELSE IF name \in Logical \cup BitOperators THEN OnBits(name, x[1], x[2])
  ELSE Arithmetical(name, x[1], x[2])

Nodes(types, payloads) == [i \in DOMAIN types |-> Payload(types[i], payloads[i])]

\* The type does not depend on the payloads.
ResultType(name, types) ==
  LET node == Implementation(name, ResultKind(name, types),
                             Nodes(types, [i \in DOMAIN types |-> 0]))
  IN [kind |-> ResultKind(name, types), int |-> node.int, frac |-> node.frac]

Apply(name, types, payloads) ==
  Implementation(name, ResultKind(name, types), Nodes(types, payloads)).raw
=============================================================================
