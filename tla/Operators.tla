------------------------------ MODULE Operators ------------------------------
(***************************************************************************)
(* The operations an implementation is made of: the basic operators, the   *)
(* tuple operators and the fields of the floating-point types.  Each one   *)
(* has two meanings written by hand next to each other in the source, the  *)
(* Python function that evaluate() runs and the C++ text of c_lowering;    *)
(* they are OpValue and OpLowering.  An operation is named by its Op, its  *)
(* static parameters are in p.                                             *)
(***************************************************************************)
EXTENDS CppExpr

\* A raw scalar as a fixed-point node, and a node's payload.
AsNode(t, raw) == [int |-> t.w[1], frac |-> t.w[2], raw |-> raw[1]]
Raw(node)      == <<node.raw>>

-----------------------------------------------------------------------------
(* basics.py: operators that yield a word *)

WordOps == { "basic_mux_2_1", "basic_add", "basic_sub", "basic_mul", "basic_max", "basic_min",
             "basic_rshift", "basic_lshift", "basic_or", "basic_xor", "basic_and", "basic_concat" }

WordValue(op, x, out) ==
  CASE op = "basic_mux_2_1" -> basic_mux_2_1(x[1], x[2], x[3], out)
    [] op = "basic_add"     -> basic_add(x[1], x[2], out)
    [] op = "basic_sub"     -> basic_sub(x[1], x[2], out)
    [] op = "basic_mul"     -> basic_mul(x[1], x[2], out)
    [] op = "basic_max"     -> basic_max(x[1], x[2], out)
    [] op = "basic_min"     -> basic_min(x[1], x[2], out)
    [] op = "basic_rshift"  -> Node(out, Shr(x[1].raw, x[2].raw))
    [] op = "basic_lshift"  -> Node(out, Shl(x[1].raw, x[2].raw))
    [] op = "basic_or"      -> Node(out, x[1].raw | x[2].raw)
    [] op = "basic_xor"     -> Node(out, x[1].raw ^^ x[2].raw)
    [] op = "basic_and"     -> Node(out, x[1].raw & x[2].raw)
    [] op = "basic_concat"  -> Node(out, Shl(x[1].raw, total_bits(x[2])) + x[2].raw)

\* Shifting a C++ word by its width or more is undefined, hence the tests.
\* The C++ types are those of the first argument and of the result.
WordLowering(op, e, ts, out, argType, outType) ==
  LET cast(x)      == CastTo(outType, x)
      guarded(w, type, shifted) ==
        Choose(Binary(">=", e[2], Literal(w)), CastTo(type, Literal(0)), shifted)
      larger(test) == Choose(Binary(test, e[1], e[2]), cast(e[1]), cast(e[2]))
  IN CASE op = "basic_mux_2_1" -> Choose(Binary("!=", e[1], Literal(0)), cast(e[3]), cast(e[2]))
       [] op = "basic_add" -> Binary("+", cast(e[1]), cast(e[2]))
       [] op = "basic_sub" -> Binary("-", cast(e[1]), cast(e[2]))
       [] op = "basic_mul" -> Binary("*", cast(e[1]), cast(e[2]))
       [] op = "basic_max" -> larger(">")
       [] op = "basic_min" -> larger("<")
       [] op = "basic_rshift" -> guarded(TotalBits(ts[1]), argType, Binary(">>", e[1], e[2]))
       [] op = "basic_lshift" -> guarded(TotalBits(out), outType, Binary("<<", cast(e[1]), e[2]))
       [] op = "basic_or"  -> Binary("|", e[1], e[2])
       [] op = "basic_xor" -> Binary("^", e[1], e[2])
       [] op = "basic_and" -> Binary("&", e[1], e[2])
       [] op = "basic_concat" ->
            Binary("|", Binary("<<", cast(e[1]), Literal(TotalBits(ts[2]))), e[2])

-----------------------------------------------------------------------------
(* basics.py: comparisons and operators on one word *)

Comparisons == { "basic_less", "basic_less_or_equal", "basic_greater", "basic_greater_or_equal",
                 "basic_equal", "basic_not_equal" }
UnaryOps == { "basic_select", "basic_invert", "basic_identity", "basic_or_reduce",
              "basic_and_reduce" }

ComparisonValue(op, x, out) ==
  CASE op = "basic_less"             -> basic_less(x[1], x[2], out)
    [] op = "basic_less_or_equal"    -> basic_less_or_equal(x[1], x[2], out)
    [] op = "basic_greater"          -> basic_less(x[2], x[1], out)
    [] op = "basic_greater_or_equal" -> basic_less_or_equal(x[2], x[1], out)
    [] op = "basic_equal"            -> basic_equal(x[1], x[2], out)
    [] op = "basic_not_equal"        -> TruthBit(x[1].raw # x[2].raw, out)

ComparisonSign ==
  [ basic_less |-> "<", basic_less_or_equal |-> "<=", basic_greater |-> ">",
    basic_greater_or_equal |-> ">=", basic_equal |-> "==", basic_not_equal |-> "!=" ]

\* basic_select takes the bits p[1] (its start, the upper one) to p[2].
UnaryValue(op, p, x, out) ==
  CASE op = "basic_select"     -> basic_select(x, p[1], p[2], out)
    [] op = "basic_invert"     -> basic_invert(x, out)
    [] op = "basic_identity"   -> basic_identity(x, out)
    [] op = "basic_or_reduce"  -> basic_or_reduce(x, out)
    [] op = "basic_and_reduce" -> basic_and_reduce(x, out)

UnaryLowering(op, p, e, t) ==
  CASE op = "basic_select"     -> LowBits(Binary(">>", e, Literal(p[2])), p[1] - p[2] + 1)
    [] op = "basic_invert"     -> LowBits(Unary("~", e), TotalBits(t))
    [] op = "basic_identity"   -> e
    [] op = "basic_or_reduce"  -> Binary("!=", e, Literal(0))
    [] op = "basic_and_reduce" -> Binary("==", e, Literal(2^TotalBits(t) - 1))

-----------------------------------------------------------------------------
(* The fields of the floating-point types.  Python takes them apart by the *)
(* widths of the format; the C++ text has its own shifts and masks, here   *)
(* <<shift, width>>.                                                       *)

Layout(mantissa, exponent, sign) ==
  [mantissa |-> mantissa, exponent |-> exponent, sign |-> sign]

fp16_fields     == Layout(<<0, 10>>, <<10, 5>>, <<15, 1>>)
bf16_fields     == Layout(<<0, 7>>, <<7, 8>>, <<15, 1>>)
fp32_fields     == Layout(<<0, 23>>, <<23, 8>>, <<31, 1>>)
e5m2_fields     == Layout(<<0, 2>>, <<2, 5>>, <<7, 1>>)
e5m2fnuz_fields == Layout(<<0, 2>>, <<2, 5>>, <<7, 1>>)
e4m3fn_fields   == Layout(<<0, 3>>, <<3, 4>>, <<7, 1>>)
e2m1_fields     == Layout(<<0, 1>>, <<1, 2>>, <<3, 1>>)
ue4m3_fields    == [mantissa |-> <<0, 3>>, exponent |-> <<3, 4>>]

FieldsOf ==
  [ Float16 |-> fp16_fields, BFloat16 |-> bf16_fields, Float32 |-> fp32_fields,
    E5M2 |-> e5m2_fields, E5M2FNUZ |-> e5m2fnuz_fields, E4M3FN |-> e4m3fn_fields,
    E2M1 |-> e2m1_fields, UE4M3 |-> ue4m3_fields ]

\* The fields of a type, the uppermost first.
FieldOrder(f) ==
  IF "sign" \in DOMAIN FieldsOf[f]
  THEN <<"sign", "exponent", "mantissa">> ELSE <<"exponent", "mantissa">>

extract_float_fields(f, raw) ==
  LET fmt == FormatOf[f]
      mb  == fmt.mantissa_bits
      eb  == fmt.exponent_bits
  IN [ sign |-> Shr(raw, eb + mb) % 2, exponent |-> Shr(raw, mb) % 2^eb, mantissa |-> raw % 2^mb ]

pack_float_fields(f, field) ==
  LET fmt  == FormatOf[f]
      sign == IF "sign" \in DOMAIN field
              THEN Shl(field.sign, fmt.exponent_bits + fmt.mantissa_bits) ELSE 0
  IN sign + Shl(field.exponent, fmt.mantissa_bits) + field.mantissa

\* The mantissa is masked without a shift.
FieldLowering(layout, name, e) ==
  LET shift == layout[name][1] IN
  LowBits(IF shift = 0 THEN e ELSE Binary(">>", e, Literal(shift)), layout[name][2])

AllocLowering(f, e, outType) ==
  LET names == FieldOrder(f)
      shifted(x, shift) == IF shift = 0 THEN x ELSE Binary("<<", x, Literal(shift))
      part(i) == shifted(CastTo(outType, e[i]), FieldsOf[f][names[i]][1])
  IN FoldLeft(LAMBDA x, i : Binary("|", x, part(i)), part(1), [i \in 1 .. Len(names) - 1 |-> i + 1])

-----------------------------------------------------------------------------
(* Tuples *)

MakeTuple(e, out, jittable) ==
  Expr("array", 0, CppType(out, jittable).c,
       IF jittable THEN [i \in DOMAIN e |-> Expr("cast", 64, "uint_t", <<e[i]>>)] ELSE e)

\* The literals of Q_is_min_val and of q_alloc and uq_alloc.
q_is_min_val(t, raw) == <<Truth(raw[1] = 2^(TotalBits(t) - 1))>>

-----------------------------------------------------------------------------
(* Every operation, evaluated and lowered.  ts are the types of the        *)
(* arguments, out is the type of the result.                               *)

OpValue(op, p, x, ts, out) ==
  LET node(i) == AsNode(ts[i], x[i]) IN
  CASE op \in WordOps -> Raw(WordValue(op, [i \in DOMAIN x |-> node(i)], out.w))
    [] op \in Comparisons -> Raw(ComparisonValue(op, [i \in DOMAIN x |-> node(i)], out.w))
    [] op \in UnaryOps -> Raw(UnaryValue(op, p, node(1), out.w))
    [] op \in {"sign", "exponent", "mantissa"} -> <<extract_float_fields(ts[1].k, x[1][1])[op]>>
    [] op = "alloc" ->
         LET names == FieldOrder(out.k) IN
         <<pack_float_fields(out.k, [name \in {names[i] : i \in DOMAIN names} |->
             x[CHOOSE i \in DOMAIN names : names[i] = name][1]])>>
    [] op = "basic_tuple_maker" -> [i \in DOMAIN x |-> x[i][1]]
    [] op = "_basic_get_item" -> <<x[1][p[1] + 1]>>
    [] op = "_basic_dynamic_get_item" -> <<x[1][x[2][1] + 1]>>
    [] op = "_q_is_min_val" -> q_is_min_val(ts[1], x[1])
    [] op \in {"q_alloc", "uq_alloc"} -> <<0>>

OpLowering(op, p, e, ts, out, jittable) ==
  CASE op \in WordOps -> WordLowering(op, e, ts, out, CppType(ts[1], jittable), CppType(out, jittable))
    [] op \in Comparisons -> Binary(ComparisonSign[op], e[1], e[2])
    [] op \in UnaryOps -> UnaryLowering(op, p, e[1], ts[1])
    [] op \in {"sign", "exponent", "mantissa"} -> FieldLowering(FieldsOf[ts[1].k], op, e[1])
    [] op = "alloc" -> AllocLowering(out.k, e, CppType(out, jittable))
    [] op = "basic_tuple_maker" -> MakeTuple(e, out, jittable)
    [] op = "_basic_get_item" -> Expr("at", p[1], "", <<e[1]>>)
    [] op = "_basic_dynamic_get_item" -> Binary("at()", e[1], e[2])
    [] op = "_q_is_min_val" -> Binary("==", e[1], Literal(2^(TotalBits(ts[1]) - 1)))
    [] op \in {"q_alloc", "uq_alloc"} -> Literal(0)

\* The direct lowerings of Primitives and Composites: lzc counts with a
\* builtin of 32 or 64 bits, and raises TypeError for a wider value.
CanLowerDirectly(direct, ts) == direct = "lzc" => TotalBits(ts[1]) <= 64
DirectLowering(direct, e, ts) ==
  CASE direct = "lzc" ->
         LET width == TotalBits(ts[1]) IN
         Choose(Binary("==", e[1], Literal(0)), Literal(width), Expr("clz", width, "", <<e[1]>>))
=============================================================================
