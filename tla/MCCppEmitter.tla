---------------------------- MODULE MCCppEmitter ----------------------------
(***************************************************************************)
(* One design for every operation, at widths where operands and results    *)
(* have different C++ types, and designs for the ways through the emitter. *)
(***************************************************************************)
EXTENDS CppEmitter

Bit1 == UQ(1, 0)

-----------------------------------------------------------------------------
(* One primitive for each operation: its types and static parameters       *)

Operation(op, types, out, p) == [op |-> op, types |-> types, out |-> out, p |-> p]

Word == UQ(3, 0)
Formats8  == {"E5M2", "E5M2FNUZ", "E4M3FN", "UE4M3", "E2M1"}
Formats16 == {"Float16", "BFloat16", "Float32"}

Operations ==
  { Operation("basic_mux_2_1", <<Bool, UQ(2, 0), UQ(2, 0)>>, UQ(2, 0), <<>>),
    Operation("basic_add", <<Word, UQ(2, 0)>>, UQ(4, 0), <<>>),
    Operation("basic_add", <<UQ(8, 0), UQ(8, 0)>>, UQ(9, 0), <<>>),
    Operation("basic_sub", <<Word, Word>>, UQ(10, 0), <<>>),
    Operation("basic_sub", <<Q(2, 1), Q(2, 1)>>, Q(2, 1), <<>>),
    Operation("basic_mul", <<Word, Word>>, UQ(6, 0), <<>>),
    Operation("basic_mul", <<UQ(8, 0), Word>>, UQ(5, 0), <<>>),
    Operation("basic_max", <<Word, Word>>, UQ(2, 0), <<>>),
    Operation("basic_min", <<Word, UQ(2, 0)>>, Word, <<>>),
    Operation("basic_rshift", <<UQ(4, 0), Word>>, UQ(4, 0), <<>>),
    Operation("basic_rshift", <<UQ(8, 0), UQ(4, 0)>>, UQ(2, 0), <<>>),
    Operation("basic_lshift", <<Word, Word>>, UQ(9, 0), <<>>),
    Operation("basic_lshift", <<UQ(8, 0), UQ(4, 0)>>, UQ(4, 0), <<>>),
    Operation("basic_concat", <<Word, UQ(2, 0)>>, UQ(5, 0), <<>>),
    Operation("basic_concat", <<UQ(8, 0), UQ(4, 0)>>, UQ(12, 0), <<>>),
    Operation("basic_invert", <<Word>>, UQ(5, 0), <<>>),
    Operation("basic_identity", <<Word>>, UQ(9, 0), <<>>),
    Operation("basic_identity", <<UQ(9, 0)>>, UQ(2, 0), <<>>),
    Operation("basic_or_reduce", <<Word>>, Bit1, <<>>),
    Operation("basic_and_reduce", <<Word>>, Bool, <<>>),
    Operation("basic_tuple_maker", <<Word, UQ(9, 0)>>, Tuple(<<Word, UQ(9, 0)>>), <<>>),
    Operation("_basic_dynamic_get_item", <<Tuple(<<Word, Word>>), Bit1>>, Word, <<>>),
    Operation("_q_is_min_val", <<Q(2, 1)>>, Bit1, <<>>),
    Operation("q_alloc", <<Word, Word>>, Q(2, 1), <<>>) }
  \cup {Operation(op, <<Word, Word>>, Word, <<>>) : op \in {"basic_or", "basic_xor", "basic_and"}}
  \cup {Operation(op, <<Word, UQ(2, 0)>>, Bool, <<>>) : op \in Comparisons}
  \cup {Operation("basic_select", <<UQ(4, 0)>>, UQ(2, 0), <<end + 1, end>>) : end \in 0 .. 2}
  \cup {Operation("_basic_get_item", <<Tuple(<<Word, Bool>>)>>, <<Word, Bool>>[i], <<i - 1>>) :
          i \in 1 .. 2}
  \cup {Operation(field, <<FloatType(f)>>, UQ(FieldsOf[f][field][2], 0), <<>>) :
          f \in Formats8 \cup Formats16, field \in {"exponent", "mantissa"}}
  \cup {Operation("sign", <<FloatType(f)>>, Bit1, <<>>) :
          f \in (Formats8 \cup Formats16) \ {"UE4M3"}}
  \cup {Operation("alloc",
                  [i \in 1 .. Len(FieldOrder(f)) |-> UQ(FieldsOf[f][FieldOrder(f)[i]][2], 0)],
                  FloatType(f), <<>>) : f \in Formats8 \cup {"Float16", "BFloat16"}}

OperationNames == [o \in Operations |-> ToString(o)]
OperationDefinition(o) ==
  Definition("primitive", "operation", "operation", FALSE, "",
             <<Step(o.op, o.p, [i \in DOMAIN o.types |-> i], o.out)>>, Len(o.types) + 1, <<>>, <<>>)

-----------------------------------------------------------------------------
(* Functions with a structure: a body is a sequence of steps               *)

Primitive(name, inline, code, ret) ==
  Definition("primitive", name, name, inline, "", code, ret, <<>>, <<>>)
Composite(name, code, ret) == Definition("composite", name, name, FALSE, "", code, ret, <<>>, <<>>)
Call1(f, x)     == Step(f, <<>>, <<x>>, Bool)
Call2(f, x, y)  == Step(f, <<>>, <<x, y>>, Bool)
Op1(op, x, out) == Step(op, <<>>, <<x>>, out)
Op2(op, x, y, out) == Step(op, <<>>, <<x, y>>, out)
One == ConstStep(Word, <<1>>)
Two == ConstStep(Word, <<2>>)

\* One round of the loop of lzc; its first step is node "first", the nodes
\* before it are the count and whether the bits so far are 0.
StillZero(pos, first) ==
  LET count == IF pos = 2 THEN 2 ELSE first - 1
      still == IF pos = 2 THEN 3 ELSE first - 2
  IN <<Step("basic_select", <<pos, pos>>, <<1>>, Bit1),
       Op1("basic_invert", first, Bit1),
       Op2("basic_and", still, first + 1, Bit1),
       Op2("basic_add", count, first + 2, UQ(2, 0))>>

Functions ==
  [ uq_add |-> Primitive("uq_add", FALSE, <<Op2("basic_add", 1, 2, Word)>>, 3),
    uq_eq  |-> Primitive("uq_eq", TRUE, <<Op2("basic_equal", 1, 2, Bool)>>, 3),
    uq_lt  |-> Primitive("uq_lt", TRUE, <<Op2("basic_less", 1, 2, Bool)>>, 3),
    is_zero |-> Primitive("is_zero", FALSE, <<Op1("basic_or_reduce", 1, Bit1),
                                              Op1("basic_invert", 2, Bit1)>>, 3),
    is_one |-> [Primitive("is_zero", FALSE, <<One, Op2("basic_equal", 1, 2, Bit1)>>, 3)
                  EXCEPT !.name = "is.zero"],
    Copy   |-> Primitive("Copy", TRUE, <<>>, 1),
    \* Bits 2, 1 and 0 of the word: one more zero as long as there was no one.
    lzc    |-> [Primitive("lzc", TRUE,
                  <<ConstStep(UQ(2, 0), <<0>>), ConstStep(Bit1, <<1>>)>>
                  \o StillZero(2, 4) \o StillZero(1, 8) \o StillZero(0, 12), 15)
                  EXCEPT !.direct = "lzc"],
    halves |-> Primitive("uq_split", FALSE,
                 <<Step("basic_select", <<0, 0>>, <<1>>, Bit1),
                   Step("basic_select", <<2, 1>>, <<1>>, UQ(2, 0)),
                   Op2("basic_tuple_maker", 2, 3, Tuple(<<Bit1, UQ(2, 0)>>))>>, 4),
    upper  |-> Primitive("Tuple_get_item_1", TRUE, <<Step("_basic_get_item", <<1>>, <<1>>, UQ(2, 0))>>, 2),

    \* A contract: the assumption in front, the check behind.
    increment |-> [Composite("increment", <<One, Call2("uq_add", 1, 2), ConstStep(Word, <<7>>),
                                            Call2("uq_lt", 1, 4), Call2("uq_lt", 1, 3)>>, 3)
                     EXCEPT !.inline = TRUE, !.assumes = <<Condition("x < 7", 5)>>,
                            !.checks = <<Condition("result > x", 6)>>],
    \* A check that fails on one input, under a condition that is a call.
    checked |-> [Composite("checked", <<Call1("increment", 1), Call2("uq_eq", 1, 2),
                                        Two, Call2("uq_lt", 2, 4)>>, 2)
                   EXCEPT !.checks = <<Condition("result < 2", 5)>>],

    twice   |-> Composite("twice", <<Call1("increment", 1), Call1("increment", 2)>>, 3),
    shared  |-> Composite("shared", <<Call1("increment", 1), Call2("uq_add", 2, 2)>>, 3),
    folded  |-> Composite("folded", <<One, Two, Call2("uq_add", 2, 3), Call2("uq_add", 1, 4)>>, 5),
    partly  |-> Composite("partly", <<One, Two, Call2("uq_add", 1, 2), Call2("uq_add", 1, 3),
                                      Call2("uq_add", 4, 5)>>, 6),
    \* The same name for functions of different widths, one of which is
    \* written like the first in uint types only, and for one more function.
    zeros   |-> Composite("zeros", <<Call1("is_zero", 1), Call1("is_zero", 2), Call1("is_one", 1),
                                     Call2("pack2", 3, 4)>>, 6),
    pack2   |-> Primitive("pack", TRUE, <<Op2("basic_concat", 1, 2, UQ(2, 0))>>, 3),
    named   |-> Composite("named", <<Call1("is_zero", 1), Call1("is_zero", 2), Call1("is_one", 1),
                                     Call1("is_one", 2), Call2("pack2", 3, 4), Call2("pack2", 5, 6),
                                     Call2("pack4", 7, 8)>>, 9),
    pack4   |-> Primitive("pack", FALSE, <<Op2("basic_concat", 1, 2, UQ(4, 0))>>, 3),
    counted |-> Composite("counted", <<Call1("increment", 1), Call1("lzc", 2), Call1("Copy", 3)>>, 4),
    split   |-> Composite("split", <<Call1("halves", 1), Call1("upper", 2)>>, 3),
    lookup  |-> Primitive("lookup", FALSE,
                  <<ConstStep(Tuple([i \in 1 .. 8 |-> Word]), [i \in 1 .. 8 |-> (3 * i) % 8]),
                    ConstStep(Word, <<4>>), Op2("basic_sub", 1, 3, Word),
                    Op2("_basic_dynamic_get_item", 2, 4, Word)>>, 5),
    looked_up |-> Composite("looked_up", <<Call1("lookup", 1), Call1("increment", 2)>>, 3),
    \* The value to be rounded and the choices, which come last.
    chosen  |-> Composite("chosen", <<Call2("make_Tuple", 2, 3)>>, 4),
    make_Tuple |-> Primitive("make_Tuple", TRUE,
                     <<Op2("basic_tuple_maker", 1, 2, Tuple(<<Bool, Bool>>))>>, 3),
    \* Two functions of one name, x - y and y - x: composites that call one
    \* primitive, and primitives, the arguments of whose operations are part of
    \* the fingerprint.
    uq_sub  |-> Primitive("uq_sub", FALSE, <<Op2("basic_sub", 1, 2, UQ(4, 0))>>, 3),
    minus   |-> Composite("difference", <<Call2("uq_sub", 1, 2)>>, 3),
    from    |-> Composite("difference", <<Call2("uq_sub", 2, 1)>>, 3),
    minus_op |-> Primitive("difference", FALSE, <<Op2("basic_sub", 1, 2, UQ(4, 0))>>, 3),
    from_op |-> Primitive("difference", FALSE, <<Op2("basic_sub", 2, 1, UQ(4, 0))>>, 3),
    calls   |-> Composite("calls", <<Call2("minus", 1, 2), Call2("from", 1, 2),
                                     Call2("uq_lt", 3, 4)>>, 5),
    words   |-> Composite("words", <<Call2("minus_op", 1, 2), Call2("from_op", 1, 2),
                                     Call2("uq_lt", 3, 4)>>, 5),
    \* An operation inside a composite: it cannot be made.
    bare    |-> Composite("bare", <<Call2("uq_add", 1, 1), Op2("basic_add", 1, 2, Word)>>, 3),
    hashed  |-> Composite("hashed", <<Call2("uq_eq", 1, 2)>>, 3),
    nested  |-> Composite("nested", <<Call1("halves", 1), Call1("pair", 2)>>, 3),
    pair    |-> Primitive("pair", FALSE, <<Op2("basic_tuple_maker", 1, 1,
                                                Tuple(<<Tuple(<<Bit1, UQ(2, 0)>>), Tuple(<<Bit1, UQ(2, 0)>>)>>))>>, 2) ]

\* The functions of the graph; a step of the name of none is an operation.
SomeLibrary == Functions @@ [f \in {OperationNames[o] : o \in Operations} |->
                               OperationDefinition(CHOOSE o \in Operations : OperationNames[o] = f)]

-----------------------------------------------------------------------------
(* Designs *)

ArgNames == <<"x", "y", "z", "u">>
Design(f, types, choices, cppName) ==
  [ f |-> f, types |-> types, names |-> SubSeq(ArgNames, 1, Len(types)), choices |-> choices,
    cppName |-> cppName ]

Structures ==
  { Design(f, <<Word>>, 0, "design") :
      f \in {"increment", "checked", "twice", "shared", "folded", "partly", "counted", "split",
             "lookup", "looked_up", "nested", "bare"} }
  \cup { Design("calls", <<Word, Word>>, 0, "design"),
         Design("words", <<Word, Word>>, 0, "design"),
         Design("zeros", <<Word, UQ(4, 0)>>, 0, "is_zero"),
         Design("named", <<Word, UQ(4, 0)>>, 0, "pack"),
         Design("chosen", <<Word, Bool, Bool>>, 2, "simulation_parameter"),
         Design("chosen", <<Tuple(<<UQ(2, 0), Bool>>), Bool, Bool>>, 2, "zolotone"),
         Design("hashed", <<Bool, Bool>>, 2, "choices"),
         Design("hashed", <<Bool, Bool>>, 1, "choices"),
         Design("chosen", <<UQ(64, 0), Bool, Bool>>, 2, "wide"),
         Design("chosen", <<Tuple(<<UQ(64, 0), Bool>>), Bool, Bool>>, 2, "wider") }

SomeDesigns ==
  Structures \cup {Design(OperationNames[o], o.types, 0, "operation") : o \in Operations}

\* A few payloads of the wide types, all of the narrow ones and, one that is
\* too great; the types of more than 32 bits are emitted only.
ScalarPayloads(t) ==
  LET bits == TotalBits(t) IN
  IF bits > 32 THEN {}
  ELSE IF bits > 30 THEN {0, 1, 2^23 - 1, 2^23, 3 * 2^23 + 5, 2^30 + 1}
  ELSE IF bits > 4 THEN {0, 1, 2^(bits - 1) - 1, 2^(bits - 1), 2^bits - 1, (2^bits \div 3) + 2}
  ELSE 0 .. 2^bits
SomePayloads(t) ==
  IF IsTuple(t)
  THEN {raw \in [DOMAIN t.items -> UNION {ScalarPayloads(t.items[i]) : i \in DOMAIN t.items}] :
          \A i \in DOMAIN t.items : raw[i] \in ScalarPayloads(t.items[i]) /\ raw[i] < 2^TotalBits(t.items[i])}
  ELSE {<<v>> : v \in ScalarPayloads(t)}

SomeMix(key) == (key * 7 + key \div 3) % 11
=============================================================================
