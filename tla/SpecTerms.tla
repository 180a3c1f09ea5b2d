------------------------------ MODULE SpecTerms ------------------------------
(***************************************************************************)
(* The expressions of a specification and their simplification              *)
(* (zolotone/spec/spec_ast.py).  A term is a tuple: the operator and the    *)
(* operands; a leaf is a variable, with its name and whether it is real or  *)
(* Boolean, or a literal with its value.  Rounding, powers with negative    *)
(* exponents and the functions of analysis are left out: only their         *)
(* literals are folded.                                                     *)
(***************************************************************************)
EXTENDS Integers, Sequences

RealVar(name) == <<"var", name, "real">>
BoolVar(name) == <<"var", name, "bool">>
Real(n)   == <<"real", n>>
Bool(b)   == <<"bool", b>>

True  == Bool(TRUE)
False == Bool(FALSE)

Is(t, op) == t[1] = op

IsLiteral(t) == t[1] \in {"real", "bool"}

IsLiteralOf(t, kind, value) == Is(t, kind) /\ t[2] = value

\* children
Args(t) == IF t[1] \in {"var", "real", "bool"} THEN <<>> ELSE Tail(t)

\* rebuild_spec_node
Rebuild(t, args) == <<t[1]>> \o args

Connectives == {"not", "and", "or", "beq", "bne"}
Comparisons == {"eq", "ne", "lt", "le", "gt", "ge"}

\* What an operation computes of the values of its operands.
Arithmetic(op, v) ==
    CASE op = "add" -> v[1] + v[2]
      [] op = "sub" -> v[1] - v[2]
      [] op = "mul" -> v[1] * v[2]
      [] op = "pow" -> IF v[2] = 0 THEN 1 ELSE v[1]^v[2]
      [] op = "neg" -> -v[1]
      [] op = "abs" -> IF v[1] < 0 THEN -v[1] ELSE v[1]

Selection(op, v) ==
    CASE op = "max" -> IF v[1] >= v[2] THEN v[1] ELSE v[2]
      [] op = "min" -> IF v[1] <= v[2] THEN v[1] ELSE v[2]
      [] op = "if"  -> IF v[1] THEN v[2] ELSE v[3]

Comparison(op, v) ==
    CASE op = "eq" -> v[1] = v[2]
      [] op = "ne" -> v[1] # v[2]
      [] op = "lt" -> v[1] < v[2]
      [] op = "le" -> v[1] <= v[2]
      [] op = "gt" -> v[1] > v[2]
      [] op = "ge" -> v[1] >= v[2]

Connective(op, v) ==
    CASE op = "not" -> ~v[1]
      [] op = "and" -> v[1] /\ v[2]
      [] op = "or"  -> v[1] \/ v[2]
      [] op = "beq" -> v[1] <=> v[2]
      [] op = "bne" -> ~(v[1] <=> v[2])

Compute(op, v) ==
    IF op \in Connectives THEN Connective(op, v)
    ELSE IF op \in Comparisons THEN Comparison(op, v)
    ELSE IF op \in {"max", "min", "if"} THEN Selection(op, v) ELSE Arithmetic(op, v)

-----------------------------------------------------------------------------
(* _constant_fold                                                           *)

Complements(a, b) == a = <<"not", b>> \/ b = <<"not", a>>

\* A Boolean operand that is a literal, and the other operand.
Other(a, b)   == IF Is(a, "bool") THEN b ELSE a
Literal(a, b) == IF Is(a, "bool") THEN a ELSE b

\* (common and x) or (common and y) is common and (x or y).
CommonFactors(a, b) ==
    IF Is(a, "and") /\ Is(b, "and")
    THEN {p \in {2, 3} \X {2, 3} : a[p[1]] = b[p[2]]}
    ELSE {}

FirstOf(pairs) ==
    CHOOSE p \in pairs : \A q \in pairs : p[1] < q[1] \/ (p[1] = q[1] /\ p[2] <= q[2])

Factored(a, b) ==
    LET p == FirstOf(CommonFactors(a, b))
    IN  <<"and", a[p[1]], <<"or", a[5 - p[1]], b[5 - p[2]]>> >>

\* A Boolean operation on a literal, which leaves the other operand, its
\* negation or a literal.
WithLiteral(op, lit, t) ==
    CASE op = "and" -> IF lit[2] THEN t ELSE False
      [] op = "or"  -> IF lit[2] THEN True ELSE t
      [] op = "beq" -> IF lit[2] THEN t ELSE <<"not", t>>
      [] op = "bne" -> IF lit[2] THEN <<"not", t>> ELSE t

\* One step at the root of a term whose operands are folded.
BooleanShortcut(t) ==
    LET a == t[2]  b == t[3] IN
    CASE a = b -> IF t[1] \in {"and", "or"} THEN a ELSE Bool(Is(t, "beq"))
      [] a # b /\ Complements(a, b) -> Bool(t[1] \in {"or", "bne"})
      [] a # b /\ ~Complements(a, b) /\ (Is(a, "bool") \/ Is(b, "bool")) ->
            WithLiteral(t[1], Literal(a, b), Other(a, b))
      [] OTHER -> IF Is(t, "or") /\ CommonFactors(a, b) # {} THEN Factored(a, b) ELSE t

ArithmeticShortcut(t) ==
    LET a == t[2]
        b == t[3]
        zero(s) == IsLiteralOf(s, "real", 0)
        one(s)  == IsLiteralOf(s, "real", 1)
    IN  IF Is(t, "mul")
        THEN IF zero(a) \/ zero(b) THEN Real(0)
             ELSE IF one(a) THEN b ELSE IF one(b) THEN a ELSE t
        ELSE IF Is(t, "add")
        THEN IF zero(a) THEN b ELSE IF zero(b) THEN a ELSE t
        ELSE IF a = b THEN Real(0)
             ELSE IF zero(b) THEN a ELSE IF zero(a) THEN <<"neg", b>> ELSE t

Shortcut(t) ==
    CASE t[1] \in {"and", "or", "beq", "bne"} -> BooleanShortcut(t)
      [] t[1] \in {"add", "sub", "mul"}       -> ArithmeticShortcut(t)
      [] t[1] \in {"eq", "ne"} -> IF t[2] = t[3] THEN Bool(Is(t, "eq")) ELSE t
      [] Is(t, "not") -> IF Is(t[2], "not") THEN t[2][2] ELSE t
      [] Is(t, "if")  -> IF Is(t[2], "bool") THEN IF t[2][2] THEN t[3] ELSE t[4]
                         ELSE IF t[3] = t[4] THEN t[3] ELSE t
      [] OTHER -> t

IsBoolean(t) ==
    IF t[1] \in {"var", "bool", "real"} THEN Is(t, "bool") \/ (Is(t, "var") /\ t[3] = "bool")
    ELSE t[1] \in Connectives \cup Comparisons

\* The operation carried out on literals.
Computed(t) ==
    IF \A i \in DOMAIN Args(t) : IsLiteral(Args(t)[i])
    THEN <<IF IsBoolean(t) THEN "bool" ELSE "real",
           Compute(t[1], [i \in DOMAIN Args(t) |-> Args(t)[i][2]])>>
    ELSE t

=============================================================================
