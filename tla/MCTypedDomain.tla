--------------------------- MODULE MCTypedDomain ---------------------------
(***************************************************************************)
(* A two-bit Q input and a Bool input: eight points.  Every specification   *)
(* whose points are all excluded or all in order, but for two of them.      *)
(***************************************************************************)
EXTENDS TypedDomain

TwoInputs == <<[kind |-> "Q", width |-> 2], [kind |-> "Bool", width |-> 1]>>

Points == (-2 .. 1) \X (0 .. 1)

\* Outputs within the range of the output type, at its ends and beyond.
Lowest == -1
Outputs == {-1, 0, 2}

\* What can happen at a point: excluded, failing somewhere, or an output.
Kinds ==
    {<<"false", "error", FALSE, 0>>, <<"false", "false", TRUE, 2>>,
     <<"error", "true", FALSE, 0>>, <<"true", "false", FALSE, 0>>,
     <<"true", "error", TRUE, 0>>, <<"true", "true", FALSE, 0>>,
     <<"true", "true", TRUE, -1>>, <<"true", "true", TRUE, 2>>}

Usual == {<<"false", "error", FALSE, 0>>, <<"true", "true", TRUE, -1>>}

\* a at the point q, b at r and c everywhere else.
Specification(q, a, r, b, c) ==
    [assume  |-> [p \in Points |-> IF p = q THEN a[1] ELSE IF p = r THEN b[1] ELSE c[1]],
     check   |-> [p \in Points |-> IF p = q THEN a[2] ELSE IF p = r THEN b[2] ELSE c[2]],
     defined |-> {p \in Points : IF p = q THEN a[3] ELSE IF p = r THEN b[3] ELSE c[3]},
     output  |-> [p \in Points |-> IF p = q THEN a[4] ELSE IF p = r THEN b[4] ELSE c[4]]]

AlmostUniform ==
    {Specification(q, a, r, b, c) :
        q \in Points, a \in Kinds, r \in Points, b \in Kinds, c \in Usual}
=============================================================================
