------------------------- MODULE MCEquivalenceCheck -------------------------
(* Two points, one input of two classes, a NaN and two finite outputs.  The  *)
(* outputs of side 1 are given up to renaming points and finite outputs.     *)
EXTENDS EquivalenceCheck, TLC

CONSTANTS p, q, x, one, two, nan, norm

MCClassOf == (one :> norm) @@ (two :> norm) @@ (nan :> nan)

Both(u, v) == (p :> u) @@ (q :> v)

MCInputs  == {Both(x :> norm, x :> norm), Both(x :> norm, x :> nan)}
MCDomains == {<<Points, Points>>, <<{p}, Points>>}
MCOutputs == {<<o1, o2>> : o1 \in {Both(one, one), Both(one, nan)},
                           o2 \in [Points -> Outputs]}

MCEntries(holds, flags) ==
    {[holds |-> h, flags |-> x :> f] : h \in holds, f \in flags}

\* check_spec of a floating-point design: the golden side is built by Cases.
AdaptivePairs ==
    [domain : {<<Points, Points>>}, output : MCOutputs, fp : {TRUE},
     cases : {<<<<>>, <<e1, e2>>>> :
                e1 \in MCEntries({{p}, Points}, {{}, {norm}}),
                e2 \in MCEntries({Points, {q}}, {{}})},
     shared : {{2}}, preferred : {2}, input : MCInputs]

\* Scalar outputs, Cases on both sides, three branches
ScalarPairs ==
    [domain : {<<Points, Points>>, <<{p}, {q}>>},
     output : {<<Both(one, one), o2>> : o2 \in {Both(one, one), Both(one, two)}},
     fp : {FALSE},
     cases : {<<<<e1, e2, e3>>, <<e>>>> :
                e1 \in MCEntries({{p}, Points}, {{norm}}),
                e2 \in MCEntries({{q}, Points}, {{}, {norm}}),
                e3 \in MCEntries({{q}, Points}, {{}}),
                e \in MCEntries({Points}, {{}})},
     shared : {{1, 2}}, preferred : {0, 2}, input : MCInputs]

\* The fallback: no Cases, or a guard over a variable that is no input's
FallbackPairs ==
    [domain : MCDomains, output : MCOutputs, fp : BOOLEAN,
     cases : {<<<<>>, c>> :
                c \in {<<>>} \cup {<<e>> : e \in MCEntries({Points, {p}}, {{}})}},
     shared : {{1}}, preferred : {2}, input : MCInputs]

MCPairs == AdaptivePairs \cup ScalarPairs \cup FallbackPairs
=============================================================================
