---------------------------- MODULE TermRewriting ----------------------------
(***************************************************************************)
(* What spec_ast.py and spec_utils.py compute by recursion on the terms of  *)
(* SpecTerms: their values, their folded forms, and what becomes of them    *)
(* when something is known of the terms they hold.                          *)
(***************************************************************************)
EXTENDS SpecTerms, SequencesExt

RECURSIVE Subterms(_)
Subterms(t) == {t} \cup UNION {Subterms(Args(t)[i]) : i \in DOMAIN Args(t)}

Variables(t) == {s \in Subterms(t) : Is(s, "var")}

\* What a term is worth under an assignment to the variables.
RECURSIVE Value(_, _)
Value(t, model) ==
    CASE Is(t, "var") -> model[t[2]]
      [] IsLiteral(t) -> t[2]
      [] OTHER -> Compute(t[1], [i \in DOMAIN Args(t) |-> Value(Args(t)[i], model)])

-----------------------------------------------------------------------------
\* _fold_node_with_folded_args, and _constant_fold
RECURSIVE FoldAgain(_, _), FoldRoot(_), Fold(_)
FoldAgain(t, shortcut) == IF shortcut # t THEN Fold(shortcut) ELSE Computed(t)
FoldRoot(t) == FoldAgain(t, Shortcut(t))
Fold(t) == IF Args(t) = <<>> THEN t
           ELSE FoldRoot(Rebuild(t, [i \in DOMAIN Args(t) |-> Fold(Args(t)[i])]))

\* substitute_literals: what is known of a term is put in its place, from the
\* root downwards and again in the replacement, but never twice on one path;
\* what becomes of a term by substitution below it is not looked up.
RECURSIVE SubstituteSeen(_, _, _)
SubstituteSeen(t, known, seen) ==
    IF t \in DOMAIN known
    THEN IF t \in seen THEN t ELSE SubstituteSeen(known[t], known, seen \cup {t})
    ELSE IF Args(t) = <<>> THEN t
    ELSE FoldRoot(Rebuild(t, [i \in DOMAIN Args(t) |-> SubstituteSeen(Args(t)[i], known, seen)]))

Substitute(t, known) == SubstituteSeen(t, known, {})

-----------------------------------------------------------------------------
\* _assumption_conjuncts
RECURSIVE Conjuncts(_)
Conjuncts(t) == IF Is(t, "and") THEN Conjuncts(t[2]) \o Conjuncts(t[3]) ELSE <<t>>

\* The conjuncts of the folded assumptions become assumptions of their own.
Split(assumes) == FlattenSeq([i \in DOMAIN assumes |-> Conjuncts(Fold(assumes[i]))])
=============================================================================
