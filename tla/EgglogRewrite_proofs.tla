------------------------- MODULE EgglogRewrite_proofs -------------------------
(***************************************************************************)
(* That the tools in turns lose no model of the question and answer it      *)
(* rightly.  What the passes of SimplifyContext learn from assumptions      *)
(* holds wherever these hold, so rewriting by it keeps them true and the    *)
(* checks what they are.  Each tool keeps the context it is given, in the   *)
(* sense of Keeps, and Keeps is transitive: so what is decided of the last  *)
(* context is true of the first.  That the operators on terms, boxes and    *)
(* e-graphs do as they promise, RewritingSound, is a hypothesis: these are  *)
(* recursive, and TLC checks the promises at every state.                   *)
(***************************************************************************)
EXTENDS EgglogRewrite, FunctionTheorems, FiniteSetTheorems, SequenceTheorems, TLAPS

-----------------------------------------------------------------------------
(* What is learned from assumptions holds wherever they hold.               *)

FactHolds(f, m) == ValueOf(f.value, m) = ValueOf(f.expr, m)

\* A conjunct of a true assumption is true when it has been folded.
LEMMA StatedHolds ==
  ASSUME NEW t, NEW m \in Models, AssumptionSound(t), IsTrue(t, m), NEW c \in Stated(t)
  PROVE  IsTrue(c, m) /\ Meaning(c, m)
<1>1. PICK k \in DOMAIN ConjunctsOf(t) : c = ConstantFolded(ConjunctsOf(t)[k])
  BY DEF Stated
<1>2. IsTrue(ConjunctsOf(t)[k], m)
  <2>1. CASE ConjunctsOf(t) = <<t>>
    BY <2>1 
  <2>2. CASE ConjunctsOf(t) # <<t>>
    BY <2>2 DEF AssumptionSound, SplitSound, Holds
  <2>3. QED BY <2>1, <2>2
<1>3. FoldSound(ConjunctsOf(t)[k])
  BY DEF AssumptionSound
<1>4. ValueOf(c, m) = ValueOf(ConjunctsOf(t)[k], m)
  BY <1>1, <1>3 DEF FoldSound
<1>5. Meaning(c, m)
  BY DEF AssumptionSound
<1>6. QED BY <1>2, <1>4, <1>5 DEF IsTrue

\* The fact learned from a true conjunct holds.
LEMMA LearnedHolds ==
  ASSUME NEW c, NEW m \in Models, LiteralsSound, IsTrue(c, m), Meaning(c, m),
         NEW f \in Learned(c)
  PROVE  FactHolds(f, m)
<1>1. ValueOf(True, m) = TRUE /\ ValueOf(False, m) = FALSE
  BY DEF LiteralsSound, Meaning, True, False, Bool, IsLiteral, Is
<1>2. CASE Is(c, "not")
  <2>1. f = [expr |-> c[2], value |-> False]
    BY <1>2 DEF Learned
  <2>2. QED BY <1>1, <1>2, <2>1 DEF Meaning, FactHolds
<1>3. CASE Is(c, "eq") /\ IsLiteral(c[3])
  <2>1. f = [expr |-> c[2], value |-> c[3]]
    BY <1>3 DEF Learned, Is
  <2>2. QED BY <1>3, <2>1 DEF Meaning, FactHolds, Is
<1>4. CASE Is(c, "eq") /\ ~IsLiteral(c[3]) /\ IsLiteral(c[2])
  <2>1. f = [expr |-> c[3], value |-> c[2]]
    BY <1>4 DEF Learned, Is
  <2>2. QED BY <1>4, <2>1 DEF Meaning, FactHolds, Is
<1>5. CASE /\ ~Is(c, "not") /\ ~(Is(c, "eq") /\ IsLiteral(c[3]))
           /\ ~(Is(c, "eq") /\ IsLiteral(c[2]))
  <2>1. f = [expr |-> c, value |-> True]
    BY <1>5 DEF Learned
  <2>2. QED BY <1>1, <2>1 DEF FactHolds, IsTrue
<1>6. QED BY <1>2, <1>3, <1>4, <1>5

LEMMA FactsHold ==
  ASSUME NEW t, NEW m \in Models, LiteralsSound, AssumptionSound(t), IsTrue(t, m),
         NEW f \in FactsOf(t)
  PROVE  FactHolds(f, m)
<1>1. PICK c \in Stated(t) : f \in Learned(c)
  BY DEF FactsOf
<1>2. QED BY <1>1, StatedHolds, LearnedHolds

\* So does the alias.
LEMMA AliasHolds ==
  ASSUME NEW c, NEW m \in Models, IsTrue(c, m), Meaning(c, m), NEW a \in AliasIn(c)
  PROVE  FactHolds(a, m)
<1>1. c[1] \in {"eq", "beq"}
  BY DEF AliasIn
<1>2. ValueOf(c[2], m) = ValueOf(c[3], m)
  BY <1>1 DEF Meaning
<1>3. a = [expr |-> c[2], value |-> c[3]] \/ a = [expr |-> c[3], value |-> c[2]]
  BY DEF AliasIn, AliasOf
<1>4. QED BY <1>2, <1>3 DEF FactHolds

-----------------------------------------------------------------------------
(* Facts as a map, and one map over another.                                *)

LEMMA AsMapAgrees ==
  ASSUME NEW facts, NEW m, \A f \in facts : FactHolds(f, m)
  PROVE  Agrees(AsMap(facts), m)
<1>1. SUFFICES ASSUME NEW f \in facts
               PROVE  ValueOf(AsMap(facts)[f.expr], m) = ValueOf(f.expr, m)
  BY DEF Agrees, AsMap
<1>2. DEFINE g == CHOOSE h \in facts : h.expr = f.expr
<1>3. g \in facts /\ g.expr = f.expr
  OBVIOUS
<1>4. AsMap(facts)[f.expr] = g.value
  BY DEF AsMap
<1>5. QED BY <1>3, <1>4 DEF FactHolds

LEMMA OverAgrees ==
  ASSUME NEW f, NEW g, NEW m, Agrees(f, m), Agrees(g, m)
  PROVE  Agrees(Over(f, g), m)
BY DEF Agrees, Over

LEMMA KnownFromAgrees ==
  ASSUME NEW assumes, NEW m \in Models, LiteralsSound,
         \A i \in DOMAIN assumes : AssumptionSound(assumes[i]), Holds(assumes, m)
  PROVE  Agrees(KnownFrom(assumes), m)
<1>1. Agrees(AsMap(Facts(assumes)), m)
  <2>1. \A f \in Facts(assumes) : FactHolds(f, m)
    BY FactsHold DEF Facts, FactsAmong, Holds
  <2>2. QED BY <2>1, AsMapAgrees
<1>2. ASSUME NEW p \in Places(assumes), NEW a \in Alias(assumes, p[1], p[2])
      PROVE  FactHolds(a, m)
  <2>1. PICK i \in DOMAIN assumes : p \in {i} \X DOMAIN ConjunctsOf(assumes[i])
    BY DEF Places
  <2>2. p[1] = i /\ p[2] \in DOMAIN ConjunctsOf(assumes[i])
    BY <2>1
  <2>3. ConstantFolded(ConjunctsOf(assumes[i])[p[2]]) \in Stated(assumes[i])
    BY <2>2 DEF Stated
  <2>4. IsTrue(assumes[i], m) /\ AssumptionSound(assumes[i])
    BY DEF Holds
  <2>5. QED BY <2>2, <2>3, <2>4, StatedHolds, AliasHolds DEF Alias
<1>3. Agrees(Aliases(assumes), m)
  <2> DEFINE found == UNION {{[alias |-> a, at |-> p] : a \in Alias(assumes, p[1], p[2])} :
                                p \in Places(assumes)}
             first(f) == \A g \in found : g.alias.expr = f.alias.expr => ~Before(g.at, f.at)
             facts == {f.alias : f \in {g \in found : first(g)}}
  <2>1. \A f \in found : FactHolds(f.alias, m)
    BY <1>2
  <2>2. \A f \in facts : FactHolds(f, m)
    BY <2>1
  <2>3. Aliases(assumes) = AsMap(facts)
    BY DEF Aliases
  <2>4. QED BY <2>2, <2>3, AsMapAgrees
<1>4. QED BY <1>1, <1>3, OverAgrees DEF KnownFrom

LEMMA FactsOfOthersAgree ==
  ASSUME NEW m \in Models, NEW idx \in Nat, LiteralsSound, IsSeq(simplified.assumes),
         \A i \in DOMAIN simplified.assumes : AssumptionSound(simplified.assumes[i]),
         Holds(simplified.assumes, m), idx \in DOMAIN simplified.assumes
  PROVE  Agrees(FactsOfOthers(idx), m)
<1> DEFINE S == simplified.assumes
           facts == FactsAmong(S, 1 .. idx - 1)
                      \cup (FactsAmong(S, idx + 1 .. Len(S)) \ FactsOf(S[idx]))
<1>1. DOMAIN S = 1 .. Len(S) /\ Len(S) \in Nat
  BY DEF IsSeq
<1>2. \A i \in (1 .. idx - 1) \cup (idx + 1 .. Len(S)) : i \in DOMAIN S
  BY <1>1
<1>3. \A f \in facts : FactHolds(f, m)
  BY <1>2, FactsHold DEF FactsAmong, Holds
<1>4. FactsOfOthers(idx) = AsMap(facts)
  BY DEF FactsOfOthers
<1>5. QED BY <1>3, <1>4, AsMapAgrees

\* Assumptions that contradict one another cannot all hold.
LEMMA ContradictionImpossible ==
  ASSUME NEW assumes, NEW m \in Models, LiteralsSound,
         \A i \in DOMAIN assumes : AssumptionSound(assumes[i]), Contradictory(assumes)
  PROVE  ~Holds(assumes, m)
<1>1. SUFFICES ASSUME Holds(assumes, m) PROVE FALSE
  OBVIOUS
<1>2. ValueOf(False, m) = FALSE
  BY DEF LiteralsSound, Meaning, False, Bool, IsLiteral, Is
<1>3. CASE \E i \in DOMAIN assumes : False \in Stated(assumes[i])
  <2>1. IsTrue(False, m)
    BY <1>1, <1>3, StatedHolds DEF Holds
  <2>2. QED BY <1>2, <2>1 DEF IsTrue
<1>4. CASE \E f, g \in Facts(assumes) : f.expr = g.expr /\ f.value # g.value
  <2>1. PICK f \in Facts(assumes), g \in Facts(assumes) :
                f.expr = g.expr /\ f.value # g.value
    BY <1>4
  <2>2. ASSUME NEW h \in Facts(assumes)
        PROVE  FactHolds(h, m) /\ FactSound(h)
    <3>1. PICK i \in DOMAIN assumes : h \in FactsOf(assumes[i])
      BY DEF Facts, FactsAmong
    <3>2. IsTrue(assumes[i], m) /\ AssumptionSound(assumes[i])
      BY <1>1 DEF Holds
    <3>3. QED BY <3>1, <3>2, FactsHold DEF AssumptionSound
  <2>3. ASSUME NEW h \in Facts(assumes)
        PROVE  ValueOf(h.expr, m) = h.value[2]
    <3>1. h.value[1] \in {"bool", "real"}
      BY <2>2 DEF FactSound
    <3>2. Meaning(h.value, m)
      BY <2>2 DEF FactSound
    <3>3. QED BY <2>2, <3>1, <3>2 DEF Meaning, IsLiteral, FactHolds
  <2>4. f.value[2] = g.value[2]
    BY <2>1, <2>3
  <2>5. QED BY <2>1, <2>2, <2>4 DEF FactSound
<1>5. QED BY <1>3, <1>4 DEF Contradictory

-----------------------------------------------------------------------------
(* Sequences of terms                                                       *)

LEMMA SeqIsSeq ==
  ASSUME NEW S, NEW s \in Seq(S)
  PROVE  IsSeq(s) /\ Len(s) \in Nat /\ DOMAIN s = 1 .. Len(s)
<1>1. Len(s) \in Nat /\ s \in [1 .. Len(s) -> S] /\ DOMAIN s = 1 .. Len(s)
  BY LenProperties
<1>2. s \in [1 .. Len(s) -> {s[i] : i \in DOMAIN s}]
  BY <1>1
<1>3. QED BY <1>1, <1>2, SeqDef DEF IsSeq

LEMMA IsSeqProperties ==
  ASSUME NEW s, IsSeq(s)
  PROVE  Len(s) \in Nat /\ DOMAIN s = 1 .. Len(s)
BY LenProperties DEF IsSeq

LEMMA HoldsEmpty ==
  ASSUME NEW m
  PROVE  IsSeq(<<>>) /\ Holds(<<>>, m)
<1>1. <<>> \in Seq({}) /\ DOMAIN <<>> = {}
  OBVIOUS
<1>2. QED BY <1>1, SeqIsSeq DEF Holds

LEMMA HoldsAppend ==
  ASSUME NEW s, IsSeq(s), NEW t
  PROVE  /\ IsSeq(Append(s, t))
         /\ Len(Append(s, t)) = Len(s) + 1
         /\ \A i \in DOMAIN Append(s, t) :
               Append(s, t)[i] = IF i \in DOMAIN s THEN s[i] ELSE t
         /\ \A m : Holds(Append(s, t), m) <=> Holds(s, m) /\ IsTrue(t, m)
<1> DEFINE S == {s[i] : i \in DOMAIN s} \cup {t}
           u == Append(s, t)
<1>1. s \in Seq(S)
  BY SeqMonotonic DEF IsSeq
<1>2. /\ u \in Seq(S) /\ Len(u) = Len(s) + 1
      /\ \A i \in 1 .. Len(s) : u[i] = s[i]
      /\ u[Len(s) + 1] = t
  BY <1>1, AppendProperties, t \in S
<1>3. IsSeq(u) /\ DOMAIN u = 1 .. Len(s) + 1 /\ DOMAIN s = 1 .. Len(s) /\ Len(s) \in Nat
  BY <1>1, <1>2, SeqIsSeq
<1> HIDE DEF u, S
<1>4. \A i \in DOMAIN u : u[i] = IF i \in DOMAIN s THEN s[i] ELSE t
  BY <1>2, <1>3
<1>5. \A m : Holds(u, m) <=> Holds(s, m) /\ IsTrue(t, m)
  BY <1>2, <1>3 DEF Holds
<1>6. QED BY <1>2, <1>3, <1>4, <1>5 DEF u

LEMMA HoldsConcat ==
  ASSUME NEW s, IsSeq(s), NEW t, IsSeq(t)
  PROVE  IsSeq(s \o t) /\ \A m : Holds(s \o t, m) <=> Holds(s, m) /\ Holds(t, m)
<1> DEFINE S == {s[i] : i \in DOMAIN s} \cup {t[i] : i \in DOMAIN t}
           u == s \o t
<1>1. s \in Seq(S) /\ t \in Seq(S)
  BY SeqMonotonic DEF IsSeq
<1>2. /\ u \in Seq(S) /\ Len(u) = Len(s) + Len(t)
      /\ \A i \in 1 .. Len(s) + Len(t) : u[i] = IF i <= Len(s) THEN s[i] ELSE t[i - Len(s)]
  BY <1>1, ConcatProperties
<1>3. /\ IsSeq(u) /\ DOMAIN u = 1 .. Len(s) + Len(t)
      /\ DOMAIN s = 1 .. Len(s) /\ DOMAIN t = 1 .. Len(t) /\ Len(s) \in Nat /\ Len(t) \in Nat
  BY <1>1, <1>2, SeqIsSeq
<1> HIDE DEF u, S
<1>4. ASSUME NEW m, Holds(u, m)
      PROVE  Holds(s, m) /\ Holds(t, m)
  <2>1. ASSUME NEW i \in 1 .. Len(s) PROVE IsTrue(s[i], m)
    BY <1>2, <1>3, <1>4, i \in DOMAIN u, u[i] = s[i] DEF Holds
  <2>2. ASSUME NEW i \in 1 .. Len(t) PROVE IsTrue(t[i], m)
    <3>1. i + Len(s) \in DOMAIN u /\ u[i + Len(s)] = t[i]
      BY <1>2, <1>3
    <3>2. QED BY <1>4, <3>1 DEF Holds
  <2>3. QED BY <1>3, <2>1, <2>2 DEF Holds
<1>5. ASSUME NEW m, Holds(s, m), Holds(t, m)
      PROVE  Holds(u, m)
  <2>1. SUFFICES ASSUME NEW i \in 1 .. Len(s) + Len(t) PROVE IsTrue(u[i], m)
    BY <1>3 DEF Holds
  <2>2. CASE i <= Len(s)
    BY <1>2, <1>3, <1>5, <2>2 DEF Holds
  <2>3. CASE ~(i <= Len(s))
    <3>1. u[i] = t[i - Len(s)] /\ i - Len(s) \in DOMAIN t
      BY <1>2, <1>3, <2>3
    <3>2. QED BY <1>5, <3>1 DEF Holds
  <2>4. QED BY <2>2, <2>3
<1>6. QED BY <1>3, <1>4, <1>5 DEF u

LEMMA HoldsSubSeq ==
  ASSUME NEW s, IsSeq(s), NEW n \in 1 .. Len(s) + 1
  PROVE  /\ IsSeq(SubSeq(s, n, Len(s)))
         /\ \A m : Holds(s, m) => Holds(SubSeq(s, n, Len(s)), m)
<1> DEFINE S == {s[i] : i \in DOMAIN s}
           u == SubSeq(s, n, Len(s))
<1>1. Len(s) \in Nat /\ DOMAIN s = 1 .. Len(s)
  BY IsSeqProperties
<1>2. /\ u \in Seq(S)
      /\ Len(u) = IF n <= Len(s) THEN Len(s) - n + 1 ELSE 0
      /\ \A i \in 1 .. Len(s) - n + 1 : u[i] = s[n + i - 1]
  BY <1>1, SubSeqProperties, \A i \in n .. Len(s) : s[i] \in S
<1>3. IsSeq(u) /\ DOMAIN u = 1 .. Len(u) /\ Len(u) \in Nat
  BY <1>2, SeqIsSeq
<1> HIDE DEF u, S
<1>4. ASSUME NEW m, Holds(s, m), NEW i \in DOMAIN u
      PROVE  IsTrue(u[i], m)
  <2>1. i \in 1 .. Len(s) - n + 1 /\ n + i - 1 \in DOMAIN s
    BY <1>1, <1>2, <1>3
  <2>2. QED BY <1>2, <1>4, <2>1 DEF Holds
<1>5. QED BY <1>3, <1>4 DEF Holds, u

\* Dropping what is true keeps the order of the others, loses none of them and
\* changes nothing of what the terms say.
LEMMA HoldsRemaining ==
  ASSUME NEW terms, IsSeq(terms), LiteralsSound
  PROVE  /\ IsSeq(Remaining(terms))
         /\ \A m \in Models : Holds(Remaining(terms), m) <=> Holds(terms, m)
<1> DEFINE kept == {i \in DOMAIN terms : terms[i] # True}
           upto(i) == {j \in kept : j <= i}
           rank == [i \in kept |-> Cardinality(upto(i))]
           N == Cardinality(kept)
           nth(k) == CHOOSE i \in kept : Cardinality({j \in kept : j <= i}) = k
<1>1. DOMAIN terms = 1 .. Len(terms) /\ Len(terms) \in Nat
  BY IsSeqProperties
<1>2. IsFiniteSet(kept) /\ N \in Nat
  <2>1. IsFiniteSet(1 .. Len(terms)) /\ kept \in SUBSET (1 .. Len(terms))
    BY <1>1, FS_Interval
  <2>2. IsFiniteSet(kept)
    BY <2>1, FS_Subset
  <2>3. QED BY <2>2, FS_CardinalityType
<1>3. ASSUME NEW i \in kept
      PROVE  IsFiniteSet(upto(i)) /\ Cardinality(upto(i)) \in 1 .. N
  <2>1. upto(i) \in SUBSET kept /\ i \in upto(i)
    BY <1>1
  <2>2. IsFiniteSet(upto(i)) /\ Cardinality(upto(i)) <= N /\ Cardinality(upto(i)) \in Nat
    BY <1>2, <2>1, FS_Subset, FS_CardinalityType
  <2>3. Cardinality(upto(i)) # 0
    BY <2>1, <2>2, FS_EmptySet
  <2>4. QED BY <1>2, <2>2, <2>3
<1>4. ASSUME NEW i \in kept, NEW j \in kept, i < j
      PROVE  Cardinality(upto(i)) # Cardinality(upto(j))
  <2>1. upto(i) \in SUBSET upto(j) /\ j \in upto(j) /\ j \notin upto(i)
    BY <1>1, <1>4
  <2>2. QED BY <1>3, <2>1, FS_Subset
<1>5. \A i, j \in kept : Cardinality(upto(i)) = Cardinality(upto(j)) => i = j
  BY <1>1, <1>4
<1> HIDE DEF kept, upto, N
<1>6. rank \in [kept -> 1 .. N]
  BY <1>3
<1>7. rank \in Injection(kept, 1 .. N)
  BY <1>5, <1>6, Fun_IsInj
<1>8. IsFiniteSet(1 .. N) /\ Cardinality(1 .. N) = N
  BY <1>2, FS_Interval
<1>9. rank \in Surjection(kept, 1 .. N)
  BY <1>7, <1>8, FS_Injection DEF N
<1>10. \A k \in 1 .. N : \E i \in kept : Cardinality(upto(i)) = k
  BY <1>9 DEF Surjection
<1>11. \A k \in 1 .. N : nth(k) \in kept /\ Cardinality(upto(nth(k))) = k
  BY <1>10 DEF upto
<1>12. \A i \in kept : nth(Cardinality(upto(i))) = i
  BY <1>3, <1>5, <1>11
<1>13. Remaining(terms) = [k \in 1 .. N |-> terms[nth(k)]]
  BY DEF Remaining, kept, N
<1> HIDE DEF nth
<1>14. \A k \in 1 .. N : nth(k) \in DOMAIN terms
  BY <1>11 DEF kept
<1>15. IsSeq(Remaining(terms))
  <2>1. Remaining(terms) \in [1 .. N -> {terms[i] : i \in DOMAIN terms}]
    BY <1>13, <1>14
  <2>2. QED BY <1>2, <2>1, SeqDef, SeqIsSeq
<1>16. ASSUME NEW m \in Models, Holds(terms, m)
       PROVE  Holds(Remaining(terms), m)
  BY <1>13, <1>14, <1>16 DEF Holds
<1>17. ASSUME NEW m \in Models, Holds(Remaining(terms), m), NEW i \in DOMAIN terms
       PROVE  IsTrue(terms[i], m)
  <2>1. CASE terms[i] = True
    BY <2>1 DEF LiteralsSound, Meaning, IsLiteral, IsTrue, True, Bool
  <2>2. CASE terms[i] # True
    <3>1. i \in kept
      BY <2>2 DEF kept
    <3>2. nth(Cardinality(upto(i))) = i /\ Cardinality(upto(i)) \in 1 .. N
      BY <1>3, <1>12, <3>1
    <3>3. QED BY <1>13, <1>17, <3>2 DEF Holds
  <2>3. QED BY <2>1, <2>2
<1>18. QED BY <1>15, <1>16, <1>17 DEF Holds

-----------------------------------------------------------------------------
(* The passes                                                               *)

\* What holds of a context goes on to the next one.
LEMMA KeepsTransitive ==
  ASSUME NEW a, NEW b, NEW c, Keeps(a, b), Keeps(b, c)
  PROVE  Keeps(a, c)
BY DEF Keeps

\* The assumptions of a pass and those rewritten so far are true wherever the
\* given ones are, and nothing is taken of an assumption but what it says.
RegularInv ==
    /\ IsContext(given) /\ IsContext(simplified) /\ IsSeq(rewritten)
    /\ assume_idx \in 1 .. Len(simplified.assumes) + 1
    /\ LiteralsSound
    /\ \A i \in DOMAIN simplified.assumes : AssumptionSound(simplified.assumes[i])
    /\ \A i \in DOMAIN rewritten : AssumptionSound(rewritten[i])
    /\ Keeps(given, simplified)
    /\ \A m \in Models : Holds(given.assumes, m) => Holds(rewritten, m)
    /\ outcome = "PoorSpec" => Impossible(given.assumes)

LEMMA EntryKeeps ==
  ASSUME NEW ctx, IsContext(ctx), EntrySound(ctx)
  PROVE  /\ IsContext(Entered(ctx)) /\ LiteralsSound
         /\ \A i \in DOMAIN Entered(ctx).assumes : AssumptionSound(Entered(ctx).assumes[i])
         /\ Keeps(ctx, Entered(ctx))
         /\ Rejected(ctx) => Impossible(ctx.assumes)
<1>1. LiteralsSound /\ IsContext(Entered(ctx))
  BY DEF EntrySound, Entered, IsContext
<1>2. \A i \in DOMAIN Entered(ctx).assumes : AssumptionSound(Entered(ctx).assumes[i])
  BY DEF EntrySound, Entered
<1>3. Keeps(ctx, Entered(ctx))
  BY DEF EntrySound, Entered, Keeps
<1>4. ASSUME Rejected(ctx), NEW m \in Models, Holds(ctx.assumes, m)
      PROVE  FALSE
  <2>1. PICK i \in DOMAIN ctx.assumes : ConstantFolded(ctx.assumes[i]) = False
    BY <1>4 DEF Rejected
  <2>2. ValueOf(False, m) = TRUE
    BY <1>4, <2>1 DEF EntrySound, FoldSound, Holds, IsTrue
  <2>3. ValueOf(False, m) = FALSE
    BY <1>1 DEF LiteralsSound, Meaning, False, Bool, IsLiteral
  <2>4. QED BY <2>2, <2>3
<1>5. QED BY <1>1, <1>2, <1>3, <1>4 DEF Impossible

LEMMA RegularInitInv ==
  ASSUME RegularInit, TermsSound
  PROVE  RegularInv
<1>1. IsContext(given)
  BY ContextsAssumption DEF RegularInit
<1>2. EntrySound(given)
  BY DEF RegularInit, TermsSound
<1>3. simplified = Entered(given) /\ rewritten = <<>> /\ assume_idx = 1
  BY DEF RegularInit
<1>4. outcome = "PoorSpec" => Rejected(given)
  BY DEF RegularInit
<1>5. Len(simplified.assumes) \in Nat
  BY <1>1, <1>2, <1>3, EntryKeeps, IsSeqProperties DEF IsContext
<1>6. IsSeq(rewritten) /\ DOMAIN rewritten = {} /\ \A m : Holds(rewritten, m)
  BY <1>3, HoldsEmpty
<1>7. QED BY <1>1, <1>2, <1>3, <1>4, <1>5, <1>6, EntryKeeps DEF RegularInv

LEMMA EnterInv ==
  ASSUME NEW ctx, IsContext(ctx), Enter(ctx), TermsSound'
  PROVE  RegularInv'
<1>1. /\ given' = ctx /\ simplified' = Entered(ctx) /\ rewritten' = <<>>
      /\ assume_idx' = 1 /\ iteration' = 1
      /\ outcome' = "PoorSpec" => Rejected(ctx)
  BY DEF Enter
<1>2. EntrySound(ctx)
  BY <1>1 DEF TermsSound
<1>3. Len(simplified'.assumes) \in Nat
  BY <1>1, <1>2, EntryKeeps, IsSeqProperties DEF IsContext
<1>4. IsSeq(rewritten') /\ DOMAIN rewritten' = {} /\ \A m : Holds(rewritten', m)
  BY <1>1, HoldsEmpty
<1>5. QED BY <1>1, <1>2, <1>3, <1>4, EntryKeeps DEF RegularInv

\* The known facts by which an assumption is rewritten hold wherever the given
\* assumptions do.
LEMMA KnownForAgrees ==
  ASSUME RegularInv, assume_idx \in DOMAIN simplified.assumes,
         NEW m \in Models, Holds(given.assumes, m)
  PROVE  Agrees(KnownFor(assume_idx), m)
<1>1. Holds(simplified.assumes, m) /\ Holds(rewritten, m)
  BY DEF RegularInv, Keeps
<1>2. Agrees(KnownFrom(rewritten), m)
  BY <1>1, KnownFromAgrees DEF RegularInv
<1>3. Agrees(FactsOfOthers(assume_idx), m)
  <2>1. assume_idx \in Nat /\ IsSeq(simplified.assumes)
    BY IsSeqProperties DEF RegularInv, IsContext
  <2>2. QED BY <1>1, <2>1, FactsOfOthersAgree DEF RegularInv
<1>4. QED BY <1>2, <1>3, OverAgrees DEF KnownFor

LEMMA RewritingAgrees ==
  ASSUME NEW t, NEW known, NEW m \in Models, SubstitutionSound(t, known), Agrees(known, m)
  PROVE  ValueOf(Substituted(t, known), m) = ValueOf(t, m)
BY DEF SubstitutionSound

LEMMA ConflictInv ==
  ASSUME RegularInv, Conflict
  PROVE  RegularInv'
<1>1. Impossible(given.assumes)
  <2>1. SUFFICES ASSUME NEW m \in Models, Holds(given.assumes, m) PROVE FALSE
    BY DEF Impossible
  <2>2. Holds(simplified.assumes, m) /\ Holds(rewritten, m)
    BY <2>1 DEF RegularInv, Keeps
  <2>3. Contradictory(simplified.assumes) \/ Contradictory(rewritten)
    BY DEF Conflict
  <2>4. QED BY <2>2, <2>3, ContradictionImpossible DEF RegularInv
<1>2. QED BY <1>1 DEF Conflict, Poor, RegularInv

LEMMA RewriteAssumptionInv ==
  ASSUME RegularInv, RewriteAssumption, TermsSound, TermsSound'
  PROVE  RegularInv'
<1> DEFINE assume == simplified.assumes[assume_idx]
           t == Substituted(assume, KnownFor(assume_idx))
<1>1. assume_idx \in DOMAIN simplified.assumes /\ outcome = "running"
  BY DEF RewriteAssumption, Rewriting
<1>2. ASSUME NEW m \in Models, Holds(given.assumes, m)
      PROVE  IsTrue(t, m)
  <2>1. SubstitutionSound(assume, KnownFor(assume_idx))
    BY <1>1 DEF TermsSound
  <2>2. ValueOf(t, m) = ValueOf(assume, m)
    BY <1>1, <1>2, <2>1, KnownForAgrees, RewritingAgrees
  <2>3. IsTrue(assume, m)
    BY <1>1, <1>2 DEF RegularInv, Keeps, Holds
  <2>4. QED BY <2>2, <2>3 DEF IsTrue
<1> HIDE DEF t
<1>3. CASE t = False
  <2>1. Impossible(given.assumes)
    <3>1. \A m \in Models : ~IsTrue(False, m)
      BY DEF RegularInv, LiteralsSound, Meaning, False, Bool, IsLiteral, IsTrue
    <3>2. QED BY <1>2, <1>3, <3>1 DEF Impossible
  <2>2. Poor
    BY <1>3 DEF RewriteAssumption, t
  <2>3. QED BY <2>1, <2>2 DEF Poor, RegularInv
<1>4. CASE t # False
  <2>1. /\ rewritten' = KeepUnlessTrue(rewritten, t)
        /\ assume_idx' = assume_idx + 1
        /\ UNCHANGED <<given, simplified, iteration, max_iterations, outcome>>
    BY <1>4 DEF RewriteAssumption, t
  <2>2. assume_idx' \in 1 .. Len(simplified'.assumes) + 1
    BY <1>1, <2>1, IsSeqProperties DEF RegularInv, IsContext
  <2>3. CASE t = True
    BY <2>1, <2>2, <2>3 DEF KeepUnlessTrue, RegularInv
  <2>4. CASE t # True
    <3>1. rewritten' = Append(rewritten, t) /\ IsSeq(rewritten)
      BY <2>1, <2>4 DEF KeepUnlessTrue, RegularInv
    <3>2. /\ IsSeq(rewritten') /\ Len(rewritten') = Len(rewritten) + 1
          /\ \A i \in DOMAIN rewritten' :
                rewritten'[i] = IF i \in DOMAIN rewritten THEN rewritten[i] ELSE t
          /\ \A m : Holds(rewritten', m) <=> Holds(rewritten, m) /\ IsTrue(t, m)
      BY <3>1, HoldsAppend
    <3>3. AssumptionSound(t)
      <4>1. /\ DOMAIN rewritten' = 1 .. Len(rewritten) + 1 /\ Len(rewritten) \in Nat
            /\ DOMAIN rewritten = 1 .. Len(rewritten)
        BY <3>1, <3>2, IsSeqProperties
      <4>2. rewritten' # <<>> /\ rewritten'[Len(rewritten')] = t
        BY <3>2, <4>1
      <4>3. QED BY <4>2 DEF TermsSound
    <3>4. \A i \in DOMAIN rewritten' : AssumptionSound(rewritten'[i])
      BY <3>2, <3>3 DEF RegularInv
    <3>5. \A m \in Models : Holds(given.assumes, m) => Holds(rewritten', m)
      BY <1>2, <3>2 DEF RegularInv
    <3>6. QED BY <2>1, <2>2, <3>2, <3>4, <3>5 DEF RegularInv
  <2>5. QED BY <2>3, <2>4
<1>5. QED BY <1>3, <1>4

LEMMA EndPassInv ==
  ASSUME RegularInv, EndPass, TermsSound
  PROVE  RegularInv'
<1> DEFINE known == KnownFrom(rewritten)
           checks == [i \in DOMAIN simplified.checks |-> Substituted(simplified.checks[i], known)]
<1>1. /\ simplified' = [assumes |-> rewritten, checks |-> Remaining(checks)]
      /\ rewritten' = <<>> /\ assume_idx' = 1 /\ given' = given
      /\ outcome' \in {"converged", "unconverged", "running"}
  BY DEF EndPass
<1>2. \A i \in DOMAIN simplified.checks : SubstitutionSound(simplified.checks[i], known)
  BY DEF TermsSound, EndPass, Rewriting
<1>3. ASSUME NEW m \in Models, Holds(given.assumes, m)
      PROVE  /\ Holds(rewritten, m)
             /\ Holds(given.checks, m) <=> Holds(checks, m)
  <2>1. Holds(rewritten, m) /\ (Holds(given.checks, m) <=> Holds(simplified.checks, m))
    BY <1>3 DEF RegularInv, Keeps
  <2>2. Agrees(known, m)
    BY <2>1, KnownFromAgrees DEF RegularInv
  <2>3. \A i \in DOMAIN simplified.checks : ValueOf(checks[i], m) = ValueOf(simplified.checks[i], m)
    BY <1>2, <2>2, RewritingAgrees
  <2>4. Holds(checks, m) <=> Holds(simplified.checks, m)
    BY <2>3 DEF Holds, IsTrue
  <2>5. QED BY <2>1, <2>4
<1>4. IsSeq(checks)
  <2>1. DOMAIN simplified.checks = 1 .. Len(simplified.checks) /\ Len(simplified.checks) \in Nat
    BY IsSeqProperties DEF RegularInv, IsContext
  <2>2. checks \in [1 .. Len(simplified.checks) -> {checks[i] : i \in DOMAIN checks}]
    BY <2>1
  <2>3. checks \in Seq({checks[i] : i \in DOMAIN checks})
    BY <2>1, <2>2, SeqDef
  <2>4. QED BY <2>3, SeqIsSeq
<1> HIDE DEF checks
<1>5. IsSeq(Remaining(checks)) /\ \A m \in Models : Holds(Remaining(checks), m) <=> Holds(checks, m)
  BY <1>4, HoldsRemaining DEF RegularInv
<1>6. Keeps(given, simplified')
  BY <1>1, <1>3, <1>5 DEF Keeps
<1>7. IsContext(simplified') /\ assume_idx' \in 1 .. Len(simplified'.assumes) + 1
  BY <1>1, <1>5, IsSeqProperties DEF RegularInv, IsContext
<1>8. IsSeq(rewritten') /\ DOMAIN rewritten' = {} /\ \A m : Holds(rewritten', m)
  BY <1>1, HoldsEmpty
<1>9. \A i \in DOMAIN simplified'.assumes : AssumptionSound(simplified'.assumes[i])
  BY <1>1 DEF RegularInv
<1>10. outcome' # "PoorSpec"
  BY <1>1
<1>11. QED BY <1>1, <1>6, <1>7, <1>8, <1>9, <1>10 DEF RegularInv

LEMMA RegularNextInv ==
  ASSUME RegularInv, [RegularNext]_regularVars, TermsSound, TermsSound'
  PROVE  RegularInv'
<1>1. CASE RegularNext
  BY <1>1, ConflictInv, RewriteAssumptionInv, EndPassInv DEF RegularNext
<1>2. CASE UNCHANGED regularVars
  BY <1>2 DEF regularVars, RegularInv
<1>3. QED BY <1>1, <1>2

\* Wherever the operators on terms do as they promise, the passes keep what the
\* context given allows and asks, and reject it only if nothing satisfies it.
THEOREM RegularKeepsModels ==
  RegularSpec /\ []TermsSound
     => [](Keeps(given, simplified) /\ (outcome = "PoorSpec" => Impossible(given.assumes)))
<1>1. RegularInit /\ TermsSound => RegularInv
  BY RegularInitInv
<1>2. RegularInv /\ [RegularNext]_regularVars /\ TermsSound /\ TermsSound' => RegularInv'
  BY RegularNextInv
<1>3. RegularInv => Keeps(given, simplified) /\ (outcome = "PoorSpec" => Impossible(given.assumes))
  BY DEF RegularInv
<1>4. QED BY <1>1, <1>2, <1>3, PTL DEF RegularSpec

-----------------------------------------------------------------------------
(* From one context to the next                                             *)

LEMMA KeepsReflexive ==
  ASSUME NEW a
  PROVE  Keeps(a, a)
BY DEF Keeps

LEMMA ImpossibleBefore ==
  ASSUME NEW a, NEW b, Keeps(a, b), Impossible(b.assumes)
  PROVE  Impossible(a.assumes)
BY DEF Keeps, Impossible

LEMMA FalseIsNotTrue ==
  ASSUME LiteralsSound, NEW m \in Models
  PROVE  ~IsTrue(False, m) /\ IsTrue(True, m)
BY DEF LiteralsSound, Meaning, False, True, Bool, IsLiteral, IsTrue

-----------------------------------------------------------------------------
(* The verdict of simplify                                                  *)

\* What a report says is true of the question.
ReportSound(ctx, r) ==
    /\ r.feasibility = "not feasible" => Impossible(ctx.assumes)
    /\ r.status = "unsat" => Proved(ctx)
    /\ r.status = "sat" => Impossible(ctx.assumes) \/ ~Proved(ctx)

LEMMA FeasibilityRight ==
  ASSUME NEW ctx, LiteralsSound, AnswerSound(ctx.assumes, ctx.assumes),
         FeasibilityOf(ctx) = "not feasible"
  PROVE  Impossible(ctx.assumes)
<1>1. CASE \E i \in DOMAIN ctx.assumes : ctx.assumes[i] = False
  BY <1>1, FalseIsNotTrue DEF Impossible, Holds
<1>2. CASE ~ \E i \in DOMAIN ctx.assumes : ctx.assumes[i] = False
  BY <1>2 DEF FeasibilityOf, AnswerSound, Impossible
<1>3. QED BY <1>1, <1>2

LEMMA VerdictRight ==
  ASSUME NEW question0, NEW ctx, NEW ended, Keeps(question0, ctx), IsContext(ctx), LiteralsSound,
         AnswerSound(ctx.assumes, ctx.assumes),
         AnswerSound(ctx.assumes, ctx.assumes \o ctx.checks)
  PROVE  ReportSound(question0, Verdict(ctx, FeasibilityOf(ctx), ended))
<1> DEFINE r == Verdict(ctx, FeasibilityOf(ctx), ended)
<1>1. r.feasibility = FeasibilityOf(ctx) /\ r.status = Status(ctx, FeasibilityOf(ctx))
  BY DEF Verdict
<1>2. FeasibilityOf(ctx) = "not feasible" => Impossible(question0.assumes)
  BY FeasibilityRight, ImpossibleBefore
<1>3. ASSUME r.status = "unsat"
      PROVE  Proved(question0)
  <2>1. ctx.checks = <<>>
    BY <1>1, <1>3 DEF Status
  <2>2. QED BY <2>1, HoldsEmpty DEF Proved, Keeps
<1>4. ASSUME r.status = "sat"
      PROVE  Impossible(question0.assumes) \/ ~Proved(question0)
  <2>1. CASE FeasibilityOf(ctx) = "not feasible"
    BY <1>2, <2>1
  <2>2. CASE \E i \in DOMAIN ctx.checks : ctx.checks[i] = False
    BY <2>2, FalseIsNotTrue DEF Keeps, Impossible, Proved, Holds
  <2>3. CASE RivalAnswer(ctx.assumes, ctx.assumes \o ctx.checks) = "not feasible"
    <3>1. \A m \in Models : ~(Holds(ctx.assumes, m) /\ Holds(ctx.checks, m))
      BY <2>3, HoldsConcat DEF AnswerSound, IsContext
    <3>2. QED BY <3>1 DEF Keeps, Impossible, Proved
  <2>4. QED BY <1>1, <1>4, <2>1, <2>2, <2>3 DEF Status
<1>5. QED BY <1>1, <1>2, <1>3, <1>4 DEF ReportSound

-----------------------------------------------------------------------------
(* The tools in turns                                                       *)

\* The checks looked at so far: those discharged hold, the others are what is
\* left of the question.
ChecksDone(ctx, left, done) ==
    /\ IsSeq(left) /\ IsSeq(done)
    /\ \A m \in Models : Holds(ctx.assumes, m) =>
          /\ Holds(done, m)
          /\ Holds(left, m) <=>
                \A i \in DOMAIN ctx.checks : i <= Len(left) + Len(done) => IsTrue(ctx.checks[i], m)

ToolsInv ==
    /\ RegularInv
    /\ IsContext(entered)
    /\ Keeps(question, entered)
    /\ Keeps(question, given)
    /\ report # NoReport =>
          IsContext(report.ctx) /\ Keeps(question, report.ctx) /\ ReportSound(question, report)
    /\ ChecksDone(Ctx, simplified_checks, discharged_checks)
    /\ IF egraph = {} THEN simplified_checks = <<>> /\ discharged_checks = <<>>
       ELSE schedule # <<>> /\ Head(schedule) = "egglog-rewrite"

LEMMA NothingDone ==
  ASSUME NEW ctx, IsContext(ctx)
  PROVE  ChecksDone(ctx, <<>>, <<>>)
<1>1. DOMAIN ctx.checks = 1 .. Len(ctx.checks) /\ Len(ctx.checks) \in Nat
  BY IsSeqProperties DEF IsContext
<1>2. \A i \in DOMAIN ctx.checks : ~(i <= Len(<<>>) + Len(<<>>))
  BY <1>1
<1>3. QED BY <1>2, HoldsEmpty DEF ChecksDone

LEMMA CtxKept ==
  ASSUME ToolsInv
  PROVE  IsContext(Ctx) /\ Keeps(question, Ctx)
BY DEF ToolsInv, Ctx

LEMMA ToolsInitInv ==
  ASSUME ToolsInit, RewritingSound
  PROVE  ToolsInv
<1>1. RegularInv
  BY RegularInitInv DEF ToolsInit, Init, RewritingSound
<1>2. question = given /\ entered = given /\ report = NoReport
  BY DEF ToolsInit, Init
<1>3. egraph = {} /\ simplified_checks = <<>> /\ discharged_checks = <<>>
  BY DEF ToolsInit, Idle
<1>4. IsContext(entered) /\ Ctx = entered
  BY <1>1, <1>2 DEF RegularInv, Ctx
<1>5. QED BY <1>1, <1>2, <1>3, <1>4, KeepsReflexive, NothingDone DEF ToolsInv

\* A step that leaves the e-graph alone while it is empty, and the question.
LEMMA SimplifyInv ==
  ASSUME ToolsInv, Simplify, RewritingSound, RewritingSound'
  PROVE  ToolsInv'
<1>1. egraph = {} /\ simplified_checks = <<>> /\ discharged_checks = <<>>
  BY DEF ToolsInv, Simplify
<1>2. UNCHANGED <<egraph, simplified_checks, discharged_checks>>
  BY DEF Simplify, eggVars
<1>3. question' = question /\ entered' = entered
  BY DEF Simplify, Next, RegularStep, TrimContext, ReportPoorSpec
<1>4. SUFFICES /\ RegularInv'
               /\ Keeps(question, given')
               /\ report' # NoReport =>
                     /\ IsContext(report'.ctx) /\ Keeps(question, report'.ctx)
                     /\ ReportSound(question, report')
  <2>1. IsContext(Ctx')
    BY <1>3, <1>4 DEF Ctx, ToolsInv
  <2>2. ChecksDone(Ctx', simplified_checks', discharged_checks')
    BY <1>1, <1>2, <2>1, NothingDone
  <2>3. QED BY <1>1, <1>2, <1>3, <1>4, <2>2 DEF ToolsInv
<1>5. CASE RegularStep
  <2>1. RegularInv'
    BY <1>5, RegularNextInv DEF ToolsInv, RegularStep, RewritingSound
  <2>2. given' = given /\ report' = report
    BY <1>5 DEF RegularStep, RegularNext, Conflict, Poor, RewriteAssumption, EndPass
  <2>3. QED BY <2>1, <2>2 DEF ToolsInv
<1>6. CASE TrimContext
  <2> DEFINE trimmed == Trimmed(simplified)
  <2>1. /\ IsContext(trimmed) /\ Keeps(simplified, trimmed)
        /\ AnswerSound(trimmed.assumes, trimmed.assumes)
        /\ AnswerSound(trimmed.assumes, trimmed.assumes \o trimmed.checks)
    BY <1>6 DEF TrimContext, RewritingSound, BoxesSound
  <2>2. Keeps(question, trimmed)
    BY <2>1, KeepsTransitive DEF ToolsInv, RegularInv
  <2>3. CASE Ended(trimmed) = "not yet"
    <3>1. Enter(trimmed) /\ report' = report /\ report = NoReport
      BY <1>6, <2>3 DEF TrimContext, Trimming
    <3>2. RegularInv'
      BY <2>1, <3>1, EnterInv DEF RewritingSound
    <3>3. given' = trimmed
      BY <3>1 DEF Enter
    <3>4. QED BY <2>2, <3>1, <3>2, <3>3
  <2>4. CASE Ended(trimmed) # "not yet"
    <3>1. /\ report' = Verdict(trimmed, FeasibilityOf(trimmed), Ended(trimmed))
          /\ UNCHANGED regularVars
      BY <1>6, <2>4 DEF TrimContext
    <3>2. RegularInv' /\ given' = given
      BY <3>1 DEF ToolsInv, RegularInv, regularVars
    <3>3. report'.ctx = trimmed
      BY <3>1 DEF Verdict
    <3>4. ReportSound(question, report')
      BY <2>1, <2>2, <3>1, VerdictRight DEF ToolsInv, RegularInv
    <3>5. QED BY <2>1, <2>2, <3>2, <3>3, <3>4 DEF ToolsInv
  <2>5. QED BY <2>3, <2>4
<1>7. CASE ReportPoorSpec
  <2>1. /\ report'.ctx = entered /\ report'.feasibility = "not feasible" /\ report'.status = "sat"
        /\ UNCHANGED regularVars /\ outcome = "PoorSpec"
    BY <1>7 DEF ReportPoorSpec
  <2>2. RegularInv' /\ given' = given
    BY <2>1 DEF ToolsInv, RegularInv, regularVars
  <2>3. Impossible(question.assumes)
    BY <2>1, ImpossibleBefore DEF ToolsInv, RegularInv
  <2>4. ReportSound(question, report')
    BY <2>1, <2>3 DEF ReportSound
  <2>5. QED BY <2>1, <2>2, <2>4 DEF ToolsInv
<1>8. QED BY <1>5, <1>6, <1>7 DEF Simplify, Next

LEMMA SimplifyAgainInv ==
  ASSUME ToolsInv, SimplifyAgain, RewritingSound'
  PROVE  ToolsInv'
<1>1. /\ Enter(report.ctx) /\ entered' = report.ctx /\ report # NoReport /\ report' = NoReport
      /\ UNCHANGED <<question, schedule, egraph, simplified_checks, discharged_checks>>
  BY DEF SimplifyAgain, eggVars
<1>2. RegularInv' /\ given' = report.ctx
  BY <1>1, EnterInv DEF ToolsInv, RewritingSound, Enter
<1>3. egraph = {} /\ simplified_checks = <<>> /\ discharged_checks = <<>>
  BY DEF SimplifyAgain, Turn, ToolsInv
<1>4. Ctx' = report.ctx
  BY <1>1 DEF Ctx
<1>5. ChecksDone(Ctx', simplified_checks', discharged_checks')
  BY <1>1, <1>3, <1>4, NothingDone DEF ToolsInv
<1>6. QED BY <1>1, <1>2, <1>3, <1>5 DEF ToolsInv

LEMMA SameContext ==
  ASSUME ToolsInv, UNCHANGED vars
  PROVE  /\ RegularInv' /\ Ctx' = Ctx /\ IsContext(entered')
         /\ Keeps(question', entered') /\ Keeps(question', given')
         /\ (report # NoReport =>
               IsContext(report.ctx) /\ Keeps(question, report.ctx) /\ ReportSound(question, report))'
BY DEF ToolsInv, RegularInv, vars, regularVars, Ctx

LEMMA StartEgglogInv ==
  ASSUME ToolsInv, StartEgglog
  PROVE  ToolsInv'
<1>1. UNCHANGED <<schedule, simplified_checks, discharged_checks>>
  BY DEF StartEgglog
<1>2. /\ simplified_checks = <<>> /\ discharged_checks = <<>>
      /\ schedule # <<>> /\ Head(schedule) = "egglog-rewrite"
  BY DEF StartEgglog, Turn, ToolsInv
<1>3. ChecksDone(Ctx, simplified_checks, discharged_checks)
  BY DEF ToolsInv
<1>4. UNCHANGED vars
  BY DEF StartEgglog
<1>5. QED BY <1>1, <1>2, <1>3, <1>4, SameContext DEF ToolsInv

LEMMA RunIterationInv ==
  ASSUME ToolsInv, RunIteration
  PROVE  ToolsInv'
<1>1. UNCHANGED <<vars, schedule, simplified_checks, discharged_checks>>
  BY DEF RunIteration
<1>2. schedule # <<>> /\ Head(schedule) = "egglog-rewrite"
  BY DEF RunIteration, ToolsInv
<1>3. simplified_checks = <<>> /\ discharged_checks = <<>>
  <2>1. IsSeq(simplified_checks) /\ IsSeq(discharged_checks)
    BY DEF ToolsInv, ChecksDone
  <2>2. Len(simplified_checks) = 0 /\ Len(discharged_checks) = 0
    BY <2>1, IsSeqProperties DEF RunIteration, NextCheck
  <2>3. QED BY <2>1, <2>2, EmptySeq DEF IsSeq
<1>4. ChecksDone(Ctx, simplified_checks, discharged_checks)
  BY DEF ToolsInv
<1>5. QED BY <1>1, <1>2, <1>3, <1>4, SameContext DEF ToolsInv

\* The check looked at next is discharged or stays, cheaper, and either way is
\* what the graph promises of it.
LEMMA SimplifyCheckInv ==
  ASSUME ToolsInv, SimplifyCheck, RewritingSound
  PROVE  ToolsInv'
<1> DEFINE check == Ctx.checks[NextCheck]
           left == simplified_checks
           done == discharged_checks
           n == Len(left) + Len(done)
<1>1. /\ UNCHANGED <<vars, schedule, egraph>>
      /\ egraph # {} /\ NextCheck <= Len(Ctx.checks)
  BY DEF SimplifyCheck
<1>2. /\ IsSeq(left) /\ IsSeq(done) /\ Len(left) \in Nat /\ Len(done) \in Nat
      /\ DOMAIN Ctx.checks = 1 .. Len(Ctx.checks) /\ Len(Ctx.checks) \in Nat
      /\ NextCheck = n + 1
  BY CtxKept, IsSeqProperties DEF ToolsInv, ChecksDone, IsContext, NextCheck
<1>3. NextCheck \in DOMAIN Ctx.checks
  BY <1>1, <1>2
<1>4. ASSUME NEW m \in Models, Holds(Ctx.assumes, m)
      PROVE  /\ Holds(done, m)
             /\ Holds(left, m) <=> \A i \in DOMAIN Ctx.checks : i <= n => IsTrue(Ctx.checks[i], m)
             /\ (\A i \in DOMAIN Ctx.checks : i <= n + 1 => IsTrue(Ctx.checks[i], m))
                  <=> Holds(left, m) /\ IsTrue(check, m)
  <2>1. /\ Holds(done, m)
        /\ Holds(left, m) <=> \A i \in DOMAIN Ctx.checks : i <= n => IsTrue(Ctx.checks[i], m)
    BY <1>4 DEF ToolsInv, ChecksDone
  <2>2. \A i \in DOMAIN Ctx.checks : i <= n + 1 <=> i <= n \/ i = NextCheck
    BY <1>2
  <2>3. QED BY <1>3, <2>1, <2>2
<1>5. ChecksDone(Ctx, left', done')
  <2>1. CASE Verified(check, egraph)
    <3>1. done' = Append(done, check) /\ left' = left
      BY <2>1 DEF SimplifyCheck
    <3>2. /\ IsSeq(done') /\ Len(left') + Len(done') = n + 1
          /\ \A m : Holds(done', m) <=> Holds(done, m) /\ IsTrue(check, m)
      BY <1>2, <3>1, HoldsAppend
    <3>3. \A m \in Models : Holds(Ctx.assumes, m) => IsTrue(check, m)
      BY <1>1, <2>1, FalseIsNotTrue DEF RewritingSound, AnswersAgree, ToolsInv, RegularInv, IsTrue
    <3>4. QED BY <1>2, <1>4, <3>1, <3>2, <3>3 DEF ChecksDone
  <2>2. CASE ~Verified(check, egraph)
    <3>1. PICK t \in CheapestEquals(check, egraph) : left' = Append(left, t) /\ done' = done
      BY <2>2 DEF SimplifyCheck
    <3>2. /\ IsSeq(left') /\ Len(left') + Len(done') = n + 1
          /\ \A m : Holds(left', m) <=> Holds(left, m) /\ IsTrue(t, m)
      BY <1>2, <3>1, HoldsAppend
    <3>3. \A m \in Models : Holds(Ctx.assumes, m) => (IsTrue(t, m) <=> IsTrue(check, m))
      BY <1>1, <2>2, <3>1 DEF RewritingSound, AnswersAgree, IsTrue
    <3>4. QED BY <1>2, <1>4, <3>1, <3>2, <3>3 DEF ChecksDone
  <2>3. QED BY <2>1, <2>2
<1>6. schedule # <<>> /\ Head(schedule) = "egglog-rewrite"
  BY <1>1 DEF ToolsInv
<1> HIDE DEF check, left, done, n
<1>7. QED BY <1>1, <1>5, <1>6, SameContext DEF ToolsInv, left, done

\* Once all checks are looked at, those discharged have joined the assumptions
\* and those that stay decide what the checks decided.
LEMMA EndEgglogInv ==
  ASSUME ToolsInv, EndEgglog
  PROVE  ToolsInv'
<1> DEFINE n == Len(simplified_checks) + Len(discharged_checks)
<1>1. /\ report' = [feasibility |-> "unknown", ctx |-> NewCtx, ended |-> "rewritten",
                    status |-> IF simplified_checks = <<>> THEN "unsat" ELSE "unknown"]
      /\ egraph' = {} /\ simplified_checks' = <<>> /\ discharged_checks' = <<>>
      /\ UNCHANGED <<question, entered, seen, regularVars>>
      /\ NextCheck = Len(Ctx.checks) + 1
  BY DEF EndEgglog
<1>2. /\ IsContext(Ctx) /\ Keeps(question, Ctx)
      /\ IsSeq(simplified_checks) /\ IsSeq(discharged_checks)
  BY CtxKept DEF ToolsInv, ChecksDone
<1>3. \A i \in DOMAIN Ctx.checks : i <= n
  BY <1>1, <1>2, IsSeqProperties DEF IsContext, NextCheck
<1>4. /\ IsSeq(NewCtx.assumes)
      /\ \A m \in Models : Holds(NewCtx.assumes, m) <=>
            Holds(Ctx.assumes, m) /\ Holds(discharged_checks, m)
  BY <1>2, HoldsConcat DEF IsContext, NewCtx
<1>5. IsContext(NewCtx)
  BY <1>2, <1>4 DEF IsContext, NewCtx
<1>6. Keeps(Ctx, NewCtx)
  <2>1. ASSUME NEW m \in Models, Holds(Ctx.assumes, m)
        PROVE  Holds(discharged_checks, m) /\ (Holds(Ctx.checks, m) <=> Holds(simplified_checks, m))
    <3>1. /\ Holds(discharged_checks, m)
          /\ Holds(simplified_checks, m) <=>
                \A i \in DOMAIN Ctx.checks : i <= n => IsTrue(Ctx.checks[i], m)
      BY <2>1 DEF ToolsInv, ChecksDone
    <3>2. QED BY <1>3, <3>1 DEF Holds
  <2>2. QED BY <1>4, <2>1 DEF Keeps, NewCtx
<1>7. Keeps(question, NewCtx)
  BY <1>2, <1>6, KeepsTransitive
<1>8. ReportSound(question, report')
  <2>1. ASSUME report'.status = "unsat"
        PROVE  Proved(question)
    <3>1. simplified_checks = <<>>
      BY <1>1, <2>1
    <3>2. QED BY <1>7, <3>1, HoldsEmpty DEF Keeps, Proved, NewCtx
  <2>2. report'.feasibility = "unknown" /\ report'.status # "sat"
    BY <1>1
  <2>3. QED BY <2>1, <2>2 DEF ReportSound
<1>9. RegularInv' /\ given' = given /\ question' = question /\ entered' = entered
  BY <1>1 DEF ToolsInv, RegularInv, regularVars
<1>10. IsContext(Ctx') /\ report'.ctx = NewCtx
  BY <1>1, <1>2, <1>5, <1>9 DEF Ctx, ToolsInv
<1>11. ChecksDone(Ctx', simplified_checks', discharged_checks')
  BY <1>1, <1>10, NothingDone
<1>12. QED BY <1>1, <1>5, <1>7, <1>8, <1>9, <1>10, <1>11 DEF ToolsInv

LEMMA ToolsNextInv ==
  ASSUME ToolsInv, [ToolsNext]_toolVars, RewritingSound, RewritingSound'
  PROVE  ToolsInv'
<1>1. CASE ToolsNext
  BY <1>1, SimplifyInv, SimplifyAgainInv, StartEgglogInv, RunIterationInv, SimplifyCheckInv,
     EndEgglogInv DEF ToolsNext
<1>2. CASE UNCHANGED toolVars
  <2>1. UNCHANGED <<vars, schedule, egraph, simplified_checks, discharged_checks>>
    BY <1>2 DEF toolVars, eggVars
  <2>2. QED BY <2>1, SameContext DEF ToolsInv
<1>3. QED BY <1>1, <1>2

\* In the middle of a pass, what is rewritten and what is not say together no
\* more than the context given.
LEMMA PresentKept ==
  ASSUME ToolsInv
  PROVE  Keeps(question, Present)
<1>1. /\ IsSeq(rewritten) /\ IsSeq(simplified.assumes)
      /\ assume_idx \in 1 .. Len(simplified.assumes) + 1
      /\ Keeps(given, simplified) /\ Keeps(question, given)
      /\ \A m \in Models : Holds(given.assumes, m) => Holds(rewritten, m)
  BY DEF ToolsInv, RegularInv, IsContext
<1>2. /\ IsSeq(Unread)
      /\ \A m : Holds(simplified.assumes, m) => Holds(Unread, m)
  BY <1>1, HoldsSubSeq DEF Unread
<1>3. \A m \in Models : Holds(Present.assumes, m) <=> Holds(rewritten, m) /\ Holds(Unread, m)
  BY <1>1, <1>2, HoldsConcat DEF Present
<1>4. Keeps(given, Present)
  BY <1>1, <1>2, <1>3 DEF Keeps, Present
<1>5. QED BY <1>1, <1>4, KeepsTransitive

LEMMA ToolsInvImplies ==
  ASSUME ToolsInv
  PROVE  NoModelLost /\ VerdictSound
<1>1. outcome = "PoorSpec" => Impossible(question.assumes)
  BY ImpossibleBefore DEF ToolsInv, RegularInv
<1>2. QED BY <1>1, PresentKept DEF ToolsInv, NoModelLost, VerdictSound, ReportSound

\* Wherever the operators on terms, boxes and e-graphs do as they promise, no
\* tool of a schedule loses a model of the question, in the middle of a pass or
\* in its report, and a specification is rejected only if nothing satisfies it.
THEOREM ToolsLoseNoModel == ToolsSpec /\ []RewritingSound => []NoModelLost
<1>1. ToolsInit /\ RewritingSound => ToolsInv
  BY ToolsInitInv
<1>2. ToolsInv /\ [ToolsNext]_toolVars /\ RewritingSound /\ RewritingSound' => ToolsInv'
  BY ToolsNextInv
<1>3. ToolsInv => NoModelLost
  BY ToolsInvImplies
<1>4. QED BY <1>1, <1>2, <1>3, PTL DEF ToolsSpec

\* Wherever the operators do as they promise, what simplify and egglog_rewrite
\* report is true of the question: unsat that its checks follow, sat that they
\* do not or that nothing satisfies its assumptions.
THEOREM ToolsAnswerRightly == ToolsSpec /\ []RewritingSound => []VerdictSound
<1>1. ToolsInit /\ RewritingSound => ToolsInv
  BY ToolsInitInv
<1>2. ToolsInv /\ [ToolsNext]_toolVars /\ RewritingSound /\ RewritingSound' => ToolsInv'
  BY ToolsNextInv
<1>3. ToolsInv => VerdictSound
  BY ToolsInvImplies
<1>4. QED BY <1>1, <1>2, <1>3, PTL DEF ToolsSpec
=============================================================================
