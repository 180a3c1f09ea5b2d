-------------------------------- MODULE EGraph --------------------------------
(***************************************************************************)
(* The e-graphs of egglog, as far as zolotone/egglog relies on them.  A     *)
(* graph is a set of pairs <<n, c>>: the node n is in the class c.  A class  *)
(* is named by a term it holds, and a node is an operator applied to names; *)
(* so a node is a term as well.                                             *)
(***************************************************************************)
EXTENDS RewriteRules, TermRewriting, FiniteSets, TLC

Classes(graph)     == {pair[2] : pair \in graph}
Nodes(graph, c)    == {pair[1] : pair \in {e \in graph : e[2] = c}}
Members(graph)     == [c \in Classes(graph) |-> Nodes(graph, c)]
ClassesOf(n, graph) == {pair[2] : pair \in {e \in graph : e[1] = n}}

RECURSIVE Size(_), SumOfSizes(_)
Size(t) == 1 + SumOfSizes(Args(t))
SumOfSizes(ts) == IF ts = <<>> THEN 0 ELSE Size(Head(ts)) + SumOfSizes(Tail(ts))

Smallest(names) == CHOOSE t \in names : \A u \in names : Size(t) <= Size(u)

-----------------------------------------------------------------------------
(* Unions, and the congruence they entail: nodes that have become one are   *)
(* in one class.                                                            *)

RECURSIVE Blocks(_, _)
Blocks(unions, blocks) ==
  IF unions = {} THEN blocks
  ELSE LET pair == CHOOSE e \in unions : TRUE
           touched == {block \in blocks : pair[1] \in block \/ pair[2] \in block}
       IN  Blocks(unions \ {pair},
                  (blocks \ touched) \cup {UNION touched \cup {pair[1], pair[2]}})

RenamedNode(n, name(_)) ==
  IF Args(n) = <<>> THEN n ELSE Rebuild(n, [i \in DOMAIN Args(n) |-> name(Args(n)[i])])

Renamed(graph, blocks) ==
  LET name(c) == IF \E block \in blocks : c \in block
                 THEN Smallest(CHOOSE block \in blocks : c \in block) ELSE c
  IN  {<<RenamedNode(pair[1], name), name(pair[2])>> : pair \in graph}

Congruent(graph) ==
  UNION {{pair[2]} \X (ClassesOf(pair[1], graph) \ {pair[2]}) : pair \in graph}

RECURSIVE Closed(_, _)
Closed(graph, unions) ==
  IF unions = {} THEN graph
  ELSE LET next == Renamed(graph, Blocks(unions, {})) IN Closed(next, Congruent(next))

-----------------------------------------------------------------------------
\* The class of a term that is in the graph.
RECURSIVE ClassOf(_, _)
ClassOf(t, graph) ==
  LET class(u) == ClassOf(u, graph)
      n == RenamedNode(t, class)
  IN  (CHOOSE pair \in graph : pair[1] = n)[2]

\* Terms enter as nodes named by themselves, and so do all their subterms.
Entered(graph, terms, unions) ==
  LET nodes == UNION {Subterms(t) : t \in terms}
      wider == graph \cup {<<t, t>> : t \in nodes}
  IN  Closed(wider, unions \cup Congruent(wider))

-----------------------------------------------------------------------------
(* Matches: what the variables of a pattern stand for.                      *)

RECURSIVE Match(_, _, _, _), MatchArgs(_, _, _, _)
Match(t, c, members, env) ==
  IF Is(t, "var")
  THEN IF t \notin DOMAIN env THEN {env @@ (t :> c)} ELSE {e \in {env} : e[t] = c}
  ELSE UNION {MatchArgs(Args(t), Args(n), members, env) :
                n \in {m \in members[c] : m[1] = t[1] /\ (Args(t) = <<>> => m = t)}}
MatchArgs(ts, cs, members, env) ==
  IF ts = <<>> THEN {env}
  ELSE UNION {MatchArgs(Tail(ts), Tail(cs), members, e) :
                e \in Match(Head(ts), Head(cs), members, env)}

RECURSIVE MatchAll(_, _, _)
MatchAll(premises, members, env) ==
  IF premises = <<>> THEN {env}
  ELSE LET premise == Head(premises)
           found == UNION {UNION {Match(premise[2], c, members, e) :
                                     e \in Match(premise[1], c, members, env)} :
                              c \in DOMAIN members}
       IN  UNION {MatchAll(Tail(premises), members, e) : e \in found}

\* A side of an equation at a match, over the names of classes; and the nodes
\* that it needs.
RECURSIVE Name(_, _), NewNodes(_, _)
Name(t, env) ==
  IF Is(t, "var") THEN env[t]
  ELSE IF Args(t) = <<>> THEN t ELSE Rebuild(t, [i \in DOMAIN Args(t) |-> Name(Args(t)[i], env)])
NewNodes(t, env) ==
  IF Is(t, "var") THEN {}
  ELSE {Name(t, env)} \cup UNION {NewNodes(Args(t)[i], env) : i \in DOMAIN Args(t)}

Numerals(graph) == {pair[1][2] : pair \in {e \in graph : Is(e[1], "real")}}

NumeralsOf(c, members) == {n[2] : n \in {m \in members[c] : Is(m, "real")}}

FoldsOf(n, members) ==
  CASE Len(Args(n)) = 1 -> UNION {FoldedSingle(n[1], k) : k \in NumeralsOf(n[2], members)}
    [] Len(Args(n)) = 2 -> UNION {Folded(n[1], k, l) : k \in NumeralsOf(n[2], members),
                                                       l \in NumeralsOf(n[3], members)}
    [] OTHER -> {}

\* One iteration: every rule at every match in the graph as it was.
Matches(graph, members) ==
  UNION {{<<equation, env>> : equation \in rule.equations,
                              env \in MatchAll(rule.premises, members, <<>>)} :
           rule \in Rules(Numerals(graph))}

Grown(graph, found, folds) ==
  LET nodes  == UNION {NewNodes(m[1][1], m[2]) \cup NewNodes(m[1][2], m[2]) : m \in found}
      unions == {<<Name(m[1][1], m[2]), Name(m[1][2], m[2])>> : m \in found} \cup folds
      wider  == graph \cup {<<n, n>> : n \in nodes \cup {fold[2] : fold \in folds}}
  IN  Closed(wider, {u \in unions : u[1] # u[2]} \cup Congruent(wider))

Iterated(graph, members) ==
  Grown(graph, Matches(graph, members),
        UNION {{pair[2]} \X FoldsOf(pair[1], members) : pair \in graph})

Iteration(graph) == Iterated(graph, Members(graph))

-----------------------------------------------------------------------------
(* Extraction: the cheapest terms of a class.                               *)

Infinite == 1000
Least(S) == IF S = {} THEN Infinite ELSE CHOOSE k \in S : \A l \in S : k <= l

RECURSIVE CostOfArgs(_, _)
CostOfArgs(cs, cost) == IF cs = <<>> THEN 1 ELSE cost[Head(cs)] + CostOfArgs(Tail(cs), cost)

Cheaper(members, cost) ==
  [c \in DOMAIN members |-> Least({CostOfArgs(Args(n), cost) : n \in members[c]})]

RECURSIVE Costs(_, _, _)
Costs(members, cost, next) ==
  IF next = cost THEN cost ELSE Costs(members, next, Cheaper(members, next))

RECURSIVE Extracted(_, _, _), ExtractedArgs(_, _, _)
Extracted(c, members, cost) ==
  UNION {{IF Args(n) = <<>> THEN n ELSE Rebuild(n, args) :
             args \in ExtractedArgs(Args(n), members, cost)} :
           n \in {m \in members[c] : CostOfArgs(Args(m), cost) = cost[c]}}
ExtractedArgs(cs, members, cost) ==
  IF cs = <<>> THEN {<<>>}
  ELSE {<<t>> \o rest : t \in Extracted(Head(cs), members, cost),
                        rest \in ExtractedArgs(Tail(cs), members, cost)}

CheapestOf(c, members) ==
  Extracted(c, members,
            Costs(members, [d \in DOMAIN members |-> Infinite],
                  Cheaper(members, [d \in DOMAIN members |-> Infinite])))

Cheapest(t, graph) == CheapestOf(ClassOf(t, graph), Members(graph))

-----------------------------------------------------------------------------
(* The e-graph of a context                                                 *)

\* to_egglog writes a term as _lower_expr writes a rule.
ToEgglog(t) == LowerExpr(t)

\* What an assumption, or a check, says to be equal.
IsEquation(t) == t[1] \in {"eq", "beq"}
Sides(t) == IF IsEquation(t) THEN <<ToEgglog(t[2]), ToEgglog(t[3])>> ELSE <<ToEgglog(t), True>>

Registered(ctx) ==
  LET unions == {Sides(ctx.assumes[i]) : i \in DOMAIN ctx.assumes}
      checks == {Sides(ctx.checks[i]) : i \in DOMAIN ctx.checks}
  IN  Entered({}, UNION {ToSet(pair) : pair \in unions \cup checks}, unions)

\* check_bool
Equal(pair, graph) == ClassOf(pair[1], graph) = ClassOf(pair[2], graph)

InGraph(check, graph) == Equal(Sides(check), Entered(graph, ToSet(Sides(check)), {}))

\* _simplify_expr: which of the cheapest terms comes out is left to egglog.
Simplified(check, graph) ==
  LET t == ToEgglog(check) IN Cheapest(t, Entered(graph, {t}, {}))

-----------------------------------------------------------------------------
(* The exact value of a term, powers of negative exponents included.        *)

Exactly == INSTANCE RealTerms

PowerOf(base, exponent) ==
  LET n == exponent[1] \div exponent[2]
  IN  CASE n = 0 -> Exactly!Yes
        [] n > 0 -> <<base[1]^n, base[2]^n>>
        [] n < 0 -> Exactly!Ratio(base[2]^(-n), base[1]^(-n))

RECURSIVE Worth(_, _)
Worth(t, m) ==
  LET of == [i \in DOMAIN Args(t) |-> Worth(Args(t)[i], m)] IN
  CASE Is(t, "var")  -> IF t[3] = "bool" THEN Exactly!Truth(m[t[2]]) ELSE Exactly!Whole(m[t[2]])
    [] Is(t, "real") -> Exactly!Whole(t[2])
    [] Is(t, "bool") -> Exactly!Truth(t[2])
    [] Is(t, "if")   -> IF of[1] = Exactly!Yes THEN of[2] ELSE of[3]
    [] Is(t, "pow")  -> PowerOf(of[1], of[2])
    [] OTHER         -> Exactly!OnValues(t[1], of)

SameWorth(a, b, m) == Exactly!Same(Worth(a, m), Worth(b, m))
=============================================================================
