----------------------------- MODULE CppEmitter -----------------------------
(***************************************************************************)
(* The C++ generator (zolotone/codegen/cpp.py) and the programs it writes. *)
(*                                                                         *)
(* A design is a library function applied to free inputs.  Its graph is    *)
(* built (Construct), lowered to a program (Emit) and the program is       *)
(* called (Call), through the overload that takes every argument or, when  *)
(* the design has artificial rounding choices, through the one that        *)
(* derives them from a hash of the other arguments.  What a call returns,  *)
(* or the assertion that stops it, is compared with the evaluation of the  *)
(* same graph in Python.                                                   *)
(*                                                                         *)
(* The emitter's state is passed along: the functions emitted so far, the  *)
(* names taken, the helper known for each fingerprint (functionCache) and  *)
(* the one for each C++ signature and body (cppCache), and, while one      *)
(* function is lowered, its statements and the value of each node (memo).  *)
(***************************************************************************)
EXTENDS NodeGraph

CONSTANTS
  Designs,     \* records: the library function, the types of its inputs, its choices
  Payloads(_), \* the raw values of a type that calls are made with
  Mix(_)       \* the 64-bit hash of simulation_parameter

-----------------------------------------------------------------------------
(* Names and statements *)

\* _make_name: the base, then base_1, base_2, ...
MakeName(taken, base) ==
  LET Candidate(i) == IF i = 0 THEN base ELSE base \o "_" \o ToString(i)
  IN Candidate(CHOOSE i \in 0 .. Cardinality(taken) :
       /\ Candidate(i) \notin taken
       /\ \A j \in 0 .. i - 1 : Candidate(j) \in taken)

Statement(st, type, name, x, note) == [st |-> st, type |-> type, name |-> name, x |-> x, note |-> note]
NoType == [c |-> "", n |-> <<>>]
Comment(text) == Statement("comment", NoType, "", Literal(0), text)
Assertion(x)  == Statement("assert", NoType, "", x, "")
Temp(type, name, x, note) == Statement("const", type, name, x, note)

Emitter(jittable) ==
  [ jittable |-> jittable, taken |-> {}, functionCache |-> {}, cppCache |-> {}, functions |-> <<>>,
    usesAssertions |-> FALSE, refused |-> FALSE ]

\* The caches are sets of pairs of a key and a name.
Known(cache, key)  == \E entry \in cache : entry.key = key
NameOf(cache, key) == (CHOOSE entry \in cache : entry.key = key).name
Enter(cache, key, name) == {entry \in cache : entry.key # key} \cup {[key |-> key, name |-> name]}

FunctionContext == [memo |-> <<>>, statements |-> <<>>, temps |-> 0]

-----------------------------------------------------------------------------
(* Lowering.  An intermediate result m has the emitter e, the context c of *)
(* the function being lowered and the expression (or expressions) x.       *)

Lowered(e, c, x) == [e |-> e, c |-> c, x |-> x]

\* _render_type: a type is rendered, or the emission ends with an exception.
Rendered(m, t) == [m EXCEPT !.e.refused = @ \/ ~ HasCppType(t, m.e.jittable)]
Remember(m, id)  == [m EXCEPT !.c.memo = (id :> m.x) @@ @]

\* _const_expr
ConstExpr(type, raw, jittable) ==
  IF IsTuple(type)
  THEN MakeTuple([i \in DOMAIN raw |-> Cast(type.items[i], Literal(raw[i]), jittable)], type, jittable)
  ELSE Cast(type, Literal(raw[1]), jittable)

\* A constant and the items of a constant tuple are rendered with their types.
LowerConst(m, type, raw) ==
  [FoldLeft(LAMBDA done, t : Rendered(done, t), m, <<type>> \o type.items)
     EXCEPT !.x = ConstExpr(type, raw, m.e.jittable)]

\* _emit_temp
EmitTemp(m, node, x) ==
  LET name == IF m.c.temps = 0 THEN "tmp" ELSE "tmp_" \o ToString(m.c.temps)
      statement == Temp(CppType(node.type, m.e.jittable), name, x, node.name)
  IN [Rendered(m, node.type) EXCEPT
        !.c.temps = @ + 1, !.c.statements = Append(@, statement), !.x = Ident(name)]

InlineConditionsToo(node) == node.inline
ShouldInline(node) == node.inline /\ node.assumes = <<>> /\ node.checks = <<>>

\* _lower_direct_cpp
LowerDirect(g, m, node, xs) ==
  [Rendered(m, node.type) EXCEPT
     !.x = Cast(node.type, DirectLowering(node.direct, xs, InnerTypes(g, node)), m.e.jittable),
     !.e.refused = \/ @ \/ IsTuple(node.type)
                   \/ ~ CanLowerDirectly(node.direct, InnerTypes(g, node))]

\* _lower_op, on the expressions of the arguments
LowerOp(g, m, node) ==
  EmitTemp(m, node,
    Cast(node.type,
         OpLowering(node.op, node.p, m.x, ArgTypes(g, node), node.type, m.e.jittable),
         m.e.jittable))

\* A call of the helper of a node, known already or emitted just now.
CallHelper(m, node, helper) ==
  EmitTemp([m EXCEPT !.e = helper.e], node, CallOf(helper.name, m.x))

\* _render_function: the C++ signature and the body of a lowered function.
RenderFunction(g, node, m, body) ==
  [ types   |-> [i \in DOMAIN node.inner |-> CppType(g[node.inner[i]].type, m.e.jittable)],
    returns |-> CppType(node.type, m.e.jittable), body |-> body, result |-> m.x ]

\* emit_function: a function whose C++ signature and body exist already is
\* not emitted again, and its name is free again.
ForgetTheName(e, node, key, name, args, text) ==
  [ name |-> name,
    e |-> IF Known(e.cppCache, text) THEN [e EXCEPT !.taken = @ \ {name}]
          ELSE [e EXCEPT !.cppCache = Enter(@, text, name),
                         !.functions = Append(@, [name |-> name, label |-> node.name,
                                                  args |-> args, text |-> text])] ]
EmitOnce(e, node, key, name, args, text) ==
  IF Known(e.cppCache, text)
  THEN [ name |-> NameOf(e.cppCache, text),
         e |-> [e EXCEPT !.functionCache = Enter(@, key, NameOf(e.cppCache, text)),
                         !.taken = @ \ {name}] ]
  ELSE [ name |-> name,
         e |-> [e EXCEPT !.cppCache = Enter(@, text, name),
                         !.functions = Append(@, [name |-> name, label |-> node.name,
                                                  args |-> args, text |-> text])] ]

RECURSIVE Lower(_, _, _, _), LowerAll(_, _, _, _), LowerConditions(_, _, _, _),
          LowerNode(_, _, _, _), EmitFunction(_, _, _, _)

\* _lower: env gives the inner variables in scope their expressions.
Lower(g, m, env, id) ==
  CASE g[id].kind = "Var" -> [m EXCEPT !.x = env[id]]
    [] g[id].kind # "Var" /\ id \in DOMAIN m.c.memo -> [m EXCEPT !.x = m.c.memo[id]]
    [] g[id].kind # "Var" /\ id \notin DOMAIN m.c.memo /\ g[id].constant # <<>> ->
         Remember(LowerConst(m, g[id].type, g[id].constant), id)
    [] OTHER -> Remember(LowerNode(g, LowerAll(g, m, env, g[id].args), env, id), id)

\* A node whose arguments are the expressions m.x.
LowerNode(g, m, env, id) ==
  LET node     == g[id]
      inlined  == [v \in {node.inner[i] : i \in DOMAIN node.inner} |->
                     m.x[CHOOSE i \in DOMAIN node.inner : node.inner[i] = v]]
      key      == _fingerprint(g, id, m.e.jittable)
      name     == MakeName(m.e.taken, node.safe)
  IN CASE node.kind = "Op" -> LowerOp(g, m, node)
       [] IsCall(node) /\ ShouldInline(node) /\ node.direct # "" -> LowerDirect(g, m, node, m.x)
       [] IsCall(node) /\ ShouldInline(node) /\ node.direct = "" ->
            Lower(g, m, inlined @@ env, node.tree)
       [] OTHER ->
            CallHelper(m, node,
              IF Known(m.e.functionCache, key)
              THEN [e |-> m.e, name |-> NameOf(m.e.functionCache, key)]
              ELSE EmitFunction(g, [m.e EXCEPT !.taken = @ \cup {name}], id, name))

LowerAll(g, m, env, ids) ==
  FoldLeft(LAMBDA done, id : LET next == Lower(g, done, env, id)
                             IN [next EXCEPT !.x = Append(done.x, next.x)],
           [m EXCEPT !.x = <<>>], ids)

\* Every condition is followed at once by its assertion; the expression
\* lowered before stays.
LowerConditions(g, m, env, conditions) ==
  [FoldLeft(LAMBDA done, condition :
              LET next == Lower(g, done, env, condition.node)
              IN [next EXCEPT !.c.statements =
                    @ \o <<Comment(condition.text), Assertion(next.x)>>],
            m, conditions) EXCEPT !.x = m.x]

\* emit_function: the conditions of the composite stand before and behind.
EmitFunction(g, e, id, name) ==
  LET node    == g[id]
      key     == _fingerprint(g, id, e.jittable)
      env     == [v \in {node.inner[i] : i \in DOMAIN node.inner} |-> Ident(g[v].name)]
      names   == [i \in DOMAIN node.inner |-> g[node.inner[i]].name]
      started == [e EXCEPT !.functionCache = Enter(@, key, name),
                           !.usesAssertions = @ \/ node.assumes # <<>> \/ node.checks # <<>>]
      Body(m) == IF node.direct # ""
                 THEN LowerDirect(g, m, node, [i \in DOMAIN names |-> Ident(names[i])])
                 ELSE Lower(g, m, env, node.tree)
      End(m)  == FoldLeft(LAMBDA done, t : Rendered(done, t), m, <<node.type>> \o InnerTypes(g, node))
      Entered(m) == EmitOnce(m.e, node, key, name, names, RenderFunction(g, node, m, m.c.statements))
  IN Entered(End(LowerConditions(g,
       Body(LowerConditions(g, Lowered(started, FunctionContext, Literal(0)), env, node.assumes)),
       env, node.checks)))

-----------------------------------------------------------------------------
(* emit_cpp: the class Zolotone with its public overloads.                 *)

MaxKeyBits == 64

OrdinaryArgs(g, root) == SubSeq(root.inner, 1, Len(root.inner) - root.choices)

\* A hash key of more than 64 bits is refused as well.
KeyFits(g, root) ==
  root.choices > 0 =>
    FoldLeft(LAMBDA n, v : n + TotalBits(g[v].type), 0, OrdinaryArgs(g, root)) <= MaxKeyBits

EmitCpp(g, rootId, function, jittable) ==
  LET root     == g[rootId]
      reserved == {"zolotone"} \cup (IF root.choices > 0 THEN {"simulation_parameter"} ELSE {})
      internal == MakeName(reserved, function)
      emitted  == EmitFunction(g, [Emitter(jittable) EXCEPT
                                     !.taken = reserved \cup {internal},
                                     !.usesAssertions = root.choices > 0], rootId, internal)
  IN [ functions |-> emitted.e.functions, entry |-> internal, taken |-> emitted.e.taken,
       types |-> InnerTypes(g, root), choices |-> root.choices, jittable |-> jittable,
       asserts |-> jittable \/ emitted.e.usesAssertions,
       refused |-> emitted.e.refused \/ ~ KeyFits(g, root) ]

-----------------------------------------------------------------------------
(* Running an emitted program.  A failed assertion ends it.                *)

Returned(value) == [stopped |-> FALSE, value |-> value]
Stopped         == [stopped |-> TRUE, value |-> <<>>]

FunctionNamed(program, name) ==
  program.functions[CHOOSE i \in DOMAIN program.functions : program.functions[i].name = name]

RECURSIVE RunFunction(_, _, _)
RunExpr(program, x, env) ==
  IF x.e = "call"
  THEN RunFunction(program, x.s, [i \in DOMAIN x.a |-> CppValue(x.a[i], env)])
  ELSE Returned(CppValue(x, env))

\* The variables in scope after a statement, none if it ended the program.
RunStatement(program, state, statement) ==
  CASE state.stopped \/ statement.st = "comment" -> state
    [] ~ state.stopped /\ statement.st = "assert" ->
         IF CppValue(statement.x, state.env) = <<0>> THEN [state EXCEPT !.stopped = TRUE] ELSE state
    [] ~ state.stopped /\ statement.st = "const" ->
         LET done == RunExpr(program, statement.x, state.env) IN
         [stopped |-> done.stopped, env |-> (statement.name :> done.value) @@ state.env]

RunFunction(program, name, args) ==
  LET function == FunctionNamed(program, name)
      names    == function.args
      env      == [n \in {names[i] : i \in DOMAIN names} |->
                     args[CHOOSE i \in DOMAIN names : names[i] = n]]
      final    == FoldLeft(LAMBDA state, s : RunStatement(program, state, s),
                           [stopped |-> FALSE, env |-> env], function.text.body)
  IN IF final.stopped THEN Stopped ELSE Returned(CppValue(function.text.result, final.env))

\* _public_width_assertions
Fits(t, raw) == IsTuple(t) \/ Wrap(raw[1], TotalBits(t)) = raw[1]
WidthsAsserted(program, args) ==
  program.jittable => \A i \in DOMAIN args : Fits(program.types[i], args[i])

\* _render_public_wrapper
RunExplicit(program, args) ==
  IF WidthsAsserted(program, args) THEN RunFunction(program, program.entry, args) ELSE Stopped

\* simulation_parameter
SimulationParameter(key, lower, upper) == lower + (Mix(key) % (upper - lower + 1))

\* _rounding_input_key: fields are shifted in one after the other, the items
\* of a tuple as fields of their own.
Fields(t, raw) ==
  [i \in DOMAIN raw |-> [bits |-> TotalBits(IF IsTuple(t) THEN t.items[i] ELSE t), v |-> raw[i]]]
RoundingInputKey(types, args) ==
  LET fields == FlattenSeq([i \in DOMAIN args |-> Fields(types[i], args[i])])
  IN FoldLeft(LAMBDA key, field : Shl(key, field.bits) + Wrap(field.v, field.bits), 0, fields)

\* _render_implicit_rounding_wrapper
RunImplicit(program, args) ==
  LET key     == RoundingInputKey(program.types, args)
      choices == [i \in 1 .. program.choices |-> <<SimulationParameter(key + i - 1, 0, 1)>>]
  IN IF WidthsAsserted(program, args) THEN RunExplicit(program, args \o choices) ELSE Stopped

-----------------------------------------------------------------------------
(* The state machine *)

VARIABLES
  design,   \* the design under way
  mode,     \* jittable or not
  pc,       \* "construct", "emit", "emitted", "refused" or "called"
  graph,    \* the nodes, the root last
  program,  \* what was emitted
  call      \* the arguments of the last call and its outcome

vars == <<design, mode, pc, graph, program, call>>

NoProgram == [functions |-> <<>>]
NoCall    == [implicit |-> FALSE, args |-> <<>>, outcome |-> Stopped]
Root      == Len(graph)

Init ==
  /\ design \in Designs
  /\ mode \in BOOLEAN
  /\ pc = "construct" /\ graph = <<>> /\ program = NoProgram /\ call = NoCall

\* The design function is applied to free variables, and may raise TypeError.
Construct ==
  /\ pc = "construct"
  /\ LET inputs == [i \in DOMAIN design.types |-> VarNode(design.names[i], design.types[i], <<>>)]
         made   == Instantiate(inputs, design.f, [i \in DOMAIN inputs |-> i])
     IN /\ graph' = [made.g EXCEPT ![made.id].choices = design.choices]
        /\ pc' = IF Constructible(made.g) THEN "emit" ELSE "refused"
  /\ UNCHANGED <<design, mode, program, call>>

\* lower_to_cpp
Emit ==
  /\ pc = "emit"
  /\ program' = EmitCpp(graph, Root, design.cppName, mode)
  /\ pc' = IF program'.refused THEN "refused" ELSE "emitted"
  /\ UNCHANGED <<design, mode, graph, call>>

\* A caller's word may hold more bits than the type has, if it is jittable.
Arguments(types) ==
  LET values(t) == {raw \in Payloads(t) : mode \/ Fits(t, raw)} IN
  {args \in [DOMAIN types -> UNION {values(types[i]) : i \in DOMAIN types}] :
     \A i \in DOMAIN types : args[i] \in values(types[i])}

Call ==
  /\ pc = "emitted"
  /\ \E implicit \in {FALSE, TRUE} :
       /\ implicit => design.choices > 0
       /\ LET types == IF implicit
                       THEN SubSeq(program.types, 1, Len(program.types) - program.choices)
                       ELSE program.types
          IN \E args \in Arguments(types) :
               call' = [ implicit |-> implicit, args |-> args,
                         outcome |-> IF implicit THEN RunImplicit(program, args)
                                     ELSE RunExplicit(program, args) ]
  /\ pc' = "called"
  /\ UNCHANGED <<design, mode, graph, program>>

Next == Construct \/ Emit \/ Call
Spec == Init /\ [][Next]_vars

-----------------------------------------------------------------------------
(* Properties *)

\* What Python makes of the same call: an argument that does not fit is
\* stopped, so is a call that violates a condition of any composite it runs,
\* and every other call returns the value of the root.  The choices of the
\* implicit overload are bits of the hash of one number whose digits are the
\* arguments, the first the most significant.
Expected ==
  LET root    == graph[Root]
      types   == program.types
      weight[i \in 0 .. Len(call.args)] ==
        IF i = 0 THEN 0
        ELSE FoldLeft(LAMBDA n, field : n * 2^field.bits + field.v, weight[i - 1],
                      Fields(types[i], call.args[i]))
      given   == IF call.implicit
                 THEN call.args \o [i \in 1 .. root.choices |->
                                      <<(Mix(weight[Len(call.args)] + i - 1)) % 2>>]
                 ELSE call.args
      frame   == [v \in {root.inner[i] : i \in DOMAIN root.inner} |->
                    given[CHOOSE i \in DOMAIN root.inner : root.inner[i] = v]]
      fits    == \A i \in DOMAIN call.args : Fits(types[i], call.args[i])
  IN IF fits /\ ~ ViolatesInside(graph, root, frame)
     THEN Returned(Evaluate(graph, root.tree, frame)) ELSE Stopped

\* The emitted program and evaluate() agree on every input, and the program
\* stops exactly where an attached condition is violated, unless two functions
\* that differ only in how they wire the calls inside them share a helper.
ComputesTheDesign ==
  pc = "called" => call.outcome = Expected \/ Ambiguous(graph, mode)

Calls(function) ==
  {function.text.body[i].x.s : i \in {i \in DOMAIN function.text.body :
                                        function.text.body[i].x.e = "call"}}
Emitted == {program.functions[i] : i \in DOMAIN program.functions}

\* Every helper is defined once, before the function that calls it, no two of
\* them are the same function, every one but the entry is called, their names
\* are the names taken, and assertions have their header.
WellLinked ==
  pc = "emitted" =>
    /\ \A i, j \in DOMAIN program.functions :
         i # j => /\ program.functions[i].name # program.functions[j].name
                  /\ program.functions[i].text # program.functions[j].text
    /\ \A j \in DOMAIN program.functions : \A name \in Calls(program.functions[j]) :
         \E i \in 1 .. j - 1 : program.functions[i].name = name
    /\ {f.name : f \in Emitted} = {program.entry} \cup UNION {Calls(f) : f \in Emitted}
    /\ {f.name : f \in Emitted} \subseteq program.taken \ {"zolotone"}
    /\ (\E f \in Emitted : \E i \in DOMAIN f.text.body : f.text.body[i].st = "assert")
         => program.asserts
=============================================================================
