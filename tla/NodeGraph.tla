------------------------------ MODULE NodeGraph ------------------------------
(***************************************************************************)
(* Implementation nodes (zolotone/ast): graphs of Var, Const, Op,          *)
(* primitive and composite nodes, their constants folded while the graph   *)
(* is built, the evaluation of a node and its fingerprint.                 *)
(*                                                                         *)
(* A graph is the sequence of its nodes in the order they are made; a      *)
(* node's index stands for the Python object.  Library gives the decorated *)
(* functions: a definition is a record of its kind, its name, its C++      *)
(* attributes and its body, a sequence of steps that each make a node from *)
(* the arguments and the steps before (references into args \o steps).     *)
(***************************************************************************)
EXTENDS Operators, TLC

CONSTANT
  Library  \* the functions decorated with Primitive and Composite

\* A step makes a constant, an operation or a call of a library function.
Step(f, p, a, type) == [f |-> f, p |-> p, a |-> a, type |-> type]
ConstStep(type, raw) == Step("const", raw, <<>>, type)
Condition(text, ref) == [text |-> text, ref |-> ref]

\* A definition; "safe" is what _sanitize_identifier makes of the name.
Definition(kind, name, safe, inline, direct, code, ret, assumes, checks) ==
  [ kind |-> kind, name |-> name, safe |-> safe, inline |-> inline, direct |-> direct,
    code |-> code, ret |-> ret, assumes |-> assumes, checks |-> checks ]

-----------------------------------------------------------------------------
(* Nodes.  No constant and no tree are <<>> and 0.                         *)

AnyNode ==
  [ kind |-> "", name |-> "", safe |-> "", type |-> Bool, constant |-> <<>>, args |-> <<>>,
    op |-> "", p |-> <<>>, inner |-> <<>>, tree |-> 0, inline |-> FALSE, direct |-> "",
    assumes |-> <<>>, checks |-> <<>>, choices |-> 0 ]

VarNode(name, type, constant) ==
  [AnyNode EXCEPT !.kind = "Var", !.name = name, !.type = type, !.constant = constant]
ConstNode(type, raw) ==
  [AnyNode EXCEPT !.kind = "Const", !.type = type, !.constant = raw]
OpNode(op, p, args, type) ==
  [AnyNode EXCEPT !.kind = "Op", !.name = op, !.op = op, !.p = p, !.args = args, !.type = type]

IsCall(node) == node.kind \in {"primitive", "composite"}
ArgTypes(g, node) == [i \in DOMAIN node.args |-> g[node.args[i]].type]
InnerTypes(g, node) == [i \in DOMAIN node.inner |-> g[node.inner[i]].type]

\* evaluate: a node that is known to be constant is not computed, and a call
\* loads its inner variables and evaluates its inner tree.
RECURSIVE Evaluate(_, _, _), Compute(_, _, _)
Evaluate(g, id, loaded) ==
  LET node == g[id] IN
  CASE node.constant # <<>> -> node.constant
    [] node.kind = "Var"    -> loaded[id]
    [] OTHER -> Compute(g, node, [i \in DOMAIN node.args |-> Evaluate(g, node.args[i], loaded)])
Compute(g, node, inputs) ==
  IF node.kind = "Op"
  THEN <<>> \o OpValue(node.op, node.p, inputs, ArgTypes(g, node), node.type)
  ELSE LET position(v) == CHOOSE i \in DOMAIN node.inner : node.inner[i] = v
       IN Evaluate(g, node.tree,
                   [v \in {node.inner[i] : i \in DOMAIN node.inner} |-> inputs[position(v)]])

\* A node is added to the graph; it is constant if all its arguments are.
IsFolded(g, node) ==
  node.args # <<>> /\ \A i \in DOMAIN node.args : g[node.args[i]].constant # <<>>
Add(g, node) ==
  [ g |-> Append(g,
      IF IsFolded(g, node)
      THEN [node EXCEPT !.constant =
              Compute(g, node, [i \in DOMAIN node.args |-> g[node.args[i]].constant])]
      ELSE node),
    id |-> Len(g) + 1 ]

\* The call of d on args, whose body made the nodes refs.
CallNode(g, refs, d, args) ==
  LET conditions(cs) == [i \in DOMAIN cs |-> [text |-> cs[i].text, node |-> refs[cs[i].ref]]]
      tree == refs[d.ret]
  IN [AnyNode EXCEPT
        !.kind = d.kind, !.name = d.name, !.safe = d.safe, !.type = g[tree].type,
        !.args = args, !.inner = SubSeq(refs, 1, Len(args)), !.tree = tree, !.inline = d.inline,
        !.direct = d.direct, !.assumes = conditions(d.assumes), !.checks = conditions(d.checks)]

\* composite.__init__ and primitive.__init__: fresh inner variables carry the
\* constants of the arguments, the body is run on them.
InnerVars(g, args) ==
  [i \in DOMAIN args |-> VarNode("arg_" \o ToString(i - 1), g[args[i]].type, g[args[i]].constant)]
Called(made, d, args) == Add(made.g, CallNode(made.g, made.refs, d, args))

Referred(made, refs) == [g |-> made.g, refs |-> Append(refs, made.id)]
At(refs, step) == [i \in DOMAIN step.a |-> refs[step.a[i]]]

\* The nodes of a body, made one after the other.
RECURSIVE MakeNodes(_, _, _)
MakeNodes(g, code, refs) ==
  FoldLeft(
    LAMBDA m, step : Referred(
      IF step.f \in DOMAIN Library
      THEN Called(MakeNodes(m.g \o InnerVars(m.g, At(m.refs, step)), Library[step.f].code,
                            [i \in DOMAIN step.a |-> Len(m.g) + i]),
                  Library[step.f], At(m.refs, step))
      ELSE Add(m.g, IF step.f = "const" THEN ConstNode(step.type, step.p)
                    ELSE OpNode(step.f, step.p, At(m.refs, step), step.type)),
      m.refs),
    [g |-> g, refs |-> refs], code)

\* _validate_components: the tree and the conditions of a composite are made of
\* calls; an Op inside a composite raises TypeError.
RECURSIVE OfCalls(_, _)
OfCalls(g, id) ==
  \/ g[id].kind \in {"Var", "Const"}
  \/ IsCall(g[id]) /\ \A i \in DOMAIN g[id].args : OfCalls(g, g[id].args[i])
_validate_components(g, node) ==
  LET conditions == node.assumes \o node.checks IN
  /\ OfCalls(g, node.tree)
  /\ \A i \in DOMAIN conditions : OfCalls(g, conditions[i].node)
Constructible(g) == \A i \in DOMAIN g : g[i].kind = "composite" => _validate_components(g, g[i])

\* A library function applied to the nodes of a graph.
Instantiate(g, f, args) ==
  LET made == MakeNodes(g, <<Step(f, <<>>, [i \in DOMAIN args |-> i], Bool)>>, args)
  IN [g |-> made.g, id |-> Len(made.g)]

-----------------------------------------------------------------------------
(* Fingerprints.  Every fingerprint is a record of the same fields.        *)

Fingerprint(k, s, types, constants, lowering, n, parts, conditions) ==
  [ k |-> k, s |-> s, types |-> types, constants |-> constants, lowering |-> lowering,
    n |-> n, parts |-> parts, conditions |-> conditions ]

Holes(node) == [i \in DOMAIN node.args |-> Hole(i)]

\* The fingerprint of a call is that of the function: its inner tree counts,
\* its arguments do not.  The same holds of the calls inside that tree, so
\* that it does not say which arguments those are made with; with "wired"
\* it would.
RECURSIVE Structure(_, _, _, _)
Structure(g, id, jittable, wired) ==
  LET node    == g[id]
      of(ids) == [i \in DOMAIN ids |-> Structure(g, ids[i], jittable, wired)]
      conditions(cs) ==
        [i \in DOMAIN cs |-> [text |-> cs[i].text, of |-> Structure(g, cs[i].node, jittable, wired)]]
      direct == IF node.direct = "" THEN <<>>
                ELSE <<DirectLowering(node.direct, Holes(node), InnerTypes(g, node))>>
      constantsOf(ids) == [i \in DOMAIN ids |-> g[ids[i]].constant]
  IN CASE node.kind \in {"Var", "Const"} ->
            Fingerprint(node.kind, node.name, <<node.type>>, <<node.constant>>, <<>>, 0, <<>>, <<>>)
       [] node.kind = "Op" ->
            Fingerprint("Op", node.name, <<node.type>>, <<node.constant>>,
                        <<OpLowering(node.op, node.p, Holes(node), ArgTypes(g, node), node.type,
                                     jittable)>>, 0, of(node.args), <<>>)
       [] IsCall(node) ->
            Fingerprint(node.kind, node.name, <<node.type>> \o InnerTypes(g, node),
                        <<node.constant>> \o constantsOf(node.inner), direct, node.choices,
                        (IF direct = <<>> THEN of(<<node.tree>>) ELSE <<>>)
                          \o (IF wired THEN of(node.args) ELSE <<>>),
                        <<conditions(node.assumes), conditions(node.checks)>>)

_fingerprint(g, id, jittable) == Structure(g, id, jittable, FALSE)

\* Two calls of one fingerprint whose inner trees differ all the same.
Ambiguous(g, jittable) ==
  \E i, j \in {i \in DOMAIN g : IsCall(g[i])} :
    /\ i < j /\ g[i].name = g[j].name
    /\ _fingerprint(g, i, jittable) = _fingerprint(g, j, jittable)
    /\ Structure(g, g[i].tree, jittable, TRUE) # Structure(g, g[j].tree, jittable, TRUE)

-----------------------------------------------------------------------------
(* The conditions an evaluation meets: those of every call it makes.       *)

RECURSIVE Violates(_, _, _)
Frame(g, node, loaded) ==
  [v \in {node.inner[i] : i \in DOMAIN node.inner} |->
     LET i == CHOOSE i \in DOMAIN node.inner : node.inner[i] = v
     IN Evaluate(g, node.args[i], loaded)]
ViolatesInside(g, node, frame) ==
  \/ \E i \in DOMAIN (node.assumes \o node.checks) :
       LET condition == (node.assumes \o node.checks)[i].node IN
       Evaluate(g, condition, frame) = <<0>> \/ Violates(g, condition, frame)
  \/ node.direct = "" /\ Violates(g, node.tree, frame)
Violates(g, id, loaded) ==
  LET node == g[id] IN
  /\ node.constant = <<>>
  /\ \/ \E i \in DOMAIN node.args : Violates(g, node.args[i], loaded)
     \/ IsCall(node) /\ ViolatesInside(g, node, Frame(g, node, loaded))
=============================================================================
