---------------------------- MODULE Dependencies ----------------------------
(***************************************************************************)
(* The dependency list of infra/setup.py: _get_deps walks the packages     *)
(* that targets, instances and packages name in dependencies(), depth      *)
(* first, and lists every package once, after the packages it depends on.  *)
(* Packages are compared by their identifier (Package.__eq__), so a        *)
(* package is its identifier here.                                         *)
(*                                                                         *)
(* A dependency graph is a function from objects (packages, targets and    *)
(* instances) to the sequence of packages dependencies() yields.           *)
(***************************************************************************)
EXTENDS Naturals, Sequences, SequencesExt, FiniteSetsExt

\* What a list holds once FatalError("recursive dependency ...") is raised.
Recursive == "recursive dependency"

\* Slip: the package goes into the list before the packages it needs.
SlipVisit(graph, add, d, visited) ==
  IF d \in visited THEN <<Recursive>>
  ELSE <<d>> \o FlattenSeq([i \in DOMAIN graph[d] |-> add[<<graph[d][i], visited \cup {d}>>]])

\* What the walk from d makes of those from the packages d depends on.
Visit(graph, add, d, visited) ==
  IF d \in visited THEN <<Recursive>>
  ELSE FlattenSeq([i \in DOMAIN graph[d] |-> add[<<graph[d][i], visited \cup {d}>>]]) \o <<d>>

\* Every package in the order the walk from dep reaches the end of it.
add_dep(graph, dep) ==
  LET add[x \in (DOMAIN graph) \X (SUBSET DOMAIN graph)] == Visit(graph, add, x[1], x[2])
  IN  add[<<dep, {}>>]

\* "if dep not in deps: deps.append(dep)" over the whole walk.
AppendNew(deps, dep) == IF Contains(deps, dep) THEN deps ELSE Append(deps, dep)

get_deps(graph, objs) ==
  FoldLeft(AppendNew, <<>>,
    FlattenSeq([i \in DOMAIN objs |->
               FlattenSeq([k \in DOMAIN graph[objs[i]] |-> add_dep(graph, graph[objs[i]][k])])]))

\* Reference definitions ---------------------------------------------------------

\* The packages an object needs, directly or through others.
Needs(graph, obj) ==
  LET Below(S) == S \cup UNION {ToSet(graph[p]) : p \in S}
      reach[n \in Nat] == IF n = 0 THEN ToSet(graph[obj]) ELSE Below(reach[n - 1])
  IN  reach[Cardinality(DOMAIN graph)]

Cyclic(graph, objs) ==
  \E o \in ToSet(objs) : \E p \in Needs(graph, o) : p \in Needs(graph, p)

\* The walk of a graph is right when it finds a cycle exactly where one can be
\* reached, and otherwise lists what is needed, once, dependencies first.
ListRight(graph, objs) ==
  LET deps == get_deps(graph, objs) IN
  /\ Contains(deps, Recursive) <=> Cyclic(graph, objs)
  /\ ~Cyclic(graph, objs) =>
       /\ ToSet(deps) = UNION {Needs(graph, o) : o \in ToSet(objs)}
       /\ IsInjective(deps)
       /\ \A i \in DOMAIN deps : ToSet(graph[deps[i]]) \subseteq ToSet(SubSeq(deps, 1, i - 1))
=============================================================================
