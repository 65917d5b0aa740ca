--------------------------- MODULE MCAccessGate ---------------------------
(***************************************************************************)
(* Registrations worth telling apart: a root context, a context in a scope *)
(* below it, a worker node under the root node and the same references     *)
(* under a second subject; and, only asked about, a scope two levels down  *)
(* and requests that contradict what may be registered already.            *)
(***************************************************************************)
EXTENDS AccessGate, TLC

CONSTANTS c1, c2, c3, r1, r2

Id(subject, actorKind, scope, parentScope, node, parentNode) ==
    [subject |-> subject, subjectKind |-> "person", actor |-> "a", actorKind |-> actorKind,
     scope |-> scope, scopeKind |-> "project", parentScope |-> parentScope,
     node |-> node, parentNode |-> parentNode]

Root == Id("s", "user", "top", None, "n0", None)
Below == Id("s", "user", "sub", "top", "n1", None)
Worker == Id("s", "user", "top", None, "w", "n0")
Other == Id("t", "user", "top", None, "n0", None)

MCIdentities ==
    {Root, Below, Worker, Other,
     Id("s", "user", "leaf", "sub", "n2", None),
     Id("s", "user", "sub", None, "n1", None),
     Id("s", "user", "sub", "top", "w", None),
     Id("s", "agent", "top", None, "n3", None),
     Id("s", "user", "top", None, "n0", "w")}

Policy(mode, scope, node, kind) ==
    [mode |-> mode, scope |-> scope, node |-> node, kind |-> kind]

Inherit == {Policy("inherit", "top", "n0", "semantic")}
Grant == {Policy("grant", "top", "n0", "procedural")}

MCPolicySets ==
    {{}, Inherit, Grant, {Policy("grant", "top", "w", "semantic")},
     {Policy("inherit", "sub", "n1", "episodic")}, {Policy("inherit", "top", "n0", "episodic")}}

MCRegistrations ==
    {<<Root, {}>>, <<Below, {}>>, <<Below, Inherit>>, <<Worker, Grant>>,
     <<Worker, {Policy("inherit", "top", "n0", "episodic")}>>, <<Other, {}>>}

\* One verb per distinct guard and effect.
MCVerbsOf ==
    [c \in Calls |-> IF c = r1 THEN {"retain", "mint", "invalidate_memory", "tool_recall",
                                     "read_resource"}
                     ELSE {"erase"}]

\* Client references are only compared with each other.
ClientSymmetry == Permutations(Clients)
==========================================================================
