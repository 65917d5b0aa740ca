------------------------- MODULE AccessGateProofs -------------------------
(***************************************************************************)
(* Proofs about access, for any clients, registrations, keys and calls and *)
(* however many calls are under way: an erased subject never returns, and  *)
(* a served call is entitled to what it was served.                        *)
(***************************************************************************)
EXTENDS AccessGate, TLAPS

---------------------------------------------------------------------------
(***************************************************************************)
(* The Postgres store: what a registration inserts, finds and replaces.    *)
(***************************************************************************)
PgShape(p) ==
    p = [subject |-> p.subject, actor |-> p.actor, scope |-> p.scope, node |-> p.node,
         binding |-> p.binding, policy |-> p.policy]

IsBinding(b) ==
    b = [client |-> b.client, identity |-> b.identity, revision |-> b.revision,
         subject |-> b.subject, actor |-> b.actor, scope |-> b.scope, node |-> b.node]

LEMMA TheMember ==
    ASSUME NEW S, S # {}
    PROVE  The(S) \in S
BY DEF The

LEMMA Used ==
    ASSUME NEW rows, NEW new
    PROVE  IF rows = {} THEN PgUse(rows, new) = new ELSE PgUse(rows, new) \in rows
BY TheMember DEF PgUse

LEMMA SubjectUsed ==
    ASSUME NEW p, NEW q, NEW n
    PROVE  LET s == PgSubject(p, q, n) IN s \in p.subject \/ s.id = <<"subject", n>>
<1> DEFINE rows == {s \in p.subject : s.ref = q.subject}
           new == [ref |-> q.subject, kind |-> q.subjectKind, id |-> <<"subject", n>>]
<1>1. PgSubject(p, q, n) = PgUse(rows, new)
    BY DEF PgSubject
<1>2. PgUse(rows, new) = new \/ PgUse(rows, new) \in rows
    BY Used
<1>3. new.id = <<"subject", n>>
    OBVIOUS
<1>4. \A s \in rows : s \in p.subject
    OBVIOUS
<1> HIDE DEF rows, new
<1> QED BY <1>1, <1>2, <1>3, <1>4

LEMMA TrustIsRank == \A kind : actor_kind_trust(kind) \in Nat
BY DEF actor_kind_trust

LEMMA ActorUsed ==
    ASSUME NEW p, NEW s, NEW q, NEW n
    PROVE  LET a == PgActor(p, s, q, n)
           IN  /\ a.subject = s.id
               /\ a \in p.actor \/ (a.id = <<"actor", n>> /\ a.trust \in Nat)
<1> DEFINE rows == PgRows(p.actor, s.id, q.actor)
           new == [subject |-> s.id, ref |-> q.actor, kind |-> q.actorKind,
                   trust |-> actor_kind_trust(q.actorKind), id |-> <<"actor", n>>]
<1>1. PgActor(p, s, q, n) = PgUse(rows, new)
    BY DEF PgActor
<1>2. PgUse(rows, new) = new \/ PgUse(rows, new) \in rows
    <2> HIDE DEF rows, new
    <2> QED BY Used
<1>3. \A a \in rows : a \in p.actor /\ a.subject = s.id
    BY DEF PgRows
<1>4. new.subject = s.id /\ new.id = <<"actor", n>> /\ new.trust \in Nat
    BY TrustIsRank
<1> HIDE DEF rows, new
<1> QED BY <1>1, <1>2, <1>3, <1>4

\* A registration's node is always new: PgConsistent refuses one that is there.
LEMMA NodeIsNew ==
    ASSUME NEW p, NEW q, NEW n, PgConsistent(p, PgSubject(p, q, n), q)
    PROVE  LET v == PgNewNode(p, q, n)
           IN  v.subject = PgSubject(p, q, n).id /\ v.id = <<"node", n>>
<1>1. PICK s : s = PgSubject(p, q, n)
    OBVIOUS
<1>2. PICK c : c = PgScope(p, s, q, n)
    OBVIOUS
<1>3. PgNewNode(p, q, n) = PgNode(p, s, c, q, n)
    BY <1>1, <1>2 DEF PgNewNode
<1>4. PgRows(p.node, s.id, q.node) = {}
    BY <1>1 DEF PgConsistent
<1> DEFINE up == PgParentNode(p, s, q)
           new == [subject |-> s.id, scope |-> c.id, ref |-> q.node,
                   parent |-> IF q.parentNode = None THEN None ELSE The(up).id,
                   level |-> IF q.parentNode = None THEN 0 ELSE The(up).level + 1,
                   id |-> <<"node", n>>]
<1>5. PgNode(p, s, c, q, n) = PgUse(PgRows(p.node, s.id, q.node), new)
    BY DEF PgNode
<1>6. new.subject = s.id /\ new.id = <<"node", n>>
    OBVIOUS
<1> HIDE DEF new
<1> QED BY <1>1, <1>3, <1>4, <1>5, <1>6, Used

LEMMA InsertedFields ==
    ASSUME NEW p, PgShape(p), NEW q, NEW n
    PROVE  LET d == PgInserted(p, q, n)
               s == PgSubject(p, q, n)
           IN  /\ PgShape(d)
               /\ d.subject = p.subject \cup {s} /\ d.actor = p.actor \cup {PgActor(p, s, q, n)}
               /\ d.node = p.node \cup {PgNewNode(p, q, n)}
               /\ d.binding = p.binding /\ d.policy = p.policy
<1> DEFINE s == PgSubject(p, q, n)
           c == PgScope(p, s, q, n)
           A == p.subject \cup {s}
           B == p.actor \cup {PgActor(p, s, q, n)}
           C == p.scope \cup {c}
           D == p.node \cup {PgNode(p, s, c, q, n)}
<1>1. PgInserted(p, q, n) = [p EXCEPT !.subject = A, !.actor = B, !.scope = C, !.node = D]
    <2>1. p.actor = [p EXCEPT !.subject = A].actor
        BY DEF PgShape
    <2> QED BY DEF PgInserted
<1>2. PgNode(p, s, c, q, n) = PgNewNode(p, q, n)
    BY DEF PgNewNode
<1> HIDE DEF A, B, C, D
<1>3. [p EXCEPT !.subject = A, !.actor = B, !.scope = C, !.node = D] =
        [subject |-> A, actor |-> B, scope |-> C, node |-> D, binding |-> p.binding,
         policy |-> p.policy]
    <2>1. PICK d : d = [p EXCEPT !.subject = A]
        OBVIOUS
    <2>2. d = [subject |-> A, actor |-> p.actor, scope |-> p.scope, node |-> p.node,
               binding |-> p.binding, policy |-> p.policy]
        BY <2>1 DEF PgShape
    <2>3. PICK e : e = [d EXCEPT !.actor = B]
        OBVIOUS
    <2>4. e = [subject |-> A, actor |-> B, scope |-> p.scope, node |-> p.node,
               binding |-> p.binding, policy |-> p.policy]
        BY <2>2, <2>3
    <2>5. PICK f : f = [e EXCEPT !.scope = C]
        OBVIOUS
    <2>6. f = [subject |-> A, actor |-> B, scope |-> C, node |-> p.node,
               binding |-> p.binding, policy |-> p.policy]
        BY <2>4, <2>5
    <2>7. [f EXCEPT !.node = D] = [subject |-> A, actor |-> B, scope |-> C, node |-> D,
                                   binding |-> p.binding, policy |-> p.policy]
        BY <2>6
    <2> QED BY <2>1, <2>3, <2>5, <2>7
<1> QED BY <1>1, <1>2, <1>3 DEF PgShape, A, B, D

LEMMA PolicyFields ==
    ASSUME NEW p, PgShape(p), NEW g, NEW P, PgPoliciesAllowed(p, g, P)
    PROVE  LET d == replace_context_policies(p, g, P)
           IN  /\ PgShape(d) /\ d.subject = p.subject /\ d.actor = p.actor
               /\ d.node = p.node /\ d.binding = p.binding
               /\ \A x \in d.policy :
                    \/ x \in p.policy
                    \/ /\ x.grantee = g.id
                       /\ \E a \in p.node : x.source = a.id /\ a.subject = g.subject
<1> DEFINE N == {x \in p.policy : x.grantee # g.id} \cup
                {[grantee |-> g.id, kind |-> y.kind, mode |-> y.mode,
                  scope |-> The(PgSources(p, g, y)).scope,
                  source |-> The(PgSources(p, g, y)).id] : y \in P}
<1>1. replace_context_policies(p, g, P) = [p EXCEPT !.policy = N]
    BY DEF replace_context_policies
<1>2. ASSUME NEW x \in N, x \notin p.policy
      PROVE  x.grantee = g.id /\ \E a \in p.node : x.source = a.id /\ a.subject = g.subject
    <2>1. PICK y \in P : x = [grantee |-> g.id, kind |-> y.kind, mode |-> y.mode,
                              scope |-> The(PgSources(p, g, y)).scope,
                              source |-> The(PgSources(p, g, y)).id]
        BY <1>2
    <2>2. PgSources(p, g, y) # {}
        BY DEF PgPoliciesAllowed, PgPolicyAllowed
    <2>3. PICK a : a = The(PgSources(p, g, y))
        OBVIOUS
    <2>4. a \in PgSources(p, g, y)
        BY <2>2, <2>3, TheMember
    <2>5. a \in p.node /\ a.subject = g.subject
        BY <2>4 DEF PgSources, PgRows
    <2>6. x.grantee = g.id /\ x.source = a.id
        BY <2>1, <2>3
    <2> QED BY <2>5, <2>6
<1> HIDE DEF N
<1>3. [p EXCEPT !.policy = N] =
        [subject |-> p.subject, actor |-> p.actor, scope |-> p.scope, node |-> p.node,
         binding |-> p.binding, policy |-> N]
    BY DEF PgShape
<1> QED BY <1>1, <1>2, <1>3 DEF PgShape

\* A first registration: a subject s and an actor a, found or new, a new node v and the
\* binding b of the three.
LEMMA Registers ==
    ASSUME PgShape(pg), NEW client, NEW q, NEW policies,
           context_binding_handler(client, q, policies), PgBound(pg, client) = {}
    PROVE  \E s, a, v, b :
             /\ PgShape(pg')
             /\ pg'.subject = pg.subject \cup {s} /\ pg'.actor = pg.actor \cup {a}
             /\ pg'.node = pg.node \cup {v} /\ pg'.binding = pg.binding \cup {b}
             /\ s \in pg.subject \/ s.id = <<"subject", binds>>
             /\ a.subject = s.id
             /\ a \in pg.actor \/ (a.id = <<"actor", binds>> /\ a.trust \in Nat)
             /\ v.subject = s.id /\ v.id = <<"node", binds>>
             /\ IsBinding(b) /\ b.subject = s.id /\ b.actor = a.id /\ b.node = v.id
             /\ issued' = issued \cup {Tuple(b)}
             /\ \A x \in pg'.policy :
                  \/ x \in pg.policy
                  \/ x.grantee = v.id /\ \E w \in pg'.node : x.source = w.id /\ w.subject = s.id
<1>1. PICK s, v, d : /\ s = PgSubject(pg, q, binds) /\ v = PgNewNode(pg, q, binds)
                     /\ d = PgInserted(pg, q, binds)
    OBVIOUS
<1>2. PICK a : a = PgActor(pg, s, q, binds)
    OBVIOUS
<1>3. /\ PgConsistent(pg, s, q) /\ PgPoliciesAllowed(d, v, policies)
    BY <1>1 DEF context_binding_handler, PgAccepts
<1>4. PICK f : f = replace_context_policies(d, v, policies)
    OBVIOUS
<1>5. PICK b : b = [client |-> client, identity |-> q, revision |-> policies, subject |-> s.id,
                    actor |-> a.id, scope |-> v.scope, node |-> v.id]
    OBVIOUS
<1>6. pg' = [f EXCEPT !.binding = f.binding \cup {b}]
    <2>1. pg' = PgRegister(pg, client, q, policies, binds)
        BY DEF context_binding_handler, PgBind
    <2>2. PgRegister(pg, client, q, policies, binds) = [f EXCEPT !.binding = f.binding \cup {b}]
        BY <1>1, <1>2, <1>4, <1>5 DEF PgRegister
    <2> QED BY <2>1, <2>2
<1>7. /\ PgShape(d)
      /\ d.subject = pg.subject \cup {s} /\ d.actor = pg.actor \cup {a}
      /\ d.node = pg.node \cup {v} /\ d.binding = pg.binding /\ d.policy = pg.policy
    BY <1>1, <1>2, InsertedFields
<1>8. /\ PgShape(f) /\ f.subject = d.subject /\ f.actor = d.actor
      /\ f.node = d.node /\ f.binding = d.binding
      /\ \A x \in f.policy :
           \/ x \in d.policy
           \/ x.grantee = v.id /\ \E w \in d.node : x.source = w.id /\ w.subject = v.subject
    BY <1>3, <1>4, <1>7, PolicyFields
<1>9. PICK B : B = f.binding \cup {b}
    OBVIOUS
<1>10. pg' = [subject |-> f.subject, actor |-> f.actor, scope |-> f.scope, node |-> f.node,
              binding |-> B, policy |-> f.policy]
    BY <1>6, <1>8, <1>9 DEF PgShape
<1>11. /\ PgShape(pg') /\ pg'.subject = f.subject /\ pg'.actor = f.actor /\ pg'.node = f.node
       /\ pg'.binding = B /\ pg'.policy = f.policy
    BY <1>10 DEF PgShape
<1>12. s \in pg.subject \/ s.id = <<"subject", binds>>
    BY <1>1, SubjectUsed
<1>13. a.subject = s.id /\ (a \in pg.actor \/ (a.id = <<"actor", binds>> /\ a.trust \in Nat))
    BY <1>2, ActorUsed
<1>14. v.subject = s.id /\ v.id = <<"node", binds>>
    BY <1>1, <1>3, NodeIsNew
<1>15. /\ IsBinding(b) /\ b.subject = s.id /\ b.actor = a.id /\ b.node = v.id
       /\ b.client = client
    BY <1>5 DEF IsBinding
<1>16. issued' = issued \cup {Tuple(b)}
    <2>1. issued' = issued \cup {Tuple(x) : x \in PgBound(pg', client)}
        BY DEF context_binding_handler
    <2>2. \A x \in pg'.binding : x.client = client <=> x = b
        BY <1>7, <1>8, <1>9, <1>11, <1>15 DEF PgBound
    <2>3. b \in pg'.binding
        BY <1>9, <1>11
    <2>4. PgBound(pg', client) = {b}
        BY <2>2, <2>3 DEF PgBound
    <2> QED BY <2>1, <2>4
<1>17. \A x \in pg'.policy :
         \/ x \in pg.policy
         \/ x.grantee = v.id /\ \E w \in pg'.node : x.source = w.id /\ w.subject = s.id
    BY <1>7, <1>8, <1>11, <1>14
<1>18. /\ pg'.subject = pg.subject \cup {s} /\ pg'.actor = pg.actor \cup {a}
       /\ pg'.node = pg.node \cup {v} /\ pg'.binding = pg.binding \cup {b}
    BY <1>7, <1>8, <1>9, <1>11
<1> QED BY <1>11, <1>12, <1>13, <1>14, <1>15, <1>16, <1>17, <1>18

\* Registering again replaces the policies of the node that is bound.
LEMMA Rebinds ==
    ASSUME PgShape(pg), NEW client, NEW q, NEW policies,
           context_binding_handler(client, q, policies), PgBound(pg, client) # {},
           \A b \in pg.binding : IsBinding(b) /\ \E a \in pg.node : a.id = b.node
    PROVE  /\ PgShape(pg')
           /\ pg'.subject = pg.subject /\ pg'.actor = pg.actor /\ pg'.node = pg.node
           /\ \A c \in pg'.binding :
                IsBinding(c) /\ \E b \in pg.binding : Tuple(c) = Tuple(b)
           /\ \A x \in pg'.policy :
                \/ x \in pg.policy
                \/ \E g, w \in pg.node :
                     x.grantee = g.id /\ x.source = w.id /\ w.subject = g.subject
           /\ issued' = issued \cup {Tuple(c) : c \in PgBound(pg', client)}
<1>1. PICK b : b = The(PgBound(pg, client))
    OBVIOUS
<1>2. b \in pg.binding
    BY <1>1, TheMember DEF PgBound
<1>3. issued' = issued \cup {Tuple(c) : c \in PgBound(pg', client)}
    BY DEF context_binding_handler
<1>4. PICK g : g = PgNodeOf(pg, b)
    OBVIOUS
<1>5. g \in pg.node
    BY <1>2, <1>4, TheMember DEF PgNodeOf
<1>6. b.revision # policies
    BY <1>1 DEF context_binding_handler, PgBind, PgRebind
<1>7. PgPoliciesAllowed(pg, g, policies)
    BY <1>1, <1>4, <1>6 DEF context_binding_handler, PgAccepts
<1>8. PICK f, c : /\ f = replace_context_policies(pg, g, policies)
                  /\ c = [b EXCEPT !.revision = policies]
    OBVIOUS
<1>9. pg' = [f EXCEPT !.binding = (f.binding \ {b}) \cup {c}]
    <2>1. pg' = PgRebind(pg, client, policies)
        BY DEF context_binding_handler, PgBind
    <2>2. PgRebind(pg, client, policies) = [f EXCEPT !.binding = (f.binding \ {b}) \cup {c}]
        BY <1>1, <1>4, <1>6, <1>8 DEF PgRebind
    <2> QED BY <2>1, <2>2
<1>10. /\ PgShape(f) /\ f.subject = pg.subject /\ f.actor = pg.actor
       /\ f.node = pg.node /\ f.binding = pg.binding
       /\ \A x \in f.policy :
            \/ x \in pg.policy
            \/ x.grantee = g.id /\ \E w \in pg.node : x.source = w.id /\ w.subject = g.subject
    BY <1>7, <1>8, PolicyFields
<1>11. PICK B : B = (f.binding \ {b}) \cup {c}
    OBVIOUS
<1>12. pg' = [subject |-> f.subject, actor |-> f.actor, scope |-> f.scope, node |-> f.node,
              binding |-> B, policy |-> f.policy]
    BY <1>9, <1>10, <1>11 DEF PgShape
<1>13. /\ PgShape(pg') /\ pg'.subject = f.subject /\ pg'.actor = f.actor /\ pg'.node = f.node
       /\ pg'.binding = B /\ pg'.policy = f.policy
    BY <1>12 DEF PgShape
<1>14. IsBinding(c) /\ Tuple(c) = Tuple(b)
    BY <1>2, <1>8 DEF IsBinding, Tuple
<1>15. \A x \in pg'.binding : IsBinding(x) /\ \E y \in pg.binding : Tuple(x) = Tuple(y)
    BY <1>2, <1>10, <1>11, <1>13, <1>14
<1> QED BY <1>3, <1>5, <1>10, <1>13, <1>15

---------------------------------------------------------------------------
(***************************************************************************)
(* The inductive invariant.  Every row, key and call is traced to a tuple  *)
(* that was issued: tuples are never taken back, and an actor or a node is *)
(* issued with one subject only.                                           *)
(***************************************************************************)
Numbered(x, kind, n) == \E m \in Nat : m < n /\ x = <<kind, m>>

IsTuple(t) == t = [subject |-> t.subject, actor |-> t.actor, scope |-> t.scope, node |-> t.node]

TuplesAreNumbered ==
    \A t \in issued :
        /\ IsTuple(t) /\ Numbered(t.subject, "subject", binds)
        /\ Numbered(t.actor, "actor", binds) /\ Numbered(t.node, "node", binds)

OneSubject ==
    \A t, u \in issued : t.actor = u.actor \/ t.node = u.node => t.subject = u.subject

RowsAreIssued ==
    /\ \A x \in pg.subject : \E t \in issued : t.subject = x.id
    /\ \A x \in pg.actor : \E t \in issued : t.actor = x.id /\ t.subject = x.subject
    /\ \A x \in pg.node : \E t \in issued : t.node = x.id /\ t.subject = x.subject

ActorsAreSingle ==
    /\ \A x, y \in pg.actor : x.id = y.id => x = y
    /\ \A x \in pg.actor : x.trust \in Nat

BindingsAreIssued ==
    \A b \in pg.binding :
        /\ IsBinding(b) /\ Tuple(b) \in issued
        /\ \E x \in pg.actor : x.id = b.actor
        /\ \E x \in pg.node : x.id = b.node

PoliciesStayInside ==
    \A p \in pg.policy : \E t, u \in issued :
        t.node = p.grantee /\ u.node = p.source /\ t.subject = u.subject

ErasedIsGone ==
    /\ \A s \in erased : \E t \in issued : t.subject = s
    /\ \A x \in pg.subject : x.id \notin erased
    /\ \A x \in pg.actor \cup pg.node \cup pg.binding : x.subject \notin erased

StoreInv ==
    /\ binds \in Nat /\ PgShape(pg)
    /\ TuplesAreNumbered /\ OneSubject /\ RowsAreIssued /\ ActorsAreSingle
    /\ BindingsAreIssued /\ PoliciesStayInside /\ ErasedIsGone

\* A key's row, now or as it was read.
KeyRow == [context: issued \cup {None}, trust: Nat, forget: BOOLEAN, audit: BOOLEAN,
           revoked: BOOLEAN]

KeyInv ==
    /\ key \in [DOMAIN key -> KeyRow]
    /\ \A k \in DOMAIN key : key[k].context # None => key[k].context.subject \notin erased

\* A row that was read of key k is of the key as it is, or of a subject erased since.
OfKey(k, row) ==
    \/ row.context = None \/ row.context.subject \in erased
    \/ k \in DOMAIN key /\ key[k].context = row.context

\* Key k can never serve what was read in row again.
Lost(k, row) ==
    \/ row.context = None \/ row.context.subject \in erased
    \/ k \in DOMAIN key /\ key[k].context = row.context /\ key[k].revoked

SessionOk(s) == s # None => s.row \in KeyRow /\ OfKey(s.k, s.row)

CallShape(r) ==
    r = [pc |-> r.pc, verb |-> r.verb, k |-> r.k, ask |-> r.ask, bound |-> r.bound,
         row |-> r.row, late |-> r.late, ctx |-> r.ctx, sources |-> r.sources]

ContextShape(x) ==
    x = [subject |-> x.subject, actor |-> x.actor, scope |-> x.scope, node |-> x.node,
         level |-> x.level, revision |-> x.revision, trust |-> x.trust]

CallIsAuthentic(r) ==
    /\ r.row \in KeyRow /\ r.bound \in KeyRow /\ r.row.trust <= r.bound.trust
    /\ r.verb \in Tools => ~r.late
    /\ r.row.context # None => r.row.context.actor = r.ask.actor

ContextIsOwn(r) ==
    /\ ContextShape(r.ctx) /\ Tuple(r.ctx) \in issued /\ r.ctx.trust \in Nat
    /\ r.row.context # None => r.row.context.actor = r.ctx.actor
    /\ \A x \in pg.actor : x.id = r.ctx.actor => r.ctx.trust <= x.trust

SourcesAreOwn(r) ==
    /\ r.ctx.trust <= r.row.trust
    /\ \A src \in r.sources : \E u \in issued : u.node = src[3] /\ u.subject = r.ctx.subject

CallOk(r) ==
    \/ r.pc = "idle"
    \/ /\ r.pc = "live" /\ r.bound \in KeyRow
       /\ r.late => Lost(r.k, r.bound)
    \/ r.pc = "row" /\ CallIsAuthentic(r)
    \/ r.pc = "sources" /\ CallIsAuthentic(r) /\ ContextIsOwn(r)
    \/ /\ r.pc \in {"ready", "served"} /\ CallShape(r)
       /\ CallIsAuthentic(r) /\ ContextIsOwn(r) /\ SourcesAreOwn(r)

AccessInv ==
    /\ StoreInv /\ KeyInv /\ SessionOk(session)
    /\ call = [c \in Calls |-> call[c]] /\ \A c \in Calls : CallOk(call[c])

---------------------------------------------------------------------------
(***************************************************************************)
(* The stores.                                                             *)
(***************************************************************************)
LEMMA Numbers ==
    ASSUME NEW n \in Nat, NEW x, NEW kind
    PROVE  /\ Numbered(x, kind, n) => Numbered(x, kind, n + 1) /\ x # <<kind, n>>
           /\ Numbered(<<kind, n>>, kind, n + 1)
BY DEF Numbered

LEMMA TupleFields ==
    ASSUME NEW b
    PROVE  LET t == Tuple(b)
           IN  /\ IsTuple(t) /\ t.subject = b.subject /\ t.actor = b.actor
               /\ t.scope = b.scope /\ t.node = b.node
BY DEF Tuple, IsTuple

LEMMA RegisterKeepsStore ==
    ASSUME StoreInv, NEW client, NEW q, NEW policies,
           context_binding_handler(client, q, policies), PgBound(pg, client) = {}
    PROVE  StoreInv'
<1>0. /\ binds \in Nat /\ PgShape(pg)
      /\ TuplesAreNumbered /\ OneSubject /\ RowsAreIssued /\ ActorsAreSingle
      /\ BindingsAreIssued /\ PoliciesStayInside /\ ErasedIsGone
    BY DEF StoreInv
<1>1. PICK s, a, v, b :
             /\ PgShape(pg')
             /\ pg'.subject = pg.subject \cup {s} /\ pg'.actor = pg.actor \cup {a}
             /\ pg'.node = pg.node \cup {v} /\ pg'.binding = pg.binding \cup {b}
             /\ s \in pg.subject \/ s.id = <<"subject", binds>>
             /\ a.subject = s.id
             /\ a \in pg.actor \/ (a.id = <<"actor", binds>> /\ a.trust \in Nat)
             /\ v.subject = s.id /\ v.id = <<"node", binds>>
             /\ IsBinding(b) /\ b.subject = s.id /\ b.actor = a.id /\ b.node = v.id
             /\ issued' = issued \cup {Tuple(b)}
             /\ \A x \in pg'.policy :
                  \/ x \in pg.policy
                  \/ x.grantee = v.id /\ \E w \in pg'.node : x.source = w.id /\ w.subject = s.id
    BY <1>0, Registers
<1>2. PICK T : T = Tuple(b)
    OBVIOUS
<1>3. IsTuple(T) /\ T.subject = s.id /\ T.actor = a.id /\ T.node = v.id
    BY <1>1, <1>2, TupleFields
<1>4. issued' = issued \cup {T} /\ binds' = binds + 1 /\ erased' = erased
    BY <1>1, <1>2 DEF context_binding_handler
<1>5. \A t \in issued : /\ t.subject # <<"subject", binds>> /\ t.actor # <<"actor", binds>>
                        /\ t.node # <<"node", binds>>
    BY <1>0, Numbers DEF TuplesAreNumbered
<1>6. \A x \in pg.actor : x.id # <<"actor", binds>>
    BY <1>0, <1>5 DEF RowsAreIssued
<1>7. TuplesAreNumbered'
    <2>1. Numbered(s.id, "subject", binds + 1)
        <3>1. ASSUME s \in pg.subject
              PROVE  Numbered(s.id, "subject", binds)
            BY <1>0, <3>1 DEF RowsAreIssued, TuplesAreNumbered
        <3> QED BY <1>0, <1>1, <3>1, Numbers
    <2>2. Numbered(a.id, "actor", binds + 1)
        <3>1. ASSUME a \in pg.actor
              PROVE  Numbered(a.id, "actor", binds)
            BY <1>0, <3>1 DEF RowsAreIssued, TuplesAreNumbered
        <3> QED BY <1>0, <1>1, <3>1, Numbers
    <2>3. Numbered(v.id, "node", binds + 1)
        BY <1>0, <1>1, Numbers
    <2>4. \A t \in issued : /\ IsTuple(t) /\ Numbered(t.subject, "subject", binds + 1)
                            /\ Numbered(t.actor, "actor", binds + 1)
                            /\ Numbered(t.node, "node", binds + 1)
        BY <1>0, Numbers DEF TuplesAreNumbered
    <2> QED BY <1>3, <1>4, <2>1, <2>2, <2>3, <2>4 DEF TuplesAreNumbered
<1>8. OneSubject'
    <2>1. ASSUME NEW t \in issued, t.actor = T.actor \/ t.node = T.node
          PROVE  t.subject = T.subject
        <3>1. t.node # T.node
            BY <1>1, <1>3, <1>5
        <3>2. a \in pg.actor
            BY <1>1, <1>3, <1>5, <2>1, <3>1
        <3>3. PICK u \in issued : u.actor = a.id /\ u.subject = a.subject
            BY <1>0, <3>2 DEF RowsAreIssued
        <3> QED BY <1>0, <1>1, <1>3, <2>1, <3>1, <3>3 DEF OneSubject
    <2>2. \A t, u \in issued : t.actor = u.actor \/ t.node = u.node => t.subject = u.subject
        BY <1>0 DEF OneSubject
    <2>3. \A t, u \in issued \cup {T} :
             t.actor = u.actor \/ t.node = u.node => t.subject = u.subject
        BY <2>1, <2>2
    <2> QED BY <1>4, <2>3 DEF OneSubject
<1>9. RowsAreIssued'
    <2>1. \A x \in pg'.subject : \E t \in issued' : t.subject = x.id
        BY <1>0, <1>1, <1>3, <1>4 DEF RowsAreIssued
    <2>2. \A x \in pg'.actor : \E t \in issued' : t.actor = x.id /\ t.subject = x.subject
        BY <1>0, <1>1, <1>3, <1>4 DEF RowsAreIssued
    <2>3. \A x \in pg'.node : \E t \in issued' : t.node = x.id /\ t.subject = x.subject
        BY <1>0, <1>1, <1>3, <1>4 DEF RowsAreIssued
    <2> QED BY <2>1, <2>2, <2>3 DEF RowsAreIssued
<1>10. ActorsAreSingle'
    <2>1. \A x, y \in pg'.actor : x.id = y.id => x = y
        BY <1>0, <1>1, <1>6 DEF ActorsAreSingle
    <2>2. \A x \in pg'.actor : x.trust \in Nat
        BY <1>0, <1>1 DEF ActorsAreSingle
    <2> QED BY <2>1, <2>2 DEF ActorsAreSingle
<1>11. BindingsAreIssued'
    <2>1. \A c \in pg.binding :
             /\ IsBinding(c) /\ Tuple(c) \in issued'
             /\ \E x \in pg'.actor : x.id = c.actor
             /\ \E x \in pg'.node : x.id = c.node
        BY <1>0, <1>1, <1>4 DEF BindingsAreIssued
    <2>2. /\ IsBinding(b) /\ Tuple(b) \in issued'
          /\ \E x \in pg'.actor : x.id = b.actor
          /\ \E x \in pg'.node : x.id = b.node
        BY <1>1
    <2>3. \A c \in pg'.binding : c \in pg.binding \/ c = b
        BY <1>1
    <2> QED BY <2>1, <2>2, <2>3 DEF BindingsAreIssued
<1>12. PoliciesStayInside'
    <2>1. ASSUME NEW p \in pg'.policy
          PROVE  \E t, u \in issued' :
                   t.node = p.grantee /\ u.node = p.source /\ t.subject = u.subject
        <3>1. CASE p \in pg.policy
            BY <1>0, <1>4, <3>1 DEF PoliciesStayInside
        <3>2. CASE p.grantee = v.id /\ \E w \in pg'.node : p.source = w.id /\ w.subject = s.id
            BY <1>3, <1>4, <1>9, <3>2 DEF RowsAreIssued
        <3> QED BY <1>1, <3>1, <3>2
    <2> QED BY <2>1 DEF PoliciesStayInside
<1>13. ErasedIsGone'
    <2>1. s.id \notin erased
        BY <1>0, <1>1, <1>5 DEF ErasedIsGone
    <2>2. \A x \in pg'.subject : x.id \notin erased
        BY <1>0, <1>1, <2>1 DEF ErasedIsGone
    <2>3. \A x \in pg'.actor \cup pg'.node \cup pg'.binding : x.subject \notin erased
        BY <1>0, <1>1, <2>1 DEF ErasedIsGone
    <2>4. \A x \in erased : \E t \in issued' : t.subject = x
        BY <1>0, <1>4 DEF ErasedIsGone
    <2> QED BY <1>4, <2>2, <2>3, <2>4 DEF ErasedIsGone
<1>14. binds' \in Nat /\ PgShape(pg)'
    BY <1>0, <1>1, <1>4 DEF PgShape
<1> QED BY <1>7, <1>8, <1>9, <1>10, <1>11, <1>12, <1>13, <1>14 DEF StoreInv

LEMMA RebindKeepsStore ==
    ASSUME StoreInv, NEW client, NEW q, NEW policies,
           context_binding_handler(client, q, policies), PgBound(pg, client) # {}
    PROVE  StoreInv' /\ issued' = issued
<1>0. /\ binds \in Nat /\ PgShape(pg)
      /\ TuplesAreNumbered /\ OneSubject /\ RowsAreIssued /\ ActorsAreSingle
      /\ BindingsAreIssued /\ PoliciesStayInside /\ ErasedIsGone
    BY DEF StoreInv
<1>1. \A b \in pg.binding : IsBinding(b) /\ \E a \in pg.node : a.id = b.node
    BY <1>0 DEF BindingsAreIssued
<1>2. /\ PgShape(pg')
      /\ pg'.subject = pg.subject /\ pg'.actor = pg.actor /\ pg'.node = pg.node
      /\ \A c \in pg'.binding :
           IsBinding(c) /\ \E b \in pg.binding : Tuple(c) = Tuple(b)
      /\ \A x \in pg'.policy :
           \/ x \in pg.policy
           \/ \E g, w \in pg.node :
                x.grantee = g.id /\ x.source = w.id /\ w.subject = g.subject
      /\ issued' = issued \cup {Tuple(c) : c \in PgBound(pg', client)}
    BY <1>0, <1>1, Rebinds
<1>3. \A c \in pg'.binding : \E b \in pg.binding :
        Tuple(c) = Tuple(b) /\ c.subject = b.subject /\ c.actor = b.actor /\ c.node = b.node
    BY <1>2, TupleFields
<1>4. issued' = issued
    BY <1>0, <1>2 DEF PgBound, BindingsAreIssued
<1>5. binds' = binds + 1 /\ erased' = erased
    BY DEF context_binding_handler
<1>6. TuplesAreNumbered'
    <2>1. \A t \in issued : /\ IsTuple(t) /\ Numbered(t.subject, "subject", binds + 1)
                            /\ Numbered(t.actor, "actor", binds + 1)
                            /\ Numbered(t.node, "node", binds + 1)
        BY <1>0, Numbers DEF TuplesAreNumbered
    <2> QED BY <1>4, <1>5, <2>1 DEF TuplesAreNumbered
<1>7. OneSubject' /\ RowsAreIssued' /\ ActorsAreSingle'
    BY <1>0, <1>2, <1>4 DEF OneSubject, RowsAreIssued, ActorsAreSingle
<1>8. BindingsAreIssued'
    <2>1. ASSUME NEW c \in pg'.binding
          PROVE  /\ IsBinding(c) /\ Tuple(c) \in issued'
                 /\ \E x \in pg'.actor : x.id = c.actor
                 /\ \E x \in pg'.node : x.id = c.node
        BY <1>0, <1>2, <1>3, <1>4 DEF BindingsAreIssued
    <2> QED BY <2>1 DEF BindingsAreIssued
<1>9. PoliciesStayInside'
    <2>1. ASSUME NEW p \in pg'.policy
          PROVE  \E t, u \in issued' :
                   t.node = p.grantee /\ u.node = p.source /\ t.subject = u.subject
        <3>1. CASE p \in pg.policy
            BY <1>0, <1>4, <3>1 DEF PoliciesStayInside
        <3>2. CASE \E g, w \in pg.node :
                      p.grantee = g.id /\ p.source = w.id /\ w.subject = g.subject
            <4>1. PICK g \in pg.node, w \in pg.node :
                      p.grantee = g.id /\ p.source = w.id /\ w.subject = g.subject
                BY <3>2
            <4>2. PICK t \in issued : t.node = g.id /\ t.subject = g.subject
                BY <1>0 DEF RowsAreIssued
            <4>3. PICK u \in issued : u.node = w.id /\ u.subject = w.subject
                BY <1>0 DEF RowsAreIssued
            <4> QED BY <1>4, <4>1, <4>2, <4>3
        <3> QED BY <1>2, <3>1, <3>2
    <2> QED BY <2>1 DEF PoliciesStayInside
<1>10. ErasedIsGone'
    <2>1. \A x \in pg'.binding : x.subject \notin erased
        BY <1>0, <1>3 DEF ErasedIsGone
    <2>2. \A x \in pg'.actor \cup pg'.node \cup pg'.binding : x.subject \notin erased
        BY <1>0, <1>2, <2>1 DEF ErasedIsGone
    <2> QED BY <1>0, <1>2, <1>4, <1>5, <2>2 DEF ErasedIsGone
<1>11. binds' \in Nat /\ PgShape(pg)'
    BY <1>0, <1>2, <1>5 DEF PgShape
<1> QED BY <1>4, <1>6, <1>7, <1>8, <1>9, <1>10, <1>11 DEF StoreInv

LEMMA EraseKeepsStore ==
    ASSUME StoreInv, NEW s, SubjectIsLive(s), pg' = PgErase(pg, s), binds' = binds,
           issued' = issued, erased' = erased \cup {s}
    PROVE  StoreInv'
<1>0. /\ binds \in Nat /\ PgShape(pg)
      /\ TuplesAreNumbered /\ OneSubject /\ RowsAreIssued /\ ActorsAreSingle
      /\ BindingsAreIssued /\ PoliciesStayInside /\ ErasedIsGone
    BY DEF StoreInv
<1>1. /\ PgShape(pg')
      /\ pg'.subject = {x \in pg.subject : x.id # s}
      /\ pg'.actor = {x \in pg.actor : x.subject # s}
      /\ pg'.node = {x \in pg.node : x.subject # s}
      /\ pg'.binding = {x \in pg.binding : x.subject # s}
      /\ pg'.policy \subseteq pg.policy
    BY DEF PgErase, PgShape
<1>2. TuplesAreNumbered' /\ OneSubject'
    BY <1>0 DEF TuplesAreNumbered, OneSubject
<1>3. RowsAreIssued' /\ ActorsAreSingle' /\ PoliciesStayInside'
    BY <1>0, <1>1 DEF RowsAreIssued, ActorsAreSingle, PoliciesStayInside
<1>4. BindingsAreIssued'
    <2>1. ASSUME NEW b \in pg'.binding
          PROVE  /\ IsBinding(b) /\ Tuple(b) \in issued'
                 /\ \E x \in pg'.actor : x.id = b.actor
                 /\ \E x \in pg'.node : x.id = b.node
        <3>1. b \in pg.binding /\ b.subject # s
            BY <1>1
        <3>2. PICK x \in pg.actor, y \in pg.node : x.id = b.actor /\ y.id = b.node
            BY <1>0, <3>1 DEF BindingsAreIssued
        <3>3. IsBinding(b) /\ Tuple(b) \in issued
            BY <1>0, <3>1 DEF BindingsAreIssued
        <3>4. PICK u : u = Tuple(b)
            OBVIOUS
        <3>5. u \in issued /\ u.subject = b.subject /\ u.actor = b.actor /\ u.node = b.node
            BY <3>3, <3>4, TupleFields
        <3>6. x.subject = b.subject
            BY <1>0, <3>2, <3>5 DEF RowsAreIssued, OneSubject
        <3>7. y.subject = b.subject
            BY <1>0, <3>2, <3>5 DEF RowsAreIssued, OneSubject
        <3> QED BY <1>1, <3>1, <3>2, <3>3, <3>6, <3>7
    <2> QED BY <2>1 DEF BindingsAreIssued
<1>5. ErasedIsGone'
    <2>1. \A x \in erased \cup {s} : \E t \in issued : t.subject = x
        BY <1>0 DEF ErasedIsGone, RowsAreIssued, SubjectIsLive
    <2>2. \A x \in pg'.subject : x.id \notin erased \cup {s}
        BY <1>0, <1>1 DEF ErasedIsGone
    <2>3. \A x \in pg'.actor \cup pg'.node \cup pg'.binding : x.subject \notin erased \cup {s}
        BY <1>0, <1>1 DEF ErasedIsGone
    <2> QED BY <2>1, <2>2, <2>3 DEF ErasedIsGone
<1>6. binds' \in Nat /\ PgShape(pg)'
    BY <1>0, <1>1 DEF PgShape
<1> QED BY <1>2, <1>3, <1>4, <1>5, <1>6 DEF StoreInv

---------------------------------------------------------------------------
(***************************************************************************)
(* What a step does to the stores and to the keys.                         *)
(***************************************************************************)

\* The steps that change a store: a registration, or the erasure a call asked for.
ErasesFor(c) ==
    call[c].pc = "ready" /\ SubjectIsLive(call[c].ctx.subject) /\ EraseSubject(c)

MintsFor(c) ==
    call[c].pc = "ready" /\ ForeignKeysHold(call[c].ctx) /\ create_api_key(c)

LEMMA Steps ==
    ASSUME [Next]_vars
    PROVE  \/ \E client, q, policies : context_binding_handler(client, q, policies)
           \/ \E c \in Calls : ErasesFor(c) \/ MintsFor(c)
           \/ \E k \in BoundKeys : revoke_api_key_handler(k) \/ OperatorEditsKey(k) \/ resolve_tenant(k)
           \/ \E c \in Calls : \E rec : Goto(c, rec)
           \/ UNCHANGED vars
<1>1. ASSUME NEW c \in Calls, NEW verb, NEW k, NEW q, Request(c, verb, k, q)
      PROVE  \E rec : Goto(c, rec)
    BY <1>1 DEF Request, Refuse
<1>2. ASSUME NEW c \in Calls, NEW verb, NEW k,
             \/ resolve_http_principal(c, verb, k) \/ ToolCall(c, verb)
             \/ memory_projection(c, verb)
      PROVE  \E rec : Goto(c, rec)
    BY <1>2 DEF resolve_http_principal, ToolCall, memory_projection, Refuse
<1>3. ASSUME NEW c \in Calls,
             live_principal(c) \/ ResolveRow(c) \/ ResolveSources(c) \/ Finish(c)
      PROVE  \E rec : Goto(c, rec)
    BY <1>3 DEF live_principal, ResolveRow, ResolveSources, Finish, Refuse
<1>4. ASSUME NEW c \in Calls, Serve(c)
      PROVE  (\E rec : Goto(c, rec)) \/ ErasesFor(c) \/ MintsFor(c)
    BY <1>4 DEF Serve, Refuse, ErasesFor, MintsFor
<1> QED BY <1>1, <1>2, <1>3, <1>4 DEF Next

StoresGrow ==
    /\ issued \subseteq issued' /\ erased \subseteq erased'
    /\ \A x \in pg'.actor : x \in pg.actor \/ x.id = <<"actor", binds>>

LEMMA StoreSteps ==
    ASSUME StoreInv, [Next]_vars
    PROVE  StoreInv' /\ StoresGrow
<1>1. ASSUME NEW client, NEW q, NEW policies, context_binding_handler(client, q, policies)
      PROVE  StoreInv' /\ StoresGrow
    <2>1. CASE PgBound(pg, client) = {}
        <3>1. StoreInv'
            BY <1>1, <2>1, RegisterKeepsStore
        <3>2. PgShape(pg)
            BY DEF StoreInv
        <3>3. StoresGrow
            BY <1>1, <2>1, <3>2, Registers DEF StoresGrow, context_binding_handler
        <3> QED BY <3>1, <3>3
    <2>2. CASE PgBound(pg, client) # {}
        <3>1. StoreInv' /\ issued' = issued
            BY <1>1, <2>2, RebindKeepsStore
        <3>2. /\ PgShape(pg)
              /\ \A b \in pg.binding : IsBinding(b) /\ \E a \in pg.node : a.id = b.node
            BY DEF StoreInv, BindingsAreIssued
        <3>3. pg'.actor = pg.actor
            BY <1>1, <2>2, <3>2, Rebinds
        <3>4. erased' = erased
            BY <1>1 DEF context_binding_handler
        <3> QED BY <3>1, <3>3, <3>4 DEF StoresGrow
    <2> QED BY <2>1, <2>2
<1>2. ASSUME NEW c \in Calls, ErasesFor(c)
      PROVE  StoreInv' /\ StoresGrow
    <2>1. PICK s : s = call[c].ctx.subject
        OBVIOUS
    <2>2. /\ SubjectIsLive(s) /\ pg' = PgErase(pg, s) /\ binds' = binds
          /\ issued' = issued /\ erased' = erased \cup {s}
        BY <1>2, <2>1 DEF ErasesFor, EraseSubject
    <2>3. StoreInv'
        BY <2>2, EraseKeepsStore
    <2>4. pg'.actor \subseteq pg.actor
        BY <2>2 DEF PgErase
    <2> QED BY <2>2, <2>3, <2>4 DEF StoresGrow
<1>3. ASSUME pg' = pg, binds' = binds, issued' = issued, erased' = erased
      PROVE  StoreInv' /\ StoresGrow
    BY <1>3 DEF StoreInv, TuplesAreNumbered, OneSubject, RowsAreIssued, ActorsAreSingle,
                BindingsAreIssued, PoliciesStayInside, ErasedIsGone, PgShape, StoresGrow
<1> QED BY <1>1, <1>2, <1>3, Steps DEF MintsFor, create_api_key, revoke_api_key_handler,
            OperatorEditsKey, resolve_tenant, Goto, stores, vars

\* A key keeps its context and, once revoked, stays so, unless its subject is erased.
KeysMove ==
    \A k \in DOMAIN key :
        \/ /\ k \in DOMAIN key' /\ key'[k].context = key[k].context
           /\ key[k].revoked => key'[k].revoked
        \/ key[k].context # None /\ key[k].context.subject \in erased'

LEMMA RevokedRow ==
    ASSUME NEW x \in KeyRow
    PROVE  LET y == [x EXCEPT !.revoked = TRUE]
           IN  y \in KeyRow /\ y.context = x.context /\ y.revoked
BY DEF KeyRow

LEMMA EditedRow ==
    ASSUME NEW x \in KeyRow, NEW t \in Nat, NEW f \in BOOLEAN
    PROVE  LET y == [x EXCEPT !.trust = t, !.forget = f]
           IN  y \in KeyRow /\ y.context = x.context /\ y.revoked = x.revoked
BY DEF KeyRow

LEMMA NewRow ==
    ASSUME NEW t \in issued \cup {None}, NEW n \in Nat
    PROVE  LET y == Row(t, n) IN y \in KeyRow /\ y.context = t /\ ~y.revoked
BY DEF KeyRow, Row

LEMMA KeySteps ==
    ASSUME StoreInv, KeyInv, [Next]_vars
    PROVE  KeyInv' /\ KeysMove
<1>0. /\ key \in [DOMAIN key -> KeyRow]
      /\ \A k \in DOMAIN key : key[k].context # None => key[k].context.subject \notin erased
    BY DEF KeyInv
<1>1. ASSUME UNCHANGED key, issued \subseteq issued', erased' = erased
      PROVE  KeyInv' /\ KeysMove
    <2>1. \A x \in KeyRow : x \in KeyRow'
        BY <1>1 DEF KeyRow
    <2>2. key' \in [DOMAIN key' -> KeyRow']
        BY <1>0, <1>1, <2>1
    <2> QED BY <1>0, <1>1, <2>2 DEF KeyInv, KeysMove
<1>2. ASSUME NEW k \in DOMAIN key, NEW y \in KeyRow, y.context = key[k].context,
             key[k].revoked => y.revoked, key' = [key EXCEPT ![k] = y],
             issued' = issued, erased' = erased
      PROVE  KeyInv' /\ KeysMove
    <2>1. DOMAIN key' = DOMAIN key /\ key'[k] = y
          /\ \A x \in DOMAIN key : x # k => key'[x] = key[x]
        BY <1>0, <1>2
    <2>2. KeyRow' = KeyRow
        BY <1>2 DEF KeyRow
    <2>3. key' \in [DOMAIN key' -> KeyRow']
        BY <1>0, <1>2, <2>1, <2>2
    <2>4. \A x \in DOMAIN key' : key'[x].context # None => key'[x].context.subject \notin erased'
        BY <1>0, <1>2, <2>1
    <2> QED BY <1>2, <2>1, <2>3, <2>4 DEF KeyInv, KeysMove
<1>3. ASSUME NEW k, revoke_api_key_handler(k)
      PROVE  KeyInv' /\ KeysMove
    <2>1. PICK y : y = [key[k] EXCEPT !.revoked = TRUE]
        OBVIOUS
    <2>2. k \in DOMAIN key /\ key[k] \in KeyRow
        BY <1>0, <1>3 DEF revoke_api_key_handler, Live
    <2>3. y \in KeyRow /\ y.context = key[k].context /\ y.revoked
        BY <2>1, <2>2, RevokedRow
    <2>4. key' = [key EXCEPT ![k] = y] /\ issued' = issued /\ erased' = erased
        BY <1>3, <2>1 DEF revoke_api_key_handler, stores
    <2> QED BY <1>2, <2>2, <2>3, <2>4
<1>4. ASSUME NEW k, OperatorEditsKey(k)
      PROVE  KeyInv' /\ KeysMove
    <2>1. PICK t \in {AgentOutput, TrustedUser} :
            key' = [key EXCEPT ![k] = [key[k] EXCEPT !.trust = t, !.forget = (t = TrustedUser)]]
        BY <1>4 DEF OperatorEditsKey
    <2>2. PICK f \in BOOLEAN : f = (t = TrustedUser)
        OBVIOUS
    <2>3. PICK y : y = [key[k] EXCEPT !.trust = t, !.forget = f]
        OBVIOUS
    <2>4. k \in DOMAIN key /\ key[k] \in KeyRow /\ t \in Nat
        BY <1>0, <1>4 DEF OperatorEditsKey, Live, AgentOutput, TrustedUser
    <2>5. y \in KeyRow /\ y.context = key[k].context /\ y.revoked = key[k].revoked
        BY <2>3, <2>4, EditedRow
    <2>6. key' = [key EXCEPT ![k] = y] /\ issued' = issued /\ erased' = erased
        BY <1>4, <2>1, <2>2, <2>3, Zenon DEF OperatorEditsKey, stores
    <2> QED BY <1>2, <2>4, <2>5, <2>6
<1>5. ASSUME NEW c \in Calls, ErasesFor(c)
      PROVE  KeyInv' /\ KeysMove
    <2>1. PICK s : s = call[c].ctx.subject
        OBVIOUS
    <2>2. PICK L : L = {k \in DOMAIN key : key[k].context = None \/ key[k].context.subject # s}
        OBVIOUS
    <2>3. key' = [k \in L |-> key[k]] /\ issued' = issued /\ erased' = erased \cup {s}
        BY <1>5, <2>1, <2>2 DEF ErasesFor, EraseSubject
    <2>4. DOMAIN key' = L /\ \A k \in L : key'[k] = key[k]
        BY <2>3
    <2>5. KeyRow' = KeyRow
        BY <2>3 DEF KeyRow
    <2>6. key' \in [DOMAIN key' -> KeyRow']
        BY <1>0, <2>2, <2>3, <2>4, <2>5
    <2>7. \A k \in DOMAIN key' : key'[k].context # None => key'[k].context.subject \notin erased'
        BY <1>0, <2>2, <2>3, <2>4
    <2>8. KeysMove
        BY <2>2, <2>3, <2>4 DEF KeysMove
    <2> QED BY <2>6, <2>7, <2>8 DEF KeyInv
<1>6. ASSUME NEW c \in Calls, MintsFor(c)
      PROVE  KeyInv' /\ KeysMove
    <2>1. PICK x, t : x = call[c].ctx /\ t = Tuple(x)
        OBVIOUS
    <2>2. PICK b \in pg.binding : /\ b.subject = x.subject /\ b.actor = x.actor
                                  /\ b.scope = x.scope /\ b.node = x.node
        BY <1>6, <2>1 DEF MintsFor, ForeignKeysHold, PgContext
    <2>3. t = Tuple(b)
        BY <2>1, <2>2 DEF Tuple
    <2>4. t \in issued /\ t.subject \notin erased
        BY <2>2, <2>3, TupleFields DEF StoreInv, BindingsAreIssued, ErasedIsGone
    <2>5. PICK y : y = Row(t, AgentOutput)
        OBVIOUS
    <2>6. y \in KeyRow /\ y.context = t
        BY <2>4, <2>5, NewRow DEF AgentOutput
    <2>7. PICK k : /\ k \notin DOMAIN key
                   /\ key' = [z \in DOMAIN key \cup {k} |-> IF z = k THEN y ELSE key[z]]
        BY <1>6, <2>1, <2>5 DEF MintsFor, create_api_key
    <2>8. issued' = issued /\ erased' = erased
        BY <1>6 DEF MintsFor, create_api_key, stores
    <2>9. /\ DOMAIN key' = DOMAIN key \cup {k} /\ key'[k] = y
          /\ \A z \in DOMAIN key : key'[z] = key[z]
        BY <2>7
    <2>10. KeyRow' = KeyRow
        BY <2>8 DEF KeyRow
    <2>11. key' \in [DOMAIN key' -> KeyRow']
        BY <1>0, <2>6, <2>7, <2>9, <2>10
    <2>12. \A z \in DOMAIN key' : key'[z].context # None => key'[z].context.subject \notin erased'
        BY <1>0, <2>4, <2>6, <2>8, <2>9
    <2>13. KeysMove
        BY <2>9 DEF KeysMove
    <2> QED BY <2>11, <2>12, <2>13 DEF KeyInv
<1> QED BY <1>1, <1>3, <1>4, <1>5, <1>6, Steps DEF context_binding_handler, resolve_tenant, Goto,
            stores, vars

---------------------------------------------------------------------------
(***************************************************************************)
(* Sessions and calls: what held of a record goes on to hold, and every    *)
(* new record is right when it is written.                                 *)
(***************************************************************************)
LEMMA OfKeyStays ==
    ASSUME KeysMove, StoresGrow, NEW k, NEW row
    PROVE  /\ OfKey(k, row) => OfKey(k, row)'
           /\ Lost(k, row) => Lost(k, row)'
BY DEF KeysMove, StoresGrow, OfKey, Lost

LEMMA RowStays ==
    ASSUME StoresGrow, NEW x \in KeyRow
    PROVE  x \in KeyRow'
BY DEF StoresGrow, KeyRow

LEMMA CallStays ==
    ASSUME StoreInv, StoresGrow, KeysMove, NEW r, CallOk(r)
    PROVE  CallOk(r)'
<1>1. CallIsAuthentic(r) => CallIsAuthentic(r)'
    BY RowStays DEF CallIsAuthentic
<1>2. ContextIsOwn(r) => ContextIsOwn(r)'
    <2>1. ASSUME ContextIsOwn(r), NEW x \in pg'.actor, x.id = r.ctx.actor
          PROVE  r.ctx.trust <= x.trust
        <3>1. PICK t : t = Tuple(r.ctx)
            OBVIOUS
        <3>2. t \in issued /\ t.actor = r.ctx.actor
            BY <2>1, <3>1, TupleFields DEF ContextIsOwn
        <3>3. r.ctx.actor # <<"actor", binds>>
            BY <3>2, Numbers DEF StoreInv, TuplesAreNumbered
        <3> QED BY <2>1, <3>3 DEF StoresGrow, ContextIsOwn
    <2> QED BY <2>1 DEF StoresGrow, ContextIsOwn
<1>3. SourcesAreOwn(r) => SourcesAreOwn(r)'
    BY DEF StoresGrow, SourcesAreOwn
<1>4. CASE r.pc = "live" /\ r.bound \in KeyRow /\ (r.late => Lost(r.k, r.bound))
    <2>1. PICK k, x : k = r.k /\ x = r.bound
        OBVIOUS
    <2>2. Lost(k, x) => Lost(k, x)'
        BY OfKeyStays
    <2>3. r.late => Lost(r.k, r.bound)'
        BY <1>4, <2>1, <2>2
    <2> QED BY <1>4, <2>3, RowStays DEF CallOk
<1> QED BY <1>1, <1>2, <1>3, <1>4 DEF CallOk

\* Every check of a REST handler compares the actor of a bound key.
LEMMA HandlersCheck ==
    ASSUME NEW verb \in Handlers, NEW a, NEW q, HandlerAdmits(verb, a, q)
    PROVE  a.context = None \/ a.context.actor = q.actor
BY DEF Handlers, HandlerAdmits, retain_handler, reflect_handler, recall_handler, recall_as_of,
       correct_handler, forget_handler, erase_subject_handler, file_sync_handler, mark_handler,
       task_outcome_handler, task_memory_events_handler, trace_handler, scope_memory_handler,
       canonical_projection_handler, scope_core_handler, mint_api_key_handler, Owner,
       check_principal, check_scope, Unbound

LEMMA RequestIsOk ==
    ASSUME AccessInv, NEW c \in Calls, NEW verb \in VerbsOf[c], NEW k, NEW q,
           Request(c, verb, k, q), NEW rec, call'[c] = rec
    PROVE  CallOk(rec)
<1>1. CASE Live(k) /\ HandlerAdmits(verb, key[k], q)
    <2>1. verb \in Handlers /\ verb \notin Tools
        BY VerbsAssumption DEF VerbsAssumption, Request
    <2>2. PICK x : x = key[k]
        OBVIOUS
    <2>3. x \in KeyRow /\ x.trust \in Nat
        BY <1>1, <2>2 DEF Live, AccessInv, KeyInv, KeyRow
    <2>4. x.context = None \/ x.context.actor = q.actor
        BY <1>1, <2>1, <2>2, HandlersCheck
    <2>5. PICK new : new = [pc |-> "row", verb |-> verb, k |-> k, ask |-> q, bound |-> x,
                            row |-> x, late |-> FALSE]
        OBVIOUS
    <2>6. /\ new.pc = "row" /\ new.verb = verb /\ new.ask = q /\ new.bound = x /\ new.row = x
        BY <2>5
    <2>7. call' = [call EXCEPT ![c] = new]
        BY <1>1, <2>2, <2>5 DEF Request, Goto
    <2>8. rec = new
        BY <2>7 DEF AccessInv
    <2> QED BY <2>1, <2>3, <2>4, <2>6, <2>8 DEF CallOk, CallIsAuthentic
<1>2. CASE ~(Live(k) /\ HandlerAdmits(verb, key[k], q))
    <2>1. call' = [call EXCEPT ![c] = Idle]
        BY <1>2 DEF Request, Refuse, Goto
    <2>2. rec = Idle
        BY <2>1 DEF AccessInv
    <2> QED BY <2>2 DEF Idle, CallOk
<1> QED BY <1>1, <1>2

LEMMA ToolCallIsOk ==
    ASSUME AccessInv, NEW c \in Calls, NEW verb, ToolCall(c, verb), NEW rec, call'[c] = rec
    PROVE  CallOk(rec)
<1>1. PICK k, x, l : k = session.k /\ x = session.row /\ l = ~Live(k)
    OBVIOUS
<1>2. PICK new : new = [pc |-> "live", verb |-> verb, k |-> k, bound |-> x, late |-> l]
    OBVIOUS
<1>3. call' = [call EXCEPT ![c] = new]
    BY <1>1, <1>2, Zenon DEF ToolCall, Goto
<1>4. rec = new
    BY <1>3 DEF AccessInv
<1>5. x \in KeyRow /\ OfKey(k, x)
    BY <1>1 DEF ToolCall, AccessInv, SessionOk
<1>6. l => Lost(k, x)
    BY <1>1, <1>5 DEF OfKey, Lost, Live
<1>7. new.pc = "live" /\ new.k = k /\ new.bound = x /\ new.late = l
    BY <1>2
<1> QED BY <1>4, <1>5, <1>6, <1>7 DEF CallOk

LEMMA HttpCallIsOk ==
    ASSUME AccessInv, NEW c \in Calls, NEW verb, NEW k, resolve_http_principal(c, verb, k),
           NEW rec, call'[c] = rec
    PROVE  CallOk(rec)
<1>1. PICK x : x = key[k]
    OBVIOUS
<1>2. PICK new : new = [pc |-> "live", verb |-> verb, k |-> k, bound |-> x, late |-> FALSE]
    OBVIOUS
<1>3. call' = [call EXCEPT ![c] = new]
    BY <1>1, <1>2 DEF resolve_http_principal, Goto
<1>4. rec = new
    BY <1>3 DEF AccessInv
<1>5. x \in KeyRow
    BY <1>1 DEF resolve_http_principal, Live, AccessInv, KeyInv
<1>6. new.pc = "live" /\ new.bound = x /\ ~new.late
    BY <1>2
<1> QED BY <1>4, <1>5, <1>6 DEF CallOk

\* live_principal: a key that is gone for good does not hold.
LEMMA PrincipalIsLive ==
    ASSUME KeyInv, NEW k, NEW x, LivePrincipalHolds(x, k), Lost(k, x)
    PROVE  FALSE
BY DEF KeyInv, LivePrincipalHolds, Lost, Live

LEMMA LivePrincipalIsOk ==
    ASSUME AccessInv, NEW c \in Calls, live_principal(c), NEW rec, call'[c] = rec
    PROVE  CallOk(rec)
<1>0. PICK r : r = call[c]
    OBVIOUS
<1>1. r.pc = "live" /\ r.bound \in KeyRow /\ (r.late => Lost(r.k, r.bound)) /\ KeyInv
    BY <1>0 DEF live_principal, AccessInv, CallOk
<1>2. PICK k, x : k = r.k /\ x = r.bound
    OBVIOUS
<1>3. CASE LivePrincipalHolds(x, k)
    <2>1. PICK y : y = key[k]
        OBVIOUS
    <2>2. k \in DOMAIN key /\ y \in KeyRow
        BY <1>1, <1>3, <2>1 DEF LivePrincipalHolds, Live, KeyInv
    <2>3. x.context = y.context /\ y.trust <= x.trust
        BY <1>3, <2>1 DEF LivePrincipalHolds
    <2>4. ~r.late
        BY <1>1, <1>2, <1>3, PrincipalIsLive
    <2>5. PICK new : new = [pc |-> "row", verb |-> r.verb, k |-> k, ask |-> x.context, bound |-> x,
                            late |-> r.late, row |-> y]
        OBVIOUS
    <2>6. call' = [call EXCEPT ![c] = new]
        BY <1>0, <1>2, <1>3, <2>1, <2>2, <2>5, Zenon DEF live_principal, Goto
    <2>7. rec = new
        BY <2>6 DEF AccessInv
    <2>8. /\ new.pc = "row" /\ new.row = y /\ new.bound = x /\ new.late = r.late
          /\ new.ask = x.context
        BY <2>5
    <2> QED BY <1>1, <1>2, <2>2, <2>3, <2>4, <2>7, <2>8 DEF CallOk, CallIsAuthentic
<1>4. CASE ~LivePrincipalHolds(x, k)
    <2>1. call' = [call EXCEPT ![c] = Idle]
        BY <1>0, <1>2, <1>4 DEF live_principal, Refuse, Goto
    <2>2. rec = Idle
        BY <2>1 DEF AccessInv
    <2> QED BY <2>2 DEF Idle, CallOk
<1> QED BY <1>3, <1>4

LEMMA ProjectionIsOk ==
    ASSUME AccessInv, NEW c \in Calls, NEW verb, memory_projection(c, verb), NEW rec, call'[c] = rec
    PROVE  CallOk(rec)
<1>1. PICK k, x, l : k = session.k /\ x = session.row /\ l = ~Live(k)
    OBVIOUS
<1>2. x \in KeyRow /\ x.trust \in Nat
    BY <1>1 DEF memory_projection, AccessInv, SessionOk, KeyRow
<1>3. verb \notin Tools
    BY DEF memory_projection, Resources, Tools
<1>4. CASE x.context # None
    <2>1. PICK new : new = [pc |-> "row", verb |-> verb, k |-> k, bound |-> x, row |-> x,
                            ask |-> x.context, late |-> l]
        OBVIOUS
    <2>2. call' = [call EXCEPT ![c] = new]
        BY <1>1, <1>4, <2>1, Zenon DEF memory_projection, Goto
    <2>3. rec = new
        BY <2>2 DEF AccessInv
    <2>4. /\ new.pc = "row" /\ new.verb = verb /\ new.row = x /\ new.bound = x
          /\ new.ask = x.context
        BY <2>1
    <2> QED BY <1>2, <1>3, <2>3, <2>4 DEF CallOk, CallIsAuthentic
<1>5. CASE x.context = None
    <2>1. call' = [call EXCEPT ![c] = Idle]
        BY <1>1, <1>5 DEF memory_projection, Refuse, Goto
    <2>2. rec = Idle
        BY <2>1 DEF AccessInv
    <2> QED BY <2>2 DEF Idle, CallOk
<1> QED BY <1>4, <1>5

\* A resolved binding: the context is its tuple, trusted as its actor.
LEMMA ResolvedContext ==
    ASSUME StoreInv, NEW b \in pg.binding
    PROVE  LET x == PgResolveRow(pg, b)
           IN  /\ ContextShape(x) /\ Tuple(x) \in issued /\ x.actor = b.actor
               /\ x.trust \in Nat
               /\ \A y \in pg.actor : y.id = x.actor => x.trust <= y.trust
<1>1. PICK S : S = {a \in pg.actor : a.id = b.actor}
    OBVIOUS
<1>2. S # {}
    BY <1>1 DEF StoreInv, BindingsAreIssued
<1>3. PICK a : a = The(S)
    OBVIOUS
<1>4. a \in pg.actor /\ a.id = b.actor
    BY <1>1, <1>2, <1>3, TheMember
<1>5. a.trust \in Nat /\ \A y \in pg.actor : y.id = b.actor => y = a
    BY <1>4 DEF StoreInv, ActorsAreSingle
<1>6. PICK x : x = PgResolveRow(pg, b)
    OBVIOUS
<1>7. x = [subject |-> b.subject, actor |-> b.actor, scope |-> b.scope, node |-> b.node,
           level |-> PgNodeOf(pg, b).level, revision |-> b.revision, trust |-> a.trust]
    BY <1>1, <1>3, <1>6 DEF PgResolveRow
<1>8. /\ ContextShape(x) /\ x.subject = b.subject /\ x.actor = b.actor /\ x.scope = b.scope
      /\ x.node = b.node /\ x.trust = a.trust
    BY <1>7 DEF ContextShape
<1>9. Tuple(x) = Tuple(b)
    BY <1>8 DEF Tuple
<1>10. Tuple(b) \in issued
    BY DEF StoreInv, BindingsAreIssued
<1>11. \A y \in pg.actor : y.id = x.actor => x.trust <= y.trust
    BY <1>5, <1>8
<1> QED BY <1>5, <1>6, <1>8, <1>9, <1>10, <1>11

LEMMA ResolveRowIsOk ==
    ASSUME AccessInv, NEW c \in Calls, ResolveRow(c), NEW rec, call'[c] = rec
    PROVE  CallOk(rec)
<1>0. PICK r, hit : r = call[c] /\ hit = PgContext(pg, r.ask)
    OBVIOUS
<1>1. r.pc = "row" /\ CallIsAuthentic(r) /\ StoreInv
    BY <1>0 DEF ResolveRow, AccessInv, CallOk
<1>2. CASE hit = {}
    <2>1. call' = [call EXCEPT ![c] = Idle]
        BY <1>0, <1>2 DEF ResolveRow, Refuse, Goto
    <2>2. rec = Idle
        BY <2>1 DEF AccessInv
    <2> QED BY <2>2 DEF Idle, CallOk
<1>3. CASE hit # {}
    <2>1. PICK b : b = The(hit)
        OBVIOUS
    <2>2. b \in pg.binding /\ b.actor = r.ask.actor
        BY <1>0, <1>3, <2>1, TheMember DEF PgContext
    <2>3. PICK x : x = PgResolveRow(pg, b)
        OBVIOUS
    <2>4. PICK new : new = [pc |-> "sources", verb |-> r.verb, k |-> r.k, ask |-> r.ask,
                            bound |-> r.bound, row |-> r.row, late |-> r.late, ctx |-> x]
        OBVIOUS
    <2>5. call' = [call EXCEPT ![c] = new]
        BY <1>0, <1>3, <2>1, <2>3, <2>4, Zenon DEF ResolveRow, Goto
    <2>6. rec = new
        BY <2>5 DEF AccessInv
    <2>7. /\ new.pc = "sources" /\ new.verb = r.verb /\ new.ask = r.ask /\ new.bound = r.bound
          /\ new.row = r.row /\ new.late = r.late /\ new.ctx = x
        BY <2>4
    <2>8. CallIsAuthentic(new)
        BY <1>1, <2>7 DEF CallIsAuthentic
    <2>9. ContextIsOwn(new)
        BY <1>1, <2>2, <2>3, <2>7, ResolvedContext DEF ContextIsOwn, CallIsAuthentic
    <2> QED BY <2>6, <2>7, <2>8, <2>9 DEF CallOk
<1> QED BY <1>2, <1>3

\* A call is trusted no more than its actor and its key.
LEMMA Clamped ==
    ASSUME NEW x, ContextShape(x), x.trust \in Nat, NEW n \in Nat, NEW y,
           y = [x EXCEPT !.trust = clamp_trust(@, n)]
    PROVE  /\ ContextShape(y) /\ Tuple(y) = Tuple(x) /\ y.actor = x.actor
           /\ y.subject = x.subject
           /\ y.trust \in Nat /\ y.trust <= n /\ y.trust <= x.trust
<1>1. PICK t : t = clamp_trust(x.trust, n)
    OBVIOUS
<1>2. t \in Nat /\ t <= n /\ t <= x.trust
    BY <1>1 DEF clamp_trust
<1>3. y = [x EXCEPT !.trust = t]
    BY <1>1
<1>4. y = [subject |-> x.subject, actor |-> x.actor, scope |-> x.scope, node |-> x.node,
           level |-> x.level, revision |-> x.revision, trust |-> t]
    BY <1>3 DEF ContextShape
<1>5. /\ y.subject = x.subject /\ y.actor = x.actor /\ y.scope = x.scope /\ y.node = x.node
      /\ y.level = x.level /\ y.revision = x.revision /\ y.trust = t
    BY <1>4
<1> QED BY <1>2, <1>4, <1>5 DEF ContextShape, Tuple

\* A context's sources are nodes of its own subject.
LEMMA SourcesInside ==
    ASSUME StoreInv, NEW x, Tuple(x) \in issued, NEW src \in PgResolveSources(pg, x)
    PROVE  \E u \in issued : u.node = src[3] /\ u.subject = x.subject
<1>1. PICK t : t = Tuple(x)
    OBVIOUS
<1>2. t \in issued /\ t.node = x.node /\ t.subject = x.subject
    BY <1>1, TupleFields
<1>3. CASE src \in Own(x.level, x.scope, x.node)
    <2>1. src[3] = x.node
        BY <1>3 DEF Own
    <2> QED BY <1>2, <2>1
<1>4. CASE \E p \in pg.policy : p.grantee = x.node /\ src = <<p.kind, p.scope, p.source>>
    <2>1. PICK p \in pg.policy : p.grantee = x.node /\ src[3] = p.source
        BY <1>4
    <2>2. PICK v, u \in issued : v.node = p.grantee /\ u.node = p.source /\ v.subject = u.subject
        BY DEF StoreInv, PoliciesStayInside
    <2>3. v.subject = t.subject
        BY <1>2, <2>1, <2>2 DEF StoreInv, OneSubject
    <2> QED BY <1>2, <2>1, <2>2, <2>3
<1> QED BY <1>3, <1>4 DEF PgResolveSources

LEMMA ResolveSourcesIsOk ==
    ASSUME AccessInv, NEW c \in Calls, ResolveSources(c), NEW rec, call'[c] = rec
    PROVE  CallOk(rec)
<1>0. PICK r, x : r = call[c] /\ x = r.ctx
    OBVIOUS
<1>1. r.pc = "sources" /\ CallIsAuthentic(r) /\ ContextIsOwn(r) /\ StoreInv
    BY <1>0 DEF ResolveSources, AccessInv, CallOk
<1>2. PICK n, y, S : /\ n = r.row.trust /\ y = [x EXCEPT !.trust = clamp_trust(@, n)]
                     /\ S = PgResolveSources(pg, x)
    OBVIOUS
<1>3. PICK new : new = [pc |-> "ready", verb |-> r.verb, k |-> r.k, ask |-> r.ask,
                        bound |-> r.bound, row |-> r.row, late |-> r.late, ctx |-> y,
                        sources |-> S]
    OBVIOUS
<1>4. call' = [call EXCEPT ![c] = new]
    BY <1>0, <1>2, <1>3, Zenon DEF ResolveSources, Goto
<1>5. rec = new
    BY <1>4 DEF AccessInv
<1>6. /\ new.pc = "ready" /\ new.verb = r.verb /\ new.ask = r.ask /\ new.bound = r.bound
      /\ new.row = r.row /\ new.late = r.late /\ new.ctx = y /\ new.sources = S /\ new.k = r.k
    BY <1>3
<1>7. n \in Nat /\ x.trust \in Nat /\ ContextShape(x) /\ Tuple(x) \in issued
    BY <1>0, <1>1, <1>2 DEF CallIsAuthentic, ContextIsOwn, KeyRow
<1>8. /\ ContextShape(y) /\ Tuple(y) = Tuple(x) /\ y.actor = x.actor /\ y.subject = x.subject
      /\ y.trust \in Nat /\ y.trust <= n /\ y.trust <= x.trust
    BY <1>2, <1>7, Clamped
<1>9. CallShape(new)
    BY <1>3, <1>6 DEF CallShape
<1>10. CallIsAuthentic(new)
    BY <1>1, <1>6 DEF CallIsAuthentic
<1>11. ContextIsOwn(new)
    <2>1. \A a \in pg.actor : a.id = y.actor => y.trust <= a.trust
        BY <1>0, <1>1, <1>7, <1>8 DEF ContextIsOwn, StoreInv, ActorsAreSingle
    <2>2. r.row.context # None => r.row.context.actor = y.actor
        BY <1>0, <1>1, <1>8 DEF ContextIsOwn
    <2> QED BY <1>6, <1>7, <1>8, <2>1, <2>2 DEF ContextIsOwn
<1>12. SourcesAreOwn(new)
    <2>1. \A src \in S : \E u \in issued : u.node = src[3] /\ u.subject = y.subject
        BY <1>1, <1>2, <1>7, <1>8, SourcesInside
    <2> QED BY <1>2, <1>6, <1>8, <2>1 DEF SourcesAreOwn
<1> QED BY <1>5, <1>6, <1>9, <1>10, <1>11, <1>12 DEF CallOk

\* A call that is served keeps what it was resolved to.
LEMMA ServedIsOk ==
    ASSUME AccessInv, NEW r, r.pc = "ready", CallOk(r), NEW rec, rec = [r EXCEPT !.pc = "served"]
    PROVE  CallOk(rec)
<1>1. CallShape(r) /\ CallIsAuthentic(r) /\ ContextIsOwn(r) /\ SourcesAreOwn(r)
    BY DEF CallOk
<1>2. rec = [pc |-> "served", verb |-> r.verb, k |-> r.k, ask |-> r.ask, bound |-> r.bound,
             row |-> r.row, late |-> r.late, ctx |-> r.ctx, sources |-> r.sources]
    BY <1>1 DEF CallShape
<1>3. /\ rec.pc = "served" /\ rec.verb = r.verb /\ rec.k = r.k /\ rec.ask = r.ask
      /\ rec.bound = r.bound /\ rec.row = r.row /\ rec.late = r.late /\ rec.ctx = r.ctx
      /\ rec.sources = r.sources
    BY <1>2
<1>4. CallShape(rec)
    BY <1>2, <1>3 DEF CallShape
<1>5. CallIsAuthentic(rec) /\ ContextIsOwn(rec) /\ SourcesAreOwn(rec)
    BY <1>1, <1>3 DEF CallIsAuthentic, ContextIsOwn, SourcesAreOwn
<1> QED BY <1>3, <1>4, <1>5 DEF CallOk

LEMMA ServeIsOk ==
    ASSUME AccessInv, NEW c \in Calls, Serve(c), NEW rec, call'[c] = rec
    PROVE  CallOk(rec)
<1>0. PICK r, s : r = call[c] /\ s = [r EXCEPT !.pc = "served"]
    OBVIOUS
<1>1. r.pc = "ready" /\ CallOk(r)
    BY <1>0 DEF Serve, AccessInv
<1>2. call' = [call EXCEPT ![c] = Idle] \/ call' = [call EXCEPT ![c] = s]
    <2>1. ASSUME call' = [call EXCEPT ![c].pc = "served"]
          PROVE  call' = [call EXCEPT ![c] = s]
        BY <1>0, <2>1, Zenon
    <2>2. \/ Goto(c, s) \/ Refuse(c) \/ EraseSubject(c) \/ create_api_key(c)
        BY <1>0 DEF Serve
    <2> QED BY <2>1, <2>2 DEF Goto, Refuse, EraseSubject, create_api_key
<1>3. rec = Idle \/ rec = s
    BY <1>2 DEF AccessInv
<1>4. CallOk(s)
    BY <1>0, <1>1, ServedIsOk
<1> QED BY <1>3, <1>4 DEF Idle, CallOk

\* The steps of one call.
StepsOf(c) ==
    \/ \E verb \in VerbsOf[c] :
        \/ \E k, q : Request(c, verb, k, q)
        \/ \E k : resolve_http_principal(c, verb, k)
        \/ ToolCall(c, verb) \/ memory_projection(c, verb)
    \/ live_principal(c) \/ ResolveRow(c) \/ ResolveSources(c) \/ Serve(c) \/ Finish(c)

LEMMA StepOfACall ==
    ASSUME [Next]_vars
    PROVE  (\E c \in Calls : StepsOf(c)) \/ UNCHANGED call
<1>1. ASSUME NEW k, revoke_api_key_handler(k) \/ OperatorEditsKey(k) \/ resolve_tenant(k)
      PROVE  UNCHANGED call
    BY <1>1 DEF revoke_api_key_handler, OperatorEditsKey, resolve_tenant
<1>2. ASSUME NEW c \in Calls, NEW verb \in VerbsOf[c], NEW k, NEW q,
             \/ Request(c, verb, k, q) \/ resolve_http_principal(c, verb, k)
             \/ ToolCall(c, verb) \/ memory_projection(c, verb)
      PROVE  StepsOf(c)
    BY <1>2 DEF StepsOf
<1>3. ASSUME NEW c \in Calls,
             live_principal(c) \/ ResolveRow(c) \/ ResolveSources(c) \/ Serve(c) \/ Finish(c)
      PROVE  StepsOf(c)
    BY <1>3 DEF StepsOf
<1>4. CASE Next
    <2>1. CASE \E client \in Clients, r \in Registrations :
                 context_binding_handler(client, r[1], r[2])
        <3>1. PICK client \in Clients, r \in Registrations :
                     context_binding_handler(client, r[1], r[2])
            BY <2>1
        <3> QED BY <3>1 DEF context_binding_handler
    <2>2. CASE \E k \in BoundKeys :
                 revoke_api_key_handler(k) \/ OperatorEditsKey(k) \/ resolve_tenant(k)
        BY <1>1, <2>2
    <2>3. CASE \E c \in Calls, verb \in UNION {VerbsOf[x] : x \in Calls} :
                /\ verb \in VerbsOf[c]
                /\ \/ \E k \in BoundKeys \cup {ServiceKey} :
                        \/ \E q, t \in issued : Request(c, verb, k, [q EXCEPT !.node = t.node])
                        \/ resolve_http_principal(c, verb, k)
                   \/ ToolCall(c, verb) \/ memory_projection(c, verb)
        <3>1. PICK c \in Calls, verb \in UNION {VerbsOf[x] : x \in Calls} :
                /\ verb \in VerbsOf[c]
                /\ \/ \E k \in BoundKeys \cup {ServiceKey} :
                        \/ \E q, t \in issued : Request(c, verb, k, [q EXCEPT !.node = t.node])
                        \/ resolve_http_principal(c, verb, k)
                   \/ ToolCall(c, verb) \/ memory_projection(c, verb)
            BY <2>3
        <3>2. ASSUME NEW k, NEW q, NEW t, Request(c, verb, k, [q EXCEPT !.node = t.node])
              PROVE  StepsOf(c)
            <4>1. PICK ask : ask = [q EXCEPT !.node = t.node]
                OBVIOUS
            <4>2. Request(c, verb, k, ask)
                BY <3>2, <4>1
            <4> QED BY <1>2, <3>1, <4>2
        <3> QED BY <1>2, <3>1, <3>2
    <2>4. CASE \E c \in Calls :
                live_principal(c) \/ ResolveRow(c) \/ ResolveSources(c) \/ Serve(c) \/ Finish(c)
        BY <1>3, <2>4
    <2> QED BY <1>4, <2>1, <2>2, <2>3, <2>4 DEF Next
<1> QED BY <1>4 DEF vars

\* A step of a call writes its own record only.
LEMMA OneRecord ==
    ASSUME NEW c \in Calls, StepsOf(c)
    PROVE  \E rec : call' = [call EXCEPT ![c] = rec]
<1>1. ASSUME NEW rec, Goto(c, rec)
      PROVE  \E new : call' = [call EXCEPT ![c] = new]
    BY <1>1 DEF Goto
<1>2. ASSUME NEW verb, NEW k, NEW q, Request(c, verb, k, q)
      PROVE  \E rec : Goto(c, rec)
    BY <1>2 DEF Request, Refuse
<1>3. ASSUME NEW verb, NEW k,
             \/ resolve_http_principal(c, verb, k) \/ ToolCall(c, verb)
             \/ memory_projection(c, verb)
      PROVE  \E rec : Goto(c, rec)
    BY <1>3 DEF resolve_http_principal, ToolCall, memory_projection, Refuse
<1>4. ASSUME live_principal(c) \/ ResolveRow(c) \/ ResolveSources(c) \/ Finish(c)
      PROVE  \E rec : Goto(c, rec)
    BY <1>4 DEF live_principal, ResolveRow, ResolveSources, Finish, Refuse
<1>5. ASSUME Serve(c)
      PROVE  \E rec : call' = [call EXCEPT ![c] = rec]
    <2>1. PICK s : s = [call[c] EXCEPT !.pc = "served"]
        OBVIOUS
    <2>2. ASSUME call' = [call EXCEPT ![c].pc = "served"]
          PROVE  call' = [call EXCEPT ![c] = s]
        BY <2>1, <2>2, Zenon
    <2>3. (\E rec : Goto(c, rec)) \/ EraseSubject(c) \/ create_api_key(c)
        BY <1>5 DEF Serve, Refuse
    <2> QED BY <1>1, <2>2, <2>3 DEF EraseSubject, create_api_key
<1> QED BY <1>1, <1>2, <1>3, <1>4, <1>5 DEF StepsOf

LEMMA StepIsOk ==
    ASSUME AccessInv, NEW c \in Calls, StepsOf(c), NEW rec, call'[c] = rec
    PROVE  CallOk(rec)
<1>1. ASSUME Finish(c)
      PROVE  CallOk(rec)
    <2>1. call' = [call EXCEPT ![c] = Idle]
        BY <1>1 DEF Finish, Goto
    <2>2. rec = Idle
        BY <2>1 DEF AccessInv
    <2> QED BY <2>2 DEF Idle, CallOk
<1> QED BY <1>1, RequestIsOk, HttpCallIsOk, ToolCallIsOk, ProjectionIsOk, LivePrincipalIsOk,
           ResolveRowIsOk, ResolveSourcesIsOk, ServeIsOk DEF StepsOf

LEMMA CallSteps ==
    ASSUME AccessInv, StoresGrow, KeysMove, [Next]_vars
    PROVE  call' = [c \in Calls |-> call'[c]] /\ \A c \in Calls : CallOk(call[c])'
<1>0. StoreInv /\ call = [c \in Calls |-> call[c]] /\ \A c \in Calls : CallOk(call[c])
    BY DEF AccessInv
<1>1. ASSUME NEW c \in Calls, call'[c] = call[c]
      PROVE  CallOk(call[c])'
    <2>1. PICK r : r = call[c]
        OBVIOUS
    <2>2. CallOk(r)
        BY <1>0, <2>1
    <2>3. CallOk(r)'
        BY <1>0, <2>2, CallStays
    <2>4. call'[c] = r
        BY <1>1, <2>1
    <2> QED BY <2>3, <2>4
<1>2. CASE UNCHANGED call
    BY <1>0, <1>1, <1>2
<1>3. ASSUME NEW d \in Calls, StepsOf(d)
      PROVE  call' = [c \in Calls |-> call'[c]] /\ \A c \in Calls : CallOk(call[c])'
    <2>1. PICK rec : call' = [call EXCEPT ![d] = rec]
        BY <1>3, OneRecord
    <2>2. /\ call' = [c \in Calls |-> call'[c]] /\ call'[d] = rec
          /\ \A c \in Calls : c # d => call'[c] = call[c]
        BY <1>0, <2>1
    <2>3. CallOk(rec)
        BY <1>3, <2>2, StepIsOk
    <2>4. CallOk(rec)'
        BY <1>0, <2>3, CallStays
    <2>5. CallOk(call[d])'
        BY <2>2, <2>4
    <2> QED BY <1>1, <2>2, <2>5
<1> QED BY <1>2, <1>3, StepOfACall

LEMMA SessionSteps ==
    ASSUME AccessInv, StoresGrow, KeysMove, [Next]_vars
    PROVE  SessionOk(session)'
<1>1. ASSUME NEW k, resolve_tenant(k)
      PROVE  SessionOk(session)'
    <2>1. PICK x : x = key[k]
        OBVIOUS
    <2>2. k \in DOMAIN key /\ x \in KeyRow
        BY <1>1, <2>1 DEF resolve_tenant, Live, AccessInv, KeyInv
    <2>3. OfKey(k, x)
        BY <2>1, <2>2 DEF OfKey
    <2>4. OfKey(k, x)' /\ x \in KeyRow'
        BY <2>2, <2>3, OfKeyStays, RowStays
    <2>5. session' = [k |-> k, row |-> x]
        BY <1>1, <2>1 DEF resolve_tenant
    <2>6. session'.k = k /\ session'.row = x
        BY <2>5
    <2> QED BY <2>4, <2>6 DEF SessionOk
<1>2. ASSUME UNCHANGED session
      PROVE  SessionOk(session)'
    <2>1. PICK k, x : k = session.k /\ x = session.row
        OBVIOUS
    <2>2. ASSUME session # None
          PROVE  OfKey(k, x)' /\ x \in KeyRow'
        BY <2>1, <2>2, OfKeyStays, RowStays DEF AccessInv, SessionOk
    <2> QED BY <1>2, <2>1, <2>2 DEF SessionOk
<1> QED BY <1>1, <1>2, Steps DEF context_binding_handler, ErasesFor, EraseSubject, MintsFor,
           create_api_key, revoke_api_key_handler, OperatorEditsKey, Goto, vars

---------------------------------------------------------------------------
(***************************************************************************)
(* The theorems.                                                           *)
(***************************************************************************)
LEMMA InitInv == Init => AccessInv
<1> SUFFICES ASSUME Init PROVE AccessInv
    OBVIOUS
<1>1. StoreInv
    <2>1. /\ PgShape(pg) /\ pg.subject = {} /\ pg.actor = {} /\ pg.node = {} /\ pg.binding = {}
          /\ pg.policy = {}
        BY DEF Init, PgEmpty, PgShape
    <2>2. issued = {} /\ erased = {} /\ binds \in Nat
        BY DEF Init
    <2> QED BY <2>1, <2>2 DEF StoreInv, TuplesAreNumbered, OneSubject, RowsAreIssued,
               ActorsAreSingle, BindingsAreIssued, PoliciesStayInside, ErasedIsGone
<1>2. KeyInv
    <2>1. PICK y, z : y = Row(None, TrustedUser) /\ z = [y EXCEPT !.forget = TRUE]
        OBVIOUS
    <2>2. key = [k \in {ServiceKey} |-> z]
        BY <2>1 DEF Init
    <2>3. y \in KeyRow /\ y.context = None
        BY <2>1, NewRow DEF TrustedUser, Row
    <2>4. z \in KeyRow /\ z.context = None
        BY <2>1, <2>3 DEF KeyRow
    <2> QED BY <2>2, <2>4 DEF KeyInv
<1>3. SessionOk(session)
    BY DEF Init, SessionOk
<1>4. call = [c \in Calls |-> call[c]] /\ \A c \in Calls : CallOk(call[c])
    BY DEF Init, Idle, CallOk
<1> QED BY <1>1, <1>2, <1>3, <1>4 DEF AccessInv

LEMMA NextInv == AccessInv /\ [Next]_vars => AccessInv'
<1> SUFFICES ASSUME AccessInv, [Next]_vars PROVE AccessInv'
    OBVIOUS
<1>1. StoreInv' /\ StoresGrow
    BY StoreSteps DEF AccessInv
<1>2. KeyInv' /\ KeysMove
    BY KeySteps DEF AccessInv
<1>3. SessionOk(session)'
    BY <1>1, <1>2, SessionSteps
<1>4. call' = [c \in Calls |-> call'[c]] /\ \A c \in Calls : CallOk(call[c])'
    BY <1>1, <1>2, CallSteps
<1> QED BY <1>1, <1>2, <1>3, <1>4 DEF AccessInv

LEMMA Invariance == Spec => []AccessInv
BY InitInv, NextInv, PTL DEF Spec

\* erase_subject is final: whatever is registered again, minted, edited or in flight, an
\* erased subject has no row, no resolvable tuple, no node and no key.
THEOREM ErasureIsFinal == Spec => []ErasedNeverReturns
<1>1. AccessInv => ErasedNeverReturns
    <2> SUFFICES ASSUME AccessInv, NEW s \in erased
                 PROVE  /\ ~SubjectIsLive(s)
                        /\ \A t \in issued : t.subject = s => PgContext(pg, t) = {}
                        /\ \A a \in pg.node : a.subject # s
                        /\ \A k \in DOMAIN key :
                             key[k].context # None => key[k].context.subject # s
        BY DEF ErasedNeverReturns
    <2>1. StoreInv /\ KeyInv
        BY DEF AccessInv
    <2>2. ~SubjectIsLive(s) /\ \A a \in pg.node : a.subject # s
        BY <2>1 DEF StoreInv, ErasedIsGone, SubjectIsLive
    <2>3. \A t \in issued : t.subject = s => PgContext(pg, t) = {}
        BY <2>1 DEF StoreInv, ErasedIsGone, PgContext
    <2>4. \A k \in DOMAIN key : key[k].context # None => key[k].context.subject # s
        BY <2>1 DEF KeyInv
    <2> QED BY <2>2, <2>3, <2>4
<1> QED BY <1>1, Invariance, PTL

\* A served call is entitled to what it was served, whatever happened to its key, its
\* context and its subject between authentication, the two statements of
\* resolve_memory_context and the service call.
THEOREM ServedIsEntitled == Spec => []ServedCallIsEntitled
<1>1. AccessInv => ServedCallIsEntitled
    <2> SUFFICES ASSUME AccessInv, NEW c \in Calls, NEW r, r = call[c], r.pc = "served"
                 PROVE  /\ r.verb \in Tools => ~r.late
                        /\ r.row.context # None =>
                            /\ r.ctx.subject = r.row.context.subject
                            /\ \A src \in r.sources : \A a \in pg.node :
                                    a.id = src[3] => a.subject = r.row.context.subject
                        /\ r.ctx.trust <= r.row.trust
                        /\ r.ctx.trust <= r.bound.trust
                        /\ \A a \in pg.actor : a.id = r.ctx.actor => r.ctx.trust <= a.trust
        BY DEF ServedCallIsEntitled
    <2>1. StoreInv /\ CallIsAuthentic(r) /\ ContextIsOwn(r) /\ SourcesAreOwn(r)
        BY DEF AccessInv, CallOk
    <2>2. r.verb \in Tools => ~r.late
        BY <2>1 DEF CallIsAuthentic
    <2>3. ASSUME r.row.context # None
          PROVE  r.ctx.subject = r.row.context.subject
        <3>1. PICK t, u : t = Tuple(r.ctx) /\ u = r.row.context
            OBVIOUS
        <3>2. t \in issued /\ t.actor = r.ctx.actor /\ t.subject = r.ctx.subject
            BY <2>1, <3>1, TupleFields DEF ContextIsOwn
        <3>3. u \in issued /\ u.actor = r.ctx.actor
            BY <2>1, <2>3, <3>1 DEF CallIsAuthentic, ContextIsOwn, KeyRow
        <3> QED BY <2>1, <3>1, <3>2, <3>3 DEF StoreInv, OneSubject
    <2>4. ASSUME NEW src \in r.sources, NEW a \in pg.node, a.id = src[3]
          PROVE  a.subject = r.ctx.subject
        <3>1. PICK u \in issued : u.node = src[3] /\ u.subject = r.ctx.subject
            BY <2>1 DEF SourcesAreOwn
        <3>2. PICK t \in issued : t.node = a.id /\ t.subject = a.subject
            BY <2>1 DEF StoreInv, RowsAreIssued
        <3> QED BY <2>1, <2>4, <3>1, <3>2 DEF StoreInv, OneSubject
    <2>5. r.ctx.trust <= r.row.trust /\ r.ctx.trust <= r.bound.trust
        <3>1. r.ctx.trust \in Nat /\ r.row.trust \in Nat /\ r.bound.trust \in Nat
            BY <2>1 DEF CallIsAuthentic, ContextIsOwn, KeyRow
        <3>2. r.ctx.trust <= r.row.trust /\ r.row.trust <= r.bound.trust
            BY <2>1 DEF CallIsAuthentic, SourcesAreOwn
        <3> QED BY <3>1, <3>2
    <2>6. \A a \in pg.actor : a.id = r.ctx.actor => r.ctx.trust <= a.trust
        BY <2>1 DEF ContextIsOwn
    <2> QED BY <2>2, <2>3, <2>4, <2>5, <2>6
<1> QED BY <1>1, Invariance, PTL
===========================================================================
