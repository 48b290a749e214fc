---------------------------- MODULE Manager_proofs ----------------------------
(***************************************************************************)
(* The graph of a ServiceManager keeps the two ends of its dependencies    *)
(* together, whatever is loaded and called, and in whatever order; and -D  *)
(* reaches the commands.                                                   *)
(***************************************************************************)
EXTENDS ManagerProperties, TLAPS

Sides == {"parents", "children"}
Names == {Label[s] : s \in Svc}
Labels(T) == {Label[t] : t \in T}
Gates == {Source[g] : g \in Group} \cup {Sink[g] : g \in Group}
Own == Plain \cup Group

Entry == [target : Svc, type : Strength]
Dict == UNION {[N -> Entry] : N \in SUBSET Names}
GraphType(g) == g \in [Sides -> [Svc -> Dict]]

\* A dictionary is keyed by the short names of what it holds.
Keyed(g) ==
  \A side \in Sides, s \in Svc : \A k \in DOMAIN g[side][s] : Label[g[side][s][k].target] = k

\* What a gate waits for is inside its group; nobody waits for a source, and in
\* reverse nobody for a sink.
GatesInside(g) ==
  /\ \A grp \in Group : /\ Targets(g["parents"][Source[grp]]) \subseteq Sub[grp]
                        /\ Targets(g["children"][Sink[grp]]) \subseteq Sub[grp]
  /\ \A s \in Svc, grp \in Group : /\ Source[grp] \notin Targets(g["parents"][s])
                                   /\ Sink[grp] \notin Targets(g["children"][s])

\* An entity depends on what was declared for it, and maybe on the sink of its group.
OnlyDeclared(g, decl) ==
  /\ \A s \in Gates : DOMAIN decl[s] = {}
  /\ \A s \in Svc : DOMAIN decl[s] \subseteq Own
  /\ \A s \in Own : \A t \in Targets(g["parents"][s]) :
       t \in DOMAIN decl[s] \/ \E grp \in Group : t = Sink[grp] /\ s \in Sub[grp]

\* Mirrored, of any graph, and for both sides at once
Answered(g, side, s, e) ==
  /\ Label[s] \in DOMAIN g[Flip(side)][e.target]
  /\ g[Flip(side)][e.target][Label[s]] = [target |-> s, type |-> e.type]

Excused(decl, side, s, t) ==
  HalfEdge(s, t) \/
  (side = "parents" /\ \E u \in Svc \ {s} : Label[u] = Label[s] /\ t \in DOMAIN decl[u])

MirroredIn(g, decl) ==
  \A side \in Sides, s \in Svc : \A k \in DOMAIN g[side][s] :
    Excused(decl, side, s, g[side][s][k].target) \/ Answered(g, side, s, g[side][s][k])

GraphOK(g, decl) ==
  GraphType(g) /\ Keyed(g) /\ GatesInside(g) /\ OnlyDeclared(g, decl) /\ MirroredIn(g, decl)

\* The links of each fromdict are those of its own subservices.
FrameSet ==
  {f \in [group : Group, bound : BOOLEAN, rest : SUBSET Group,
          links : SUBSET (Svc \X (Strength \X Seq(STRING)))] :
     \A l \in f.links : l[1] \in Sub[f.group]}

DeclaredSet == [Svc -> UNION {[D -> Strength] : D \in SUBSET Svc}]

\* What every step preserves
ManagerInv ==
  /\ yaml \in Files
  /\ loading \in Seq(FrameSet)
  /\ declared \in DeclaredSet
  /\ GatesUnnamed => GraphOK(graph, declared) /\ CutsSucceed
-------------------------------------------------------------------------------
(* Entities and dictionaries *)

\* A gate is no subservice, and what an entity is, is one of the two.
LEMMA OwnOrGate ==
  /\ Svc = Own \cup Gates /\ Own \cap Gates = {}
  /\ \A g \in Group : Sub[g] \subseteq Own /\ Source[g] \in Svc /\ Sink[g] \in Svc
BY StructureAssumption DEF Own, Gates, Plain

LEMMA FlipOther == \A side \in Sides : Flip(side) \in Sides \ {side} /\ Flip(Flip(side)) = side
BY DEF Sides, Flip

LEMMA DictIs ==
  ASSUME NEW d
  PROVE  d \in Dict <=> /\ d = [k \in DOMAIN d |-> d[k]] /\ DOMAIN d \subseteq Names
                        /\ \A k \in DOMAIN d : d[k] \in Entry
BY DEF Dict

\* What Put makes of a dictionary
IsPut(new, d, T, type) ==
  /\ new \in Dict
  /\ DOMAIN new = DOMAIN d \cup Labels(T)
  /\ \A k \in DOMAIN d : k \notin Labels(T) => new[k] = d[k]
  /\ \A k \in Labels(T) : \E t \in T : Label[t] = k /\ new[k] = [target |-> t, type |-> type]

LEMMA PutIs ==
  ASSUME NEW d \in Dict, NEW T \in SUBSET Svc, NEW type \in Strength
  PROVE  IsPut(Put(d, T, type), d, T, type)
<1> DEFINE names == {Label[t] : t \in T}
           new   == Put(d, T, type)
<1>1. names = Labels(T)
  BY DEF Labels
<1>2. ASSUME NEW k \in names
      PROVE  \E t \in T : t = (CHOOSE u \in T : Label[u] = k) /\ Label[t] = k
  OBVIOUS
<1>3. new = [k \in DOMAIN d \cup names |->
         IF k \in names THEN [target |-> CHOOSE t \in T : Label[t] = k, type |-> type]
         ELSE d[k]]
  BY DEF Put
<1>4. DOMAIN d \subseteq Names /\ \A k \in DOMAIN d : d[k] \in Entry
  BY DictIs
<1>5. \A k \in names : \E t \in T : Label[t] = k /\ new[k] = [target |-> t, type |-> type]
  BY <1>2, <1>3
<1>6. DOMAIN new \subseteq Names
  BY <1>3, <1>4 DEF Names
<1>7. \A k \in DOMAIN d \cup names : new[k] \in Entry
  BY <1>3, <1>4, <1>5 DEF Entry
<1>8. new \in Dict
  BY <1>3, <1>6, <1>7, DictIs
<1>9. DOMAIN new = DOMAIN d \cup names /\ \A k \in DOMAIN d : k \notin names => new[k] = d[k]
  BY <1>3
<1> HIDE DEF names, new
<1>10. IsPut(new, d, T, type)
  BY <1>1, <1>5, <1>8, <1>9 DEF IsPut
<1> QED BY <1>10 DEF new

\* The same, of one entity
IsPutOne(new, d, s, type) ==
  /\ new \in Dict
  /\ DOMAIN new = DOMAIN d \cup {Label[s]}
  /\ \A k \in DOMAIN d : k # Label[s] => new[k] = d[k]
  /\ new[Label[s]] = [target |-> s, type |-> type]

LEMMA PutOneIs ==
  ASSUME NEW d \in Dict, NEW s \in Svc, NEW type \in Strength, NEW new,
         new = Put(d, {s}, type)
  PROVE  IsPutOne(new, d, s, type)
<1>1. PICK one \in SUBSET Svc : one = {s}
  OBVIOUS
<1>2. IsPut(new, d, one, type)
  BY <1>1, PutIs
<1>3. Labels(one) = {Label[s]} /\ \A t \in one : t = s
  BY <1>1 DEF Labels
<1> QED BY <1>2, <1>3 DEF IsPut, IsPutOne

IsDrop(new, d, N) ==
  /\ new \in Dict
  /\ DOMAIN new = DOMAIN d \ N
  /\ \A k \in DOMAIN d \ N : new[k] = d[k]

LEMMA DropIs ==
  ASSUME NEW d \in Dict, NEW N
  PROVE  IsDrop(Drop(d, N), d, N)
<1>1. Drop(d, N) = [k \in DOMAIN d \ N |-> d[k]]
  BY DEF Drop
<1> QED BY <1>1, DictIs DEF IsDrop

LEMMA EntryOf ==
  ASSUME NEW g, GraphType(g), NEW side \in Sides, NEW s \in Svc, NEW k \in DOMAIN g[side][s]
  PROVE  /\ g[side][s][k].target \in Svc /\ g[side][s][k].type \in Strength
         /\ k \in Names /\ g[side][s][k].target \in Targets(g[side][s])
<1>1. g[side][s] \in Dict
  BY DEF GraphType
<1> QED BY <1>1, DictIs DEF Entry, Targets
-------------------------------------------------------------------------------
(* add_dep *)

LEMMA GraphTypeIs ==
  ASSUME NEW g, g = [z \in Sides |-> [x \in Svc |-> g[z][x]]],
         \A z \in Sides, x \in Svc : g[z][x] \in Dict
  PROVE  GraphType(g)
BY DEF GraphType

LEMMA DictOf ==
  ASSUME NEW g, GraphType(g), NEW side \in Sides, NEW s \in Svc
  PROVE  g[side][s] \in Dict
BY DEF GraphType

\* What AddDeps makes of a graph
IsAdded(g2, g, s, T, type, side) ==
  /\ GraphType(g2)
  /\ \A x \in Svc : x # s => g2[side][x] = g[side][x]
  /\ \A x \in Svc : x \notin T => g2[Flip(side)][x] = g[Flip(side)][x]
  /\ IsPut(g2[side][s], g[side][s], T, type)
  /\ \A x \in T : IsPutOne(g2[Flip(side)][x], g[Flip(side)][x], s, type)

LEMMA AddDepsIs ==
  ASSUME NEW g, GraphType(g), NEW s \in Svc, NEW T \in SUBSET Svc,
         NEW type \in Strength, NEW side \in Sides
  PROVE  IsAdded(AddDeps(g, s, T, type, side), g, s, T, type, side)
<1> DEFINE g2 == AddDeps(g, s, T, type, side)
           other == Flip(side)
<1>1. other \in Sides /\ other # side /\ \A z \in Sides : z = side \/ z = other
  BY FlipOther DEF Sides
<1>2. g2 = [z \in Sides |-> [x \in Svc |->
              IF z = side THEN IF x = s THEN Put(g[z][x], T, type) ELSE g[z][x]
              ELSE IF x \in T THEN Put(g[z][x], {s}, type) ELSE g[z][x]]]
  BY DEF AddDeps, Sides, Flip, GraphType
<1> HIDE DEF other, g2
<1>3. g2 = [z \in Sides |-> [x \in Svc |-> g2[z][x]]]
  BY <1>2
<1>4. g2[side][s] = Put(g[side][s], T, type)
  BY <1>2
<1>5. \A x \in Svc : x # s => g2[side][x] = g[side][x]
  BY <1>2
<1>6. \A x \in T : g2[other][x] = Put(g[other][x], {s}, type)
  BY <1>1, <1>2
<1>7. \A x \in Svc : x \notin T => g2[other][x] = g[other][x]
  BY <1>1, <1>2
<1>8. \A z \in Sides, x \in Svc : g[z][x] \in Dict
  BY DictOf
<1>9. IsPut(g2[side][s], g[side][s], T, type)
  BY <1>4, <1>8, PutIs
<1>10. ASSUME NEW x \in T
       PROVE  IsPutOne(g2[other][x], g[other][x], s, type)
  <2>1. g[other][x] \in Dict /\ g2[other][x] = Put(g[other][x], {s}, type)
    BY <1>1, <1>6, <1>8
  <2> QED BY <2>1, PutOneIs
<1>11. ASSUME NEW z \in Sides, NEW x \in Svc
       PROVE  g2[z][x] \in Dict
  <2>1. CASE z = side
    BY <2>1, <1>5, <1>8, <1>9 DEF IsPut
  <2>2. CASE z = other
    BY <2>2, <1>7, <1>8, <1>10 DEF IsPutOne
  <2> QED BY <1>1, <2>1, <2>2
<1>12. GraphType(g2)
  BY <1>3, <1>11, GraphTypeIs
<1>13. IsAdded(g2, g, s, T, type, side)
  BY <1>5, <1>7, <1>9, <1>10, <1>12 DEF IsAdded, other
<1> QED BY <1>13 DEF g2

\* The names are free, and the ends that are replaced are excused.
NothingLost(g, s, T, side, decl) ==
  /\ \A t \in T : Label[t] \notin DOMAIN g[side][s]
  /\ \A t, u \in T : Label[t] = Label[u] => t = u
  /\ \A t \in T : \A x \in Svc \ {s} :
       Label[x] = Label[s] /\ t \in Targets(g[side][x]) => Excused(decl, side, x, t)

ExcusesMore(decl2, decl) ==
  \A z \in Sides, x, y \in Svc : Excused(decl, z, x, y) => Excused(decl2, z, x, y)

\* An edge is added with its two ends, and takes the place of no end of another,
\* but of one that is excused.
LEMMA AddDepsMirrored ==
  ASSUME NEW g, GraphType(g), Keyed(g), NEW s \in Svc, NEW T \in SUBSET Svc,
         NEW type \in Strength, NEW side \in Sides, NEW decl, NEW decl2,
         NEW g2, g2 = AddDeps(g, s, T, type, side), MirroredIn(g, decl),
         ExcusesMore(decl2, decl), NothingLost(g, s, T, side, decl2)
  PROVE  Keyed(g2) /\ MirroredIn(g2, decl2)
<1> DEFINE other == Flip(side)
           names == Labels(T)
<1>1. other \in Sides /\ other # side /\ Flip(other) = side
  BY FlipOther
<1>e. /\ \A z \in Sides, x, y \in Svc : Excused(decl, z, x, y) => Excused(decl2, z, x, y)
      /\ \A t \in T : Label[t] \notin DOMAIN g[side][s]
      /\ \A t, u \in T : Label[t] = Label[u] => t = u
      /\ \A t \in T : \A x \in Svc \ {s} :
           Label[x] = Label[s] /\ t \in Targets(g[side][x]) => Excused(decl2, side, x, t)
  BY DEF NothingLost, ExcusesMore
<1>0. IsAdded(g2, g, s, T, type, side)
  BY AddDepsIs
<1>2. /\ \A x \in Svc : x # s => g2[side][x] = g[side][x]
      /\ \A x \in Svc : x \notin T => g2[other][x] = g[other][x]
      /\ DOMAIN g2[side][s] = DOMAIN g[side][s] \cup names
      /\ \A k \in DOMAIN g[side][s] : k \notin names => g2[side][s][k] = g[side][s][k]
      /\ \A k \in names :
           \E t \in T : Label[t] = k /\ g2[side][s][k] = [target |-> t, type |-> type]
      /\ \A x \in T : /\ DOMAIN g2[other][x] = DOMAIN g[other][x] \cup {Label[s]}
                      /\ \A k \in DOMAIN g[other][x] :
                           k # Label[s] => g2[other][x][k] = g[other][x][k]
                      /\ g2[other][x][Label[s]] = [target |-> s, type |-> type]
  BY <1>0 DEF IsAdded, IsPut, IsPutOne
<1> HIDE DEF other, names
<1>3. /\ names = Labels(T)
      /\ \A t \in T : Label[t] \in names
      /\ \A k \in names : \E t \in T : Label[t] = k
  BY DEF names, Labels
<1>4. \A z \in Sides : z = side \/ z = other
  BY <1>1 DEF Sides
<1>5. ASSUME NEW x \in Svc, NEW k \in DOMAIN g2[side][x],
             k \in DOMAIN g[side][x], g2[side][x][k] = g[side][x][k], x = s => k \notin names
      PROVE  /\ Label[g2[side][x][k].target] = k
             /\ Excused(decl2, side, x, g2[side][x][k].target) \/ Answered(g2, side, x, g2[side][x][k])
  <2> DEFINE e == g[side][x][k]
  <2>1. e.target \in Svc /\ Label[e.target] = k /\ e.target \in Targets(g[side][x])
    BY <1>5, EntryOf DEF Keyed
  <2>2. CASE Excused(decl, side, x, e.target)
    BY <2>2, <2>1, <1>5, <1>e
  <2>3. CASE Answered(g, side, x, e)
    <3>0. Label[x] \in DOMAIN g[other][e.target]
          /\ g[other][e.target][Label[x]] = [target |-> x, type |-> e.type]
      BY <2>3 DEF Answered, other
    <3>1. CASE e.target \in T /\ Label[x] = Label[s]
      <4>1. x # s
        BY <3>1, <2>1, <1>5, <1>3
      <4> QED BY <4>1, <3>1, <2>1, <1>5, <1>e
    <3>2. CASE ~(e.target \in T /\ Label[x] = Label[s])
      <4>1. Label[x] \in DOMAIN g2[other][e.target]
            /\ g2[other][e.target][Label[x]] = [target |-> x, type |-> e.type]
        BY <3>0, <3>2, <2>1, <1>2
      <4> QED BY <4>1, <2>1, <1>5 DEF Answered, other
    <3> QED BY <3>1, <3>2
  <2>4. Excused(decl, side, x, e.target) \/ Answered(g, side, x, e)
    BY <1>5 DEF MirroredIn
  <2> QED BY <2>2, <2>3, <2>4
<1>6. ASSUME NEW k \in names
      PROVE  /\ Label[g2[side][s][k].target] = k
             /\ Answered(g2, side, s, g2[side][s][k])
  <2>1. PICK t \in T : Label[t] = k /\ g2[side][s][k] = [target |-> t, type |-> type]
    BY <1>2
  <2>2. Label[s] \in DOMAIN g2[other][t] /\ g2[other][t][Label[s]] = [target |-> s, type |-> type]
    BY <1>2
  <2> QED BY <2>1, <2>2 DEF Answered, other
<1>7. ASSUME NEW x \in Svc, NEW k \in DOMAIN g2[side][x]
      PROVE  /\ Label[g2[side][x][k].target] = k
             /\ Excused(decl2, side, x, g2[side][x][k].target) \/ Answered(g2, side, x, g2[side][x][k])
  <2>1. CASE x = s /\ k \in names
    BY <2>1, <1>6
  <2>2. CASE ~(x = s /\ k \in names)
    <3>1. k \in DOMAIN g[side][x] /\ g2[side][x][k] = g[side][x][k]
      BY <2>2, <1>2
    <3> QED BY <3>1, <2>2, <1>5
  <2> QED BY <2>1, <2>2
<1>8. ASSUME NEW x \in Svc, NEW k \in DOMAIN g2[other][x]
      PROVE  /\ Label[g2[other][x][k].target] = k
             /\ Excused(decl2, other, x, g2[other][x][k].target) \/ Answered(g2, other, x, g2[other][x][k])
  <2>1. CASE x \in T /\ k = Label[s]
    <3>1. g2[other][x][k] = [target |-> s, type |-> type]
      BY <2>1, <1>2
    <3>2. Label[x] \in names /\ Label[x] \in DOMAIN g2[side][s]
      BY <2>1, <1>2, <1>3
    <3>3. g2[side][s][Label[x]] = [target |-> x, type |-> type]
      <4>1. PICK t \in T : Label[t] = Label[x] /\ g2[side][s][Label[x]] = [target |-> t, type |-> type]
        BY <3>2, <1>2
      <4> QED BY <4>1, <2>1, <1>e
    <3> QED BY <3>1, <3>2, <3>3, <2>1, <1>1 DEF Answered
  <2>2. CASE ~(x \in T /\ k = Label[s])
    <3>1. k \in DOMAIN g[other][x] /\ g2[other][x][k] = g[other][x][k]
      BY <2>2, <1>2
    <3> DEFINE e == g[other][x][k]
    <3>2. e.target \in Svc /\ Label[e.target] = k
      BY <3>1, <1>1, EntryOf DEF Keyed
    <3>3. CASE Excused(decl, other, x, e.target)
      BY <3>1, <3>2, <3>3, <1>1, <1>e
    <3>4. CASE Answered(g, other, x, e)
      <4>1. Label[x] \in DOMAIN g[side][e.target]
            /\ g[side][e.target][Label[x]] = [target |-> x, type |-> e.type]
        BY <3>4, <1>1 DEF Answered
      <4>2. e.target = s => Label[x] \notin names
        <5>1. ASSUME e.target = s, Label[x] \in names
              PROVE  FALSE
          <6>1. PICK t \in T : Label[t] = Label[x]
            BY <5>1, <1>2
          <6>2. Label[t] \in DOMAIN g[side][s]
            BY <6>1, <5>1, <4>1
          <6> QED BY <6>2, <1>e
        <5> QED BY <5>1
      <4>3. Label[x] \in DOMAIN g2[side][e.target]
            /\ g2[side][e.target][Label[x]] = [target |-> x, type |-> e.type]
        BY <4>1, <4>2, <3>2, <1>2
      <4> QED BY <4>3, <3>1, <3>2, <1>1 DEF Answered
    <3> QED BY <3>1, <3>3, <3>4, <1>1 DEF MirroredIn
  <2> QED BY <2>1, <2>2
<1>9. \A z \in Sides, x \in Svc : \A k \in DOMAIN g2[z][x] :
        /\ Label[g2[z][x][k].target] = k
        /\ Excused(decl2, z, x, g2[z][x][k].target) \/ Answered(g2, z, x, g2[z][x][k])
  BY <1>4, <1>7, <1>8
<1> QED BY <1>9 DEF Keyed, MirroredIn

\* What an entity is related to afterwards
TargetsAdded(g2, g, s, T, side) ==
  /\ \A x \in Svc \ {s} : Targets(g2[side][x]) = Targets(g[side][x])
  /\ \A x \in Svc \ T : Targets(g2[Flip(side)][x]) = Targets(g[Flip(side)][x])
  /\ Targets(g2[side][s]) \subseteq Targets(g[side][s]) \cup T
  /\ \A x \in T : Targets(g2[Flip(side)][x]) \subseteq Targets(g[Flip(side)][x]) \cup {s}

LEMMA AddDepsTargets ==
  ASSUME NEW g, GraphType(g), NEW s \in Svc, NEW T \in SUBSET Svc,
         NEW type \in Strength, NEW side \in Sides,
         NEW g2, g2 = AddDeps(g, s, T, type, side)
  PROVE  TargetsAdded(g2, g, s, T, side)
<1>1. IsAdded(g2, g, s, T, type, side)
  BY AddDepsIs
<1>2. /\ \A x \in Svc \ {s} : Targets(g2[side][x]) = Targets(g[side][x])
      /\ \A x \in Svc \ T : Targets(g2[Flip(side)][x]) = Targets(g[Flip(side)][x])
  BY <1>1 DEF IsAdded
<1>3. ASSUME NEW k \in DOMAIN g2[side][s]
      PROVE  g2[side][s][k].target \in Targets(g[side][s]) \cup T
  <2>1. IsPut(g2[side][s], g[side][s], T, type)
    BY <1>1 DEF IsAdded
  <2>2. CASE k \in Labels(T)
    <3>1. PICK t \in T : g2[side][s][k] = [target |-> t, type |-> type]
      BY <2>1, <2>2 DEF IsPut
    <3> QED BY <3>1
  <2>3. CASE k \notin Labels(T)
    BY <2>1, <2>3 DEF IsPut, Targets
  <2> QED BY <2>2, <2>3
<1>4. ASSUME NEW x \in T, NEW k \in DOMAIN g2[Flip(side)][x]
      PROVE  g2[Flip(side)][x][k].target \in Targets(g[Flip(side)][x]) \cup {s}
  <2>1. IsPutOne(g2[Flip(side)][x], g[Flip(side)][x], s, type)
    BY <1>1 DEF IsAdded
  <2>2. CASE k = Label[s]
    BY <2>1, <2>2 DEF IsPutOne
  <2>3. CASE k # Label[s]
    BY <2>1, <2>3 DEF IsPutOne, Targets
  <2> QED BY <2>2, <2>3
<1>5. Targets(g2[side][s]) \subseteq Targets(g[side][s]) \cup T
  BY <1>3 DEF Targets
<1>6. \A x \in T : Targets(g2[Flip(side)][x]) \subseteq Targets(g[Flip(side)][x]) \cup {s}
  BY <1>4 DEF Targets
<1> QED BY <1>2, <1>5, <1>6 DEF TargetsAdded
-------------------------------------------------------------------------------
(* A gate and the subservices of its group *)

Gate(grp, side) == IF side = "parents" THEN Source[grp] ELSE Sink[grp]

LEMMA GateFacts ==
  ASSUME NEW grp \in Group, NEW side \in Sides
  PROVE  /\ Gate(grp, side) \in Gates /\ Gate(grp, side) \in Svc
         /\ \A h \in Group : Gate(h, side) = Gate(grp, side) => h = grp
         /\ \A h \in Group : Gate(h, Flip(side)) # Gate(grp, side)
         /\ GatesApart => \A x \in Svc : Label[x] = Label[Gate(grp, side)] =>
                            \E h \in Group : x = Gate(h, side)
BY OwnOrGate, TreeAssumption DEF Gate, Gates, Sides, Flip, GatesApart

LEMMA InsideGate ==
  ASSUME NEW g, GatesInside(g), NEW grp \in Group, NEW side \in Sides
  PROVE  /\ Targets(g[side][Gate(grp, side)]) \subseteq Sub[grp]
         /\ \A s \in Svc : Gate(grp, side) \notin Targets(g[side][s])
BY DEF GatesInside, Gate, Sides

LEMMA InsideGates ==
  ASSUME NEW g,
         \A side \in Sides, grp \in Group :
           /\ Targets(g[side][Gate(grp, side)]) \subseteq Sub[grp]
           /\ \A s \in Svc : Gate(grp, side) \notin Targets(g[side][s])
  PROVE  GatesInside(g)
<1>1. "parents" \in Sides /\ "children" \in Sides
  BY DEF Sides
<1>2. \A grp \in Group : /\ Gate(grp, "parents") = Source[grp]
                         /\ Gate(grp, "children") = Sink[grp]
  BY DEF Gate
<1> QED BY <1>1, <1>2 DEF GatesInside

\* Only a gate of the group can be filed under the name of its gate by one of
\* its subservices.
LEMMA OnlyGate ==
  ASSUME GatesApart, NEW g, GatesInside(g), NEW grp \in Group, NEW side \in Sides,
         NEW t \in Sub[grp], NEW x \in Svc, Label[x] = Label[Gate(grp, side)],
         t \in Targets(g[side][x])
  PROVE  x = Gate(grp, side)
<1>1. PICK h \in Group : x = Gate(h, side)
  BY GateFacts
<1>2. t \in Sub[h]
  BY <1>1, InsideGate
<1> QED BY <1>1, <1>2, TreeAssumption

\* Dependencies between a gate and subservices of its group whose name is free
\* there can be added.
LEMMA BindGateOK ==
  ASSUME GatesApart, NEW g, NEW decl, GraphOK(g, decl),
         NEW grp \in Group, NEW side \in Sides, NEW T \in SUBSET Sub[grp],
         \A t \in T : Label[t] \notin DOMAIN g[side][Gate(grp, side)],
         NEW g2, g2 = AddDeps(g, Gate(grp, side), T, REQUIRE, side)
  PROVE  GraphOK(g2, decl)
<1> DEFINE s == Gate(grp, side)
           other == Flip(side)
<1>1. s \in Svc /\ s \in Gates /\ T \in SUBSET Svc /\ T \subseteq Own /\ REQUIRE \in Strength
  BY GateFacts, OwnOrGate DEF Strength
<1>2. other \in Sides /\ other # side /\ \A z \in Sides : z = side \/ z = other
  BY FlipOther DEF Sides
<1>3. GraphType(g) /\ Keyed(g) /\ GatesInside(g) /\ OnlyDeclared(g, decl) /\ MirroredIn(g, decl)
  BY DEF GraphOK
<1>4. \A t, u \in T : Label[t] = Label[u] => t = u
  BY <1>1, LabelAssumption
<1>5. \A t \in T : \A x \in Svc \ {s} :
        Label[x] = Label[s] /\ t \in Targets(g[side][x]) => Excused(decl, side, x, t)
  BY <1>3, OnlyGate
<1> HIDE DEF s, other
<1>6. GraphType(g2) 
  BY <1>1, <1>3, AddDepsIs DEF IsAdded, s
<1>7. Keyed(g2) /\ MirroredIn(g2, decl)
  <2>1. NothingLost(g, s, T, side, decl) /\ ExcusesMore(decl, decl)
    BY <1>4, <1>5 DEF NothingLost, ExcusesMore, s
  <2> QED BY <1>1, <1>3, <2>1, AddDepsMirrored DEF s
<1>8. /\ \A x \in Svc \ {s} : Targets(g2[side][x]) = Targets(g[side][x])
      /\ \A x \in Svc \ T : Targets(g2[other][x]) = Targets(g[other][x])
      /\ Targets(g2[side][s]) \subseteq Targets(g[side][s]) \cup T
      /\ \A x \in T : Targets(g2[other][x]) \subseteq Targets(g[other][x]) \cup {s}
  <2>1. TargetsAdded(g2, g, s, T, side)
    BY <1>1, <1>3, AddDepsTargets DEF s
  <2> QED BY <2>1 DEF TargetsAdded, other
<1>9. GatesInside(g2)
  <2> SUFFICES ASSUME NEW z \in Sides, NEW h \in Group
               PROVE  /\ Targets(g2[z][Gate(h, z)]) \subseteq Sub[h]
                      /\ \A x \in Svc : Gate(h, z) \notin Targets(g2[z][x])
    BY InsideGates
  <2>1. /\ Targets(g[z][Gate(h, z)]) \subseteq Sub[h]
        /\ \A x \in Svc : Gate(h, z) \notin Targets(g[z][x])
    BY <1>3, InsideGate
  <2>2. Gate(h, z) \in Gates /\ Gate(h, z) \in Svc /\ Gate(h, z) \notin T
    BY <1>1, GateFacts, OwnOrGate
  <2>3. CASE z = side
    <3>1. Gate(h, z) = s => h = grp
      BY <2>3, GateFacts DEF s
    <3>2. Targets(g2[z][Gate(h, z)]) \subseteq Sub[h]
      BY <2>1, <2>2, <2>3, <3>1, <1>8
    <3> QED BY <3>2, <2>1, <2>2, <2>3, <1>8
  <2>4. CASE z = other
    <3>1. Gate(h, z) # s
      BY <2>4, GateFacts DEF s, other
    <3> QED BY <3>1, <2>1, <2>2, <2>4, <1>8
  <2> QED BY <1>2, <2>3, <2>4
<1>10. OnlyDeclared(g2, decl)
  <2>1. ASSUME NEW x \in Own, NEW t \in Targets(g2["parents"][x])
        PROVE  t \in DOMAIN decl[x] \/ \E h \in Group : t = Sink[h] /\ x \in Sub[h]
    <3>1. x \in Svc /\ x # s
      BY <1>1, OwnOrGate
    <3>2. t \in Targets(g["parents"][x]) => 
            t \in DOMAIN decl[x] \/ \E h \in Group : t = Sink[h] /\ x \in Sub[h]
      BY <1>3 DEF OnlyDeclared
    <3>3. CASE side = "parents"
      BY <3>1, <3>2, <3>3, <1>8, <2>1
    <3>4. CASE other = "parents"
      <4>1. s = Sink[grp]
        BY <3>4, <1>2 DEF s, Gate
      <4> QED BY <4>1, <3>1, <3>2, <3>4, <1>8, <2>1
    <3> QED BY <3>3, <3>4, <1>2 DEF Sides
  <2> QED BY <2>1, <1>3 DEF OnlyDeclared
<1> QED BY <1>6, <1>7, <1>9, <1>10 DEF GraphOK

\* A subservice that nothing on one side has no entry in the gate of this side.
LEMMA FreeAtGate ==
  ASSUME GatesApart, NEW g, NEW decl, GraphOK(g, decl), NEW grp \in Group,
         NEW side \in Sides, NEW t \in Sub[grp], DOMAIN g[Flip(side)][t] = {}
  PROVE  Label[t] \notin DOMAIN g[side][Gate(grp, side)]
<1> DEFINE s == Gate(grp, side)
<1>1. GraphType(g) /\ Keyed(g) /\ GatesInside(g) /\ OnlyDeclared(g, decl) /\ MirroredIn(g, decl)
  BY DEF GraphOK
<1>2. s \in Svc /\ s \in Gates
  BY GateFacts
<1> SUFFICES ASSUME Label[t] \in DOMAIN g[side][s] PROVE FALSE
  OBVIOUS
<1> DEFINE e == g[side][s][Label[t]]
<1>3. e.target \in Svc /\ e.target \in Targets(g[side][s]) /\ Label[e.target] = Label[t]
  BY <1>1, <1>2, EntryOf DEF Keyed
<1>4. e.target = t
  BY <1>1, <1>3, InsideGate, LabelAssumption, OwnOrGate
<1>5. Excused(decl, side, s, t) \/ Answered(g, side, s, e)
  BY <1>1, <1>2, <1>4 DEF MirroredIn
<1>6. ~Answered(g, side, s, e)
  BY <1>4 DEF Answered
<1>7. ~HalfEdge(s, t)
  BY TreeAssumption DEF HalfEdge, Gate
<1>8. ASSUME NEW u \in Svc, Label[u] = Label[s], t \in DOMAIN decl[u]
      PROVE  FALSE
  <2>1. u \in Gates
    BY <1>8, GateFacts
  <2> QED BY <2>1, <1>8, <1>1 DEF OnlyDeclared
<1> QED BY <1>5, <1>6, <1>7, <1>8 DEF Excused

\* fromdict binds the subservices of a group.
LEMMA BindOK ==
  ASSUME GatesApart, NEW g, NEW decl, GraphOK(g, decl), NEW grp \in Group
  PROVE  GraphOK(BindAll(g, grp), decl)
<1> DEFINE T1 == {s \in Sub[grp] : g.children[s] = Empty}
           T2 == {s \in Sub[grp] : g.parents[s] = Empty}
           g1 == AddDeps(g, Source[grp], T1, REQUIRE, "parents")
           g2 == AddDeps(g1, Sink[grp], T2, REQUIRE, "children")
<1>1. /\ "parents" \in Sides /\ "children" \in Sides
      /\ Flip("parents") = "children" /\ Flip("children") = "parents"
      /\ Gate(grp, "parents") = Source[grp] /\ Gate(grp, "children") = Sink[grp]
  BY DEF Sides, Flip, Gate
<1>2. DOMAIN Empty = {}
  BY DEF Empty
<1>3. \A t \in T1 : Label[t] \notin DOMAIN g["parents"][Source[grp]]
  BY <1>1, <1>2, FreeAtGate
<1>4. GraphOK(g1, decl)
  <2>1. T1 \in SUBSET Sub[grp]
    OBVIOUS
  <2> HIDE DEF T1
  <2> QED BY <1>1, <1>3, <2>1, BindGateOK
<1>5. IsAdded(g1, g, Source[grp], T1, REQUIRE, "parents")
  <2>1. T1 \in SUBSET Svc /\ REQUIRE \in Strength /\ Source[grp] \in Svc /\ GraphType(g)
    BY OwnOrGate DEF Strength, GraphOK
  <2> HIDE DEF T1
  <2> QED BY <1>1, <2>1, AddDepsIs
<1> HIDE DEF g1, T1
<1>6. ASSUME NEW t \in T2
      PROVE  DOMAIN g1["parents"][t] = {}
  <2>1. t \in Svc /\ t # Source[grp] /\ DOMAIN g["parents"][t] = {}
    BY <1>2, OwnOrGate DEF Gates
  <2> QED BY <2>1, <1>5 DEF IsAdded
<1>7. \A t \in T2 : Label[t] \notin DOMAIN g1["children"][Sink[grp]]
  BY <1>1, <1>4, <1>6, FreeAtGate
<1>8. GraphOK(g2, decl)
  <2>1. T2 \in SUBSET Sub[grp]
    OBVIOUS
  <2> HIDE DEF T2
  <2> QED BY <1>1, <1>4, <1>7, <2>1, BindGateOK
<1> QED BY <1>8 DEF BindAll, g1, T1
-------------------------------------------------------------------------------
(* A dependency that the files declare *)

LEMMA LinkOK ==
  ASSUME NEW g, NEW decl \in DeclaredSet, GraphOK(g, decl), NEW s \in Own, NEW t \in Own,
         NEW type \in Strength, Label[t] \notin DOMAIN g["parents"][s], NEW decl2,
         decl2 = [decl EXCEPT ![s] = [u \in DOMAIN decl[s] \cup {t} |->
                                        IF u = t THEN type ELSE decl[s][u]]],
         NEW T, T = {t}
  PROVE  /\ GraphOK(AddDeps(g, s, T, type, "parents"), decl2)
         /\ decl2 \in DeclaredSet
<1> DEFINE g2 == AddDeps(g, s, T, type, "parents")
<1>1. /\ s \in Svc /\ t \in Svc /\ s \notin Gates /\ t \notin Gates
      /\ T \in SUBSET Svc /\ "parents" \in Sides /\ Flip("parents") = "children"
  BY OwnOrGate DEF Sides, Flip
<1>2. GraphType(g) /\ Keyed(g) /\ GatesInside(g) /\ OnlyDeclared(g, decl) /\ MirroredIn(g, decl)
  BY DEF GraphOK
<1>3. /\ \A x \in Svc \ {s} : decl2[x] = decl[x]
      /\ DOMAIN decl2[s] = DOMAIN decl[s] \cup {t}
      /\ \A x \in Svc : DOMAIN decl[x] \subseteq DOMAIN decl2[x]
  BY <1>1 DEF DeclaredSet
<1>4. decl2 \in DeclaredSet
  <2>1. decl[s] \in UNION {[D -> Strength] : D \in SUBSET Svc}
    BY <1>1 DEF DeclaredSet
  <2>2. PICK D \in SUBSET Svc : decl[s] \in [D -> Strength]
    BY <2>1
  <2>3. D \cup {t} \in SUBSET Svc
    BY <1>1
  <2>4. [u \in DOMAIN decl[s] \cup {t} |-> IF u = t THEN type ELSE decl[s][u]]
           \in [D \cup {t} -> Strength]
    BY <2>2
  <2>5. [u \in DOMAIN decl[s] \cup {t} |-> IF u = t THEN type ELSE decl[s][u]]
           \in UNION {[E -> Strength] : E \in SUBSET Svc}
    BY <2>3, <2>4
  <2> QED BY <2>5, <1>1 DEF DeclaredSet
<1> HIDE DEF g2
<1>5. Keyed(g2) /\ MirroredIn(g2, decl2)
  <2>1. ExcusesMore(decl2, decl)
    BY <1>3 DEF Excused, ExcusesMore
  <2>2. \A x \in Svc \ {s} : Label[x] = Label[s] => Excused(decl2, "parents", x, t)
    BY <1>1, <1>3 DEF Excused
  <2>3. NothingLost(g, s, T, "parents", decl2)
    BY <2>2 DEF NothingLost
  <2> QED BY <1>1, <1>2, <2>1, <2>3, AddDepsMirrored DEF g2
<1>6. GraphType(g2)
  BY <1>1, <1>2, AddDepsIs DEF g2, IsAdded
<1>7. TargetsAdded(g2, g, s, T, "parents")
  BY <1>1, <1>2, AddDepsTargets DEF g2
<1>8. GatesInside(g2)
  <2> SUFFICES ASSUME NEW z \in Sides, NEW h \in Group
               PROVE  /\ Targets(g2[z][Gate(h, z)]) \subseteq Sub[h]
                      /\ \A x \in Svc : Gate(h, z) \notin Targets(g2[z][x])
    BY InsideGates
  <2>1. /\ Targets(g[z][Gate(h, z)]) \subseteq Sub[h]
        /\ \A x \in Svc : Gate(h, z) \notin Targets(g[z][x])
    BY <1>2, InsideGate
  <2>2. Gate(h, z) \in Gates /\ Gate(h, z) \in Svc /\ Gate(h, z) # s /\ Gate(h, z) # t
    BY <1>1, GateFacts
  <2>3. CASE z = "parents"
    BY <2>1, <2>2, <2>3, <1>7 DEF TargetsAdded
  <2>4. CASE z = "children"
    BY <2>1, <2>2, <2>4, <1>1, <1>7 DEF TargetsAdded
  <2> QED BY <2>3, <2>4 DEF Sides
<1>9. OnlyDeclared(g2, decl2)
  <2>1. ASSUME NEW x \in Own, NEW y \in Targets(g2["parents"][x])
        PROVE  y \in DOMAIN decl2[x] \/ \E h \in Group : y = Sink[h] /\ x \in Sub[h]
    <3>1. y \in Targets(g["parents"][x]) \/ (x = s /\ y = t)
      BY <1>7, OwnOrGate DEF TargetsAdded
    <3> QED BY <3>1, <1>2, <1>3, OwnOrGate DEF OnlyDeclared
  <2>2. \A x \in Gates : DOMAIN decl2[x] = {}
    BY <1>1, <1>2, <1>3, OwnOrGate DEF OnlyDeclared
  <2>3. \A x \in Svc : DOMAIN decl2[x] \subseteq Own
    BY <1>2, <1>3 DEF OnlyDeclared
  <2> QED BY <2>1, <2>2, <2>3 DEF OnlyDeclared
<1>10. GraphOK(g2, decl2)
  BY <1>5, <1>6, <1>8, <1>9 DEF GraphOK
<1> QED BY <1>4, <1>10 DEF g2
-------------------------------------------------------------------------------
(* remove_dep *)

\* The names an entity loses on the other side
Cut(g, x, S, names, side) == {Label[s] : s \in {u \in S : x \in Removed(g, u, names, side)}}

\* What RemoveDeps makes of a graph
IsRemoved(g2, g, S, names, side) ==
  /\ GraphType(g2)
  /\ \A x \in S : IsDrop(g2[side][x], g[side][x], names)
  /\ \A x \in Svc \ S : g2[side][x] = g[side][x]
  /\ \A x \in Svc : IsDrop(g2[Flip(side)][x], g[Flip(side)][x], Cut(g, x, S, names, side))

LEMMA RemoveDepsIs ==
  ASSUME NEW g, GraphType(g), NEW S \in SUBSET Svc, NEW names, NEW side \in Sides
  PROVE  IsRemoved(RemoveDeps(g, S, names, side), g, S, names, side)
<1> DEFINE g2 == RemoveDeps(g, S, names, side)
           other == Flip(side)
<1>1. other \in Sides /\ other # side /\ \A z \in Sides : z = side \/ z = other
  BY FlipOther DEF Sides
<1>2. g2 = [z \in Sides |-> [x \in Svc |->
              IF z = side THEN IF x \in S THEN Drop(g[z][x], names) ELSE g[z][x]
              ELSE Drop(g[z][x], Cut(g, x, S, names, side))]]
  BY DEF RemoveDeps, Cut, Sides, Flip, GraphType
<1> HIDE DEF other, g2
<1>3. g2 = [z \in Sides |-> [x \in Svc |-> g2[z][x]]]
  BY <1>2
<1>4. \A z \in Sides, x \in Svc : g[z][x] \in Dict
  BY DictOf
<1>5. ASSUME NEW x \in S
      PROVE  IsDrop(g2[side][x], g[side][x], names)
  <2>1. g2[side][x] = Drop(g[side][x], names)
    BY <1>2
  <2> QED BY <2>1, <1>4, DropIs
<1>6. \A x \in Svc \ S : g2[side][x] = g[side][x]
  BY <1>2
<1>7. ASSUME NEW x \in Svc
      PROVE  IsDrop(g2[other][x], g[other][x], Cut(g, x, S, names, side))
  <2>1. g2[other][x] = Drop(g[other][x], Cut(g, x, S, names, side))
    BY <1>1, <1>2
  <2> QED BY <2>1, <1>1, <1>4, DropIs
<1>8. ASSUME NEW z \in Sides, NEW x \in Svc
      PROVE  g2[z][x] \in Dict
  <2>1. CASE z = side
    BY <2>1, <1>4, <1>5, <1>6 DEF IsDrop
  <2>2. CASE z = other
    BY <2>2, <1>7 DEF IsDrop
  <2> QED BY <1>1, <2>1, <2>2
<1>9. GraphType(g2)
  BY <1>3, <1>8, GraphTypeIs
<1>10. IsRemoved(g2, g, S, names, side)
  BY <1>5, <1>6, <1>7, <1>9 DEF IsRemoved, other
<1> QED BY <1>10 DEF g2

\* What is left was there: no dictionary gains anything.
Shrunk(g2, g) ==
  \A z \in Sides, x \in Svc : /\ DOMAIN g2[z][x] \subseteq DOMAIN g[z][x]
                              /\ \A k \in DOMAIN g2[z][x] : g2[z][x][k] = g[z][x][k]

LEMMA ShrunkOK ==
  ASSUME NEW g, NEW g2, NEW decl, Keyed(g), GatesInside(g), OnlyDeclared(g, decl), Shrunk(g2, g)
  PROVE  Keyed(g2) /\ GatesInside(g2) /\ OnlyDeclared(g2, decl)
<1>1. \A z \in Sides, x \in Svc : Targets(g2[z][x]) \subseteq Targets(g[z][x])
  BY DEF Shrunk, Targets
<1>2. Keyed(g2)
  BY DEF Keyed, Shrunk
<1>3. GatesInside(g2)
  <2> SUFFICES ASSUME NEW z \in Sides, NEW h \in Group
               PROVE  /\ Targets(g2[z][Gate(h, z)]) \subseteq Sub[h]
                      /\ \A x \in Svc : Gate(h, z) \notin Targets(g2[z][x])
    BY InsideGates
  <2>1. Gate(h, z) \in Svc
    BY GateFacts
  <2> QED BY <1>1, <2>1, InsideGate
<1>4. "parents" \in Sides /\ Own \subseteq Svc
  BY OwnOrGate DEF Sides
<1>5. OnlyDeclared(g2, decl)
  BY <1>1, <1>4 DEF OnlyDeclared
<1> QED BY <1>2, <1>3, <1>5

\* Another entity of the same short name that depends on what is removed is excused.
Alone(g, S, side, decl) ==
  \A s \in S, x \in Svc : \A k \in DOMAIN g[side][x] :
    s # x /\ Label[s] = Label[x] /\ g[side][x][k].target \in Targets(g[side][s])
          /\ Answered(g, side, x, g[side][x][k])
      => Excused(decl, side, x, g[side][x][k].target)

LEMMA RemoveDepsOK ==
  ASSUME NEW g, NEW decl, GraphOK(g, decl), NEW S \in SUBSET Svc, NEW names,
         NEW side \in Sides, Alone(g, S, side, decl)
  PROVE  GraphOK(RemoveDeps(g, S, names, side), decl)
<1> DEFINE g2 == RemoveDeps(g, S, names, side)
           other == Flip(side)
<1>1. /\ other \in Sides /\ other # side /\ other = Flip(side) /\ Flip(other) = side
      /\ \A z \in Sides : z = side \/ z = other
  BY FlipOther DEF Sides
<1>2. GraphType(g) /\ Keyed(g) /\ GatesInside(g) /\ OnlyDeclared(g, decl) /\ MirroredIn(g, decl)
  BY DEF GraphOK
<1>3. IsRemoved(g2, g, S, names, side)
  BY <1>2, RemoveDepsIs
<1> HIDE DEF other, g2
<1>4. ASSUME NEW x \in Svc
      PROVE  /\ DOMAIN g2[side][x] = DOMAIN g[side][x] \ (IF x \in S THEN names ELSE {})
             /\ \A k \in DOMAIN g2[side][x] : g2[side][x][k] = g[side][x][k]
             /\ DOMAIN g2[other][x] = DOMAIN g[other][x] \ Cut(g, x, S, names, side)
             /\ \A k \in DOMAIN g2[other][x] : g2[other][x][k] = g[other][x][k]
  BY <1>1, <1>3 DEF IsRemoved, IsDrop
<1>5. Shrunk(g2, g)
  BY <1>1, <1>4 DEF Shrunk
<1>6. \A x \in Svc : \A k \in Cut(g, x, S, names, side) :
        \E s \in S : \E i \in DOMAIN g[side][s] \cap names :
          Label[s] = k /\ g[side][s][i].target = x
  BY DEF Cut, Removed
<1>7. \A x \in Svc, s \in S : \A i \in DOMAIN g[side][s] \cap names :
        g[side][s][i].target = x => Label[s] \in Cut(g, x, S, names, side)
  BY DEF Cut, Removed
<1>8. ASSUME NEW x \in Svc, NEW k \in DOMAIN g2[side][x]
      PROVE  Excused(decl, side, x, g2[side][x][k].target) \/ Answered(g2, side, x, g2[side][x][k])
  <2> DEFINE e == g[side][x][k]
  <2>1. k \in DOMAIN g[side][x] /\ g2[side][x][k] = e /\ (x \in S => k \notin names)
    BY <1>4
  <2>2. e.target \in Svc /\ Label[e.target] = k
    BY <2>1, <1>2, EntryOf DEF Keyed
  <2>3. Excused(decl, side, x, e.target) \/ Answered(g, side, x, e)
    BY <2>1, <1>2 DEF MirroredIn
  <2>4. ASSUME Answered(g, side, x, e), Label[x] \in Cut(g, e.target, S, names, side)
        PROVE  Excused(decl, side, x, e.target)
    <3>0. PICK s \in S : \E i \in DOMAIN g[side][s] \cap names :
            Label[s] = Label[x] /\ g[side][s][i].target = e.target
      BY <2>2, <2>4, <1>6
    <3>1. PICK i \in DOMAIN g[side][s] \cap names :
            Label[s] = Label[x] /\ g[side][s][i].target = e.target
      BY <3>0
    <3>2. i = k
      BY <3>1, <2>2, <1>2 DEF Keyed
    <3>3. s # x
      BY <3>1, <3>2, <2>1
    <3>4. e.target \in Targets(g[side][s])
      BY <3>1 DEF Targets
    <3> QED BY <3>1, <3>3, <3>4, <2>1, <2>4 DEF Alone
  <2>5. ASSUME Answered(g, side, x, e), Label[x] \notin Cut(g, e.target, S, names, side)
        PROVE  Answered(g2, side, x, e)
    <3>1. Label[x] \in DOMAIN g[other][e.target]
          /\ g[other][e.target][Label[x]] = [target |-> x, type |-> e.type]
      BY <2>5, <1>1 DEF Answered
    <3>2. Label[x] \in DOMAIN g2[other][e.target]
          /\ g2[other][e.target][Label[x]] = [target |-> x, type |-> e.type]
      BY <3>1, <2>2, <2>5, <1>4
    <3> QED BY <3>2, <1>1 DEF Answered
  <2> QED BY <2>1, <2>3, <2>4, <2>5
<1>9. ASSUME NEW x \in Svc, NEW k \in DOMAIN g2[other][x]
      PROVE  Excused(decl, other, x, g2[other][x][k].target) \/ Answered(g2, other, x, g2[other][x][k])
  <2> DEFINE e == g[other][x][k]
  <2>1. k \in DOMAIN g[other][x] /\ g2[other][x][k] = e /\ k \notin Cut(g, x, S, names, side)
    BY <1>4
  <2>2. e.target \in Svc /\ Label[e.target] = k
    BY <2>1, <1>1, <1>2, EntryOf DEF Keyed
  <2>3. Excused(decl, other, x, e.target) \/ Answered(g, other, x, e)
    BY <2>1, <1>1, <1>2 DEF MirroredIn
  <2>4. ASSUME Answered(g, other, x, e)
        PROVE  Answered(g2, other, x, e)
    <3>1. Label[x] \in DOMAIN g[side][e.target]
          /\ g[side][e.target][Label[x]] = [target |-> x, type |-> e.type]
      BY <2>4, <1>1 DEF Answered
    <3>2. ~(e.target \in S /\ Label[x] \in names)
      <4> HIDE DEF e
      <4> SUFFICES ASSUME e.target \in S, Label[x] \in names PROVE FALSE
        OBVIOUS
      <4>1. g[side][e.target][Label[x]].target = x
        BY <3>1
      <4>2. Label[e.target] \in Cut(g, x, S, names, side)
        BY <3>1, <4>1, <1>7
      <4> QED BY <4>2, <2>1, <2>2
    <3>3. Label[x] \in DOMAIN g2[side][e.target]
          /\ g2[side][e.target][Label[x]] = [target |-> x, type |-> e.type]
      BY <3>1, <3>2, <2>2, <1>4
    <3> QED BY <3>3, <1>1 DEF Answered
  <2> QED BY <2>1, <2>3, <2>4
<1>10. MirroredIn(g2, decl)
  <2>1. \A z \in Sides, x \in Svc : \A k \in DOMAIN g2[z][x] :
          Excused(decl, z, x, g2[z][x][k].target) \/ Answered(g2, z, x, g2[z][x][k])
    BY <1>1, <1>8, <1>9
  <2> QED BY <2>1 DEF MirroredIn
<1>11. GraphType(g2)
  BY <1>3 DEF IsRemoved
<1>12. GraphOK(g2, decl)
  BY <1>2, <1>5, <1>10, <1>11, ShrunkOK DEF GraphOK
<1> QED BY <1>12 DEF g2

\* The dependencies of a gate, on the side of its group
LEMMA AloneGate ==
  ASSUME GatesApart, NEW g, NEW decl, GraphOK(g, decl), NEW grp \in Group, NEW side \in Sides,
         NEW S, S = {Gate(grp, side)}
  PROVE  S \in SUBSET Svc /\ Alone(g, S, side, decl)
<1>1. GatesInside(g) /\ Gate(grp, side) \in Svc
  BY GateFacts DEF GraphOK
<1>2. Targets(g[side][Gate(grp, side)]) \subseteq Sub[grp]
  BY <1>1, InsideGate
<1>3. ASSUME NEW x \in Svc, NEW k \in DOMAIN g[side][x],
             Label[x] = Label[Gate(grp, side)],
             g[side][x][k].target \in Targets(g[side][Gate(grp, side)])
      PROVE  x = Gate(grp, side)
  <2>1. g[side][x][k].target \in Sub[grp] /\ g[side][x][k].target \in Targets(g[side][x])
    BY <1>2, <1>3 DEF Targets
  <2> QED BY <2>1, <1>1, <1>3, OnlyGate
<1>4. Alone(g, S, side, decl)
  <2> SUFFICES ASSUME NEW s \in S, NEW x \in Svc, NEW k \in DOMAIN g[side][x],
                      s # x, Label[s] = Label[x],
                      g[side][x][k].target \in Targets(g[side][s])
               PROVE  FALSE
    BY DEF Alone
  <2> QED BY <1>3
<1> QED BY <1>1, <1>4

\* Those of subservices of one group
LEMMA AloneSubs ==
  ASSUME NEW g, NEW decl, GraphOK(g, decl), NEW grp \in Group, NEW side \in Sides,
         NEW S \in SUBSET Sub[grp]
  PROVE  S \in SUBSET Svc /\ Alone(g, S, side, decl)
<1>1. GraphType(g) /\ Keyed(g) /\ GatesInside(g) /\ OnlyDeclared(g, decl) /\ MirroredIn(g, decl)
  BY DEF GraphOK
<1>2. S \subseteq Own /\ S \subseteq Svc /\ Sub[grp] \subseteq Own
  BY OwnOrGate
<1> SUFFICES ASSUME NEW s \in S, NEW x \in Svc, NEW k \in DOMAIN g[side][x],
                    s # x, Label[s] = Label[x],
                    g[side][x][k].target \in Targets(g[side][s]),
                    Answered(g, side, x, g[side][x][k])
             PROVE  Excused(decl, side, x, g[side][x][k].target)
  BY <1>2 DEF Alone
<1> DEFINE t == g[side][x][k].target
<1>3. t \in Svc /\ s \in Svc /\ s \in Own /\ s \notin Gates
  BY <1>1, <1>2, EntryOf, OwnOrGate
<1>4. Label[x] \in DOMAIN g[Flip(side)][t] /\ g[Flip(side)][t][Label[x]].target = x
  BY DEF Answered
<1>5. CASE side = "children"
  <2>1. PICK i \in DOMAIN g[side][s] : g[side][s][i].target = t
    BY DEF Targets
  <2>2. Excused(decl, side, s, t) \/ Answered(g, side, s, g[side][s][i])
    BY <1>1, <1>3, <2>1 DEF MirroredIn
  <2>3. ~Excused(decl, side, s, t)
    BY <1>3, <1>5 DEF Excused, HalfEdge, Gates
  <2>4. g[Flip(side)][t][Label[s]].target = s
    BY <2>1, <2>2, <2>3 DEF Answered
  <2> QED BY <2>4, <1>4
<1>6. CASE side = "parents"
  <2>1. t \in DOMAIN decl[s] \/ \E h \in Group : t = Sink[h] /\ s \in Sub[h]
    BY <1>1, <1>3, <1>6 DEF OnlyDeclared
  <2>2. CASE t \in DOMAIN decl[s]
    BY <2>2, <1>3, <1>6 DEF Excused
  <2>3. ASSUME NEW h \in Group, t = Sink[h], s \in Sub[h]
        PROVE  FALSE
    <3>1. x \in Targets(g["children"][Sink[h]])
      BY <2>3, <1>4, <1>6 DEF Targets, Flip
    <3>2. x \in Sub[h]
      BY <3>1, <1>1 DEF GatesInside
    <3> QED BY <3>2, <2>3, <1>3, LabelAssumption
  <2> QED BY <2>1, <2>2, <2>3
<1> QED BY <1>5, <1>6 DEF Sides

\* Where no two entities of the same short name depend on the same one, all that
\* is cut has its other end.
LEMMA CutWorks ==
  ASSUME GatesApart, GraphOK(graph, declared), NoCollision, NEW grp \in Group,
         NEW side \in Sides, NEW S, S \subseteq Sub[grp] \/ S = {Gate(grp, side)}, NEW names
  PROVE  CanRemoveDeps(graph, S, names, side)
<1>1. /\ GraphType(graph) /\ Keyed(graph) /\ GatesInside(graph)
      /\ OnlyDeclared(graph, declared) /\ MirroredIn(graph, declared)
  BY DEF GraphOK
<1> SUFFICES ASSUME NEW s \in S, NEW k \in DOMAIN graph[side][s]
             PROVE  Label[s] \in DOMAIN graph[Flip(side)][graph[side][s][k].target]
  BY DEF CanRemoveDeps, Removed
<1> DEFINE e == graph[side][s][k]
           t == e.target
<1>2. s \in Svc /\ (s \in Own \/ s = Gate(grp, side))
  BY OwnOrGate, GateFacts
<1>3. t \in Svc /\ t \in Targets(graph[side][s])
  BY <1>1, <1>2, EntryOf
<1>4. Excused(declared, side, s, t) \/ Answered(graph, side, s, e)
  BY <1>1, <1>2 DEF MirroredIn
<1> HIDE DEF e
<1>5. ~HalfEdge(s, t)
  <2>1. CASE s \in Own
    BY <2>1, OwnOrGate DEF HalfEdge, Gates
  <2>2. CASE s = Gate(grp, side)
    <3>1. t \in Sub[grp]
      BY <2>2, <1>1, <1>3, InsideGate
    <3> QED BY <2>2, <3>1, TreeAssumption DEF HalfEdge, Gate
  <2> QED BY <1>2, <2>1, <2>2
<1>6. ASSUME side = "parents", NEW u \in Svc \ {s}, Label[u] = Label[s], t \in DOMAIN declared[u]
      PROVE  FALSE
  <2>1. t \in Own
    BY <1>1, <1>6 DEF OnlyDeclared
  <2>2. CASE s \in Own
    <3>1. t \in DOMAIN declared[s] \/ \E h \in Group : t = Sink[h]
      BY <2>2, <1>1, <1>3, <1>6 DEF OnlyDeclared
    <3>2. t \in DOMAIN declared[s]
      BY <3>1, <2>1, OwnOrGate DEF Gates
    <3>3. Collide(s, t)
      BY <1>6 DEF Collide
    <3> QED BY <3>2, <3>3, <1>2 DEF NoCollision
  <2>3. CASE s = Gate(grp, side)
    <3>1. u \in Gates
      BY <2>3, <1>6, GateFacts
    <3> QED BY <3>1, <1>1, <1>6 DEF OnlyDeclared
  <2> QED BY <1>2, <2>2, <2>3
<1>7. Answered(graph, side, s, e)
  BY <1>4, <1>5, <1>6 DEF Excused
<1> QED BY <1>7 DEF Answered, e
-------------------------------------------------------------------------------
(* set_algo_reversed *)

IsMoved(g2, g, side) ==
  /\ GraphType(g2)
  /\ \A x \in Svc :
       /\ IsDrop(g2[side][x], g[side][x],
                 {Label[h] : h \in {i \in Group : Gate(i, Flip(side)) = x}})
       /\ IsPut(g2[Flip(side)][x], g[Flip(side)][x],
                {h \in Group : Gate(h, side) = x}, REQUIRE)

LEMMA MoveHalfEdgesIs ==
  ASSUME NEW g, GraphType(g), NEW side \in Sides, NEW gate, NEW otherGate,
         \A h \in Group : gate[h] = Gate(h, Flip(side)) /\ otherGate[h] = Gate(h, side)
  PROVE  IsMoved(MoveHalfEdges(g, side, gate, otherGate), g, side)
<1> DEFINE g2 == MoveHalfEdges(g, side, gate, otherGate)
           other == Flip(side)
           Lost(x) == {Label[h] : h \in {i \in Group : Gate(i, other) = x}}
           Got(x) == {h \in Group : Gate(h, side) = x}
<1>1. other \in Sides /\ other # side /\ \A z \in Sides : z = side \/ z = other
  BY FlipOther DEF Sides
<1>2. ASSUME NEW x \in Svc
      PROVE  {Label[h] : h \in GroupsOf(gate, x)} = Lost(x) /\ GroupsOf(otherGate, x) = Got(x)
  BY DEF GroupsOf
<1>3. \A z \in Sides, x \in Svc : g[z][x] \in Dict
  BY DictOf
<1>4. g2 = [z \in Sides |-> [x \in Svc |->
              IF z = side THEN Drop(g[z][x], {Label[h] : h \in GroupsOf(gate, x)})
              ELSE Put(g[z][x], GroupsOf(otherGate, x), REQUIRE)]]
  BY DEF MoveHalfEdges, Sides, Flip, GraphType
<1> HIDE DEF g2, Lost, Got, other
<1>5. g2 = [z \in Sides |-> [x \in Svc |-> g2[z][x]]]
  BY <1>4
<1>6. ASSUME NEW x \in Svc
      PROVE  /\ IsDrop(g2[side][x], g[side][x], Lost(x))
             /\ IsPut(g2[other][x], g[other][x], Got(x), REQUIRE)
  <2>1. g2[side][x] = Drop(g[side][x], Lost(x))
    BY <1>2, <1>4
  <2>2. g2[other][x] = Put(g[other][x], Got(x), REQUIRE)
    BY <1>1, <1>2, <1>4
  <2>3. Got(x) \in SUBSET Svc /\ REQUIRE \in Strength
    BY StructureAssumption DEF Got, Strength
  <2>4. IsDrop(g2[side][x], g[side][x], Lost(x))
    BY <2>1, <1>3, DropIs
  <2>5. IsPut(g2[other][x], g[other][x], Got(x), REQUIRE)
    BY <2>2, <2>3, <1>1, <1>3, PutIs
  <2> QED BY <2>4, <2>5
<1>7. \A z \in Sides, x \in Svc : g2[z][x] \in Dict
  BY <1>1, <1>6 DEF IsDrop, IsPut
<1>8. GraphType(g2)
  BY <1>5, <1>7, GraphTypeIs
<1>9. IsMoved(g2, g, side)
  BY <1>6, <1>8 DEF IsMoved, Lost, Got, other
<1> QED BY <1>9 DEF g2

LEMMA MoveHalfEdgesOK ==
  ASSUME NEW g, NEW decl, GraphOK(g, decl), NEW side \in Sides, NEW g2, IsMoved(g2, g, side)
  PROVE  GraphOK(g2, decl)
<1> DEFINE other == Flip(side)
           Got(x) == {h \in Group : Gate(h, side) = x}
           Lost(x) == {Label[h] : h \in {i \in Group : Gate(i, other) = x}}
<1>1. /\ other \in Sides /\ other # side /\ other = Flip(side) /\ Flip(other) = side
      /\ \A z \in Sides : z = side \/ z = other
  BY FlipOther DEF Sides
<1>2. GraphType(g) /\ Keyed(g) /\ GatesInside(g) /\ OnlyDeclared(g, decl) /\ MirroredIn(g, decl)
  BY DEF GraphOK
<1>3. \A x \in Svc : x \notin Gates => Got(x) = {} /\ Labels(Got(x)) = {}
  BY GateFacts DEF Labels
<1>4. \A h \in Group : Labels(Got(Gate(h, other))) = {} /\ Got(Gate(h, other)) = {}
  BY <1>1, GateFacts DEF Labels
<1>5. \A x \in Svc : /\ IsDrop(g2[side][x], g[side][x], Lost(x))
                     /\ IsPut(g2[other][x], g[other][x], Got(x), REQUIRE)
  BY DEF IsMoved
<1>6. \A x \in Svc : \A h \in Got(x) : h \in Group /\ h \in Svc /\ h \in Own /\ x = Gate(h, side)
  BY StructureAssumption DEF Own
<1>7. \A x \in Svc : (\A h \in Group : x # Gate(h, other)) => Lost(x) = {}
  OBVIOUS
<1> HIDE DEF other, Got, Lost
<1>8. ASSUME NEW x \in Svc
      PROVE  /\ \A k \in DOMAIN g2[side][x] : k \in DOMAIN g[side][x] /\ g2[side][x][k] = g[side][x][k]
             /\ \A k \in DOMAIN g[side][x] : k \notin Lost(x) =>
                  k \in DOMAIN g2[side][x] /\ g2[side][x][k] = g[side][x][k]
  BY <1>5 DEF IsDrop
<1>9. ASSUME NEW x \in Svc, NEW k \in DOMAIN g2[other][x]
      PROVE  \/ /\ k \in DOMAIN g[other][x] /\ g2[other][x][k] = g[other][x][k]
                /\ k \notin Labels(Got(x))
             \/ \E h \in Got(x) : k = Label[h] /\ g2[other][x][k] = [target |-> h, type |-> REQUIRE]
  BY <1>5 DEF IsPut
<1>10. ASSUME NEW x \in Svc, NEW k \in DOMAIN g[other][x], k \notin Labels(Got(x))
       PROVE  k \in DOMAIN g2[other][x] /\ g2[other][x][k] = g[other][x][k]
  BY <1>5, <1>10 DEF IsPut
<1>11. Keyed(g2)
  <2>1. \A x \in Svc : \A k \in DOMAIN g2[side][x] : Label[g2[side][x][k].target] = k
    BY <1>2, <1>8 DEF Keyed
  <2>2. ASSUME NEW x \in Svc, NEW k \in DOMAIN g2[other][x]
        PROVE  Label[g2[other][x][k].target] = k
    <3>1. CASE k \in DOMAIN g[other][x] /\ g2[other][x][k] = g[other][x][k]
      BY <3>1, <1>1, <1>2 DEF Keyed
    <3>2. CASE \E h \in Got(x) : k = Label[h] /\ g2[other][x][k] = [target |-> h, type |-> REQUIRE]
      BY <3>2
    <3> QED BY <3>1, <3>2, <1>9
  <2> QED BY <2>1, <2>2, <1>1 DEF Keyed
<1>12. ASSUME NEW x \in Svc
       PROVE  /\ Targets(g2[side][x]) \subseteq Targets(g[side][x])
              /\ Targets(g2[other][x]) \subseteq Targets(g[other][x]) \cup Got(x)
  <2>1. Targets(g2[side][x]) \subseteq Targets(g[side][x])
    BY <1>8 DEF Targets
  <2>2. ASSUME NEW k \in DOMAIN g2[other][x]
        PROVE  g2[other][x][k].target \in Targets(g[other][x]) \cup Got(x)
    <3>1. CASE k \in DOMAIN g[other][x] /\ g2[other][x][k] = g[other][x][k]
      BY <3>1 DEF Targets
    <3>2. CASE \E h \in Got(x) : k = Label[h] /\ g2[other][x][k] = [target |-> h, type |-> REQUIRE]
      BY <3>2
    <3> QED BY <3>1, <3>2, <1>9
  <2>3. Targets(g2[other][x]) \subseteq Targets(g[other][x]) \cup Got(x)
    BY <2>2 DEF Targets
  <2> QED BY <2>1, <2>3
<1>13. GatesInside(g2)
  <2> SUFFICES ASSUME NEW z \in Sides, NEW h \in Group
               PROVE  /\ Targets(g2[z][Gate(h, z)]) \subseteq Sub[h]
                      /\ \A x \in Svc : Gate(h, z) \notin Targets(g2[z][x])
    BY InsideGates
  <2>1. /\ Targets(g[z][Gate(h, z)]) \subseteq Sub[h]
        /\ \A x \in Svc : Gate(h, z) \notin Targets(g[z][x])
    BY <1>2, InsideGate
  <2>2. Gate(h, z) \in Svc /\ Gate(h, z) \notin Own
    BY GateFacts, OwnOrGate
  <2>3. CASE z = side
    BY <2>1, <2>2, <2>3, <1>12
  <2>4. CASE z = other
    BY <2>1, <2>2, <2>4, <1>4, <1>6, <1>12
  <2> QED BY <1>1, <2>3, <2>4
<1>14. OnlyDeclared(g2, decl)
  <2>1. ASSUME NEW x \in Own
        PROVE  Targets(g2["parents"][x]) \subseteq Targets(g["parents"][x])
    <3>1. x \in Svc /\ Got(x) = {}
      BY <1>3, OwnOrGate
    <3>2. "parents" = side \/ "parents" = other
      BY <1>1 DEF Sides
    <3> QED BY <3>1, <3>2, <1>12
  <2> QED BY <2>1, <1>2 DEF OnlyDeclared
<1>15. ASSUME NEW x \in Svc, NEW k \in DOMAIN g2[side][x]
       PROVE  Excused(decl, side, x, g2[side][x][k].target) \/ Answered(g2, side, x, g2[side][x][k])
  <2> DEFINE e == g[side][x][k]
  <2>1. k \in DOMAIN g[side][x] /\ g2[side][x][k] = e
    BY <1>8
  <2>2. e.target \in Svc /\ e.target \in Targets(g[side][x])
    BY <2>1, <1>2, EntryOf
  <2>3. Excused(decl, side, x, e.target) \/ Answered(g, side, x, e)
    BY <2>1, <1>2 DEF MirroredIn
  <2>4. Labels(Got(e.target)) = {}
    <3>1. \A h \in Group : Gate(h, side) # e.target
      BY <2>2, <1>2, InsideGate
    <3>2. Got(e.target) = {}
      BY <3>1, <1>6, <2>2
    <3> QED BY <3>2 DEF Labels
  <2>5. ASSUME Answered(g, side, x, e)
        PROVE  Answered(g2, side, x, e)
    BY <2>2, <2>4, <2>5, <1>10 DEF Answered, other
  <2> QED BY <2>1, <2>3, <2>5
<1>16. ASSUME NEW x \in Svc, NEW k \in DOMAIN g2[other][x]
       PROVE  Excused(decl, other, x, g2[other][x][k].target) \/ Answered(g2, other, x, g2[other][x][k])
  <2>1. CASE \E h \in Got(x) : k = Label[h] /\ g2[other][x][k] = [target |-> h, type |-> REQUIRE]
    <3>1. PICK h \in Got(x) : g2[other][x][k] = [target |-> h, type |-> REQUIRE]
      BY <2>1
    <3>2. HalfEdge(x, h)
      BY <1>6 DEF HalfEdge, Gate
    <3> QED BY <3>1, <3>2 DEF Excused
  <2>2. CASE k \in DOMAIN g[other][x] /\ g2[other][x][k] = g[other][x][k]
    <3> DEFINE e == g[other][x][k]
    <3>1. e.target \in Svc /\ e.target \in Targets(g[other][x])
      BY <2>2, <1>1, <1>2, EntryOf
    <3>2. Excused(decl, other, x, e.target) \/ Answered(g, other, x, e)
      BY <2>2, <1>1, <1>2 DEF MirroredIn
    <3>3. Lost(e.target) = {}
      <4>1. \A h \in Group : Gate(h, other) # e.target
        BY <3>1, <1>1, <1>2, InsideGate
      <4> QED BY <4>1, <3>1, <1>7
    <3>4. ASSUME Answered(g, other, x, e)
          PROVE  Answered(g2, other, x, e)
      <4>1. Label[x] \in DOMAIN g[side][e.target]
            /\ g[side][e.target][Label[x]] = [target |-> x, type |-> e.type]
        BY <3>4, <1>1 DEF Answered
      <4>2. Label[x] \in DOMAIN g2[side][e.target]
            /\ g2[side][e.target][Label[x]] = [target |-> x, type |-> e.type]
        BY <4>1, <3>1, <3>3, <1>8
      <4> QED BY <4>2, <1>1 DEF Answered
    <3> QED BY <2>2, <3>2, <3>4
  <2> QED BY <2>1, <2>2, <1>9
<1>17. MirroredIn(g2, decl)
  <2>1. \A z \in Sides, x \in Svc : \A k \in DOMAIN g2[z][x] :
          Excused(decl, z, x, g2[z][x][k].target) \/ Answered(g2, z, x, g2[z][x][k])
    BY <1>1, <1>15, <1>16
  <2> QED BY <2>1 DEF MirroredIn
<1>18. GraphType(g2)
  BY DEF IsMoved
<1> QED BY <1>11, <1>13, <1>14, <1>17, <1>18 DEF GraphOK

LEMMA AlgoReversedOK ==
  ASSUME NEW g, NEW decl, GraphOK(g, decl), NEW from, NEW to
  PROVE  GraphOK(AlgoReversed(g, from, to), decl)
<1>1. /\ "parents" \in Sides /\ "children" \in Sides
      /\ Flip("parents") = "children" /\ Flip("children") = "parents"
      /\ \A h \in Group : Gate(h, "parents") = Source[h] /\ Gate(h, "children") = Sink[h]
  BY DEF Sides, Flip, Gate
<1>2. GraphType(g)
  BY DEF GraphOK
<1>3. IsMoved(MoveHalfEdges(g, "children", Source, Sink), g, "children")
  BY <1>1, <1>2, MoveHalfEdgesIs
<1>4. IsMoved(MoveHalfEdges(g, "parents", Sink, Source), g, "parents")
  BY <1>1, <1>2, MoveHalfEdgesIs
<1>5. GraphOK(MoveHalfEdges(g, "children", Source, Sink), decl)
  BY <1>1, <1>3, MoveHalfEdgesOK
<1>6. GraphOK(MoveHalfEdges(g, "parents", Sink, Source), decl)
  BY <1>1, <1>4, MoveHalfEdgesOK
<1> QED BY <1>5, <1>6 DEF AlgoReversed

\* __init__ of the groups
LEMMA NewGraphOK ==
  ASSUME NEW decl, \A s \in Svc : DOMAIN decl[s] = {}
  PROVE  GraphOK(NewGraph, decl)
<1> DEFINE g == NewGraph
           Got(s) == GroupsOf(Source, s)
<1>1. /\ "parents" \in Sides /\ "children" \in Sides
      /\ \A z \in Sides : z = "parents" \/ z = "children"
  BY DEF Sides
<1>2. Empty \in Dict /\ DOMAIN Empty = {}
  BY DictIs DEF Empty
<1>3. ASSUME NEW s \in Svc
      PROVE  IsPut(Put(Empty, Got(s), REQUIRE), Empty, Got(s), REQUIRE)
  <2>1. Got(s) \in SUBSET Svc /\ REQUIRE \in Strength
    BY StructureAssumption DEF GroupsOf, Strength
  <2> QED BY <1>2, <2>1, PutIs
<1>4. g = [z \in Sides |-> [s \in Svc |-> IF z = "parents" THEN Empty
                                          ELSE Put(Empty, Got(s), REQUIRE)]]
  BY DEF NewGraph, Sides
<1> HIDE DEF g, Got
<1>5. /\ g = [z \in Sides |-> [s \in Svc |-> g[z][s]]]
      /\ \A s \in Svc : g["parents"][s] = Empty /\ g["children"][s] = Put(Empty, Got(s), REQUIRE)
  BY <1>1, <1>4
<1>6. \A z \in Sides, s \in Svc : g[z][s] \in Dict
  BY <1>1, <1>2, <1>3, <1>5 DEF IsPut
<1>7. GraphType(g)
  BY <1>5, <1>6, GraphTypeIs
<1>8. ASSUME NEW z \in Sides, NEW s \in Svc, NEW k \in DOMAIN g[z][s]
      PROVE  z = "children" /\ \E h \in Group :
               s = Source[h] /\ k = Label[h] /\ g[z][s][k] = [target |-> h, type |-> REQUIRE]
  <2>1. z = "children"
    BY <1>1, <1>2, <1>5
  <2>2. IsPut(g["children"][s], Empty, Got(s), REQUIRE)
    BY <1>3, <1>5
  <2>3. k \in Labels(Got(s))
    BY <2>1, <2>2, <1>2 DEF IsPut
  <2>4. PICK h \in Got(s) : Label[h] = k /\ g[z][s][k] = [target |-> h, type |-> REQUIRE]
    BY <2>1, <2>2, <2>3 DEF IsPut
  <2> QED BY <2>1, <2>4 DEF Got, GroupsOf
<1>9. Keyed(g)
  <2> SUFFICES ASSUME NEW z \in Sides, NEW s \in Svc, NEW k \in DOMAIN g[z][s]
               PROVE  k = Label[g[z][s][k].target]
    BY DEF Keyed
  <2>1. PICK h \in Group : k = Label[h] /\ g[z][s][k] = [target |-> h, type |-> REQUIRE]
    BY <1>8
  <2> QED BY <2>1
<1>10. \A s \in Svc : Targets(g["parents"][s]) = {}
  BY <1>2, <1>5 DEF Targets
<1>11. \A s \in Svc : Targets(g["children"][s]) \subseteq {h \in Group : s = Source[h]}
  <2> SUFFICES ASSUME NEW s \in Svc, NEW k \in DOMAIN g["children"][s]
               PROVE  /\ g["children"][s][k].target \in Group
                      /\ s = Source[g["children"][s][k].target]
    BY DEF Targets
  <2>1. PICK h \in Group : s = Source[h] /\ g["children"][s][k] = [target |-> h, type |-> REQUIRE]
    BY <1>1, <1>8
  <2> QED BY <2>1
<1>12. GatesInside(g)
  <2>1. \A grp \in Group : /\ Source[grp] \in Svc /\ Sink[grp] \in Svc /\ Sink[grp] \notin Group
                           /\ \A h \in Group : Sink[grp] # Source[h]
    BY StructureAssumption, TreeAssumption
  <2>2. \A grp \in Group : /\ Targets(g["parents"][Source[grp]]) = {}
                           /\ Targets(g["children"][Sink[grp]]) = {}
    BY <2>1, <1>10, <1>11
  <2>3. \A s \in Svc, grp \in Group : /\ Source[grp] \notin Targets(g["parents"][s])
                                      /\ Sink[grp] \notin Targets(g["children"][s])
    BY <2>1, <1>10, <1>11
  <2> QED BY <2>2, <2>3 DEF GatesInside
<1>13. OnlyDeclared(g, decl)
  BY <1>10, OwnOrGate DEF OnlyDeclared
<1>14. MirroredIn(g, decl)
  <2> SUFFICES ASSUME NEW z \in Sides, NEW s \in Svc, NEW k \in DOMAIN g[z][s]
               PROVE  Excused(decl, z, s, g[z][s][k].target)
    BY DEF MirroredIn
  <2>1. PICK h \in Group : s = Source[h] /\ g[z][s][k] = [target |-> h, type |-> REQUIRE]
    BY <1>8
  <2> QED BY <2>1 DEF Excused, HalfEdge
<1>15. GraphOK(g, decl)
  BY <1>7, <1>9, <1>12, <1>13, <1>14 DEF GraphOK
<1> QED BY <1>15 DEF g
-------------------------------------------------------------------------------
(* The steps of the manager *)

LEMMA SpotIs == Side \in Sides /\ Spot = Gate(MAIN, Side) /\ MAIN \in Group
BY StructureAssumption DEF Side, Spot, Gate, Sides

LEMMA SelectOK ==
  ASSUME GatesApart, GraphOK(graph, declared), NEW names
  PROVE  GraphOK(Select(graph, names), declared)
<1> DEFINE S    == {Spot}
           left == RemoveDeps(graph, S, Others(graph, names), Side)
           T    == {s \in Sub[MAIN] : Label[s] \in names \ DOMAIN graph[Side][Spot]}
<1>1. S \in SUBSET Svc /\ Alone(graph, S, Side, declared)
  <2>1. S = {Gate(MAIN, Side)}
    BY SpotIs
  <2> HIDE DEF S
  <2> QED BY <2>1, SpotIs, AloneGate
<1>2. GraphType(graph) /\ Spot \in S
  BY DEF GraphOK
<1>3. T \in SUBSET Sub[MAIN]
  OBVIOUS
<1>4. \A t \in T : Label[t] \notin DOMAIN graph[Side][Spot]
  OBVIOUS
<1> HIDE DEF S, T
<1>5. GraphOK(left, declared)
  BY <1>1, SpotIs, RemoveDepsOK
<1>6. IsRemoved(left, graph, S, Others(graph, names), Side)
  BY <1>1, <1>2, SpotIs, RemoveDepsIs
<1>7. DOMAIN left[Side][Spot] \subseteq DOMAIN graph[Side][Spot]
  BY <1>2, <1>6 DEF IsRemoved, IsDrop
<1> HIDE DEF left
<1>8. \A t \in T : Label[t] \notin DOMAIN left[Side][Gate(MAIN, Side)]
  BY <1>4, <1>7, SpotIs
<1>9. GraphOK(AddDeps(left, Spot, T, REQUIRE, Side), declared)
  BY <1>3, <1>5, <1>8, SpotIs, BindGateOK
<1> QED BY <1>9 DEF Select, left, S, T

\* The services that a call starts from are in MAIN.
LEMMA EntriesInside ==
  ASSUME GraphOK(graph, declared)
  PROVE  Targets(graph[Side][Spot]) \subseteq Sub[MAIN]
BY SpotIs, InsideGate DEF GraphOK

\* The group that is being filled is the first one of the load.
LEMMA FramesAre ==
  ASSUME NEW frames \in Seq(FrameSet), NEW f \in FrameSet
  PROVE  /\ [frames EXCEPT ![1] = f] \in Seq(FrameSet)
         /\ <<f>> \o frames \in Seq(FrameSet)
<1>1. PICK n \in Nat : frames \in [1..n -> FrameSet]
  OBVIOUS
<1>2. [frames EXCEPT ![1] = f] \in [1..n -> FrameSet]
  BY <1>1
<1> QED BY <1>1, <1>2

LEMMA FrameIs ==
  ASSUME yaml \in Files, NEW g \in Group
  PROVE  Frame(g) \in FrameSet
<1>1. FileOK(yaml)
  BY FileAssumption
<1>2. \A s \in Svc : Wrap(yaml, s) \subseteq Strength \X Seq(STRING)
  <2> SUFFICES ASSUME NEW s \in Svc
               PROVE  Wrap(yaml, s) \subseteq Strength \X Seq(STRING)
    OBVIOUS
  <2> DEFINE Of(prop) == {d[2] : d \in {e \in yaml.deps[s] : e[1] = prop}}
             Or(names, others) == IF names # {} THEN names ELSE others
             Weak    == Or(Of("after"), Or(Of("before"), Of("require_weak")))
             Filtering == Or(Of("require_filter"), Of("filter"))
  <2>1. yaml.deps[s] \subseteq Properties \X Seq(STRING)
    BY <1>1 DEF FileOK
  <2>2. \A prop : Of(prop) \subseteq Seq(STRING)
    BY <2>1
  <2> HIDE DEF Of
  <2>3. {REQUIRE, REQUIRE_WEAK, CHECK, FILTER} \subseteq Strength
    BY DEF Strength
  <2>4. /\ {REQUIRE} \X Of("require") \subseteq Strength \X Seq(STRING)
        /\ {CHECK} \X Of("check") \subseteq Strength \X Seq(STRING)
    BY <2>2, <2>3
  <2>5. Wrap(yaml, s) = ({REQUIRE} \X Of("require")) \cup ({REQUIRE_WEAK} \X Weak)
                        \cup ({CHECK} \X Of("check")) \cup ({FILTER} \X Filtering)
    BY DEF Wrap, Of, Weak, Filtering, Or
  <2>6. Weak \subseteq Seq(STRING) /\ Filtering \subseteq Seq(STRING)
    BY <2>2
  <2> HIDE DEF Weak, Filtering
  <2>7. /\ {REQUIRE_WEAK} \X Weak \subseteq Strength \X Seq(STRING)
        /\ {FILTER} \X Filtering \subseteq Strength \X Seq(STRING)
    BY <2>3, <2>6
  <2> QED BY <2>4, <2>5, <2>7
<1>3. Sub[g] \subseteq Svc
  BY StructureAssumption
<1> DEFINE links == UNION {{s} \X Wrap(yaml, s) : s \in Sub[g]}
<1>4. \A l \in links : l \in Svc \X (Strength \X Seq(STRING)) /\ l[1] \in Sub[g]
  BY <1>2, <1>3
<1> HIDE DEF links
<1>5. [group |-> g, bound |-> FALSE, links |-> links, rest |-> Sub[g] \cap Group] \in FrameSet
  BY <1>4 DEF FrameSet
<1> QED BY <1>5 DEF Frame, links

LEMMA ManagerInit == Init => ManagerInv
<1> SUFFICES ASSUME Init PROVE ManagerInv
  OBVIOUS
<1> USE DEF Init, LoaderInit
<1>1. yaml \in Files /\ loading \in Seq(FrameSet)
  OBVIOUS
<1>2. declared \in DeclaredSet /\ \A s \in Svc : DOMAIN declared[s] = {}
  <2>1. Empty \in [{} -> Strength] /\ DOMAIN Empty = {}
    BY DEF Empty
  <2>2. Empty \in UNION {[D -> Strength] : D \in SUBSET Svc}
    BY <2>1
  <2> QED BY <2>1, <2>2 DEF DeclaredSet
<1>3. GraphOK(graph, declared)
  BY <1>2, NewGraphOK
<1>4. CutsSucceed
  BY NoneAssumption DEF CutsSucceed
<1> QED BY <1>1, <1>2, <1>3, <1>4 DEF ManagerInv

\* A dependency that is declared stays, and so do collisions.
LEMMA DeclaredGrows ==
  ASSUME \A s \in Svc : DOMAIN declared[s] \subseteq DOMAIN declared'[s]
  PROVE  /\ GatesUnnamed' => GatesUnnamed
         /\ NoCollision' => NoCollision
<1>1. GatesUnnamed' => GatesUnnamed
  BY DEF GatesUnnamed, GatesApart
<1>2. NoCollision' => NoCollision
  BY DEF NoCollision, Collide
<1> QED BY <1>1, <1>2

\* A step that neither loads nor links
LEMMA GraphStep ==
  ASSUME ManagerInv, UNCHANGED <<yaml, loading, declared>>,
         GatesUnnamed /\ GraphOK(graph, declared) => GraphOK(graph', declared) /\ CutsSucceed'
  PROVE  ManagerInv'
<1>1. GatesUnnamed' => GatesUnnamed
  BY DeclaredGrows
<1>2. GatesUnnamed => GraphOK(graph', declared') /\ CutsSucceed'
  BY DEF ManagerInv
<1> QED BY <1>1, <1>2 DEF ManagerInv

LEMMA SameFailure ==
  ASSUME CutsSucceed, UNCHANGED declared, failure' = failure \/ failure' # "KeyError"
  PROVE  CutsSucceed'
BY DEF CutsSucceed, NoCollision, Collide

LEMMA LinkStep ==
  ASSUME ManagerInv, NEW s \in Svc, NEW type \in Strength, NEW name, Link(s, type, name)
  PROVE  ManagerInv'
<1>1. /\ Loading /\ <<s, <<type, name>>>> \in Top.links
      /\ UNCHANGED yaml
  BY DEF Link
<1>2. loading \in Seq(FrameSet) /\ loading # <<>> /\ yaml \in Files /\ declared \in DeclaredSet
  BY <1>1 DEF Loading, ManagerInv
<1>3. 1 \in DOMAIN loading /\ loading[1] \in FrameSet /\ Top = loading[1]
  BY <1>2 DEF Top
<1>4. Top.group \in Group /\ s \in Sub[Top.group]
  BY <1>1, <1>3 DEF FrameSet
<1>5. s \in Own
  BY <1>4, OwnOrGate
<1>6. PICK t \in Svc \cup {None} :
        IF t = None \/ ~CanAddDep(graph, s, t, "parents")
        THEN /\ failure' = IF t = None THEN "UnknownDependencyError"
                                       ELSE "DependencyAlreadyReferenced"
             /\ UNCHANGED <<graph, loading, declared>>
        ELSE /\ graph' = AddDeps(graph, s, {t}, type, "parents")
             /\ declared' = [declared EXCEPT ![s] =
                  [u \in DOMAIN declared[s] \cup {t} |->
                     IF u = t THEN type ELSE declared[s][u]]]
             /\ loading' = [loading EXCEPT ![1].links = @ \ {<<s, <<type, name>>>>}]
             /\ UNCHANGED failure
  BY DEF Link
<1>7. CASE t = None \/ ~CanAddDep(graph, s, t, "parents")
  <2>1. UNCHANGED <<graph, loading, declared>> /\ failure' # "KeyError"
    BY <1>6, <1>7
  <2>2. GatesUnnamed => CutsSucceed
    BY DEF ManagerInv
  <2>3. GatesUnnamed => CutsSucceed'
    BY <2>1, <2>2, SameFailure
  <2> QED BY <1>1, <2>1, <2>3, GraphStep
<1>8. CASE t # None /\ Label[t] \notin DOMAIN graph["parents"][s]
  <2> DEFINE T == {t}
  <2>1. /\ t \in Svc
        /\ graph' = AddDeps(graph, s, T, type, "parents")
        /\ declared' = [declared EXCEPT ![s] =
                  [u \in DOMAIN declared[s] \cup {t} |->
                     IF u = t THEN type ELSE declared[s][u]]]
        /\ loading' = [loading EXCEPT ![1].links = @ \ {<<s, <<type, name>>>>}]
        /\ UNCHANGED failure
    BY <1>6, <1>8 DEF CanAddDep
  <2>2. \A x \in Svc : DOMAIN declared[x] \subseteq DOMAIN declared'[x]
    BY <2>1, <1>2 DEF DeclaredSet
  <2>3. DOMAIN declared'[s] = DOMAIN declared[s] \cup {t}
    BY <2>1, <1>2 DEF DeclaredSet
  <2>4. loading' \in Seq(FrameSet)
    <3> DEFINE f == [loading[1] EXCEPT !.links = @ \ {<<s, <<type, name>>>>}]
    <3>1. f \in FrameSet
      BY <1>3 DEF FrameSet
    <3>2. loading' = [loading EXCEPT ![1] = f]
      BY <2>1
    <3> HIDE DEF f
    <3> QED BY <3>1, <3>2, <1>2, FramesAre
  <2>5. declared' \in DeclaredSet
    <3>1. PICK D \in SUBSET Svc : declared[s] \in [D -> Strength]
      BY <1>2 DEF DeclaredSet
    <3>2. D \cup {t} \in SUBSET Svc
      BY <2>1
    <3>3. [u \in DOMAIN declared[s] \cup {t} |-> IF u = t THEN type ELSE declared[s][u]]
             \in [D \cup {t} -> Strength]
      BY <3>1
    <3>4. [u \in DOMAIN declared[s] \cup {t} |-> IF u = t THEN type ELSE declared[s][u]]
             \in UNION {[E -> Strength] : E \in SUBSET Svc}
      BY <3>2, <3>3
    <3> QED BY <3>4, <2>1, <1>2 DEF DeclaredSet
  <2>6. ASSUME GatesUnnamed'
        PROVE  GraphOK(graph', declared') /\ CutsSucceed'
    <3>1. GatesUnnamed /\ (NoCollision' => NoCollision)
      BY <2>2, <2>6, DeclaredGrows
    <3>2. GraphOK(graph, declared) /\ CutsSucceed
      BY <3>1 DEF ManagerInv
    <3>3. t \in Own
      BY <2>3, <2>6 DEF GatesUnnamed, Own
    <3>4. GraphOK(AddDeps(graph, s, T, type, "parents"), declared')
      <4> HIDE DEF T
      <4>1. T = {t}
        BY DEF T
      <4> QED BY <4>1, <2>1, <3>2, <3>3, <1>2, <1>5, <1>8, LinkOK
    <3>5. CutsSucceed'
      BY <2>1, <3>1, <3>2 DEF CutsSucceed
    <3> QED BY <3>4, <3>5, <2>1
  <2> QED BY <1>1, <1>2, <2>4, <2>5, <2>6 DEF ManagerInv
<1> QED BY <1>7, <1>8 DEF CanAddDep

LEMMA LoadStepOK ==
  ASSUME ManagerInv, LoadStep
  PROVE  ManagerInv'
<1>1. yaml \in Files /\ loading \in Seq(FrameSet)
  BY DEF ManagerInv
<1>2. GatesUnnamed => GraphOK(graph, declared) /\ CutsSucceed
  BY DEF ManagerInv
<1>3. ASSUME Loading
      PROVE  loading # <<>> /\ 1 \in DOMAIN loading /\ Top = loading[1] /\ Top \in FrameSet
             /\ Top.group \in Group
  BY <1>1, <1>3 DEF Loading, Top, FrameSet
<1>4. ASSUME NEW s \in Svc, NEW type \in Strength, NEW name, Link(s, type, name)
      PROVE  ManagerInv'
  BY <1>4, LinkStep
<1>5. CASE Bind
  <2>1. /\ Loading /\ graph' = BindAll(graph, Top.group)
        /\ loading' = [loading EXCEPT ![1].bound = TRUE]
        /\ UNCHANGED <<yaml, failure, declared>>
    BY <1>5 DEF Bind
  <2>2. loading' \in Seq(FrameSet)
    <3> DEFINE f == [loading[1] EXCEPT !.bound = TRUE]
    <3>1. f \in FrameSet
      BY <1>3, <2>1 DEF FrameSet
    <3>2. loading' = [loading EXCEPT ![1] = f]
      BY <2>1
    <3> HIDE DEF f
    <3> QED BY <3>1, <3>2, <1>1, FramesAre
  <2>3. GatesUnnamed => GraphOK(graph', declared) /\ CutsSucceed'
    BY <1>2, <1>3, <2>1, BindOK, SameFailure DEF GatesUnnamed
  <2>4. GatesUnnamed' => GatesUnnamed
    BY <2>1, DeclaredGrows
  <2> QED BY <2>1, <2>2, <2>3, <2>4 DEF ManagerInv
<1>6. CASE EndGroup
  <2>1. /\ Loading /\ (loading' = Tail(loading) \/ loading' = loading)
        /\ (failure' = failure \/ failure' = "UndefinedVariableError")
        /\ UNCHANGED <<yaml, graph, declared>>
    BY <1>6 DEF EndGroup
  <2>2. loading' \in Seq(FrameSet)
    BY <1>1, <1>3, <2>1
  <2>3. GatesUnnamed => GraphOK(graph', declared) /\ CutsSucceed'
    BY <1>2, <2>1, SameFailure
  <2>4. GatesUnnamed' => GatesUnnamed
    BY <2>1, DeclaredGrows
  <2> QED BY <2>1, <2>2, <2>3, <2>4 DEF ManagerInv
<1>7. ASSUME NEW g \in Group, Descend(g)
      PROVE  ManagerInv'
  <2>1. /\ Loading
        /\ loading' = <<Frame(g)>> \o [loading EXCEPT ![1].rest = @ \ {g}]
        /\ (failure' = failure \/ failure' = "UndefinedVariableError")
        /\ UNCHANGED <<yaml, graph, declared>>
    BY <1>7 DEF Descend, Enter
  <2>2. loading' \in Seq(FrameSet)
    <3> DEFINE f == [loading[1] EXCEPT !.rest = @ \ {g}]
               rest == [loading EXCEPT ![1] = f]
    <3>1. f \in FrameSet
      BY <1>3, <2>1 DEF FrameSet
    <3>2. rest \in Seq(FrameSet)
      <4> HIDE DEF f
      <4> QED BY <3>1, <1>1, FramesAre
    <3>3. Frame(g) \in FrameSet
      BY <1>1, FrameIs
    <3>4. loading' = <<Frame(g)>> \o rest
      BY <2>1
    <3> HIDE DEF rest
    <3> QED BY <3>2, <3>3, <3>4, FramesAre
  <2>3. GatesUnnamed => GraphOK(graph', declared) /\ CutsSucceed'
    BY <1>2, <2>1, SameFailure
  <2>4. GatesUnnamed' => GatesUnnamed
    BY <2>1, DeclaredGrows
  <2> QED BY <2>1, <2>2, <2>3, <2>4 DEF ManagerInv
<1> QED BY <1>4, <1>5, <1>6, <1>7 DEF LoadStep

LEMMA ManagerNext ==
  ASSUME ManagerInv, [Next]_vars
  PROVE  ManagerInv'
<1>1. GatesUnnamed => GatesApart /\ CutsSucceed
  BY DEF ManagerInv, GatesUnnamed
<1>2. ASSUME NEW c \in Calls, Reset(c)
      PROVE  ManagerInv'
  <2>1. /\ graph' = AlgoReversed(graph, reversed, FALSE)
        /\ UNCHANGED <<yaml, loading, failure, declared>>
    BY <1>2 DEF Reset
  <2> QED BY <2>1, <1>1, AlgoReversedOK, SameFailure, GraphStep
<1>3. CASE Load
  <2>1. /\ loading' = <<Frame(MAIN)>>
        /\ (failure' = failure \/ failure' = "UndefinedVariableError")
        /\ UNCHANGED <<yaml, graph, declared>>
    BY <1>3 DEF Load, StartLoading, Enter
  <2>2. Frame(MAIN) \in FrameSet
    BY FrameIs, StructureAssumption DEF ManagerInv
  <2>3. loading' \in Seq(FrameSet)
    BY <2>1, <2>2
  <2>4. GatesUnnamed => GraphOK(graph', declared') /\ CutsSucceed'
    BY <1>1, <2>1, SameFailure DEF ManagerInv
  <2>5. GatesUnnamed' => GatesUnnamed
    BY <2>1, DeclaredGrows
  <2> QED BY <2>1, <2>3, <2>4, <2>5 DEF ManagerInv
<1>4. CASE Loaded
  BY <1>4, LoadStepOK DEF Loaded
<1>5. CASE ApplyConfig
  <2>1. UNCHANGED <<yaml, graph, loading, failure, declared>>
    BY <1>5 DEF ApplyConfig
  <2> QED BY <2>1, <1>1, SameFailure, GraphStep
<1>6. CASE SetReversed
  <2>1. /\ graph' = AlgoReversed(graph, reversed, call.reversed)
        /\ UNCHANGED <<yaml, loading, failure, declared>>
    BY <1>6 DEF SetReversed
  <2> QED BY <2>1, <1>1, AlgoReversedOK, SameFailure, GraphStep
<1>7. CASE VariableConfig
  <2>1. UNCHANGED <<yaml, graph, loading, failure, declared>>
    BY <1>7 DEF VariableConfig
  <2> QED BY <2>1, <1>1, SameFailure, GraphStep
<1>8. CASE ResolveAll
  <2>1. /\ UNCHANGED <<yaml, graph, loading, declared>>
        /\ (failure' = failure \/ failure' = "UndefinedVariableError")
    BY <1>8 DEF ResolveAll
  <2> QED BY <2>1, <1>1, SameFailure, GraphStep
<1>9. CASE SelectServices
  <2> DEFINE others == Others(graph, call.services)
  <2>1. UNCHANGED <<yaml, loading, declared>>
    BY <1>9 DEF SelectServices
  <2>2. \/ /\ graph' = graph \/ graph' = Select(graph, call.services)
           /\ failure' = failure
        \/ /\ failure' = "ServiceNotFoundError" /\ graph' = graph
        \/ /\ failure' = "KeyError" /\ graph' = graph
           /\ ~CanRemoveDeps(graph, {Spot}, others, Side)
    BY <1>9 DEF SelectServices
  <2>3. ASSUME GatesUnnamed, GraphOK(graph, declared)
        PROVE  GraphOK(graph', declared) /\ CutsSucceed'
    <3>1. GraphOK(graph', declared)
      BY <2>2, <2>3, <1>1, SelectOK
    <3>2. CASE failure' = failure \/ failure' = "ServiceNotFoundError"
      BY <3>1, <3>2, <2>1, <2>3, <1>1, SameFailure
    <3>3. CASE ~CanRemoveDeps(graph, {Spot}, others, Side)
      <4> DEFINE S == {Spot}
      <4>1. S = {Gate(MAIN, Side)} /\ ~CanRemoveDeps(graph, S, others, Side)
        BY <3>3, SpotIs
      <4> HIDE DEF S, others
      <4>2. ~NoCollision
        BY <4>1, <2>3, <1>1, SpotIs, CutWorks
      <4>3. ~NoCollision'
        BY <4>2, <2>1 DEF NoCollision, Collide
      <4> QED BY <3>1, <4>3 DEF CutsSucceed
    <3> QED BY <3>2, <3>3, <2>2
  <2> QED BY <2>1, <2>3, GraphStep
<1>10. CASE DisableDeps
  <2> DEFINE entries == Targets(graph[Side][Spot])
             all     == {Label[s] : s \in Svc}
  <2>1. UNCHANGED <<yaml, loading, declared>>
    BY <1>10 DEF DisableDeps
  <2>2. \/ graph' = graph /\ failure' = failure
        \/ graph' = RemoveDeps(graph, entries, all, Side) /\ failure' = failure
        \/ /\ failure' = "KeyError" /\ graph' = graph
           /\ ~CanRemoveDeps(graph, entries, all, Side)
    BY <1>10 DEF DisableDeps
  <2>3. ASSUME GatesUnnamed, GraphOK(graph, declared)
        PROVE  GraphOK(graph', declared) /\ CutsSucceed'
    <3>1. entries \in SUBSET Sub[MAIN]
      BY <2>3, EntriesInside
    <3> HIDE DEF entries, all
    <3>2. entries \in SUBSET Svc /\ Alone(graph, entries, Side, declared)
      BY <3>1, <2>3, SpotIs, AloneSubs
    <3>3. GraphOK(RemoveDeps(graph, entries, all, Side), declared)
      BY <3>2, <2>3, SpotIs, RemoveDepsOK
    <3>4. GraphOK(graph', declared)
      BY <3>3, <2>2, <2>3
    <3>5. CASE failure' = failure
      BY <3>4, <3>5, <2>1, <2>3, <1>1, SameFailure
    <3>6. CASE ~CanRemoveDeps(graph, entries, all, Side)
      <4>1. ~NoCollision
        BY <3>1, <3>6, <2>3, <1>1, SpotIs, CutWorks
      <4>2. ~NoCollision'
        BY <4>1, <2>1 DEF NoCollision, Collide
      <4> QED BY <3>4, <4>2 DEF CutsSucceed
    <3> QED BY <3>5, <3>6, <2>2
  <2> QED BY <2>1, <2>3, GraphStep
<1>11. CASE Run
  <2>1. UNCHANGED <<yaml, graph, loading, failure, declared>>
    BY <1>11 DEF Run
  <2> QED BY <2>1, <1>1, SameFailure, GraphStep
<1>12. CASE UNCHANGED vars
  <2>1. UNCHANGED <<yaml, graph, loading, failure, declared>>
    BY <1>12 DEF vars, loaderVars
  <2> QED BY <2>1, <1>1, SameFailure, GraphStep
<1> QED BY <1>2, <1>3, <1>4, <1>5, <1>6, <1>7, <1>8, <1>9, <1>10, <1>11, <1>12
        DEF Next, Step, Stopped

\* The dictionaries of the graph are mirrored when MirroredIn holds of them.
LEMMA MirroredIs ==
  ASSUME GraphOK(graph, declared)
  PROVE  Mirrored
<1>1. GraphType(graph) /\ MirroredIn(graph, declared)
  BY DEF GraphOK
<1>2. /\ "parents" \in Sides /\ "children" \in Sides
      /\ Flip("parents") = "children" /\ Flip("children") = "parents"
  BY DEF Sides, Flip
<1>3. ASSUME NEW s \in Svc, NEW k \in DOMAIN graph.children[s]
      PROVE  LET e == graph.children[s][k]
             IN  HalfEdge(s, e.target) \/
                 (/\ Label[s] \in DOMAIN graph.parents[e.target]
                  /\ graph.parents[e.target][Label[s]] = [target |-> s, type |-> e.type])
  <2>1. Excused(declared, "children", s, graph["children"][s][k].target)
          \/ Answered(graph, "children", s, graph["children"][s][k])
    BY <1>1, <1>2 DEF MirroredIn
  <2> QED BY <2>1, <1>2 DEF Excused, Answered
<1>4. ASSUME NEW s \in Svc, NEW k \in DOMAIN graph.parents[s]
      PROVE  LET e == graph.parents[s][k]
             IN  HalfEdge(s, e.target) \/ Collide(s, e.target) \/
                 (/\ Label[s] \in DOMAIN graph.children[e.target]
                  /\ graph.children[e.target][Label[s]] = [target |-> s, type |-> e.type])
  <2>1. Excused(declared, "parents", s, graph["parents"][s][k].target)
          \/ Answered(graph, "parents", s, graph["parents"][s][k])
    BY <1>1, <1>2 DEF MirroredIn
  <2> QED BY <2>1, <1>2 DEF Excused, Answered, Collide
<1> QED BY <1>3, <1>4 DEF Mirrored

\* The two ends of every dependency agree, whatever is loaded and called, as long
\* as nothing has the name of a gate.
THEOREM MirroredHolds == Spec => [](GatesUnnamed => Mirrored)
<1>1. Init => ManagerInv
  BY ManagerInit
<1>2. ManagerInv /\ [Next]_vars => ManagerInv'
  BY ManagerNext
<1>3. ManagerInv => (GatesUnnamed => Mirrored)
  BY MirroredIs DEF ManagerInv
<1> QED BY <1>1, <1>2, <1>3, PTL DEF Spec

\* Cutting dependencies fails only where short names collide.
THEOREM CutsSucceedHolds == Spec => [](GatesUnnamed => CutsSucceed)
<1>1. Init => ManagerInv
  BY ManagerInit
<1>2. ManagerInv /\ [Next]_vars => ManagerInv'
  BY ManagerNext
<1>3. ManagerInv => (GatesUnnamed => CutsSucceed)
  BY DEF ManagerInv
<1> QED BY <1>1, <1>2, <1>3, PTL DEF Spec
-------------------------------------------------------------------------------
(* What -D defines *)

\* The commands of the first call are resolved once, after -D was read, and no
\* later call changes what the first one ran.
DefineInv ==
  /\ \E S : runs \in Seq(S)
  /\ DefineReachesCommands
  /\ runs = <<>> =>
       /\ pc \in {"idle", "load", "loading", "apply", "reverse", "variables", "resolve"} =>
            command = VAR
       /\ pc = "resolve" /\ call.define # None => var = call.define
       /\ pc \in {"select", "nodeps", "run"} /\ call.define # None => command = call.define

\* A step that runs nothing.
LEMMA SameRuns ==
  ASSUME DefineInv, UNCHANGED <<runs, yaml>>
  PROVE  (\E S : runs' \in Seq(S)) /\ DefineReachesCommands'
<1>1. \E S : runs' \in Seq(S)
  BY DEF DefineInv
<1>2. DefineReachesCommands'
  BY DEF DefineInv, DefineReachesCommands
<1> QED BY <1>1, <1>2

LEMMA LoadKeeps ==
  ASSUME LoadStep
  PROVE  UNCHANGED yaml
BY DEF LoadStep, Link, Bind, EndGroup, Descend

LEMMA DefineInit == Init => DefineInv
<1> SUFFICES ASSUME Init PROVE DefineInv
  OBVIOUS
<1>1. runs = <<>> /\ pc = "idle" /\ command = VAR
  BY DEF Init
<1>2. runs \in Seq({})
  BY <1>1
<1> QED BY <1>1, <1>2 DEF DefineInv, DefineReachesCommands

LEMMA DefineNext ==
  ASSUME DefineInv, [Next]_vars
  PROVE  DefineInv'
<1>1. ASSUME NEW c \in Calls, Reset(c)
      PROVE  DefineInv'
  <2>1. /\ pc = "idle" /\ (runs = <<>> => pc' = "load")
        /\ UNCHANGED <<runs, yaml, command>>
    BY <1>1 DEF Reset, At
  <2> QED BY <2>1, SameRuns DEF DefineInv
<1>2. CASE Load
  <2>1. pc = "load" /\ pc' = "loading" /\ UNCHANGED <<runs, yaml, command>>
    BY <1>2 DEF Load, At, StartLoading, managerVars
  <2> QED BY <2>1, SameRuns DEF DefineInv
<1>3. CASE Loaded
  <2>1. pc = "loading" /\ pc' \in {"loading", "apply"} /\ UNCHANGED <<runs, yaml, command>>
    BY <1>3, LoadKeeps DEF Loaded, managerVars
  <2> QED BY <2>1, SameRuns DEF DefineInv
<1>4. CASE ApplyConfig
  <2>1. pc = "apply" /\ pc' = "reverse" /\ UNCHANGED <<runs, yaml, command>>
    BY <1>4 DEF ApplyConfig, At
  <2> QED BY <2>1, SameRuns DEF DefineInv
<1>5. CASE SetReversed
  <2>1. pc = "reverse" /\ pc' = "variables" /\ UNCHANGED <<runs, yaml, command>>
    BY <1>5 DEF SetReversed, At
  <2> QED BY <2>1, SameRuns DEF DefineInv
<1>6. CASE VariableConfig
  <2>1. /\ pc = "variables" /\ pc' = "resolve" /\ UNCHANGED <<runs, yaml, command, call>>
        /\ call.define # None => var' = call.define
    BY <1>6 DEF VariableConfig, At
  <2> QED BY <2>1, SameRuns DEF DefineInv
<1>7. CASE ResolveAll
  <2>1. /\ pc = "resolve" /\ pc' = "select" /\ UNCHANGED <<runs, yaml, call>>
        /\ command = VAR => command' = var
    BY <1>7 DEF ResolveAll, At
  <2> QED BY <2>1, SameRuns DEF DefineInv
<1>8. CASE SelectServices
  <2>1. pc = "select" /\ pc' = "nodeps" /\ UNCHANGED <<runs, yaml, call, command>>
    BY <1>8 DEF SelectServices, At
  <2> QED BY <2>1, SameRuns DEF DefineInv
<1>9. CASE DisableDeps
  <2>1. pc = "nodeps" /\ pc' = "run" /\ UNCHANGED <<runs, yaml, call, command>>
    BY <1>9 DEF DisableDeps, At
  <2> QED BY <2>1, SameRuns DEF DefineInv
<1>10. CASE Run
  <2>0. PICK filtered :
          /\ pc = "run" /\ UNCHANGED yaml
          /\ runs' = Append(runs,
                      [call |-> call, target |-> target, command |-> command,
                       filtered |-> filtered,
                       reached |-> Reach(graph, {MAIN}) \cap (Plain \cup Group)])
    BY <1>10 DEF Run, At
  <2> DEFINE r == [call |-> call, target |-> target, command |-> command,
                   filtered |-> filtered,
                   reached |-> Reach(graph, {MAIN}) \cap (Plain \cup Group)]
  <2>1. pc = "run" /\ runs' = Append(runs, r) /\ UNCHANGED yaml
    BY <2>0
  <2>2. r.call = call /\ r.command = command
    OBVIOUS
  <2> HIDE DEF r
  <2>3. PICK S : runs \in Seq(S)
    BY DEF DefineInv
  <2>4. runs \in Seq(S \cup {r}) /\ r \in S \cup {r}
    BY <2>3
  <2>5. runs' \in Seq(S \cup {r}) /\ runs' # <<>>
    BY <2>1, <2>4
  <2>6. /\ runs = <<>> => runs'[1] = r
        /\ runs # <<>> => runs'[1] = runs[1]
    BY <2>1, <2>4
  <2>7. DefineReachesCommands'
    BY <2>1, <2>2, <2>5, <2>6 DEF DefineInv, DefineReachesCommands
  <2> QED BY <2>5, <2>7 DEF DefineInv
<1>11. CASE UNCHANGED vars
  <2>1. UNCHANGED <<runs, yaml, pc, command, call, var>>
    BY <1>11 DEF vars, loaderVars
  <2> QED BY <2>1, SameRuns DEF DefineInv
<1> QED BY <1>1, <1>2, <1>3, <1>4, <1>5, <1>6, <1>7, <1>8, <1>9, <1>10, <1>11
        DEF Next, Step, Stopped

\* -D prevails over the files for the commands of the first call, for all files
\* and all calls.
THEOREM DefineReachesCommandsHolds == Spec => []DefineReachesCommands
<1>1. Init => DefineInv
  BY DefineInit
<1>2. DefineInv /\ [Next]_vars => DefineInv'
  BY DefineNext
<1>3. DefineInv => DefineReachesCommands
  BY DEF DefineInv
<1> QED BY <1>1, <1>2, <1>3, PTL DEF Spec
-------------------------------------------------------------------------------
(* The graph that is loaded is the one that is stated *)

Done(bnd) == {g \in Group : bnd[g] # {}}

\* ServiceGraph!Parents and Children, entry by entry, for the groups bound so far
IsParent(decl, bnd, rev, s, p) ==
  \/ p \in DOMAIN decl[s]
  \/ \E g \in Done(bnd) : p = Sink[g] /\ s \in BoundToSink(decl, g)
  \/ \E g \in Done(bnd) : s = Source[g] /\ p \in BoundToSource(decl, bnd, g)
  \/ p \in Group /\ rev /\ s = Sink[p]

IsChild(decl, bnd, rev, s, c) ==
  \/ c \in Svc /\ s \in DOMAIN decl[c]
  \/ \E g \in Done(bnd) : c = Source[g] /\ s \in BoundToSource(decl, bnd, g)
  \/ \E g \in Done(bnd) : s = Sink[g] /\ c \in BoundToSink(decl, g)
  \/ c \in Group /\ ~rev /\ s = Source[c]

\* The dictionaries of an entity hold these, and of the children that share a
\* short name, one.
ParentsAre(d, decl, bnd, rev, s) ==
  /\ \A k \in DOMAIN d : /\ IsParent(decl, bnd, rev, s, d[k].target)
                         /\ d[k].type = DeclaredStrength(decl, s, d[k].target)
  /\ \A p \in Svc : IsParent(decl, bnd, rev, s, p) => p \in Targets(d)

ChildrenAre(d, decl, bnd, rev, s) ==
  /\ \A k \in DOMAIN d : /\ IsChild(decl, bnd, rev, s, d[k].target)
                         /\ d[k].type = DeclaredStrength(decl, d[k].target, s)
  /\ \A c \in Svc : IsChild(decl, bnd, rev, s, c) => Label[c] \in DOMAIN d

AsStated(g, decl, bnd, rev) ==
  \A s \in Svc : /\ ParentsAre(g["parents"][s], decl, bnd, rev, s)
                 /\ ChildrenAre(g["children"][s], decl, bnd, rev, s)

\* What the files declared is between entities that are no gates.
LEMMA NoGateDeclared ==
  ASSUME NEW decl, NEW g, OnlyDeclared(g, decl)
  PROVE  /\ \A s \in Gates : DOMAIN decl[s] = {} /\ \A c \in Svc : s \notin DOMAIN decl[c]
         /\ \A s \in Gates : \A p : DeclaredStrength(decl, s, p) = REQUIRE
         /\ \A p \in Gates : \A c \in Svc : DeclaredStrength(decl, c, p) = REQUIRE
BY OwnOrGate DEF OnlyDeclared, DeclaredStrength

\* A dictionary that was empty
LEMMA FreshPut ==
  ASSUME NEW d, DOMAIN d = {}, NEW T, NEW type, NEW new, IsPut(new, d, T, type),
         \A t, u \in T : Label[t] = Label[u] => t = u
  PROVE  /\ \A k \in DOMAIN new : new[k].target \in T /\ new[k].type = type
         /\ \A t \in T : Label[t] \in DOMAIN new /\ t \in Targets(new)
<1>1. DOMAIN new = Labels(T)
  BY DEF IsPut
<1>2. \A k \in DOMAIN new : \E t \in T : Label[t] = k /\ new[k] = [target |-> t, type |-> type]
  BY <1>1 DEF IsPut
<1>3. \A t \in T : Label[t] \in DOMAIN new
  BY <1>1 DEF Labels
<1>4. ASSUME NEW t \in T
      PROVE  t \in Targets(new)
  <2>1. PICK u \in T : Label[u] = Label[t] /\ new[Label[t]] = [target |-> u, type |-> type]
    BY <1>2, <1>3
  <2>2. new[Label[t]].target = t
    BY <2>1
  <2> QED BY <2>2, <1>3 DEF Targets
<1>5. ASSUME NEW k \in DOMAIN new
      PROVE  new[k].target \in T /\ new[k].type = type
  <2>1. PICK t \in T : new[k] = [target |-> t, type |-> type]
    BY <1>2
  <2> QED BY <2>1
<1> QED BY <1>3, <1>4, <1>5

IsFresh(new, s, type) ==
  /\ DOMAIN new = {Label[s]} /\ new[Label[s]].target = s /\ new[Label[s]].type = type
  /\ s \in Targets(new)

LEMMA FreshPutOne ==
  ASSUME NEW d, DOMAIN d = {}, NEW s, NEW type, NEW new, IsPutOne(new, d, s, type)
  PROVE  IsFresh(new, s, type)
<1>1. DOMAIN new = {Label[s]} /\ new[Label[s]] = [target |-> s, type |-> type]
  BY DEF IsPutOne
<1> QED BY <1>1 DEF Targets, IsFresh

\* What says the same of the entries says the same of the dictionary.
LEMMA SameParents ==
  ASSUME NEW d, NEW decl, NEW decl2, NEW bnd, NEW bnd2, NEW rev, NEW rev2, NEW s,
         ParentsAre(d, decl, bnd, rev, s), \A k \in DOMAIN d : d[k].target \in Svc,
         \A p \in Svc : IsParent(decl2, bnd2, rev2, s, p) <=> IsParent(decl, bnd, rev, s, p),
         \A p \in Svc : DeclaredStrength(decl2, s, p) = DeclaredStrength(decl, s, p)
  PROVE  ParentsAre(d, decl2, bnd2, rev2, s)
BY DEF ParentsAre

LEMMA SameChildren ==
  ASSUME NEW d, NEW decl, NEW decl2, NEW bnd, NEW bnd2, NEW rev, NEW rev2, NEW s,
         ChildrenAre(d, decl, bnd, rev, s), \A k \in DOMAIN d : d[k].target \in Svc,
         \A c \in Svc : IsChild(decl2, bnd2, rev2, s, c) <=> IsChild(decl, bnd, rev, s, c),
         \A c \in Svc : DeclaredStrength(decl2, c, s) = DeclaredStrength(decl, c, s)
  PROVE  ChildrenAre(d, decl2, bnd2, rev2, s)
BY DEF ChildrenAre

LEMMA NoParents ==
  ASSUME NEW g, GraphType(g), NEW decl, NEW bnd, NEW rev, NEW s \in Svc,
         ParentsAre(g["parents"][s], decl, bnd, rev, s)
  PROVE  DOMAIN g["parents"][s] = {} <=> \A p \in Svc : ~IsParent(decl, bnd, rev, s, p)
<1>1. \A k \in DOMAIN g["parents"][s] : g["parents"][s][k].target \in Svc
  BY EntryOf DEF Sides
<1> QED BY <1>1 DEF ParentsAre, Targets

LEMMA NoChildren ==
  ASSUME NEW g, GraphType(g), NEW decl, NEW bnd, NEW rev, NEW s \in Svc,
         ChildrenAre(g["children"][s], decl, bnd, rev, s)
  PROVE  DOMAIN g["children"][s] = {} <=> \A c \in Svc : ~IsChild(decl, bnd, rev, s, c)
<1>1. \A k \in DOMAIN g["children"][s] : g["children"][s][k].target \in Svc
  BY EntryOf DEF Sides
<1> QED BY <1>1 DEF ChildrenAre

-------------------------------------------------------------------------------
(* The groups being loaded, innermost first *)

\* A frame is bound when its group is, and then its dependencies are linked;
\* before, it has entered none of its groups.
FrameOK(f, bnd) ==
  /\ f.bound <=> f.group \in Done(bnd)
  /\ f.bound => f.links = {}
  /\ f.rest \subseteq Sub[f.group] \cap Group
  /\ ~f.bound => f.rest = Sub[f.group] \cap Group

\* No group is entered twice, nor before the one around it is bound.
InTurn(frames, bnd) ==
  /\ \A i \in DOMAIN frames : FrameOK(frames[i], bnd) /\ (i # 1 => frames[i].bound)
  /\ \A i, j \in DOMAIN frames : frames[i].group = frames[j].group => i = j
  /\ \A i, j \in DOMAIN frames : frames[j].group \notin frames[i].rest
  /\ \A i \in DOMAIN frames : Done(bnd) \cap frames[i].rest = {}
  /\ \A g \in Group : \A h \in Sub[g] \cap Group :
       h \in Done(bnd) \/ (\E i \in DOMAIN frames : frames[i].group = h) => g \in Done(bnd)

\* No group is forgotten.
Covered(frames, bnd) ==
  \A g \in Group :
    \/ g \in Done(bnd)
    \/ \E i \in DOMAIN frames : \/ frames[i].group = g
                                \/ \E h \in frames[i].rest : g = h \/ g \in Inner[h]

\* What was declared is what the groups entered said.
SaidBy(frames, bnd, decl) ==
  \A s \in Svc : DOMAIN decl[s] # {} =>
    \E g \in Group : s \in Sub[g] /\ (g \in Done(bnd) \/ g = frames[1].group)

FramesOK(frames, bnd, decl) ==
  frames # <<>> /\ InTurn(frames, bnd) /\ Covered(frames, bnd) /\ SaidBy(frames, bnd, decl)

BoundBefore(bnd) ==
  bnd \in [Group -> SUBSET Group] /\ \A g \in Group : bnd[g] \subseteq Done(bnd)

Before == {"idle", "load", "loading", "apply", "reverse"}
After == {"apply", "reverse", "variables", "resolve", "select"}

\* The first call, until services are selected
LoadInv ==
  /\ BoundBefore(bound)
  /\ runs = <<>> =>
       /\ pc # "idle" => call \in Calls
       /\ pc \in Before => reversed = FALSE
       /\ pc \in {"idle", "load"} => graph = NewGraph /\ Done(bound) = {}
                                     /\ \A s \in Svc : DOMAIN declared[s] = {}
       /\ pc = "loading" => FramesOK(loading, bound, declared)
       /\ pc \in After => Done(bound) = Group
       /\ pc \in Before \cup After /\ GatesUnnamed => AsStated(graph, declared, bound, reversed)

LEMMA Edited ==
  ASSUME NEW frames \in Seq(FrameSet), frames # <<>>, NEW f, NEW frames2,
         frames2 = [frames EXCEPT ![1] = f]
  PROVE  /\ DOMAIN frames2 = DOMAIN frames /\ 1 \in DOMAIN frames2 /\ frames2[1] = f
         /\ \A i \in DOMAIN frames : i # 1 => frames2[i] = frames[i]
         /\ frames2 # <<>>
<1>1. 1 \in DOMAIN frames /\ DOMAIN frames2 = DOMAIN frames
  OBVIOUS
<1>2. frames2 # <<>>
  BY <1>1
<1> QED BY <1>1, <1>2

\* A dependency is linked, of a subservice of the first group.
LEMMA LinkFrames ==
  ASSUME NEW frames \in Seq(FrameSet), NEW bnd, NEW decl, FramesOK(frames, bnd, decl),
         NEW links, frames[1].links # {}, NEW frames2,
         frames2 = [frames EXCEPT ![1] = [frames[1] EXCEPT !.links = links]],
         NEW s \in Sub[frames[1].group], NEW decl2,
         \A x \in Svc \ {s} : DOMAIN decl2[x] = DOMAIN decl[x]
  PROVE  FramesOK(frames2, bnd, decl2) /\ frames[1].group \notin Done(bnd)
<1> DEFINE f == [frames[1] EXCEPT !.links = links]
<1>1. frames # <<>> /\ InTurn(frames, bnd) /\ Covered(frames, bnd) /\ SaidBy(frames, bnd, decl)
  BY DEF FramesOK
<1>2. 1 \in DOMAIN frames /\ frames[1] \in FrameSet
  BY <1>1
<1>3. /\ f.group = frames[1].group /\ f.bound = frames[1].bound /\ f.rest = frames[1].rest
      /\ f.links = links
  BY <1>2 DEF FrameSet
<1> HIDE DEF f
<1>4. frames2 = [frames EXCEPT ![1] = f]
  BY DEF f
<1>5. /\ DOMAIN frames2 = DOMAIN frames /\ frames2[1] = f /\ frames2 # <<>>
      /\ \A i \in DOMAIN frames : i # 1 => frames2[i] = frames[i]
  BY <1>1, <1>4, Edited
<1>6. \A i \in DOMAIN frames : /\ frames2[i].group = frames[i].group
                               /\ frames2[i].rest = frames[i].rest
                               /\ frames2[i].bound = frames[i].bound
  BY <1>3, <1>5
<1>7. FrameOK(frames[1], bnd) /\ ~frames[1].bound
  BY <1>1, <1>2 DEF InTurn, FrameOK
<1>8. \A i \in DOMAIN frames : FrameOK(frames2[i], bnd) /\ (i # 1 => frames2[i].bound)
  <2>1. FrameOK(f, bnd)
    BY <1>3, <1>7 DEF FrameOK
  <2> QED BY <2>1, <1>1, <1>5, <1>6 DEF InTurn
<1>9. InTurn(frames2, bnd)
  BY <1>1, <1>5, <1>6, <1>8 DEF InTurn
<1>10. Covered(frames2, bnd)
  BY <1>1, <1>5, <1>6 DEF Covered
<1>11. SaidBy(frames2, bnd, decl2)
  <2>1. frames2[1].group = frames[1].group /\ frames[1].group \in Group
    BY <1>2, <1>6 DEF FrameSet
  <2> QED BY <2>1, <1>1 DEF SaidBy
<1> QED BY <1>5, <1>7, <1>9, <1>10, <1>11 DEF FramesOK, FrameOK

\* The first group, grp, is bound.
IsBound(frames2, bnd2, frames, bnd, grp) ==
  /\ grp = frames[1].group /\ frames[1].links = {} /\ ~frames[1].bound
  /\ frames2 = [frames EXCEPT ![1] = [frames[1] EXCEPT !.bound = TRUE]]
  /\ bnd2 = [bnd EXCEPT ![grp] = Done(bnd) \cup {grp}]

LEMMA BindFrames ==
  ASSUME NEW frames \in Seq(FrameSet), NEW bnd, NEW decl, FramesOK(frames, bnd, decl),
         BoundBefore(bnd), NEW frames2, NEW bnd2, NEW grp,
         IsBound(frames2, bnd2, frames, bnd, grp)
  PROVE  /\ FramesOK(frames2, bnd2, decl) /\ BoundBefore(bnd2)
         /\ grp \in Group /\ grp \notin Done(bnd) /\ Done(bnd2) = Done(bnd) \cup {grp}
<1> DEFINE f == [frames[1] EXCEPT !.bound = TRUE]
<1>0. /\ grp = frames[1].group /\ frames[1].links = {} /\ ~frames[1].bound
      /\ frames2 = [frames EXCEPT ![1] = f]
      /\ bnd2 = [bnd EXCEPT ![grp] = Done(bnd) \cup {grp}]
  BY DEF IsBound
<1>1. frames # <<>> /\ InTurn(frames, bnd) /\ Covered(frames, bnd) /\ SaidBy(frames, bnd, decl)
  BY DEF FramesOK
<1>2. 1 \in DOMAIN frames /\ frames[1] \in FrameSet
  BY <1>1
<1>3. /\ f.group = frames[1].group /\ f.bound = TRUE /\ f.rest = frames[1].rest
      /\ f.links = {} /\ grp \in Group
  BY <1>0, <1>2 DEF FrameSet
<1> HIDE DEF f
<1>4. frames2 = [frames EXCEPT ![1] = f]
  BY <1>0
<1>5. /\ DOMAIN frames2 = DOMAIN frames /\ frames2[1] = f /\ frames2 # <<>>
      /\ \A i \in DOMAIN frames : i # 1 => frames2[i] = frames[i]
  BY <1>1, <1>4, Edited
<1>6. \A i \in DOMAIN frames : frames2[i].group = frames[i].group /\ frames2[i].rest = frames[i].rest
  BY <1>3, <1>5
<1>7. /\ FrameOK(frames[1], bnd) /\ grp \notin Done(bnd)
      /\ frames[1].rest = Sub[grp] \cap Group
  BY <1>0, <1>1, <1>2 DEF InTurn, FrameOK
<1>8. Done(bnd2) = Done(bnd) \cup {grp} /\ BoundBefore(bnd2)
  <2>1. /\ bnd2[grp] = Done(bnd) \cup {grp}
        /\ \A g \in Group : g # grp => bnd2[g] = bnd[g]
        /\ bnd2 \in [Group -> SUBSET Group]
    BY <1>0, <1>3 DEF BoundBefore, Done
  <2>2. Done(bnd2) = Done(bnd) \cup {grp}
    BY <2>1, <1>3 DEF Done
  <2> QED BY <2>1, <2>2 DEF BoundBefore
<1>9. ASSUME NEW i \in DOMAIN frames
      PROVE  FrameOK(frames2[i], bnd2) /\ (i # 1 => frames2[i].bound)
  <2>1. CASE i = 1
    BY <1>0, <2>1, <1>3, <1>5, <1>7, <1>8 DEF FrameOK
  <2>2. CASE i # 1
    <3>1. FrameOK(frames[i], bnd) /\ frames[i].bound /\ frames2[i] = frames[i]
      BY <2>2, <1>1, <1>5 DEF InTurn
    <3> QED BY <3>1, <1>8 DEF FrameOK
  <2> QED BY <2>1, <2>2
<1>10. \A i \in DOMAIN frames : Done(bnd2) \cap frames[i].rest = {}
  <2>1. \A i \in DOMAIN frames : Done(bnd) \cap frames[i].rest = {} /\ grp \notin frames[i].rest
    BY <1>0, <1>1, <1>2 DEF InTurn
  <2> QED BY <2>1, <1>8
<1>11. \A g \in Group : \A h \in Sub[g] \cap Group :
         h \in Done(bnd2) \/ (\E i \in DOMAIN frames : frames[i].group = h) => g \in Done(bnd2)
  BY <1>0, <1>1, <1>2, <1>8 DEF InTurn
<1>12. InTurn(frames2, bnd2)
  <2>1. \A i \in DOMAIN frames2 : FrameOK(frames2[i], bnd2) /\ (i # 1 => frames2[i].bound)
    BY <1>5, <1>9
  <2>2. /\ \A i, j \in DOMAIN frames2 : frames2[i].group = frames2[j].group => i = j
        /\ \A i, j \in DOMAIN frames2 : frames2[j].group \notin frames2[i].rest
    BY <1>1, <1>5, <1>6 DEF InTurn
  <2>3. \A i \in DOMAIN frames2 : Done(bnd2) \cap frames2[i].rest = {}
    BY <1>5, <1>6, <1>10
  <2>4. \A g \in Group : \A h \in Sub[g] \cap Group :
          h \in Done(bnd2) \/ (\E i \in DOMAIN frames2 : frames2[i].group = h) => g \in Done(bnd2)
    BY <1>5, <1>6, <1>11
  <2> QED BY <2>1, <2>2, <2>3, <2>4 DEF InTurn
<1>13. Covered(frames2, bnd2)
  BY <1>1, <1>5, <1>6, <1>8 DEF Covered
<1>14. SaidBy(frames2, bnd2, decl)
  BY <1>0, <1>1, <1>2, <1>6, <1>8 DEF SaidBy
<1> QED BY <1>3, <1>5, <1>7, <1>8, <1>12, <1>13, <1>14 DEF FramesOK

\* fromdict of the first group returns.
LEMMA EndFrames ==
  ASSUME NEW frames \in Seq(FrameSet), NEW bnd, NEW decl, FramesOK(frames, bnd, decl),
         frames[1].bound, frames[1].rest = {}, NEW frames2, frames2 = Tail(frames)
  PROVE  /\ frames2 # <<>> => FramesOK(frames2, bnd, decl)
         /\ frames2 = <<>> => Done(bnd) = Group
<1>1. frames # <<>> /\ InTurn(frames, bnd) /\ Covered(frames, bnd) /\ SaidBy(frames, bnd, decl)
  BY DEF FramesOK
<1>2. 1 \in DOMAIN frames /\ frames[1] \in FrameSet
  BY <1>1
<1>3. /\ \A i \in DOMAIN frames2 : i + 1 \in DOMAIN frames /\ frames2[i] = frames[i + 1]
                                   /\ i + 1 # 1 /\ i \in Nat
      /\ \A i \in DOMAIN frames : i # 1 => \E j \in DOMAIN frames2 : i = j + 1
  <2>1. /\ Len(frames) \in Nat /\ DOMAIN frames = 1..Len(frames)
        /\ DOMAIN frames2 = 1..(Len(frames) - 1)
        /\ \A i \in DOMAIN frames2 : frames2[i] = frames[i + 1]
    BY <1>1
  <2>2. \A i \in DOMAIN frames2 : i + 1 \in DOMAIN frames /\ i + 1 # 1 /\ i \in Nat
    BY <2>1
  <2>3. \A i \in DOMAIN frames : i # 1 => i - 1 \in DOMAIN frames2 /\ i = (i - 1) + 1
    BY <2>1
  <2> QED BY <2>1, <2>2, <2>3
<1>4. frames[1].group \in Done(bnd)
  BY <1>1, <1>2 DEF InTurn, FrameOK
<1>5. InTurn(frames2, bnd)
  <2>1. \A i \in DOMAIN frames2 : FrameOK(frames2[i], bnd) /\ (i # 1 => frames2[i].bound)
    BY <1>1, <1>3 DEF InTurn
  <2>2. \A i, j \in DOMAIN frames2 : frames2[i].group = frames2[j].group => i = j
    <3> SUFFICES ASSUME NEW i \in DOMAIN frames2, NEW j \in DOMAIN frames2,
                        frames2[i].group = frames2[j].group
                 PROVE  i = j
      OBVIOUS
    <3>1. i + 1 = j + 1
      BY <1>1, <1>3 DEF InTurn
    <3> QED BY <3>1, <1>3
  <2>3. \A i, j \in DOMAIN frames2 : frames2[j].group \notin frames2[i].rest
    BY <1>1, <1>3 DEF InTurn
  <2>4. \A i \in DOMAIN frames2 : Done(bnd) \cap frames2[i].rest = {}
    BY <1>1, <1>3 DEF InTurn
  <2>5. \A h : (\E i \in DOMAIN frames2 : frames2[i].group = h) =>
                  \E i \in DOMAIN frames : frames[i].group = h
    BY <1>3
  <2>6. \A g \in Group : \A h \in Sub[g] \cap Group :
          h \in Done(bnd) \/ (\E i \in DOMAIN frames2 : frames2[i].group = h) => g \in Done(bnd)
    BY <1>1, <2>5 DEF InTurn
  <2> QED BY <2>1, <2>2, <2>3, <2>4, <2>6 DEF InTurn
<1>6. Covered(frames2, bnd)
  <2> SUFFICES ASSUME NEW g \in Group, g \notin Done(bnd)
               PROVE  \E i \in DOMAIN frames2 : \/ frames2[i].group = g
                                                \/ \E h \in frames2[i].rest : g = h \/ g \in Inner[h]
    BY DEF Covered
  <2>1. PICK i \in DOMAIN frames : \/ frames[i].group = g
                                   \/ \E h \in frames[i].rest : g = h \/ g \in Inner[h]
    BY <1>1 DEF Covered
  <2>2. i # 1
    BY <2>1, <1>4
  <2>3. PICK j \in DOMAIN frames2 : i = j + 1
    BY <2>2, <1>3
  <2> QED BY <2>1, <2>3, <1>3
<1>7. SaidBy(frames2, bnd, decl)
  BY <1>1, <1>4 DEF SaidBy
<1>8. ASSUME frames2 = <<>>
      PROVE  Done(bnd) = Group
  <2>1. DOMAIN frames2 = {}
    BY <1>8
  <2> QED BY <2>1, <1>6 DEF Covered, Done
<1> QED BY <1>5, <1>6, <1>7, <1>8 DEF FramesOK

\* The frame of a group that is entered
LEMMA NewFrame ==
  ASSUME NEW h \in Group
  PROVE  /\ Frame(h).group = h /\ Frame(h).bound = FALSE
         /\ Frame(h).rest = Sub[h] \cap Group
BY DEF Frame

\* MAIN is the first group to be entered.
LEMMA FirstFrame ==
  ASSUME NEW bnd, NEW decl, Done(bnd) = {}, \A s \in Svc : DOMAIN decl[s] = {},
         NEW frames, frames = <<Frame(MAIN)>>
  PROVE  FramesOK(frames, bnd, decl)
<1> DEFINE f == Frame(MAIN)
<1>1. /\ f.group = MAIN /\ f.bound = FALSE /\ f.rest = Sub[MAIN] \cap Group
      /\ MAIN \in Group /\ \A g \in Group : MAIN \notin Sub[g]
  BY NewFrame, StructureAssumption
<1>2. frames # <<>> /\ DOMAIN frames = {1} /\ frames[1] = f
  OBVIOUS
<1> HIDE DEF f
<1>3. FrameOK(f, bnd)
  BY <1>1 DEF FrameOK
<1>4. InTurn(frames, bnd)
  BY <1>1, <1>2, <1>3 DEF InTurn
<1>5. Covered(frames, bnd)
  <2> SUFFICES ASSUME NEW g \in Group, g # MAIN
               PROVE  \E h \in f.rest : g = h \/ g \in Inner[h]
    BY <1>1, <1>2 DEF Covered
  <2>1. g \in Sub[MAIN] \cup UNION {Inner[h] : h \in Sub[MAIN] \cap Group}
    BY <1>1, InsideAssumption
  <2> QED BY <2>1, <1>1
<1>6. SaidBy(frames, bnd, decl)
  BY DEF SaidBy
<1> QED BY <1>2, <1>4, <1>5, <1>6 DEF FramesOK

\* A subservice that is a group is entered.
LEMMA DescendFrames ==
  ASSUME NEW frames \in Seq(FrameSet), NEW bnd, NEW decl, FramesOK(frames, bnd, decl),
         frames[1].bound, NEW h \in Group, h \in frames[1].rest, NEW frames2,
         frames2 = <<Frame(h)>> \o
                   [frames EXCEPT ![1] = [frames[1] EXCEPT !.rest = frames[1].rest \ {h}]],
         [frames EXCEPT ![1] = [frames[1] EXCEPT !.rest = frames[1].rest \ {h}]] \in Seq(FrameSet)
  PROVE  FramesOK(frames2, bnd, decl)
<1> DEFINE f == [frames[1] EXCEPT !.rest = frames[1].rest \ {h}]
           mid == [frames EXCEPT ![1] = f]
           top == Frame(h)
<1>1. frames # <<>> /\ InTurn(frames, bnd) /\ Covered(frames, bnd) /\ SaidBy(frames, bnd, decl)
  BY DEF FramesOK
<1>2. 1 \in DOMAIN frames /\ frames[1] \in FrameSet
  BY <1>1
<1>3. /\ f.group = frames[1].group /\ f.bound = TRUE /\ f.rest = frames[1].rest \ {h}
      /\ f.links = frames[1].links
  BY <1>2 DEF FrameSet
<1>4. mid \in Seq(FrameSet) /\ frames2 = <<top>> \o mid
  OBVIOUS
<1>5. top.group = h /\ top.bound = FALSE /\ top.rest = Sub[h] \cap Group
  BY NewFrame
<1> HIDE DEF f, top
<1>6. /\ DOMAIN mid = DOMAIN frames /\ mid[1] = f
      /\ \A i \in DOMAIN frames : i # 1 => mid[i] = frames[i]
  BY <1>1, Edited
<1>7. \A i \in DOMAIN frames : /\ mid[i].group = frames[i].group
                               /\ mid[i].rest \subseteq frames[i].rest
                               /\ mid[i].bound = TRUE
  BY <1>1, <1>2, <1>3, <1>6 DEF InTurn
<1> HIDE DEF mid
<1>8. /\ frames2 # <<>> /\ 1 \in DOMAIN frames2 /\ frames2[1] = top
      /\ \A i \in DOMAIN frames2 : i = 1 \/ \E j \in DOMAIN mid : i = j + 1 /\ frames2[i] = mid[j]
      /\ \A j \in DOMAIN mid : j \in Nat /\ j + 1 \in DOMAIN frames2 /\ frames2[j + 1] = mid[j]
  <2>1. /\ Len(mid) \in Nat /\ DOMAIN mid = 1..Len(mid)
        /\ DOMAIN frames2 = 1..(Len(mid) + 1) /\ frames2[1] = top
        /\ \A j \in DOMAIN mid : frames2[j + 1] = mid[j]
    BY <1>4
  <2>2. \A i \in DOMAIN frames2 : i = 1 \/ (i - 1 \in DOMAIN mid /\ i = (i - 1) + 1)
    BY <2>1
  <2>3. \A i \in DOMAIN frames2 : i = 1 \/ \E j \in DOMAIN mid : i = j + 1 /\ frames2[i] = mid[j]
    BY <2>1, <2>2
  <2>4. \A j \in DOMAIN mid : j \in Nat /\ j + 1 \in DOMAIN frames2
    BY <2>1
  <2>5. 1 \in DOMAIN frames2 /\ frames2 # <<>>
    BY <2>1
  <2> QED BY <2>1, <2>3, <2>4, <2>5
<1>9. /\ h \in Sub[frames[1].group] /\ frames[1].group \in Group /\ frames[1].group \in Done(bnd)
      /\ h \notin Done(bnd) /\ \A i \in DOMAIN frames : frames[i].group # h
  BY <1>1, <1>2 DEF InTurn, FrameOK, FrameSet
\* none of the groups inside has begun
<1>10. /\ Done(bnd) \cap Sub[h] = {} /\ h \notin Sub[h]
       /\ \A i \in DOMAIN frames : frames[i].group \notin Sub[h]
  <2>1. \A g \in Sub[h] \cap Group : g \notin Done(bnd) /\ \A i \in DOMAIN frames : frames[i].group # g
    BY <1>1, <1>9 DEF InTurn
  <2>2. /\ Done(bnd) \subseteq Group
        /\ \A i \in DOMAIN frames : frames[i].group \in Group
    BY DEF Done, FrameSet
  <2> QED BY <2>1, <2>2, TreeAssumption
<1>11. \A i \in DOMAIN frames : h \notin mid[i].rest
  <2>1. ASSUME NEW i \in DOMAIN frames, i # 1
        PROVE  h \notin frames[i].rest
    <3>1. frames[i].group # frames[1].group /\ frames[i].rest \subseteq Sub[frames[i].group]
      BY <2>1, <1>1, <1>2 DEF InTurn, FrameOK
    <3>2. frames[i].group \in Group
      BY DEF FrameSet
    <3> QED BY <3>1, <3>2, <1>9, TreeAssumption
  <2> QED BY <2>1, <1>3, <1>6
<1>12. InTurn(frames2, bnd)
  <2>1. ASSUME NEW i \in DOMAIN frames2
        PROVE  FrameOK(frames2[i], bnd) /\ (i # 1 => frames2[i].bound)
    <3>1. CASE i = 1
      BY <3>1, <1>5, <1>8, <1>9 DEF FrameOK
    <3>2. CASE i # 1
      <4>1. PICK j \in DOMAIN frames : frames2[i] = mid[j]
        BY <3>2, <1>6, <1>8
      <4>2. FrameOK(frames[j], bnd) /\ frames[j].bound
        BY <1>1, <1>2 DEF InTurn
      <4>3. mid[j].links = frames[j].links
        BY <1>3, <1>6
      <4> QED BY <4>1, <4>2, <4>3, <1>7 DEF FrameOK
    <3> QED BY <3>1, <3>2
  <2>2. ASSUME NEW i \in DOMAIN frames2, NEW j \in DOMAIN frames2
        PROVE  /\ frames2[i].group = frames2[j].group => i = j
               /\ frames2[j].group \notin frames2[i].rest
    <3>1. CASE i = 1 /\ j = 1
      BY <3>1, <1>5, <1>8, <1>10
    <3>2. CASE i = 1 /\ j # 1
      <4>1. PICK m \in DOMAIN frames : frames2[j] = mid[m]
        BY <3>2, <1>6, <1>8
      <4> QED BY <4>1, <3>2, <1>5, <1>7, <1>8, <1>9, <1>10
    <3>3. CASE i # 1 /\ j = 1
      <4>1. PICK m \in DOMAIN frames : frames2[i] = mid[m]
        BY <3>3, <1>6, <1>8
      <4> QED BY <4>1, <3>3, <1>5, <1>7, <1>8, <1>9, <1>11
    <3>4. CASE i # 1 /\ j # 1
      <4>1. PICK m \in DOMAIN frames : i = m + 1 /\ frames2[i] = mid[m]
        BY <3>4, <1>6, <1>8
      <4>2. PICK n \in DOMAIN frames : j = n + 1 /\ frames2[j] = mid[n]
        BY <3>4, <1>6, <1>8
      <4>3. /\ frames[m].group = frames[n].group => m = n
            /\ frames[n].group \notin frames[m].rest
        BY <1>1 DEF InTurn
      <4> QED BY <4>1, <4>2, <4>3, <1>7
    <3> QED BY <3>1, <3>2, <3>3, <3>4
  <2>3. ASSUME NEW i \in DOMAIN frames2
        PROVE  Done(bnd) \cap frames2[i].rest = {}
    <3>1. CASE i = 1
      BY <3>1, <1>5, <1>8, <1>10
    <3>2. CASE i # 1
      <4>1. PICK j \in DOMAIN frames : frames2[i] = mid[j]
        BY <3>2, <1>6, <1>8
      <4>2. Done(bnd) \cap frames[j].rest = {}
        BY <1>1 DEF InTurn
      <4> QED BY <4>1, <4>2, <1>7
    <3> QED BY <3>1, <3>2
  <2>4. ASSUME NEW g \in Group, NEW x \in Sub[g] \cap Group,
               x \in Done(bnd) \/ \E i \in DOMAIN frames2 : frames2[i].group = x
        PROVE  g \in Done(bnd)
    <3>1. CASE x = h
      BY <3>1, <1>9, TreeAssumption
    <3>2. CASE x # h
      <4>1. x \in Done(bnd) \/ \E i \in DOMAIN frames : frames[i].group = x
        BY <2>4, <3>2, <1>5, <1>6, <1>7, <1>8
      <4> QED BY <4>1, <1>1 DEF InTurn
    <3> QED BY <3>1, <3>2
  <2> QED BY <2>1, <2>2, <2>3, <2>4 DEF InTurn
<1>13. Covered(frames2, bnd)
  <2> SUFFICES ASSUME NEW g \in Group, g \notin Done(bnd)
               PROVE  \E i \in DOMAIN frames2 : \/ frames2[i].group = g
                                                \/ \E x \in frames2[i].rest : g = x \/ g \in Inner[x]
    BY DEF Covered
  <2>1. PICK i \in DOMAIN frames : \/ frames[i].group = g
                                   \/ \E x \in frames[i].rest : g = x \/ g \in Inner[x]
    BY <1>1 DEF Covered
  <2>2. CASE frames[i].group = g
    <3>1. i + 1 \in DOMAIN frames2 /\ frames2[i + 1].group = g
      BY <2>2, <1>6, <1>7, <1>8
    <3> QED BY <3>1
  <2>3. ASSUME NEW x \in frames[i].rest, g = x \/ g \in Inner[x]
        PROVE  \E j \in DOMAIN frames2 : \/ frames2[j].group = g
                                         \/ \E y \in frames2[j].rest : g = y \/ g \in Inner[y]
    <3>1. CASE x # h
      <4>1. x \in mid[i].rest
        BY <3>1, <1>3, <1>6
      <4> QED BY <4>1, <2>3, <1>6, <1>8
    <3>2. CASE g = h
      BY <3>2, <1>5, <1>8
    <3>3. CASE x = h /\ g \in Inner[h]
      <4>1. g \in Sub[h] \cup UNION {Inner[y] : y \in Sub[h] \cap Group}
        BY <3>3, InsideAssumption
      <4>2. \E y \in Sub[h] \cap Group : g = y \/ g \in Inner[y]
        BY <4>1
      <4> QED BY <4>2, <1>5, <1>8
    <3> QED BY <3>1, <3>2, <3>3, <2>3
  <2> QED BY <2>1, <2>2, <2>3
<1>14. SaidBy(frames2, bnd, decl)
  BY <1>1, <1>9 DEF SaidBy
<1> QED BY <1>8, <1>12, <1>13, <1>14 DEF FramesOK

-------------------------------------------------------------------------------
(* Each step of the loading, and the change of direction, make what is stated *)

LEMMA SideIs ==
  /\ "parents" \in Sides /\ "children" \in Sides
  /\ Flip("parents") = "children" /\ Flip("children") = "parents"
  /\ \A h \in Group : Gate(h, "parents") = Source[h] /\ Gate(h, "children") = Sink[h]
BY DEF Sides, Flip, Gate

LEMMA TargetsIn ==
  ASSUME NEW g, GraphType(g), NEW s \in Svc
  PROVE  /\ \A k \in DOMAIN g["parents"][s] : g["parents"][s][k].target \in Svc
         /\ \A k \in DOMAIN g["children"][s] : g["children"][s][k].target \in Svc
BY EntryOf, SideIs

\* Before the loading, the sources have their groups.
LEMMA NewGraphStated ==
  ASSUME NEW decl, \A s \in Svc : DOMAIN decl[s] = {}, NEW bnd, Done(bnd) = {}
  PROVE  AsStated(NewGraph, decl, bnd, FALSE)
<1> DEFINE Got(s) == GroupsOf(Source, s)
<1>1. ASSUME NEW s \in Svc
      PROVE  /\ NewGraph["parents"][s] = Empty
             /\ IsPut(NewGraph["children"][s], Empty, Got(s), REQUIRE)
  <2>1. Empty \in Dict /\ Got(s) \in SUBSET Svc /\ REQUIRE \in Strength
    BY DictIs, StructureAssumption DEF Empty, GroupsOf, Strength
  <2>2. NewGraph["parents"][s] = Empty /\ NewGraph["children"][s] = Put(Empty, Got(s), REQUIRE)
    BY DEF NewGraph
  <2> QED BY <2>1, <2>2, PutIs
<1>2. ASSUME NEW s \in Svc
      PROVE  ParentsAre(NewGraph["parents"][s], decl, bnd, FALSE, s)
  BY <1>1 DEF ParentsAre, IsParent, Empty
<1>3. ASSUME NEW s \in Svc
      PROVE  ChildrenAre(NewGraph["children"][s], decl, bnd, FALSE, s)
  <2> DEFINE d == NewGraph["children"][s]
             T == Got(s)
  <2>1. IsPut(d, Empty, T, REQUIRE)
    BY <1>1
  <2>2. \A c \in Svc : IsChild(decl, bnd, FALSE, s, c) <=> c \in T
    BY DEF IsChild, GroupsOf
  <2>3. \A t, u \in T : t = u
    BY TreeAssumption DEF GroupsOf
  <2>4. \A c \in Svc : DeclaredStrength(decl, c, s) = REQUIRE
    BY DEF DeclaredStrength
  <2>5. T \subseteq Svc /\ DOMAIN Empty = {}
    BY StructureAssumption DEF GroupsOf, Empty
  <2> HIDE DEF d, T
  <2>6. /\ \A k \in DOMAIN d : d[k].target \in T /\ d[k].type = REQUIRE
        /\ \A t \in T : Label[t] \in DOMAIN d
    BY <2>1, <2>3, <2>5, FreshPut
  <2>7. ChildrenAre(d, decl, bnd, FALSE, s)
    BY <2>2, <2>4, <2>5, <2>6 DEF ChildrenAre
  <2> QED BY <2>7 DEF d
<1> QED BY <1>2, <1>3 DEF AsStated

\* A dependency is linked.
LEMMA LinkStated ==
  ASSUME NEW g, NEW decl \in DeclaredSet, GraphOK(g, decl), NEW s \in Own, NEW t \in Own,
         NEW type \in Strength, Label[t] \notin DOMAIN g["parents"][s], NEW decl2,
         decl2 = [decl EXCEPT ![s] = [u \in DOMAIN decl[s] \cup {t} |->
                                        IF u = t THEN type ELSE decl[s][u]]],
         NEW T, T = {t}, NEW bnd, BoundBefore(bnd),
         NEW grp \in Group, s \in Sub[grp], grp \notin Done(bnd),
         AsStated(g, decl, bnd, FALSE)
  PROVE  AsStated(AddDeps(g, s, T, type, "parents"), decl2, bnd, FALSE)
<1> DEFINE g2 == AddDeps(g, s, T, type, "parents")
<1>1. s \in Svc /\ t \in Svc /\ T \in SUBSET Svc /\ GraphType(g) /\ Keyed(g)
  BY OwnOrGate DEF GraphOK
<1>2. IsAdded(g2, g, s, T, type, "parents")
  BY <1>1, SideIs, AddDepsIs
<1> HIDE DEF g2
<1>3. /\ \A x \in Svc \ {s} : decl2[x] = decl[x]
      /\ DOMAIN decl2[s] = DOMAIN decl[s] \cup {t}
      /\ decl2[s][t] = type /\ \A u \in DOMAIN decl[s] \ {t} : decl2[s][u] = decl[s][u]
  BY <1>1 DEF DeclaredSet
<1>4. /\ Done(bnd) \subseteq Group /\ \A h \in Done(bnd) : s \notin Sub[h]
      /\ \A h \in Done(bnd) : bnd[h] \subseteq Done(bnd)
  BY TreeAssumption DEF Done, BoundBefore
<1>5. \A h \in Done(bnd) : /\ BoundToSink(decl2, h) = BoundToSink(decl, h)
                           /\ BoundToSource(decl2, bnd, h) = BoundToSource(decl, bnd, h)
  <2> SUFFICES ASSUME NEW h \in Done(bnd)
               PROVE  /\ BoundToSink(decl2, h) = BoundToSink(decl, h)
                      /\ BoundToSource(decl2, bnd, h) = BoundToSource(decl, bnd, h)
    OBVIOUS
  <2>1. \A x \in Sub[h] : decl2[x] = decl[x]
    BY <1>3, <1>4, OwnOrGate
  <2>2. \A i \in bnd[h] : \A c \in Sub[i] : decl2[c] = decl[c]
    BY <1>3, <1>4, OwnOrGate
  <2> QED BY <2>1, <2>2 DEF BoundToSink, BoundToSource
<1>6. \A x, p \in Svc : IsParent(decl2, bnd, FALSE, x, p) <=>
                          IsParent(decl, bnd, FALSE, x, p) \/ (x = s /\ p = t)
  BY <1>3, <1>5 DEF IsParent
<1>7. \A x, c \in Svc : IsChild(decl2, bnd, FALSE, x, c) <=>
                          IsChild(decl, bnd, FALSE, x, c) \/ (x = t /\ c = s)
  BY <1>3, <1>5 DEF IsChild
<1>8. /\ \A x, p \in Svc : x # s \/ p # t => DeclaredStrength(decl2, x, p) = DeclaredStrength(decl, x, p)
      /\ DeclaredStrength(decl2, s, t) = type
  BY <1>3 DEF DeclaredStrength
<1>9. ASSUME NEW x \in Svc
      PROVE  /\ ParentsAre(g["parents"][x], decl, bnd, FALSE, x)
             /\ ChildrenAre(g["children"][x], decl, bnd, FALSE, x)
  BY DEF AsStated
<1>10. ASSUME NEW x \in Svc
       PROVE  ParentsAre(g2["parents"][x], decl2, bnd, FALSE, x)
  <2>1. CASE x # s
    <3>1. g2["parents"][x] = g["parents"][x]
      BY <2>1, <1>2 DEF IsAdded
    <3>2. \A k \in DOMAIN g["parents"][x] : g["parents"][x][k].target \in Svc
      BY <1>1, TargetsIn
    <3>3. /\ \A p \in Svc : IsParent(decl2, bnd, FALSE, x, p) <=> IsParent(decl, bnd, FALSE, x, p)
          /\ \A p \in Svc : DeclaredStrength(decl2, x, p) = DeclaredStrength(decl, x, p)
      BY <2>1, <1>6, <1>8
    <3> QED BY <3>1, <3>2, <3>3, <1>9, SameParents
  <2>2. CASE x = s
    <3> DEFINE d  == g["parents"][s]
               d2 == g2["parents"][s]
    <3>1. IsPut(d2, d, T, type) /\ Labels(T) = {Label[t]}
      BY <1>2 DEF IsAdded, Labels
    <3>2. /\ ParentsAre(d, decl, bnd, FALSE, s) /\ Label[t] \notin DOMAIN d
          /\ \A k \in DOMAIN d : d[k].target \in Svc /\ d[k].target # t
      BY <1>1, <1>9, TargetsIn, SideIs DEF Keyed
    <3> HIDE DEF d, d2
    <3>3. /\ DOMAIN d2 = DOMAIN d \cup {Label[t]} /\ \A k \in DOMAIN d : d2[k] = d[k]
          /\ d2[Label[t]] = [target |-> t, type |-> type]
      BY <3>1, <3>2 DEF IsPut
    <3>4. d2[Label[t]].target = t /\ d2[Label[t]].type = type
      BY <3>3
    <3>5. Targets(d2) = Targets(d) \cup {t}
      BY <3>3, <3>4 DEF Targets
    <3>6. \A k \in DOMAIN d2 : /\ IsParent(decl2, bnd, FALSE, s, d2[k].target)
                               /\ d2[k].type = DeclaredStrength(decl2, s, d2[k].target)
      <4> SUFFICES ASSUME NEW k \in DOMAIN d2
                   PROVE  /\ IsParent(decl2, bnd, FALSE, s, d2[k].target)
                          /\ d2[k].type = DeclaredStrength(decl2, s, d2[k].target)
        OBVIOUS
      <4>1. CASE k = Label[t]
        BY <4>1, <3>4, <1>1, <1>6, <1>8
      <4>2. CASE k # Label[t]
        <5> DEFINE c == d[k].target
        <5>1. k \in DOMAIN d /\ d2[k] = d[k] /\ c \in Svc /\ c # t
          BY <4>2, <3>2, <3>3
        <5>2. IsParent(decl, bnd, FALSE, s, c) /\ d[k].type = DeclaredStrength(decl, s, c)
          BY <5>1, <3>2 DEF ParentsAre
        <5> HIDE DEF c
        <5>3. IsParent(decl2, bnd, FALSE, s, c) /\ d[k].type = DeclaredStrength(decl2, s, c)
          BY <5>1, <5>2, <1>1, <1>6, <1>8
        <5> QED BY <5>1, <5>3 DEF c
      <4> QED BY <4>1, <4>2
    <3>7. \A p \in Svc : IsParent(decl2, bnd, FALSE, s, p) => p \in Targets(d2)
      BY <3>2, <3>5, <1>1, <1>6 DEF ParentsAre
    <3>8. ParentsAre(d2, decl2, bnd, FALSE, s)
      BY <3>6, <3>7 DEF ParentsAre
    <3> QED BY <3>8, <2>2 DEF d2
  <2> QED BY <2>1, <2>2
<1>11. ASSUME NEW x \in Svc
       PROVE  ChildrenAre(g2["children"][x], decl2, bnd, FALSE, x)
  <2>1. CASE x # t
    <3>1. g2["children"][x] = g["children"][x]
      BY <2>1, <1>2, SideIs DEF IsAdded
    <3>2. \A k \in DOMAIN g["children"][x] : g["children"][x][k].target \in Svc
      BY <1>1, TargetsIn
    <3>3. /\ \A c \in Svc : IsChild(decl2, bnd, FALSE, x, c) <=> IsChild(decl, bnd, FALSE, x, c)
          /\ \A c \in Svc : DeclaredStrength(decl2, c, x) = DeclaredStrength(decl, c, x)
      BY <2>1, <1>6, <1>7, <1>8
    <3> QED BY <3>1, <3>2, <3>3, <1>9, SameChildren
  <2>2. CASE x = t
    <3> DEFINE d  == g["children"][t]
               d2 == g2["children"][t]
    <3>1. IsPutOne(d2, d, s, type)
      BY <1>2, SideIs DEF IsAdded
    <3>2. /\ ChildrenAre(d, decl, bnd, FALSE, t)
          /\ \A k \in DOMAIN d : d[k].target \in Svc /\ (k # Label[s] => d[k].target # s)
      BY <1>1, <1>9, TargetsIn, SideIs DEF Keyed
    <3> HIDE DEF d, d2
    <3>3. /\ DOMAIN d2 = DOMAIN d \cup {Label[s]}
          /\ \A k \in DOMAIN d : k # Label[s] => d2[k] = d[k]
          /\ d2[Label[s]] = [target |-> s, type |-> type]
      BY <3>1 DEF IsPutOne
    <3>4. d2[Label[s]].target = s /\ d2[Label[s]].type = type
      BY <3>3
    <3>6. ASSUME NEW k \in DOMAIN d2
          PROVE  /\ IsChild(decl2, bnd, FALSE, t, d2[k].target)
                 /\ d2[k].type = DeclaredStrength(decl2, d2[k].target, t)
      <4>1. CASE k = Label[s]
        BY <4>1, <3>4, <1>1, <1>7, <1>8
      <4>2. CASE k # Label[s]
        <5> DEFINE c == d[k].target
        <5>1. k \in DOMAIN d /\ d2[k] = d[k] /\ c \in Svc /\ c # s
          BY <4>2, <3>2, <3>3
        <5>2. IsChild(decl, bnd, FALSE, t, c) /\ d[k].type = DeclaredStrength(decl, c, t)
          BY <5>1, <3>2 DEF ChildrenAre
        <5> HIDE DEF c
        <5>3. IsChild(decl2, bnd, FALSE, t, c) /\ d[k].type = DeclaredStrength(decl2, c, t)
          BY <5>1, <5>2, <1>1, <1>7, <1>8
        <5> QED BY <5>1, <5>3 DEF c
      <4> QED BY <4>1, <4>2
    <3>7. \A c \in Svc : IsChild(decl2, bnd, FALSE, t, c) => Label[c] \in DOMAIN d2
      BY <3>2, <3>3, <1>1, <1>7 DEF ChildrenAre
    <3>8. ChildrenAre(d2, decl2, bnd, FALSE, t)
      BY <3>6, <3>7 DEF ChildrenAre
    <3> QED BY <3>8, <2>2 DEF d2
  <2> QED BY <2>1, <2>2
<1> QED BY <1>10, <1>11 DEF AsStated, g2

\* A group is bound: at that time a subservice has no children when nobody that
\* was read depends on it, and no parents when it depends on nobody.
LEMMA BindStated ==
  ASSUME NEW g, NEW decl, GraphOK(g, decl), NEW bnd, BoundBefore(bnd),
         NEW grp \in Group, grp \notin Done(bnd), NEW bnd2,
         bnd2 = [bnd EXCEPT ![grp] = Done(bnd) \cup {grp}],
         Done(bnd2) = Done(bnd) \cup {grp},
         \A s \in Svc : DOMAIN decl[s] # {} =>
           \E h \in Group : s \in Sub[h] /\ (h \in Done(bnd) \/ h = grp),
         AsStated(g, decl, bnd, FALSE)
  PROVE  AsStated(BindAll(g, grp), decl, bnd2, FALSE)
<1> DEFINE T1 == {s \in Sub[grp] : g.children[s] = Empty}
           T2 == {s \in Sub[grp] : g.parents[s] = Empty}
           src == Source[grp]
           snk == Sink[grp]
           g1 == AddDeps(g, src, T1, REQUIRE, "parents")
           g2 == AddDeps(g1, snk, T2, REQUIRE, "children")
<1>1. /\ GraphType(g) /\ OnlyDeclared(g, decl)
      /\ src \in Svc /\ snk \in Svc /\ src \in Gates /\ snk \in Gates /\ src # snk
      /\ T1 \in SUBSET Sub[grp] /\ T2 \in SUBSET Sub[grp] /\ REQUIRE \in Strength
      /\ Sub[grp] \subseteq Svc /\ Sub[grp] \subseteq Own
  BY OwnOrGate, TreeAssumption DEF GraphOK, Gates, Strength
<1>2. /\ Done(bnd) \subseteq Group /\ \A h \in Done(bnd) : Sub[h] \cap Sub[grp] = {}
      /\ \A h \in Done(bnd) : bnd[h] \subseteq Done(bnd)
      /\ \A h \in Done(bnd) : Source[h] # src /\ Sink[h] # snk
      /\ \A h \in Group : src \notin Sub[h] /\ snk \notin Sub[h]
      /\ \A h \in Group : Source[h] # snk /\ Sink[h] # src
  BY TreeAssumption, OwnOrGate, StructureAssumption DEF Done, BoundBefore, Gates
<1>3. /\ DOMAIN Empty = {}
      /\ \A s \in Svc : g.parents[s] = Empty <=> DOMAIN g["parents"][s] = {}
      /\ \A s \in Svc : g.children[s] = Empty <=> DOMAIN g["children"][s] = {}
  <2>1. \A d \in Dict : d = Empty <=> DOMAIN d = {}
    BY DictIs DEF Empty
  <2>2. \A s \in Svc : g["parents"][s] \in Dict /\ g["children"][s] \in Dict
    BY <1>1, DictOf, SideIs
  <2>3. DOMAIN Empty = {}
    BY DEF Empty
  <2> QED BY <2>1, <2>2, <2>3
<1>4. ASSUME NEW x \in Svc
      PROVE  /\ ParentsAre(g["parents"][x], decl, bnd, FALSE, x)
             /\ ChildrenAre(g["children"][x], decl, bnd, FALSE, x)
             /\ \A k \in DOMAIN g["parents"][x] : g["parents"][x][k].target \in Svc
             /\ \A k \in DOMAIN g["children"][x] : g["children"][x][k].target \in Svc
  BY <1>1, TargetsIn DEF AsStated
<1>5. T2 = BoundToSink(decl, grp)
  <2>1. ASSUME NEW s \in Sub[grp]
        PROVE  DOMAIN g["parents"][s] = {} <=> DOMAIN decl[s] = {}
    <3>1. \A p \in Svc : IsParent(decl, bnd, FALSE, s, p) <=> p \in DOMAIN decl[s]
      BY <1>1, <1>2, OwnOrGate DEF IsParent, BoundToSink, Gates
    <3>2. DOMAIN decl[s] \subseteq Svc
      BY <1>1, OwnOrGate DEF OnlyDeclared
    <3>3. DOMAIN g["parents"][s] = {} <=> \A p \in Svc : ~IsParent(decl, bnd, FALSE, s, p)
      BY <1>1, <1>4, NoParents
    <3> QED BY <3>1, <3>2, <3>3
  <2> QED BY <2>1, <1>1, <1>3 DEF BoundToSink
<1>6. T1 = BoundToSource(decl, bnd2, grp)
  <2>1. bnd2[grp] = Done(bnd) \cup {grp}
    BY DEF BoundBefore
  <2>2. ASSUME NEW s \in Sub[grp]
        PROVE  DOMAIN g["children"][s] = {} <=>
                 \A h \in Done(bnd) \cup {grp} : \A c \in Sub[h] : s \notin DOMAIN decl[c]
    <3>1. \A c \in Svc : IsChild(decl, bnd, FALSE, s, c) <=> s \in DOMAIN decl[c]
      BY <1>1, <1>2, OwnOrGate DEF IsChild, BoundToSource, Gates
    <3>2. DOMAIN g["children"][s] = {} <=> \A c \in Svc : ~IsChild(decl, bnd, FALSE, s, c)
      BY <1>1, <1>4, NoChildren
    <3>3. (\A c \in Svc : s \notin DOMAIN decl[c]) <=>
            \A h \in Done(bnd) \cup {grp} : \A c \in Sub[h] : s \notin DOMAIN decl[c]
      BY <1>2, OwnOrGate
    <3> QED BY <3>1, <3>2, <3>3
  <2> QED BY <2>1, <2>2, <1>1, <1>3 DEF BoundToSource
<1>7. IsAdded(g1, g, src, T1, REQUIRE, "parents")
  <2>1. T1 \in SUBSET Svc
    BY <1>1
  <2> HIDE DEF T1, src
  <2> QED BY <2>1, <1>1, SideIs, AddDepsIs
<1> HIDE DEF g1
<1>8. IsAdded(g2, g1, snk, T2, REQUIRE, "children")
  <2>1. T2 \in SUBSET Svc /\ GraphType(g1)
    BY <1>1, <1>7 DEF IsAdded
  <2> HIDE DEF T2, snk
  <2> QED BY <2>1, <1>1, SideIs, AddDepsIs
<1> HIDE DEF g2, T1, T2
<1>9. \A t, u \in Sub[grp] : Label[t] = Label[u] => t = u
  BY <1>1, LabelAssumption
<1>10. \A h \in Done(bnd) : BoundToSource(decl, bnd2, h) = BoundToSource(decl, bnd, h)
  BY <1>2 DEF BoundToSource
<1>11. \A x, p \in Svc : IsParent(decl, bnd2, FALSE, x, p) <=>
         \/ IsParent(decl, bnd, FALSE, x, p)
         \/ p = snk /\ x \in T2
         \/ x = src /\ p \in T1
  BY <1>5, <1>6, <1>10 DEF IsParent
<1>12. \A x, c \in Svc : IsChild(decl, bnd2, FALSE, x, c) <=>
         \/ IsChild(decl, bnd, FALSE, x, c)
         \/ c = src /\ x \in T1
         \/ x = snk /\ c \in T2
  BY <1>5, <1>6, <1>10 DEF IsChild
<1>13. /\ \A p \in Svc : DeclaredStrength(decl, src, p) = REQUIRE
       /\ \A p \in Svc : DeclaredStrength(decl, p, snk) = REQUIRE
       /\ \A p \in Svc : DeclaredStrength(decl, p, src) = REQUIRE
       /\ \A p \in Svc : DeclaredStrength(decl, snk, p) = REQUIRE
  BY <1>1, NoGateDeclared
<1>14. ASSUME NEW x \in Svc
       PROVE  ParentsAre(g2["parents"][x], decl, bnd2, FALSE, x)
  <2>1. CASE x = src
    <3> DEFINE d  == g["parents"][src]
               d2 == g2["parents"][src]
    <3>1. \A p \in Svc : ~IsParent(decl, bnd, FALSE, src, p)
      BY <1>1, <1>2 DEF IsParent, OnlyDeclared, BoundToSink
    <3>2. DOMAIN d = {}
      BY <3>1, <1>1, <1>4, NoParents
    <3>3. src \notin T2
      BY <1>1, <1>2
    <3>4. IsPut(d2, d, T1, REQUIRE)
      BY <3>3, <1>1, <1>7, <1>8, SideIs DEF IsAdded
    <3> HIDE DEF d, d2, src
    <3>5. /\ \A k \in DOMAIN d2 : d2[k].target \in T1 /\ d2[k].type = REQUIRE
          /\ \A t \in T1 : t \in Targets(d2)
      BY <3>2, <3>4, <1>1, <1>9, FreshPut
    <3>6. \A p \in Svc : IsParent(decl, bnd2, FALSE, src, p) <=> p \in T1
      BY <3>1, <3>3, <1>1, <1>11
    <3>7. ParentsAre(d2, decl, bnd2, FALSE, src)
      BY <3>5, <3>6, <1>1, <1>13 DEF ParentsAre
    <3> QED BY <3>7, <2>1 DEF d2
  <2>2. CASE x \in T2
    <3> DEFINE d  == g["parents"][x]
               d2 == g2["parents"][x]
    <3>1. x # src /\ DOMAIN d = {}
      BY <2>2, <1>1, <1>2, <1>3 DEF T2
    <3>2. \A p \in Svc : ~IsParent(decl, bnd, FALSE, x, p)
      BY <3>1, <1>1, <1>4, NoParents
    <3>3. IsPutOne(d2, d, snk, REQUIRE)
      BY <2>2, <3>1, <1>7, <1>8, SideIs DEF IsAdded
    <3> HIDE DEF d, d2, src, snk
    <3>4. IsFresh(d2, snk, REQUIRE)
      BY <3>1, <3>3, FreshPutOne
    <3>5. \A p \in Svc : IsParent(decl, bnd2, FALSE, x, p) <=> p = snk
      BY <2>2, <3>1, <3>2, <1>11
    <3>6. ParentsAre(d2, decl, bnd2, FALSE, x)
      BY <3>4, <3>5, <1>1, <1>13 DEF IsFresh, ParentsAre
    <3> QED BY <3>6 DEF d2
  <2>3. CASE x # src /\ x \notin T2
    <3>1. g2["parents"][x] = g["parents"][x]
      BY <2>3, <1>7, <1>8, SideIs DEF IsAdded
    <3>2. \A p \in Svc : IsParent(decl, bnd2, FALSE, x, p) <=> IsParent(decl, bnd, FALSE, x, p)
      BY <2>3, <1>11
    <3> QED BY <3>1, <3>2, <1>4, SameParents
  <2> QED BY <2>1, <2>2, <2>3
<1>15. ASSUME NEW x \in Svc
       PROVE  ChildrenAre(g2["children"][x], decl, bnd2, FALSE, x)
  <2>1. CASE x = snk
    <3> DEFINE d  == g["children"][snk]
               d2 == g2["children"][snk]
    <3>1. \A c \in Svc : ~IsChild(decl, bnd, FALSE, snk, c)
      BY <1>1, <1>2, NoGateDeclared DEF IsChild, BoundToSource
    <3>2. DOMAIN d = {}
      BY <3>1, <1>1, <1>4, NoChildren
    <3>3. snk \notin T1
      BY <1>1, <1>2
    <3>4. IsPut(d2, d, T2, REQUIRE)
      BY <3>3, <1>1, <1>7, <1>8, SideIs DEF IsAdded
    <3> HIDE DEF d, d2, snk
    <3>5. /\ \A k \in DOMAIN d2 : d2[k].target \in T2 /\ d2[k].type = REQUIRE
          /\ \A t \in T2 : Label[t] \in DOMAIN d2
      BY <3>2, <3>4, <1>1, <1>9, FreshPut
    <3>6. \A c \in Svc : IsChild(decl, bnd2, FALSE, snk, c) <=> c \in T2
      BY <3>1, <3>3, <1>1, <1>12
    <3>7. ChildrenAre(d2, decl, bnd2, FALSE, snk)
      BY <3>5, <3>6, <1>1, <1>13 DEF ChildrenAre
    <3> QED BY <3>7, <2>1 DEF d2
  <2>2. CASE x \in T1
    <3> DEFINE d  == g["children"][x]
               d2 == g2["children"][x]
    <3>1. x # snk /\ DOMAIN d = {}
      BY <2>2, <1>1, <1>2, <1>3 DEF T1
    <3>2. \A c \in Svc : ~IsChild(decl, bnd, FALSE, x, c)
      BY <3>1, <1>1, <1>4, NoChildren
    <3>3. IsPutOne(d2, d, src, REQUIRE)
      BY <2>2, <3>1, <1>7, <1>8, SideIs DEF IsAdded
    <3> HIDE DEF d, d2, src, snk
    <3>4. IsFresh(d2, src, REQUIRE)
      BY <3>1, <3>3, FreshPutOne
    <3>5. \A c \in Svc : IsChild(decl, bnd2, FALSE, x, c) <=> c = src
      BY <2>2, <3>1, <3>2, <1>12
    <3>6. ChildrenAre(d2, decl, bnd2, FALSE, x)
      BY <3>4, <3>5, <1>1, <1>13 DEF IsFresh, ChildrenAre
    <3> QED BY <3>6 DEF d2
  <2>3. CASE x # snk /\ x \notin T1
    <3>1. g2["children"][x] = g["children"][x]
      BY <2>3, <1>7, <1>8, SideIs DEF IsAdded
    <3>2. \A c \in Svc : IsChild(decl, bnd2, FALSE, x, c) <=> IsChild(decl, bnd, FALSE, x, c)
      BY <2>3, <1>12
    <3> QED BY <3>1, <3>2, <1>4, SameChildren
  <2> QED BY <2>1, <2>2, <2>3
<1> QED BY <1>14, <1>15 DEF AsStated, BindAll, g1, g2, T1, T2

\* The half edges move from the sources to the sinks.
LEMMA ReversedStated ==
  ASSUME NEW g, NEW decl, GraphOK(g, decl), NEW bnd, NEW to \in BOOLEAN,
         AsStated(g, decl, bnd, FALSE)
  PROVE  AsStated(AlgoReversed(g, FALSE, to), decl, bnd, to)
<1>1. CASE to = FALSE
  BY <1>1 DEF AlgoReversed
<1>2. CASE to = TRUE
  <2> DEFINE g2 == MoveHalfEdges(g, "children", Source, Sink)
             Lost(x) == {Label[h] : h \in {i \in Group : Source[i] = x}}
             Got(x) == {h \in Group : Sink[h] = x}
  <2>1. AlgoReversed(g, FALSE, to) = g2
    BY <1>2 DEF AlgoReversed
  <2>2. GraphType(g) /\ Keyed(g) /\ OnlyDeclared(g, decl)
    BY DEF GraphOK
  <2>3. IsMoved(g2, g, "children")
    BY <2>2, SideIs, MoveHalfEdgesIs
  <2>4. ASSUME NEW x \in Svc
        PROVE  /\ IsDrop(g2["children"][x], g["children"][x], Lost(x))
               /\ IsPut(g2["parents"][x], g["parents"][x], Got(x), REQUIRE)
    <3>1. /\ {Label[h] : h \in {i \in Group : Gate(i, Flip("children")) = x}} = Lost(x)
          /\ {h \in Group : Gate(h, "children") = x} = Got(x)
      BY SideIs
    <3> QED BY <2>3, <3>1, SideIs DEF IsMoved
  <2> HIDE DEF g2
  <2>5. ASSUME NEW x \in Svc
        PROVE  /\ ParentsAre(g["parents"][x], decl, bnd, FALSE, x)
               /\ ChildrenAre(g["children"][x], decl, bnd, FALSE, x)
               /\ \A k \in DOMAIN g["parents"][x] : g["parents"][x][k].target \in Svc
               /\ \A k \in DOMAIN g["children"][x] : g["children"][x][k].target \in Svc
    BY <2>2, TargetsIn DEF AsStated
  <2>6. /\ \A x, p \in Svc : IsParent(decl, bnd, TRUE, x, p) <=>
             IsParent(decl, bnd, FALSE, x, p) \/ p \in Got(x)
        /\ \A x, c \in Svc : IsChild(decl, bnd, FALSE, x, c) <=>
             IsChild(decl, bnd, TRUE, x, c) \/ (c \in Group /\ x = Source[c])
    BY DEF IsParent, IsChild
  <2>7. Done(bnd) \subseteq Group
    BY DEF Done
  <2>8. ASSUME NEW x \in Svc
        PROVE  ParentsAre(g2["parents"][x], decl, bnd, TRUE, x)
    <3> DEFINE d  == g["parents"][x]
               d2 == g2["parents"][x]
               T  == Got(x)
    <3>1. IsPut(d2, d, T, REQUIRE) /\ T \subseteq Group /\ \A h \in T : x = Sink[h]
      BY <2>4
    <3>2. \A p \in Svc : IsParent(decl, bnd, TRUE, x, p) <=>
                           IsParent(decl, bnd, FALSE, x, p) \/ p \in T
      BY <2>6
    <3>3. CASE T = {}
      <4>1. Labels(T) = {}
        BY <3>3 DEF Labels
      <4> HIDE DEF d, d2, T
      <4>2. DOMAIN d2 = DOMAIN d /\ \A k \in DOMAIN d : d2[k] = d[k]
        BY <4>1, <3>1 DEF IsPut
      <4>3. ParentsAre(d, decl, bnd, FALSE, x) /\ \A k \in DOMAIN d : d[k].target \in Svc
        BY <2>5 DEF d
      <4>4. Targets(d2) = Targets(d)
        BY <4>2 DEF Targets
      <4>5. ParentsAre(d2, decl, bnd, TRUE, x)
        BY <4>2, <4>3, <4>4, <3>2, <3>3 DEF ParentsAre
      <4> QED BY <4>5 DEF d2
    <3>4. ASSUME NEW h \in T
          PROVE  ParentsAre(d2, decl, bnd, TRUE, x)
      <4>1. h \in Group /\ x = Sink[h] /\ x \in Gates
        BY <3>1 DEF Gates
      <4>2. \A p \in Svc : ~IsParent(decl, bnd, FALSE, x, p)
        BY <4>1, <2>2, <2>7, OwnOrGate, TreeAssumption DEF IsParent, OnlyDeclared, BoundToSink
      <4>3. DOMAIN d = {}
        BY <4>2, <2>2, <2>5, NoParents
      <4>4. \A p \in Svc : DeclaredStrength(decl, x, p) = REQUIRE
        BY <4>1, <2>2, NoGateDeclared
      <4>5. \A t, u \in T : t = u
        BY <3>1, TreeAssumption
      <4>6. T \subseteq Svc
        BY <3>1, StructureAssumption
      <4> HIDE DEF d, d2, T
      <4>7. /\ \A k \in DOMAIN d2 : d2[k].target \in T /\ d2[k].type = REQUIRE
            /\ \A t \in T : t \in Targets(d2)
        BY <4>3, <4>5, <3>1, FreshPut
      <4> QED BY <4>2, <4>4, <4>6, <4>7, <3>2 DEF ParentsAre
    <3> QED BY <3>3, <3>4
  <2>9. ASSUME NEW x \in Svc
        PROVE  ChildrenAre(g2["children"][x], decl, bnd, TRUE, x)
    <3> DEFINE d  == g["children"][x]
               d2 == g2["children"][x]
    <3>1. IsDrop(d2, d, Lost(x))
      BY <2>4
    <3>2. CASE \A h \in Group : Source[h] # x
      <4>1. Lost(x) = {}
        BY <3>2
      <4> HIDE DEF d, d2, Lost
      <4>2. DOMAIN d2 = DOMAIN d /\ \A k \in DOMAIN d : d2[k] = d[k]
        BY <4>1, <3>1 DEF IsDrop
      <4>3. ChildrenAre(d, decl, bnd, FALSE, x) /\ \A k \in DOMAIN d : d[k].target \in Svc
        BY <2>5 DEF d
      <4>4. \A c \in Svc : IsChild(decl, bnd, TRUE, x, c) <=> IsChild(decl, bnd, FALSE, x, c)
        BY <2>6, <3>2
      <4>5. ChildrenAre(d2, decl, bnd, TRUE, x)
        BY <4>2, <4>3, <4>4 DEF ChildrenAre
      <4> QED BY <4>5 DEF d2
    <3>3. ASSUME NEW h \in Group, Source[h] = x
          PROVE  ChildrenAre(d2, decl, bnd, TRUE, x)
      <4>1. x \in Gates
        BY <3>3 DEF Gates
      <4>2. \A c \in Svc : ~IsChild(decl, bnd, TRUE, x, c)
        BY <4>1, <3>3, <2>2, <2>7, NoGateDeclared, OwnOrGate, TreeAssumption
           DEF IsChild, BoundToSource
      <4>3. \A c \in Svc : IsChild(decl, bnd, FALSE, x, c) => c = h
        BY <4>2, <3>3, <2>6, TreeAssumption
      <4>4. \A k \in DOMAIN d : d[k].target = h
        BY <4>3, <2>5 DEF ChildrenAre
      <4>5. \A k \in DOMAIN d : k = Label[h]
        BY <4>4, <2>2, SideIs DEF Keyed
      <4>6. Label[h] \in Lost(x)
        BY <3>3
      <4> HIDE DEF d, d2, Lost
      <4>7. DOMAIN d2 = {}
        BY <4>5, <4>6, <3>1 DEF IsDrop
      <4> QED BY <4>2, <4>7 DEF ChildrenAre
    <3> QED BY <3>2, <3>3
  <2>10. AsStated(g2, decl, bnd, TRUE)
    BY <2>8, <2>9 DEF AsStated
  <2> QED BY <2>1, <2>10, <1>2
<1> QED BY <1>1, <1>2

\* When all the groups are bound, this is what ServiceGraph states.
LEMMA ParentsByEntity ==
  ASSUME NEW g, GraphType(g), NEW decl, OnlyDeclared(g, decl), NEW bnd, Done(bnd) = Group,
         NEW rev, AsStated(g, decl, bnd, rev)
  PROVE  [s \in Svc |-> ByEntity(g["parents"][s])] = Parents(decl, bnd, rev)
<1> DEFINE Of(s) == DOMAIN decl[s]
            \cup {Sink[h] : h \in {i \in Group : s \in BoundToSink(decl, i)}}
            \cup (UNION {BoundToSource(decl, bnd, h) :
                           h \in {i \in Group : s = Source[i]}})
            \cup {h \in Group : rev /\ s = Sink[h]}
<1>1. ASSUME NEW s \in Svc
      PROVE  ByEntity(g["parents"][s]) = [p \in Of(s) |-> DeclaredStrength(decl, s, p)]
  <2> DEFINE d == g["parents"][s]
  <2>1. ParentsAre(d, decl, bnd, rev, s) /\ \A k \in DOMAIN d : d[k].target \in Svc
    BY TargetsIn DEF AsStated
  <2>2. \A p : p \in Of(s) <=> IsParent(decl, bnd, rev, s, p)
    BY DEF IsParent
  <2>3. Of(s) \subseteq Svc
    BY StructureAssumption, OwnOrGate DEF OnlyDeclared, BoundToSource
  <2> HIDE DEF d, Of
  <2>4. Targets(d) = Of(s)
    BY <2>1, <2>2, <2>3 DEF ParentsAre, Targets
  <2>5. ASSUME NEW t \in Targets(d)
        PROVE  d[CHOOSE k \in DOMAIN d : d[k].target = t].type = DeclaredStrength(decl, s, t)
    <3>1. \E k \in DOMAIN d : d[k].target = t
      BY DEF Targets
    <3> QED BY <3>1, <2>1 DEF ParentsAre
  <2>6. ByEntity(d) = [p \in Of(s) |-> DeclaredStrength(decl, s, p)]
    BY <2>4, <2>5 DEF ByEntity
  <2> QED BY <2>6 DEF d
<1>2. Parents(decl, bnd, rev) = [s \in Svc |-> [p \in Of(s) |-> DeclaredStrength(decl, s, p)]]
  BY DEF Parents
<1> HIDE DEF Of
<1> QED BY <1>1, <1>2

\* Two entities that wait for the same one have different names, if no names
\* that were declared collide.
LEMMA ChildNames ==
  ASSUME NEW g, NoCollision, GatesApart, OnlyDeclared(g, declared), NEW bnd, NEW rev,
         NEW s \in Svc, NEW c \in Svc, NEW u \in Svc, Label[c] = Label[u],
         IsChild(declared, bnd, rev, s, c), IsChild(declared, bnd, rev, s, u)
  PROVE  c = u
<1> DEFINE Said(x) == s \in DOMAIN declared[x]
           Src(x) == \E h \in Group : x = Source[h] /\ s \in Sub[h]
           Snk(x) == \E h \in Group : s = Sink[h] /\ x \in Sub[h]
           Half(x) == x \in Group /\ s = Source[x]
<1>1. ASSUME NEW x \in Svc, IsChild(declared, bnd, rev, s, x)
      PROVE  Said(x) \/ Src(x) \/ Snk(x) \/ Half(x)
  BY <1>1 DEF IsChild, BoundToSource, BoundToSink, Done
<1>2. CASE s \in Gates
  <2>1. ~Said(c) /\ ~Said(u) /\ ~Src(c) /\ ~Src(u)
    BY <1>2, NoGateDeclared, OwnOrGate
  <2>2. CASE Snk(c)
    <3>1. ~Half(u)
      BY <2>2, TreeAssumption
    <3>2. \E h \in Group : s = Sink[h] /\ c \in Sub[h] /\ u \in Sub[h]
      BY <1>1, <2>1, <2>2, <3>1, TreeAssumption
    <3> QED BY <3>2, LabelAssumption, OwnOrGate
  <2>3. CASE Half(c)
    <3>1. Half(u)
      BY <1>1, <2>1, <2>3, TreeAssumption
    <3> QED BY <2>3, <3>1, TreeAssumption
  <2> QED BY <1>1, <2>1, <2>2, <2>3
<1>3. CASE s \notin Gates
  <2>1. ~Snk(c) /\ ~Snk(u) /\ ~Half(c) /\ ~Half(u)
    BY <1>3 DEF Gates
  <2>2. CASE Said(c) /\ Said(u)
    BY <2>2 DEF NoCollision, Collide
  <2>3. CASE Src(c) /\ Src(u)
    BY <2>3, TreeAssumption
  <2>4. \A x, y \in Svc : Said(x) /\ Src(y) => Label[x] # Label[y]
    BY NoGateDeclared DEF GatesApart, Gates
  <2> QED BY <1>1, <2>1, <2>2, <2>3, <2>4
<1> QED BY <1>2, <1>3

LEMMA ChildrenByEntity ==
  ASSUME NEW g, GraphOK(g, declared), NEW bnd, Done(bnd) = Group, NEW rev,
         AsStated(g, declared, bnd, rev), NoCollision, GatesApart
  PROVE  [s \in Svc |-> ByEntity(g["children"][s])] = Children(declared, bnd, rev)
<1> DEFINE Of(s) == {t \in Svc : s \in DOMAIN declared[t]}
            \cup {Source[h] :
                    h \in {i \in Group : s \in BoundToSource(declared, bnd, i)}}
            \cup (UNION {BoundToSink(declared, h) :
                           h \in {i \in Group : s = Sink[i]}})
            \cup {h \in Group : ~rev /\ s = Source[h]}
<1>1. ASSUME NEW s \in Svc
      PROVE  ByEntity(g["children"][s]) = [c \in Of(s) |-> DeclaredStrength(declared, c, s)]
  <2> DEFINE d == g["children"][s]
  <2>1. ChildrenAre(d, declared, bnd, rev, s) /\ \A k \in DOMAIN d : d[k].target \in Svc
    BY TargetsIn DEF AsStated, GraphOK
  <2>2. \A c : c \in Of(s) <=> IsChild(declared, bnd, rev, s, c)
    BY DEF IsChild
  <2>3. Of(s) \subseteq Svc
    BY StructureAssumption, OwnOrGate DEF BoundToSink
  <2>4. \A k \in DOMAIN d : Label[d[k].target] = k
    BY SideIs DEF GraphOK, Keyed
  <2> HIDE DEF d, Of
  <2>5. ASSUME NEW c \in Of(s)
        PROVE  c \in Targets(d)
    <3>1. c \in Svc /\ IsChild(declared, bnd, rev, s, c) /\ Label[c] \in DOMAIN d
      BY <2>1, <2>2, <2>3 DEF ChildrenAre
    <3> DEFINE u == d[Label[c]].target
    <3>2. u \in Svc /\ Label[u] = Label[c] /\ IsChild(declared, bnd, rev, s, u)
      BY <3>1, <2>1, <2>4 DEF ChildrenAre
    <3>3. u = c
      <4> HIDE DEF u
      <4> QED BY <3>1, <3>2, ChildNames DEF GraphOK
    <3> QED BY <3>1, <3>3 DEF Targets
  <2>6. Targets(d) \subseteq Of(s)
    BY <2>1, <2>2 DEF ChildrenAre, Targets
  <2>7. ASSUME NEW t \in Targets(d)
        PROVE  d[CHOOSE k \in DOMAIN d : d[k].target = t].type = DeclaredStrength(declared, t, s)
    <3>1. \E k \in DOMAIN d : d[k].target = t
      BY DEF Targets
    <3> QED BY <3>1, <2>1 DEF ChildrenAre
  <2>8. ByEntity(d) = [c \in Of(s) |-> DeclaredStrength(declared, c, s)]
    BY <2>5, <2>6, <2>7 DEF ByEntity
  <2> QED BY <2>8 DEF d
<1>2. Children(declared, bnd, rev) =
        [s \in Svc |-> [c \in Of(s) |-> DeclaredStrength(declared, c, s)]]
  BY DEF Children
<1> HIDE DEF Of
<1> QED BY <1>1, <1>2

\* What a step of the loading leaves
Loads(frames2, bnd2) ==
  /\ BoundBefore(bnd2)
  /\ frames2 # <<>> => FramesOK(frames2, bnd2, declared')
  /\ frames2 = <<>> => Done(bnd2) = Group
  /\ GatesUnnamed' => AsStated(graph', declared', bnd2, FALSE)

LEMMA SameNames ==
  ASSUME UNCHANGED declared
  PROVE  GatesUnnamed' <=> GatesUnnamed
BY DEF GatesUnnamed, GatesApart

\* A step of the loading that fails
LEMMA LoadFails ==
  ASSUME UNCHANGED <<graph, loading, declared, bound>>, BoundBefore(bound),
         FramesOK(loading, bound, declared),
         GatesUnnamed => AsStated(graph, declared, bound, FALSE)
  PROVE  Loads(loading', bound')
BY SameNames DEF Loads, FramesOK

LEMMA LinkLoads ==
  ASSUME ManagerInv, BoundBefore(bound), FramesOK(loading, bound, declared),
         GatesUnnamed => AsStated(graph, declared, bound, FALSE),
         NEW s \in Svc, NEW type \in Strength, NEW name, Link(s, type, name)
  PROVE  Loads(loading', bound')
<1>1. <<s, <<type, name>>>> \in Top.links /\ UNCHANGED bound
  BY DEF Link
<1>2. loading \in Seq(FrameSet) /\ loading # <<>> /\ declared \in DeclaredSet
  BY DEF ManagerInv, FramesOK
<1>3. 1 \in DOMAIN loading /\ loading[1] \in FrameSet /\ Top = loading[1]
  BY <1>2 DEF Top
<1> DEFINE grp == loading[1].group
<1>4. grp \in Group /\ s \in Sub[grp] /\ s \in Own
  BY <1>1, <1>3, OwnOrGate DEF FrameSet
<1>5. PICK t \in Svc \cup {None} :
        IF t = None \/ ~CanAddDep(graph, s, t, "parents")
        THEN UNCHANGED <<graph, loading, declared>>
        ELSE /\ graph' = AddDeps(graph, s, {t}, type, "parents")
             /\ declared' = [declared EXCEPT ![s] =
                  [u \in DOMAIN declared[s] \cup {t} |->
                     IF u = t THEN type ELSE declared[s][u]]]
             /\ loading' = [loading EXCEPT ![1].links = @ \ {<<s, <<type, name>>>>}]
  BY DEF Link
<1>6. CASE t = None \/ ~CanAddDep(graph, s, t, "parents")
  BY <1>1, <1>5, <1>6, LoadFails
<1>7. CASE t # None /\ Label[t] \notin DOMAIN graph["parents"][s]
  <2> DEFINE T == {t}
             links == loading[1].links \ {<<s, <<type, name>>>>}
  <2>1. /\ t \in Svc
        /\ graph' = AddDeps(graph, s, T, type, "parents")
        /\ declared' = [declared EXCEPT ![s] =
                  [u \in DOMAIN declared[s] \cup {t} |->
                     IF u = t THEN type ELSE declared[s][u]]]
        /\ loading' = [loading EXCEPT ![1] = [loading[1] EXCEPT !.links = links]]
    BY <1>5, <1>7 DEF CanAddDep
  <2>2. T = {t} /\ loading[1].links # {}
    BY <1>1, <1>3
  <2> HIDE DEF T, links
  <2>3. /\ \A x \in Svc : DOMAIN declared[x] \subseteq DOMAIN declared'[x]
        /\ \A x \in Svc \ {s} : DOMAIN declared'[x] = DOMAIN declared[x]
        /\ t \in DOMAIN declared'[s]
    BY <2>1, <1>2 DEF DeclaredSet
  <2>4. FramesOK(loading', bound, declared') /\ grp \notin Done(bound)
    <3>1. loading' = [loading EXCEPT ![1] = [loading[1] EXCEPT !.links = links]]
      BY <2>1
    <3>2. loading[1].links # {}
      BY <2>2
    <3>3. s \in Sub[loading[1].group]
      BY <1>4
    <3>4. \A x \in Svc \ {s} : DOMAIN declared'[x] = DOMAIN declared[x]
      BY <2>3
    <3>5. FramesOK(loading', bound, declared') /\ loading[1].group \notin Done(bound)
      BY <1>2, <3>1, <3>2, <3>3, <3>4, LinkFrames
    <3> QED BY <3>5
  <2>5. loading' # <<>>
    BY <2>4 DEF FramesOK
  <2>6. ASSUME GatesUnnamed'
        PROVE  AsStated(graph', declared', bound, FALSE)
    <3>1. GatesUnnamed
      BY <2>3, <2>6, DeclaredGrows
    <3>2. GraphOK(graph, declared) /\ AsStated(graph, declared, bound, FALSE)
      BY <3>1 DEF ManagerInv
    <3>3. t \in Own
      BY <2>3, <2>6 DEF GatesUnnamed, Own
    <3> HIDE DEF grp
    <3> QED BY <1>2, <1>4, <1>7, <2>1, <2>2, <2>4, <3>2, <3>3, LinkStated
  <2> QED BY <1>1, <2>4, <2>5, <2>6 DEF Loads
<1> QED BY <1>6, <1>7 DEF CanAddDep

LEMMA BindLoads ==
  ASSUME ManagerInv, BoundBefore(bound), FramesOK(loading, bound, declared),
         GatesUnnamed => AsStated(graph, declared, bound, FALSE), Bind
  PROVE  Loads(loading', bound')
<1> DEFINE here == Top.group
<1>1. loading \in Seq(FrameSet) /\ loading # <<>>
  BY DEF ManagerInv, FramesOK
<1>2. 1 \in DOMAIN loading /\ loading[1] \in FrameSet /\ Top = loading[1]
  BY <1>1 DEF Top
<1>3. /\ loading[1].links = {} /\ ~loading[1].bound
      /\ loading' = [loading EXCEPT ![1] = [loading[1] EXCEPT !.bound = TRUE]]
      /\ graph' = BindAll(graph, here) /\ UNCHANGED declared
      /\ bound' = [bound EXCEPT ![here] = Done(bound) \cup {here}]
  BY <1>2 DEF Bind, Done
<1>4. here = loading[1].group
  BY <1>2
<1> HIDE DEF here
<1>5. /\ FramesOK(loading', bound', declared) /\ BoundBefore(bound') /\ here \in Group
      /\ here \notin Done(bound) /\ Done(bound') = Done(bound) \cup {here}
  <2>1. IsBound(loading', bound', loading, bound, here)
    BY <1>3, <1>4 DEF IsBound
  <2> QED BY <1>1, <2>1, BindFrames
<1>6. loading' # <<>>
  BY <1>5 DEF FramesOK
<1>7. \A s \in Svc : DOMAIN declared[s] # {} =>
        \E h \in Group : s \in Sub[h] /\ (h \in Done(bound) \/ h = here)
  BY <1>4 DEF FramesOK, SaidBy
<1>8. ASSUME GatesUnnamed'
      PROVE  AsStated(graph', declared', bound', FALSE)
  <2>1. GatesUnnamed
    BY <1>3, <1>8, SameNames
  <2>2. GraphOK(graph, declared) /\ AsStated(graph, declared, bound, FALSE)
    BY <2>1 DEF ManagerInv
  <2>3. AsStated(BindAll(graph, here), declared, bound', FALSE)
    BY <1>3, <1>5, <1>7, <2>2, BindStated
  <2> QED BY <1>3, <2>3
<1> QED BY <1>3, <1>5, <1>6, <1>8 DEF Loads

LEMMA EndLoads ==
  ASSUME ManagerInv, BoundBefore(bound), FramesOK(loading, bound, declared),
         GatesUnnamed => AsStated(graph, declared, bound, FALSE), EndGroup
  PROVE  Loads(loading', bound')
<1>1. loading \in Seq(FrameSet) /\ loading # <<>>
  BY DEF ManagerInv, FramesOK
<1>2. Top = loading[1]
  BY <1>1 DEF Top
<1>3. /\ loading[1].bound /\ loading[1].rest = {}
      /\ loading' = loading \/ loading' = Tail(loading)
      /\ UNCHANGED <<graph, declared, bound>>
  BY <1>2 DEF EndGroup
<1>4. CASE loading' = loading
  BY <1>3, <1>4, LoadFails
<1>5. CASE loading' = Tail(loading)
  <2>1. /\ loading' # <<>> => FramesOK(loading', bound, declared)
        /\ loading' = <<>> => Done(bound) = Group
    BY <1>1, <1>3, <1>5, EndFrames
  <2> QED BY <1>3, <2>1, SameNames DEF Loads
<1> QED BY <1>3, <1>4, <1>5

LEMMA DescendLoads ==
  ASSUME ManagerInv, BoundBefore(bound), FramesOK(loading, bound, declared),
         GatesUnnamed => AsStated(graph, declared, bound, FALSE),
         NEW h \in Group, Descend(h)
  PROVE  Loads(loading', bound')
<1> DEFINE rest == loading[1].rest \ {h}
           f    == [loading[1] EXCEPT !.rest = rest]
<1>1. loading \in Seq(FrameSet) /\ loading # <<>>
  BY DEF ManagerInv, FramesOK
<1>2. 1 \in DOMAIN loading /\ loading[1] \in FrameSet /\ Top = loading[1]
  BY <1>1 DEF Top
<1>3. /\ loading[1].bound /\ h \in loading[1].rest
      /\ loading' = <<Frame(h)>> \o [loading EXCEPT ![1] = f]
      /\ UNCHANGED <<graph, declared, bound>>
  BY <1>2 DEF Descend
<1>4. f \in FrameSet
  BY <1>2 DEF FrameSet
<1>5. [loading EXCEPT ![1] = f] \in Seq(FrameSet)
  <2> HIDE DEF f
  <2> QED BY <1>1, <1>4, FramesAre
<1>6. FramesOK(loading', bound, declared)
  BY <1>1, <1>3, <1>5, DescendFrames
<1>7. loading' # <<>>
  BY <1>6 DEF FramesOK
<1> QED BY <1>3, <1>6, <1>7, SameNames DEF Loads

-------------------------------------------------------------------------------
(* The invariant of the first call *)

LEMMA LoadInit == Init => LoadInv
<1> SUFFICES ASSUME Init PROVE LoadInv
  OBVIOUS
<1>1. /\ bound = [g \in Group |-> {}] /\ graph = NewGraph /\ pc = "idle" /\ reversed = FALSE
      /\ declared = [s \in Svc |-> Empty]
  BY DEF Init, LoaderInit
<1>2. Done(bound) = {} /\ BoundBefore(bound) /\ \A s \in Svc : DOMAIN declared[s] = {}
  BY <1>1 DEF Done, BoundBefore, Empty
<1>3. AsStated(graph, declared, bound, reversed)
  BY <1>1, <1>2, NewGraphStated
<1> QED BY <1>1, <1>2, <1>3 DEF LoadInv, After

\* A step that leaves the graph and the frames alone
LEMMA LoadInvKept ==
  ASSUME LoadInv, UNCHANGED <<graph, declared, bound, reversed, call, runs>>,
         <<pc, pc'>> \in {<<"apply", "reverse">>, <<"variables", "resolve">>,
                          <<"resolve", "select">>}
  PROVE  LoadInv'
BY SameNames DEF LoadInv, Before, After

\* The cuts come after.
LEMMA LoadInvOver ==
  ASSUME LoadInv, UNCHANGED <<bound, call, runs>>, pc # "idle", pc' \in {"nodeps", "run"}
  PROVE  LoadInv'
BY DEF LoadInv, Before, After

LEMMA LoadedInv ==
  ASSUME ManagerInv, LoadInv, Loaded
  PROVE  LoadInv'
<1>1. /\ pc = "loading" /\ LoadStep /\ pc' = IF loading' = <<>> THEN "apply" ELSE "loading"
      /\ UNCHANGED <<call, reversed, runs>>
  BY DEF Loaded, managerVars
<1>2. CASE runs = <<>>
  <2>1. /\ BoundBefore(bound) /\ FramesOK(loading, bound, declared) /\ call \in Calls
        /\ reversed = FALSE
        /\ GatesUnnamed => AsStated(graph, declared, bound, FALSE)
    BY <1>1, <1>2 DEF LoadInv, Before
  <2>2. Loads(loading', bound')
    <3>1. ASSUME NEW s \in Svc, NEW type \in Strength, NEW name, Link(s, type, name)
          PROVE  Loads(loading', bound')
      BY <2>1, <3>1, LinkLoads
    <3>2. ASSUME Bind
          PROVE  Loads(loading', bound')
      BY <2>1, <3>2, BindLoads
    <3>3. ASSUME EndGroup
          PROVE  Loads(loading', bound')
      BY <2>1, <3>3, EndLoads
    <3>4. ASSUME NEW g \in Group, Descend(g)
          PROVE  Loads(loading', bound')
      BY <2>1, <3>4, DescendLoads
    <3> QED BY <1>1, <3>1, <3>2, <3>3, <3>4 DEF LoadStep
  <2> QED BY <1>1, <1>2, <2>1, <2>2 DEF LoadInv, Loads, Before, After
<1>3. CASE runs # <<>>
  <2>1. bound' = bound \/ Bind
    BY <1>1 DEF LoadStep, Link, EndGroup, Descend
  <2>2. CASE Bind
    <3>1. /\ Top.group \in Group
          /\ bound' = [bound EXCEPT ![Top.group] = Done(bound) \cup {Top.group}]
      BY <2>2 DEF Bind, Done, ManagerInv, Loading, Top, FrameSet
    <3>2. BoundBefore(bound')
      BY <3>1 DEF LoadInv, BoundBefore, Done
    <3> QED BY <1>1, <1>3, <3>2 DEF LoadInv
  <2> QED BY <1>1, <1>3, <2>1, <2>2 DEF LoadInv
<1> QED BY <1>2, <1>3

LEMMA LoadNext ==
  ASSUME ManagerInv, DefineInv, LoadInv, [Next]_vars
  PROVE  LoadInv'
<1>1. ASSUME NEW c \in Calls, Reset(c)
      PROVE  LoadInv'
  <2>1. /\ pc = "idle" /\ (runs = <<>> => pc' = "load") /\ call' = c /\ reversed' = FALSE
        /\ graph' = AlgoReversed(graph, reversed, FALSE)
        /\ UNCHANGED <<declared, bound, runs>>
    BY <1>1 DEF Reset, At
  <2>2. runs = <<>> => graph' = graph
    BY <2>1 DEF LoadInv, Before, AlgoReversed
  <2> QED BY <2>1, <2>2, SameNames DEF LoadInv, Before, After
<1>2. CASE Load
  <2>1. /\ pc = "load" /\ pc' = "loading" /\ loading' = <<Frame(MAIN)>>
        /\ UNCHANGED <<graph, declared, bound, reversed, call, runs>>
    BY <1>2 DEF Load, At, StartLoading, managerVars
  <2>2. runs = <<>> => FramesOK(loading', bound, declared)
    BY <2>1, FirstFrame DEF LoadInv
  <2> QED BY <2>1, <2>2, SameNames DEF LoadInv, Before, After
<1>3. CASE Loaded
  BY <1>3, LoadedInv
<1>4. CASE ApplyConfig
  <2>1. /\ pc = "apply" /\ pc' = "reverse"
        /\ UNCHANGED <<graph, declared, bound, reversed, call, runs>>
    BY <1>4 DEF ApplyConfig, At
  <2> QED BY <2>1, LoadInvKept
<1>5. CASE SetReversed
  <2>1. /\ pc = "reverse" /\ pc' = "variables" /\ reversed' = call.reversed
        /\ graph' = AlgoReversed(graph, reversed, call.reversed)
        /\ UNCHANGED <<declared, bound, call, runs>>
    BY <1>5 DEF SetReversed, At
  <2>2. ASSUME runs = <<>>, GatesUnnamed
        PROVE  AsStated(graph', declared, bound, reversed')
    <3>1. /\ reversed = FALSE /\ call.reversed \in BOOLEAN
          /\ AsStated(graph, declared, bound, FALSE) /\ GraphOK(graph, declared)
      BY <2>1, <2>2, CallAssumption DEF LoadInv, Before, CallOK, ManagerInv
    <3> QED BY <2>1, <3>1, ReversedStated
  <2> QED BY <2>1, <2>2, SameNames DEF LoadInv, Before, After
<1>6. CASE VariableConfig
  <2>1. /\ pc = "variables" /\ pc' = "resolve"
        /\ UNCHANGED <<graph, declared, bound, reversed, call, runs>>
    BY <1>6 DEF VariableConfig, At
  <2> QED BY <2>1, LoadInvKept
<1>7. CASE ResolveAll
  <2>1. /\ pc = "resolve" /\ pc' = "select"
        /\ UNCHANGED <<graph, declared, bound, reversed, call, runs>>
    BY <1>7 DEF ResolveAll, At
  <2> QED BY <2>1, LoadInvKept
<1>8. CASE SelectServices
  <2>1. pc = "select" /\ pc' = "nodeps" /\ UNCHANGED <<bound, call, runs>>
    BY <1>8 DEF SelectServices, At
  <2> QED BY <2>1, LoadInvOver
<1>9. CASE DisableDeps
  <2>1. pc = "nodeps" /\ pc' = "run" /\ UNCHANGED <<bound, call, runs>>
    BY <1>9 DEF DisableDeps, At
  <2> QED BY <2>1, LoadInvOver
<1>10. CASE Run
  <2>1. PICK r : runs' = Append(runs, r) /\ UNCHANGED bound
    BY <1>10 DEF Run
  <2>2. runs' # <<>>
    BY <2>1 DEF DefineInv
  <2> QED BY <2>1, <2>2 DEF LoadInv
<1>11. CASE UNCHANGED vars
  <2>1. UNCHANGED <<pc, graph, loading, declared, bound, reversed, call, runs>>
    BY <1>11 DEF vars, loaderVars
  <2> QED BY <2>1, SameNames DEF LoadInv
<1> QED BY <1>1, <1>2, <1>3, <1>4, <1>5, <1>6, <1>7, <1>8, <1>9, <1>10, <1>11
        DEF Next, Step, Stopped

LEMMA StatedIs ==
  ASSUME ManagerInv, LoadInv, GatesUnnamed
  PROVE  GraphAsStated
<1> SUFFICES ASSUME runs = <<>>, pc \in After
             PROVE  /\ [s \in Svc |-> ByEntity(graph["parents"][s])]
                         = Parents(declared, bound, reversed)
                    /\ NoCollision => [s \in Svc |-> ByEntity(graph["children"][s])]
                                        = Children(declared, bound, reversed)
  BY DEF GraphAsStated, After
<1>1. GraphOK(graph, declared) /\ GatesApart
  BY DEF ManagerInv, GatesUnnamed
<1>2. Done(bound) = Group /\ AsStated(graph, declared, bound, reversed)
  BY DEF LoadInv
<1>3. GraphType(graph) /\ OnlyDeclared(graph, declared)
  BY <1>1 DEF GraphOK
<1> QED BY <1>1, <1>2, <1>3, ParentsByEntity, ChildrenByEntity

\* The graph that is loaded is the one on which the engine is checked, for all
\* trees of groups and all files, in whatever order they are read, as long as
\* nothing has the name of a gate.
THEOREM GraphAsStatedHolds == Spec => [](GatesUnnamed => GraphAsStated)
<1>1. Init => ManagerInv /\ DefineInv /\ LoadInv
  BY ManagerInit, DefineInit, LoadInit
<1>2. ManagerInv /\ DefineInv /\ LoadInv /\ [Next]_vars => ManagerInv' /\ DefineInv' /\ LoadInv'
  BY ManagerNext, DefineNext, LoadNext
<1>3. ManagerInv /\ LoadInv => (GatesUnnamed => GraphAsStated)
  BY StatedIs
<1> QED BY <1>1, <1>2, <1>3, PTL DEF Spec
===============================================================================
