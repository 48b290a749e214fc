----------------------------- MODULE Calls_proofs -----------------------------
(***************************************************************************)
(* What a call of the ServiceManager runs on: its nodes and its services,  *)
(* after any calls, for all trees of groups and all files.                 *)
(***************************************************************************)
EXTENDS Manager_proofs, FiniteSetTheorems, WellFoundedInduction

LEMMA Lowest ==
  ASSUME NEW S, S # {}, NEW f \in [S -> Nat]
  PROVE  \E x \in S : \A y \in S : f[x] <= f[y]
<1> DEFINE N == {f[x] : x \in S}
<1>1. N \in SUBSET Nat /\ N # {}
  OBVIOUS
<1>2. PICK n \in N : \A m \in N : ~ (<<m, n>> \in OpToRel(<, Nat))
  BY <1>1, WFMin, NatLessThanWellFounded, Zenon
<1>3. \A m \in N : ~ (m < n)
  <2> HIDE DEF N
  <2> QED BY <1>1, <1>2 DEF OpToRel
<1>4. \A m \in N : n <= m
  <2> HIDE DEF N
  <2> QED BY <1>1, <1>3
<1> QED BY <1>4
-------------------------------------------------------------------------------
(* The tree of groups *)

\* The group around a subservice.
Up(s) == CHOOSE g \in Group : s \in Sub[g]

Depth == [s \in Svc |-> Cardinality({g \in Group : s \in Inner[g]})]

LEMMA Finite ==
  ASSUME NEW S \in SUBSET Svc
  PROVE  IsFiniteSet(S) /\ Cardinality(S) \in Nat
BY InsideAssumption, FS_Subset, FS_CardinalityType

LEMMA Smaller ==
  ASSUME NEW S \in SUBSET Svc, NEW T \in SUBSET S, NEW x \in S \ T
  PROVE  Cardinality(T) < Cardinality(S)
<1>1. IsFiniteSet(S) /\ Cardinality(S) \in Nat /\ Cardinality(T) \in Nat
  BY Finite
<1>2. Cardinality(T) <= Cardinality(S) /\ Cardinality(T) # Cardinality(S)
  BY <1>1, FS_Subset
<1> QED BY <1>1, <1>2

LEMMA InnerIs ==
  ASSUME NEW g \in Group
  PROVE  /\ Inner[g] \subseteq Own \ {MAIN} /\ Inner[g] \subseteq Svc /\ g \notin Inner[g]
         /\ Sub[g] \subseteq Inner[g]
         /\ \A s \in Inner[g] : s \in Sub[g] \/ \E h \in Sub[g] \cap Group : s \in Inner[h]
         /\ \A h \in Group \cap Inner[g] : Inner[h] \subseteq Inner[g]
<1>1. Own \subseteq Svc
  BY OwnOrGate
<1> QED BY <1>1, StructureAssumption, InsideAssumption DEF Own

\* What is inside a group is a subservice of it, or of a group inside it.
LEMMA InSub ==
  ASSUME NEW g \in Group, NEW s \in Inner[g]
  PROVE  \E h \in Group : s \in Sub[h] /\ (h = g \/ h \in Inner[g])
<1> DEFINE Good(k) == \E h \in Group : s \in Sub[h] /\ (h = k \/ h \in Inner[k])
           Bad     == {k \in Group : s \in Inner[k] /\ ~Good(k)}
           f       == [k \in Bad |-> Cardinality(Inner[k])]
<1>1. SUFFICES ASSUME Bad # {} PROVE FALSE
  OBVIOUS
<1>2. f \in [Bad -> Nat]
  BY InnerIs, Finite
<1>3. PICK k \in Bad : \A m \in Bad : f[k] <= f[m]
  <2> HIDE DEF f, Bad
  <2> QED BY <1>1, <1>2, Lowest
<1>4. PICK h \in Sub[k] \cap Group : s \in Inner[h]
  BY InnerIs
<1>5. h \in Inner[k] /\ h \notin Inner[h] /\ Inner[h] \subseteq Inner[k] /\ Inner[k] \subseteq Svc
  BY InnerIs
<1>6. Cardinality(Inner[h]) < Cardinality(Inner[k])
  BY <1>5, Smaller
<1>7. h \notin Bad
  <2>1. h \in Bad => f[h] = Cardinality(Inner[h]) /\ f[k] = Cardinality(Inner[k])
    OBVIOUS
  <2> HIDE DEF f, Bad
  <2> QED BY <1>2, <1>3, <1>6, <2>1
<1>8. Good(h)
  BY <1>4, <1>7
<1>9. Good(k)
  BY <1>5, <1>8
<1> QED BY <1>3, <1>9

\* The group around a subservice is the only one it is in, and any other that
\* it is inside is around this one.
LEMMA UpIs ==
  ASSUME NEW s \in Inner[MAIN]
  PROVE  /\ Up(s) \in Group /\ s \in Sub[Up(s)] /\ s \in Inner[Up(s)] /\ s \in Svc
         /\ \A g \in Group : s \in Sub[g] => g = Up(s)
         /\ \A g \in Group : s \in Inner[g] <=> g = Up(s) \/ Up(s) \in Inner[g]
<1>1. MAIN \in Group
  BY StructureAssumption
<1>2. \E h \in Group : s \in Sub[h]
  BY <1>1, InSub
<1>3. Up(s) \in Group /\ s \in Sub[Up(s)]
  BY <1>2 DEF Up
<1>4. ASSUME NEW g \in Group, s \in Sub[g]
      PROVE  g = Up(s)
  BY <1>3, <1>4, TreeAssumption
<1>5. ASSUME NEW g \in Group, s \in Inner[g]
      PROVE  g = Up(s) \/ Up(s) \in Inner[g]
  BY <1>4, <1>5, InSub
<1>6. ASSUME NEW g \in Group, g = Up(s) \/ Up(s) \in Inner[g]
      PROVE  s \in Inner[g]
  BY <1>3, <1>6, InnerIs
<1> QED BY <1>1, <1>3, <1>4, <1>5, <1>6, InnerIs

LEMMA DepthLess ==
  ASSUME NEW s \in Inner[MAIN]
  PROVE  Depth[Up(s)] < Depth[s]
<1> DEFINE Above(t) == {g \in Group : t \in Inner[g]}
<1>1. Above(s) \subseteq Svc /\ Up(s) \in Svc /\ s \in Svc /\ MAIN \in Group
  BY StructureAssumption, UpIs
<1>2. Above(Up(s)) \subseteq Above(s) /\ Up(s) \in Above(s) \ Above(Up(s))
  BY UpIs, InnerIs
<1>3. Cardinality(Above(Up(s))) < Cardinality(Above(s))
  <2> HIDE DEF Above
  <2> QED BY <1>1, <1>2, Smaller
<1> QED BY <1>1, <1>3 DEF Depth

\* Induction on the tree: of some entities, one is not below another.
LEMMA Upwards ==
  ASSUME NEW Bad \in SUBSET Svc, Bad # {}
  PROVE  \E s \in Bad : s \in Inner[MAIN] => Up(s) \in Svc \ Bad
<1> DEFINE f == [s \in Bad |-> Depth[s]]
<1>1. f \in [Bad -> Nat]
  <2>1. \A s \in Svc : {g \in Group : s \in Inner[g]} \in SUBSET Svc
    BY StructureAssumption
  <2> QED BY <2>1, Finite DEF Depth
<1>2. PICK s \in Bad : \A t \in Bad : f[s] <= f[t]
  <2> HIDE DEF f
  <2> QED BY <1>1, Lowest
<1>3. ASSUME s \in Inner[MAIN]
      PROVE  Up(s) \in Svc \ Bad
  <2>1. Depth[Up(s)] < Depth[s] /\ Up(s) \in Svc
    BY <1>3, DepthLess, UpIs, StructureAssumption
  <2>2. Up(s) \notin Bad
    BY <1>1, <1>2, <2>1
  <2> QED BY <2>1, <2>2
<1> QED BY <1>3
-------------------------------------------------------------------------------
(* Functions that are read along the tree, until some entities *)

LEMMA InnerMain ==
  /\ MAIN \in Group /\ Inner[MAIN] = Own \ {MAIN} /\ Inner[MAIN] \subseteq Svc
  /\ \A g \in Group : Inner[g] \subseteq Inner[MAIN]
<1>1. MAIN \in Group /\ Inner[MAIN] = Own \ {MAIN}
  BY StructureAssumption, InsideAssumption DEF Own
<1>2. ASSUME NEW g \in Group
      PROVE  Inner[g] \subseteq Inner[MAIN]
  BY <1>1, InnerIs
<1> QED BY <1>1, <1>2, InnerIs

\* The entity itself, or the nearest group around it, of those given.
Near(stops, s) ==
  IF s \in stops THEN {s}
  ELSE {u \in stops \cap Group :
          s \in Inner[u] /\ ~\E v \in stops \cap Group : s \in Inner[v] /\ v \in Inner[u]}

LEMMA NearIs ==
  ASSUME NEW stops \in SUBSET Svc, NEW s \in Inner[MAIN] \ stops
  PROVE  Near(stops, s) = Near(stops, Up(s))
<1> DEFINE up == Up(s)
<1>1. /\ up \in Group /\ s \in Inner[up] /\ up \notin Inner[up]
      /\ \A g \in Group : s \in Inner[g] <=> g = up \/ up \in Inner[g]
  BY UpIs, InnerIs
<1> HIDE DEF up
<1>2. CASE up \in stops
  <2>1. Near(stops, up) = {up}
    BY <1>2 DEF Near
  <2>2. up \in Near(stops, s)
    <3>1. ~\E v \in stops \cap Group : s \in Inner[v] /\ v \in Inner[up]
      BY <1>1, InnerIs
    <3> QED BY <1>1, <1>2, <3>1 DEF Near
  <2>3. ASSUME NEW u \in Near(stops, s)
        PROVE  u = up
    BY <1>1, <1>2, <2>3 DEF Near
  <2> QED BY <2>1, <2>2, <2>3 DEF up
<1>3. CASE up \notin stops
  <2>1. \A g \in stops \cap Group : s \in Inner[g] <=> up \in Inner[g]
    BY <1>1, <1>3
  <2>2. Near(stops, s) = Near(stops, up)
    BY <1>3, <2>1 DEF Near
  <2> QED BY <2>2 DEF up
<1> QED BY <1>2, <1>3

ReadUpwards(F, stops, base) ==
  F = [s \in Svc |-> IF s \in stops THEN base[s] ELSE F[Up(s)]]

\* What equals its value at the group around is well defined, if all the paths up
\* stop somewhere.
LEMMA UpRecursion ==
  ASSUME NEW stops \in SUBSET Svc, Svc \ stops \subseteq Inner[MAIN], NEW base
  PROVE  \E F : ReadUpwards(F, stops, base)
<1> DEFINE at(s) == CHOOSE u \in Near(stops, s) : TRUE
           F     == [s \in Svc |-> base[at(s)]]
           G     == [s \in Svc |-> IF s \in stops THEN base[s] ELSE F[Up(s)]]
<1>1. ASSUME NEW s \in Svc
      PROVE  F[s] = G[s]
  <2>1. CASE s \in stops
    <3>1. Near(stops, s) = {s}
      BY <2>1 DEF Near
    <3> QED BY <2>1, <3>1
  <2>2. CASE s \notin stops
    <3>1. Near(stops, s) = Near(stops, Up(s)) /\ Up(s) \in Svc
      BY <2>2, NearIs, UpIs, StructureAssumption
    <3> QED BY <2>2, <3>1
  <2> QED BY <2>1, <2>2
<1>2. F = G
  BY <1>1
<1> HIDE DEF F
<1>3. ReadUpwards(F, stops, base)
  BY <1>2 DEF ReadUpwards
<1> QED BY <1>3

\* The target declared for an entity, or for the one around it.
LEMMA DeclaredIs ==
  ASSUME NEW s \in Svc
  PROVE  DeclaredTarget[s] = IF yaml.target[s] # None THEN ReadTarget(yaml, s, yaml.var)
                             ELSE IF s \notin Inner[MAIN] THEN None
                             ELSE DeclaredTarget[Up(s)]
<1> DEFINE stops   == {t \in Svc : yaml.target[t] # None \/ t \notin Inner[MAIN]}
           base    == [t \in Svc |-> IF yaml.target[t] # None
                                     THEN ReadTarget(yaml, t, yaml.var) ELSE None]
           Sat(F)  == F = [t \in Svc |->
                             IF yaml.target[t] # None THEN ReadTarget(yaml, t, yaml.var)
                             ELSE IF t \notin Inner[MAIN] THEN None
                             ELSE F[CHOOSE g \in Group : t \in Sub[g]]]
<1>1. PICK F : ReadUpwards(F, stops, base)
  <2>1. Svc \ stops \subseteq Inner[MAIN] /\ stops \in SUBSET Svc
    OBVIOUS
  <2> HIDE DEF stops, base
  <2> QED BY <2>1, UpRecursion
<1>2. Sat(F)
  BY <1>1 DEF Up, ReadUpwards
<1>3. DeclaredTarget = CHOOSE G : Sat(G)
  BY DEF DeclaredTarget
<1>4. Sat(DeclaredTarget)
  <2> HIDE DEF Sat
  <2> QED BY <1>2, <1>3
<1> QED BY <1>4 DEF Up

\* What inherits_from leaves: the targets that were there, and that of the group
\* around the others, inside of `grp'.
LEMMA InheritIs ==
  ASSUME NEW targets, NEW grp \in Group, NEW I, I = Inherit(targets, grp)
  PROVE  /\ DOMAIN I = Svc
         /\ \A s \in Svc : I[s] = IF targets[s] # None \/ s \notin Inner[grp]
                                 THEN targets[s] ELSE I[Up(s)]
<1> DEFINE stops  == {t \in Svc : targets[t] # None \/ t \notin Inner[grp]}
           Sat(F) == F = [t \in Svc |->
                            IF targets[t] # None \/ t \notin Inner[grp] THEN targets[t]
                            ELSE F[CHOOSE g \in Group : t \in Sub[g]]]
<1>1. PICK F : ReadUpwards(F, stops, targets)
  <2>1. Svc \ stops \subseteq Inner[MAIN] /\ stops \in SUBSET Svc
    BY InnerMain
  <2> HIDE DEF stops
  <2> QED BY <2>1, UpRecursion
<1>2. Sat(F)
  BY <1>1 DEF Up, ReadUpwards
<1>3. I = CHOOSE G : Sat(G)
  BY DEF Inherit
<1>4. Sat(I)
  <2> HIDE DEF Sat
  <2> QED BY <1>2, <1>3
<1> QED BY <1>4 DEF Up
-------------------------------------------------------------------------------
(* The groups whose fromdict is running, and those whose fromdict returned *)

In(frames) == {frames[i].group : i \in DOMAIN frames}
Ended(frames, bnd) == Done(bnd) \ In(frames)

\* MAIN is the outermost; a group is entered after the one around it; it enters
\* all its groups in turn; and it returns after them.
Nested(frames, bnd) ==
  /\ frames # <<>> /\ frames[Len(frames)].group = MAIN
  /\ \A i, j \in DOMAIN frames : frames[i].group \in Sub[frames[j].group] => i < j
  /\ \A i \in DOMAIN frames : Sub[frames[i].group] \cap Group
                                 \subseteq frames[i].rest \cup Done(bnd) \cup In(frames)
  /\ \A g \in Ended(frames, bnd) : Sub[g] \cap Group \subseteq Ended(frames, bnd)

\* The first group is edited, as by Link and Bind.
SameGroups(frames2, frames) ==
  /\ DOMAIN frames2 = DOMAIN frames /\ frames2 # <<>> /\ Len(frames2) = Len(frames)
  /\ \A i \in DOMAIN frames : /\ frames2[i].group = frames[i].group
                              /\ frames2[i].rest = frames[i].rest

LEMMA NestedEdited ==
  ASSUME NEW frames \in Seq(FrameSet), NEW bnd, Nested(frames, bnd),
         NEW frames2, SameGroups(frames2, frames),
         NEW bnd2, Done(bnd) \subseteq Done(bnd2), Done(bnd2) \subseteq Done(bnd) \cup In(frames)
  PROVE  Nested(frames2, bnd2) /\ Ended(frames2, bnd2) = Ended(frames, bnd)
<1>1. Len(frames) \in DOMAIN frames
  BY DEF Nested
<1>2. In(frames2) = In(frames)
  BY DEF In, SameGroups
<1>3. Ended(frames2, bnd2) = Ended(frames, bnd)
  BY <1>2 DEF Ended
<1> QED BY <1>1, <1>2, <1>3 DEF Nested, SameGroups

\* When the first group returns, its groups have.
LEMMA NestedEnd ==
  ASSUME NEW frames \in Seq(FrameSet), NEW bnd, NEW decl, FramesOK(frames, bnd, decl),
         Nested(frames, bnd), frames[1].bound, frames[1].rest = {},
         NEW grp, grp = frames[1].group, NEW frames2, frames2 = Tail(frames)
  PROVE  /\ grp \in Group /\ Sub[grp] \cap Group \subseteq Ended(frames, bnd)
         /\ Ended(frames2, bnd) = Ended(frames, bnd) \cup {grp}
         /\ frames2 # <<>> => Nested(frames2, bnd)
         /\ frames2 = <<>> => grp = MAIN
<1>1. frames # <<>> /\ 1 \in DOMAIN frames /\ frames[1] \in FrameSet /\ InTurn(frames, bnd)
  BY DEF FramesOK
<1>2. grp \in Group /\ grp \in Done(bnd)
  BY <1>1 DEF FrameSet, InTurn, FrameOK
<1>3. Sub[grp] \cap Group \subseteq Ended(frames, bnd)
  <2> SUFFICES ASSUME NEW h \in Sub[grp] \cap Group
               PROVE  h \in Done(bnd) /\ h \notin In(frames)
    BY DEF Ended
  <2>1. h \in Done(bnd) \cup In(frames)
    BY <1>1 DEF Nested
  <2>2. h \notin In(frames)
    <3> SUFFICES ASSUME NEW i \in DOMAIN frames, frames[i].group = h
                 PROVE  FALSE
      BY DEF In
    <3>1. i < 1 /\ i \in 1..Len(frames)
      BY <1>1 DEF Nested
    <3> QED BY <3>1
  <2> QED BY <2>1, <2>2
<1>4. /\ Len(frames) \in Nat /\ DOMAIN frames = 1..Len(frames)
      /\ DOMAIN frames2 = 1..(Len(frames) - 1) /\ Len(frames2) = Len(frames) - 1
      /\ \A i \in DOMAIN frames2 : frames2[i] = frames[i + 1]
  BY <1>1
<1>5. /\ \A i \in DOMAIN frames2 : i + 1 \in DOMAIN frames /\ i + 1 # 1 /\ i \in Nat
      /\ \A i \in DOMAIN frames : i # 1 => i - 1 \in DOMAIN frames2 /\ frames2[i - 1] = frames[i]
  BY <1>4
<1>6. \A i \in DOMAIN frames : frames[i].group = grp => i = 1
  BY <1>1 DEF InTurn
<1>7. In(frames2) = In(frames) \ {grp}
  <2>1. ASSUME NEW i \in DOMAIN frames2
        PROVE  frames2[i].group \in In(frames) \ {grp}
    BY <1>4, <1>5, <1>6 DEF In
  <2>2. ASSUME NEW i \in DOMAIN frames, frames[i].group # grp
        PROVE  frames[i].group \in In(frames2)
    BY <2>2, <1>5 DEF In
  <2> QED BY <2>1, <2>2 DEF In
<1>8. Ended(frames2, bnd) = Ended(frames, bnd) \cup {grp}
  BY <1>2, <1>7 DEF Ended
<1>9. ASSUME frames2 = <<>>
      PROVE  grp = MAIN
  <2>1. Len(frames) = 1
    BY <1>4, <1>9
  <2> QED BY <2>1 DEF Nested
<1>10. ASSUME frames2 # <<>>
       PROVE  Nested(frames2, bnd)
  <2>1. frames2[Len(frames2)].group = MAIN
    <3>1. Len(frames2) \in DOMAIN frames2 /\ Len(frames2) + 1 = Len(frames)
      BY <1>4, <1>10
    <3> QED BY <3>1, <1>4 DEF Nested
  <2>2. ASSUME NEW i \in DOMAIN frames2, NEW j \in DOMAIN frames2,
               frames2[i].group \in Sub[frames2[j].group]
        PROVE  i < j
    <3>1. i + 1 < j + 1
      BY <2>2, <1>4, <1>5 DEF Nested
    <3> QED BY <3>1, <1>5
  <2>3. ASSUME NEW i \in DOMAIN frames2
        PROVE  Sub[frames2[i].group] \cap Group
                 \subseteq frames2[i].rest \cup Done(bnd) \cup In(frames2)
    <3>1. Sub[frames2[i].group] \cap Group
            \subseteq frames2[i].rest \cup Done(bnd) \cup In(frames)
      BY <1>4, <1>5 DEF Nested
    <3> QED BY <3>1, <1>2, <1>7
  <2>4. \A g \in Ended(frames2, bnd) : Sub[g] \cap Group \subseteq Ended(frames2, bnd)
    BY <1>3, <1>8 DEF Nested
  <2> QED BY <1>10, <2>1, <2>2, <2>3, <2>4 DEF Nested
<1> QED BY <1>2, <1>3, <1>8, <1>9, <1>10

\* The first group enters `h'.
IsEntered(frames2, mid, frames, h) ==
  /\ h \in frames[1].rest /\ mid \in Seq(FrameSet)
  /\ mid = [frames EXCEPT ![1] = [frames[1] EXCEPT !.rest = frames[1].rest \ {h}]]
  /\ frames2 = <<Frame(h)>> \o mid

LEMMA NestedDescend ==
  ASSUME NEW frames \in Seq(FrameSet), NEW bnd, NEW decl, FramesOK(frames, bnd, decl),
         Nested(frames, bnd), NEW h \in Group, NEW frames2, NEW mid,
         IsEntered(frames2, mid, frames, h)
  PROVE  /\ Nested(frames2, bnd) /\ Ended(frames2, bnd) = Ended(frames, bnd)
         /\ In(frames2) = In(frames) \cup {h}
<1> DEFINE f == [frames[1] EXCEPT !.rest = frames[1].rest \ {h}]
           top == Frame(h)
<1>0. /\ h \in frames[1].rest /\ mid \in Seq(FrameSet) /\ mid = [frames EXCEPT ![1] = f]
      /\ frames2 = <<top>> \o mid
  BY DEF IsEntered
<1>1. frames # <<>> /\ InTurn(frames, bnd) /\ 1 \in DOMAIN frames /\ frames[1] \in FrameSet
  BY DEF FramesOK
<1>2. f.group = frames[1].group /\ f.rest = frames[1].rest \ {h}
  BY <1>1 DEF FrameSet
<1>3. top.group = h /\ top.rest = Sub[h] \cap Group
  BY NewFrame
<1> HIDE DEF f, top
<1>5. /\ DOMAIN mid = DOMAIN frames /\ mid[1] = f
      /\ \A i \in DOMAIN frames : i # 1 => mid[i] = frames[i]
  BY <1>0, <1>1, Edited
<1>6. \A i \in DOMAIN frames : /\ mid[i].group = frames[i].group
                               /\ frames[i].rest \subseteq mid[i].rest \cup {h}
  BY <1>2, <1>5
<1>7. /\ Len(mid) \in Nat /\ DOMAIN mid = 1..Len(mid) /\ Len(mid) = Len(frames)
      /\ DOMAIN frames2 = 1..(Len(mid) + 1) /\ frames2[1] = top /\ frames2 # <<>>
      /\ Len(frames2) = Len(mid) + 1
      /\ \A j \in DOMAIN mid : frames2[j + 1] = mid[j]
  BY <1>0, <1>1, <1>5
<1>8. /\ \A i \in DOMAIN frames2 : i = 1 \/ \E j \in DOMAIN frames : i = j + 1 /\ frames2[i] = mid[j]
      /\ \A j \in DOMAIN frames : j + 1 \in DOMAIN frames2 /\ frames2[j + 1] = mid[j]
                                 /\ j \in Nat /\ j >= 1
  <2>1. \A i \in DOMAIN frames2 : i = 1 \/ (i - 1 \in DOMAIN mid /\ i = (i - 1) + 1)
    BY <1>7
  <2>2. \A i \in DOMAIN frames2 :
          i = 1 \/ \E j \in DOMAIN frames : i = j + 1 /\ frames2[i] = mid[j]
    BY <2>1, <1>5, <1>7
  <2>3. \A j \in DOMAIN frames : j + 1 \in DOMAIN frames2 /\ frames2[j + 1] = mid[j]
    BY <1>5, <1>7
  <2>4. \A j \in DOMAIN frames : j \in Nat /\ j >= 1
    BY <1>5, <1>7
  <2> QED BY <2>2, <2>3, <2>4
<1>9. /\ h \notin Done(bnd) /\ h \notin In(frames)
      /\ \A x \in Sub[h] \cap Group : x \notin In(frames)
  BY <1>0, <1>1 DEF InTurn, In
<1>10. In(frames2) = In(frames) \cup {h}
  <2>1. ASSUME NEW i \in DOMAIN frames2
        PROVE  frames2[i].group \in In(frames) \cup {h}
    BY <1>3, <1>6, <1>7, <1>8 DEF In
  <2>2. ASSUME NEW i \in DOMAIN frames
        PROVE  frames[i].group \in In(frames2)
    <3>1. i + 1 \in DOMAIN frames2 /\ frames2[i + 1].group = frames[i].group
      BY <1>6, <1>8
    <3> QED BY <3>1 DEF In
  <2>3. h \in In(frames2)
    <3>1. 1 \in DOMAIN frames2 /\ frames2[1].group = h
      BY <1>3, <1>7
    <3> QED BY <3>1 DEF In
  <2>4. In(frames2) \subseteq In(frames) \cup {h}
    BY <2>1 DEF In
  <2>5. In(frames) \subseteq In(frames2)
    BY <2>2 DEF In
  <2> QED BY <2>3, <2>4, <2>5
<1>11. Ended(frames2, bnd) = Ended(frames, bnd)
  BY <1>9, <1>10 DEF Ended
<1>12. frames2[Len(frames2)].group = MAIN
  <2>1. Len(frames) \in DOMAIN frames /\ Len(frames2) = Len(frames) + 1
    BY <1>1, <1>7
  <2> QED BY <2>1, <1>6, <1>8 DEF Nested
<1>13. \A i \in DOMAIN frames : frames[i].group \in Group
  BY DEF FrameSet
<1>14. ASSUME NEW i \in DOMAIN frames2, NEW j \in DOMAIN frames2,
              frames2[i].group \in Sub[frames2[j].group]
       PROVE  i < j
  <2>1. CASE j = 1
    <3>1. frames2[i].group \in Sub[h] /\ frames2[i].group \in Group
      <4>1. frames2[j].group = h
        BY <2>1, <1>3, <1>7
      <4>2. CASE i = 1
        BY <4>1, <4>2, <1>3, <1>7, <1>14
      <4>3. CASE i # 1
        <5>1. PICK m \in DOMAIN frames : frames2[i] = mid[m]
          BY <4>3, <1>8
        <5> QED BY <4>1, <5>1, <1>6, <1>13, <1>14
      <4> QED BY <4>2, <4>3
    <3>2. frames2[i].group \in In(frames2)
      BY DEF In
    <3> QED BY <3>1, <3>2, <1>9, <1>10, TreeAssumption
  <2>2. CASE i = 1 /\ j # 1
    BY <2>2, <1>7
  <2>3. CASE i # 1 /\ j # 1
    <3>1. PICK m \in DOMAIN frames : i = m + 1 /\ frames2[i] = mid[m]
      BY <2>3, <1>8
    <3>2. PICK n \in DOMAIN frames : j = n + 1 /\ frames2[j] = mid[n]
      BY <2>3, <1>8
    <3>3. m < n /\ m \in Nat /\ n \in Nat
      BY <3>1, <3>2, <1>6, <1>8, <1>14 DEF Nested
    <3> QED BY <3>1, <3>2, <3>3
  <2> QED BY <2>1, <2>2, <2>3
<1>15. ASSUME NEW i \in DOMAIN frames2
       PROVE  Sub[frames2[i].group] \cap Group
                \subseteq frames2[i].rest \cup Done(bnd) \cup In(frames2)
  <2>1. CASE i = 1
    BY <2>1, <1>3, <1>7
  <2>2. CASE i # 1
    <3>1. PICK j \in DOMAIN frames : frames2[i] = mid[j]
      BY <2>2, <1>8
    <3>2. Sub[frames[j].group] \cap Group
            \subseteq frames[j].rest \cup Done(bnd) \cup In(frames)
      BY DEF Nested
    <3> QED BY <3>1, <3>2, <1>6, <1>10
  <2> QED BY <2>1, <2>2
<1>16. \A g \in Ended(frames2, bnd) : Sub[g] \cap Group \subseteq Ended(frames2, bnd)
  BY <1>11 DEF Nested
<1>17. Nested(frames2, bnd)
  BY <1>7, <1>12, <1>14, <1>15, <1>16 DEF Nested
<1> QED BY <1>10, <1>11, <1>17
-------------------------------------------------------------------------------
(* The targets while the files are read *)

\* What fromdict has read of the entities so far.
IsRead(frames, bnd, s) ==
  \/ s \in Group /\ s \in Done(bnd) \cup In(frames)
  \/ s \notin Group /\ \E g \in Ended(frames, bnd) : s \in Sub[g]

\* A target is the one declared, and none that was read is missing.
TargetsRead(targets, frames, bnd) ==
  /\ DOMAIN targets = Svc
  /\ \A s \in Svc : targets[s] # None => targets[s] = DeclaredTarget[s]
  /\ \A s \in Svc : IsRead(frames, bnd, s) /\ yaml.target[s] # None => targets[s] # None

TargetsDeclared(targets) == \A s \in Own : targets[s] = DeclaredTarget[s]

\* Nothing else is inside a group whose groups have returned.
LEMMA InsideEnded ==
  ASSUME NEW frames, NEW bnd, NEW grp \in Group,
         Sub[grp] \cap Group \subseteq Ended(frames, bnd),
         \A g \in Ended(frames, bnd) : Sub[g] \cap Group \subseteq Ended(frames, bnd),
         NEW s \in Inner[grp]
  PROVE  s \in Sub[grp] \/ IsRead(frames, bnd, s)
<1> DEFINE Bad == {t \in Inner[grp] \cap Group : t \notin Ended(frames, bnd)}
<1>1. Bad = {}
  <2> SUFFICES ASSUME Bad # {} PROVE FALSE
    OBVIOUS
  <2>1. Bad \in SUBSET Svc
    BY InnerIs
  <2>2. PICK t \in Bad : t \in Inner[MAIN] => Up(t) \in Svc \ Bad
    <3> HIDE DEF Bad
    <3> QED BY <2>1, Upwards
  <2>3. t \in Inner[grp] /\ t \in Group /\ t \notin Ended(frames, bnd) /\ t \in Inner[MAIN]
    BY InnerMain
  <2>4. /\ Up(t) \in Group /\ t \in Sub[Up(t)]
        /\ Up(t) = grp \/ Up(t) \in Inner[grp]
    BY <2>3, UpIs
  <2>5. Up(t) = grp \/ Up(t) \in Ended(frames, bnd)
    BY <2>2, <2>3, <2>4
  <2> QED BY <2>3, <2>4, <2>5
<1>2. CASE s \in Group
  BY <1>1, <1>2 DEF IsRead, Ended
<1>3. CASE s \notin Group
  <2>1. s \in Inner[MAIN]
    BY InnerMain
  <2>2. Up(s) \in Group /\ s \in Sub[Up(s)] /\ (Up(s) = grp \/ Up(s) \in Inner[grp])
    BY <2>1, UpIs
  <2>3. Up(s) = grp \/ Up(s) \in Ended(frames, bnd)
    BY <1>1, <2>2
  <2> QED BY <1>3, <2>2, <2>3 DEF IsRead
<1> QED BY <1>2, <1>3

\* What was read is not None, unless a variable is not defined.
LEMMA ReadIs ==
  ASSUME NEW s \in Svc, yaml.target[s] = VAR => yaml.var # None, yaml.target[s] # None
  PROVE  ReadTarget(yaml, s, yaml.var) # None /\ DeclaredTarget[s] = ReadTarget(yaml, s, yaml.var)
BY DeclaredIs DEF ReadTarget

LEMMA ReadNone ==
  ASSUME NEW s, yaml.target[s] = None
  PROVE  ReadTarget(yaml, s, yaml.var) = None
BY NoneAssumption DEF ReadTarget

\* fromdict enters a group.
LEMMA EnterTargets ==
  ASSUME NEW frames, NEW bnd, TargetsRead(target, frames, bnd),
         NEW g \in Group, Enter(g, yaml.var), failure' = None,
         NEW frames2, In(frames2) = In(frames) \cup {g},
         Ended(frames2, bnd) = Ended(frames, bnd)
  PROVE  TargetsRead(target', frames2, bnd)
<1> DEFINE new == ReadTarget(yaml, g, yaml.var)
<1>1. /\ target' = [target EXCEPT ![g] = new] /\ DOMAIN target = Svc /\ g \in Svc
      /\ yaml.target[g] = VAR => yaml.var # None
  BY StructureAssumption, NoneAssumption DEF Enter, TargetsRead
<1>2. target'[g] = new /\ DOMAIN target' = Svc /\ \A s \in Svc : s # g => target'[s] = target[s]
  BY <1>1
<1>3. yaml.target[g] # None => new # None /\ new = DeclaredTarget[g]
  BY <1>1, ReadIs
<1>4. yaml.target[g] = None => new = None
  BY ReadNone
<1> HIDE DEF new
<1>5. \A s \in Svc : target'[s] # None => target'[s] = DeclaredTarget[s]
  BY <1>2, <1>3, <1>4 DEF TargetsRead
<1>6. ASSUME NEW s \in Svc, IsRead(frames2, bnd, s), yaml.target[s] # None
      PROVE  target'[s] # None
  <2>1. s = g \/ IsRead(frames, bnd, s)
    BY <1>6 DEF IsRead
  <2> QED BY <2>1, <1>2, <1>3, <1>6 DEF TargetsRead
<1> QED BY <1>2, <1>5, <1>6 DEF TargetsRead

\* fromdict of a group returns: what is inside it has the targets declared.
LEMMA EndTargets ==
  ASSUME NEW frames, NEW bnd, TargetsRead(target, frames, bnd),
         NEW grp \in Group, Sub[grp] \cap Group \subseteq Ended(frames, bnd), grp \in Done(bnd),
         \A g \in Ended(frames, bnd) : Sub[g] \cap Group \subseteq Ended(frames, bnd),
         \A s \in Sub[grp] \ Group : yaml.target[s] = VAR => yaml.var # None,
         NEW new, new = [s \in Svc |-> IF s \in Sub[grp] \ Group
                                       THEN ReadTarget(yaml, s, yaml.var) ELSE target[s]],
         NEW target2, target2 = Inherit(new, grp),
         NEW frames2, Ended(frames2, bnd) = Ended(frames, bnd) \cup {grp},
         In(frames2) \subseteq In(frames)
  PROVE  TargetsRead(target2, frames2, bnd) /\ (grp = MAIN => TargetsDeclared(target2))
<1>1. /\ DOMAIN target2 = Svc
      /\ \A s \in Svc : target2[s] = IF new[s] # None \/ s \notin Inner[grp]
                                    THEN new[s] ELSE target2[Up(s)]
  BY InheritIs
<1>2. \A s \in Svc : new[s] # None => new[s] = DeclaredTarget[s]
  <2> SUFFICES ASSUME NEW s \in Svc, new[s] # None PROVE new[s] = DeclaredTarget[s]
    OBVIOUS
  <2>1. CASE s \in Sub[grp] \ Group
    BY <2>1, ReadIs, ReadNone
  <2>2. CASE s \notin Sub[grp] \ Group
    BY <2>2 DEF TargetsRead
  <2> QED BY <2>1, <2>2
<1>3. ASSUME NEW s \in Svc, IsRead(frames, bnd, s) \/ s \in Sub[grp] \/ s = grp,
             yaml.target[s] # None
      PROVE  new[s] # None
  <2>1. CASE s \in Sub[grp] \ Group
    BY <2>1, <1>3, ReadIs
  <2>2. CASE s \notin Sub[grp] \ Group
    <3>1. IsRead(frames, bnd, s)
      BY <1>3, <2>2 DEF IsRead, Ended
    <3> QED BY <2>2, <3>1, <1>3 DEF TargetsRead
  <2> QED BY <2>1, <2>2
<1>4. ASSUME NEW s \in Inner[grp]
      PROVE  s \in Svc /\ s \in Inner[MAIN] /\ Up(s) \in Svc
             /\ (yaml.target[s] # None => new[s] # None)
  <2>1. s \in Svc /\ s \in Inner[MAIN] /\ Up(s) \in Svc
    BY InnerMain, UpIs, StructureAssumption
  <2>2. s \in Sub[grp] \/ IsRead(frames, bnd, s)
    BY InsideEnded
  <2> QED BY <2>1, <2>2, <1>3
\* what is inherited
<1>5. ASSUME NEW s \in Svc, new[s] = None, s \in Inner[grp]
      PROVE  /\ target2[s] = target2[Up(s)] /\ DeclaredTarget[s] = DeclaredTarget[Up(s)]
             /\ Up(s) \in Svc /\ s \in Inner[MAIN]
  BY <1>1, <1>4, <1>5, DeclaredIs
<1>6. \A s \in Svc : target2[s] # None => target2[s] = DeclaredTarget[s]
  <2> DEFINE Bad == {s \in Svc : target2[s] # None /\ target2[s] # DeclaredTarget[s]}
  <2> SUFFICES ASSUME Bad # {} PROVE FALSE
    OBVIOUS
  <2>1. PICK s \in Bad : s \in Inner[MAIN] => Up(s) \in Svc \ Bad
    BY Upwards
  <2>2. new[s] = None /\ s \in Inner[grp]
    BY <1>1, <1>2
  <2> QED BY <2>1, <2>2, <1>5
<1>7. \A s \in Svc : new[s] # None => target2[s] # None
  BY <1>1
<1>8. ASSUME NEW s \in Svc, IsRead(frames2, bnd, s), yaml.target[s] # None
      PROVE  target2[s] # None
  <2>1. IsRead(frames, bnd, s) \/ s \in Sub[grp] \/ s = grp
    BY <1>8 DEF IsRead
  <2> QED BY <2>1, <1>3, <1>7, <1>8
<1>9. TargetsRead(target2, frames2, bnd)
  BY <1>1, <1>6, <1>8 DEF TargetsRead
<1>10. ASSUME grp = MAIN
       PROVE  TargetsDeclared(target2)
  <2> DEFINE Bad == {s \in Own : target2[s] # DeclaredTarget[s]}
  <2> SUFFICES ASSUME Bad # {} PROVE FALSE
    BY DEF TargetsDeclared
  <2>1. Bad \in SUBSET Svc
    BY OwnOrGate
  <2>2. PICK s \in Bad : s \in Inner[MAIN] => Up(s) \in Svc \ Bad
    <3> HIDE DEF Bad
    <3> QED BY <2>1, Upwards
  <2>3. s \in Svc /\ s \in Own /\ target2[s] = None
    BY <2>1, <1>6
  <2>4. new[s] = None
    BY <2>3, <1>7
  <2>5. CASE s = MAIN
    <3>1. yaml.target[s] = None
      BY <2>3, <2>4, <2>5, <1>3, <1>10
    <3>2. DeclaredTarget[s] = None
      BY <2>3, <2>5, <3>1, DeclaredIs, InnerMain
    <3> QED BY <2>3, <3>2
  <2>6. CASE s # MAIN
    <3>1. s \in Inner[grp]
      BY <2>3, <2>6, <1>10, InnerMain
    <3>2. Up(s) \in Own
      BY <3>1, <1>4, UpIs DEF Own
    <3> QED BY <2>2, <2>3, <2>4, <3>1, <3>2, <1>5
  <2> QED BY <2>5, <2>6
<1> QED BY <1>9, <1>10

\* A step that reads nothing.
LEMMA TargetsKept ==
  ASSUME NEW targets, NEW frames, NEW bnd, TargetsRead(targets, frames, bnd),
         NEW frames2, NEW bnd2, Ended(frames2, bnd2) = Ended(frames, bnd),
         Done(bnd2) \cup In(frames2) \subseteq Done(bnd) \cup In(frames)
  PROVE  TargetsRead(targets, frames2, bnd2)
<1>1. \A s \in Svc : IsRead(frames2, bnd2, s) => IsRead(frames, bnd, s)
  BY DEF IsRead
<1> QED BY <1>1 DEF TargetsRead

\* What a step of the loading leaves
ReadOn ==
  /\ loading' # <<>> /\ failure' = None =>
       Nested(loading', bound') /\ TargetsRead(target', loading', bound')
  /\ loading' = <<>> => TargetsDeclared(target')

\* The invariants of the loading
WhileLoading ==
  /\ ManagerInv /\ BoundBefore(bound) /\ FramesOK(loading, bound, declared)
  /\ var = yaml.var /\ Nested(loading, bound) /\ TargetsRead(target, loading, bound)

LEMMA LinkReads ==
  ASSUME WhileLoading, NEW s \in Svc, NEW type \in Strength, NEW name, Link(s, type, name)
  PROVE  ReadOn
<1> DEFINE links == loading[1].links \ {<<s, <<type, name>>>>}
           f     == [loading[1] EXCEPT !.links = links]
<1>1. /\ loading \in Seq(FrameSet) /\ loading # <<>>
      /\ 1 \in DOMAIN loading /\ loading[1] \in FrameSet
  BY DEF WhileLoading, ManagerInv, FramesOK
<1>2. /\ loading' = loading \/ loading' = [loading EXCEPT ![1] = f]
      /\ UNCHANGED <<bound, target>>
  BY DEF Link
<1>3. f.group = loading[1].group /\ f.rest = loading[1].rest
  BY <1>1 DEF FrameSet
<1> HIDE DEF f
<1>4. SameGroups(loading', loading)
  <2>1. CASE loading' = loading
    BY <1>1, <2>1 DEF SameGroups
  <2>2. CASE loading' = [loading EXCEPT ![1] = f]
    <3>1. /\ DOMAIN loading' = DOMAIN loading /\ loading' # <<>> /\ loading'[1] = f
          /\ \A i \in DOMAIN loading : i # 1 => loading'[i] = loading[i]
      BY <1>1, <2>2, Edited
    <3>2. Len(loading') = Len(loading)
      BY <1>1, <2>2
    <3> QED BY <1>3, <3>1, <3>2 DEF SameGroups
  <2> QED BY <1>2, <2>1, <2>2
<1>5. Nested(loading', bound') /\ Ended(loading', bound') = Ended(loading, bound)
  BY <1>1, <1>2, <1>4, NestedEdited DEF WhileLoading
<1>6. In(loading') = In(loading)
  BY <1>4 DEF In, SameGroups
<1>7. TargetsRead(target', loading', bound')
  BY <1>2, <1>5, <1>6, TargetsKept DEF WhileLoading
<1> QED BY <1>4, <1>5, <1>7 DEF ReadOn, SameGroups

LEMMA BindReads ==
  ASSUME WhileLoading, Bind
  PROVE  ReadOn
<1> DEFINE here == Top.group
           f    == [loading[1] EXCEPT !.bound = TRUE]
<1>1. /\ loading \in Seq(FrameSet) /\ loading # <<>>
      /\ 1 \in DOMAIN loading /\ loading[1] \in FrameSet /\ Top = loading[1]
  BY DEF WhileLoading, ManagerInv, FramesOK, Top
<1>2. /\ loading[1].links = {} /\ ~loading[1].bound
      /\ loading' = [loading EXCEPT ![1] = f]
      /\ bound' = [bound EXCEPT ![here] = Done(bound) \cup {here}] /\ UNCHANGED target
  BY <1>1 DEF Bind, Done
<1>3. here = loading[1].group /\ f.group = loading[1].group /\ f.rest = loading[1].rest
  BY <1>1 DEF FrameSet
<1>4. Done(bound') = Done(bound) \cup {here}
  <2>1. IsBound(loading', bound', loading, bound, here)
    BY <1>2, <1>3 DEF IsBound
  <2> HIDE DEF here
  <2> QED BY <1>1, <2>1, BindFrames DEF WhileLoading
<1>5. here \in In(loading)
  BY <1>1, <1>3 DEF In
<1> HIDE DEF f, here
<1>6. SameGroups(loading', loading)
  <2>1. /\ DOMAIN loading' = DOMAIN loading /\ loading' # <<>> /\ loading'[1] = f
        /\ \A i \in DOMAIN loading : i # 1 => loading'[i] = loading[i]
    BY <1>1, <1>2, Edited
  <2>2. Len(loading') = Len(loading)
    BY <1>1, <1>2
  <2> QED BY <1>3, <2>1, <2>2 DEF SameGroups
<1>7. Nested(loading', bound') /\ Ended(loading', bound') = Ended(loading, bound)
  BY <1>1, <1>4, <1>5, <1>6, NestedEdited DEF WhileLoading
<1>8. In(loading') = In(loading)
  BY <1>6 DEF In, SameGroups
<1>9. TargetsRead(target', loading', bound')
  BY <1>2, <1>4, <1>5, <1>7, <1>8, TargetsKept DEF WhileLoading
<1> QED BY <1>6, <1>7, <1>9 DEF ReadOn, SameGroups

LEMMA DescendReads ==
  ASSUME WhileLoading, NEW h \in Group, Descend(h)
  PROVE  ReadOn
<1> DEFINE f   == [loading[1] EXCEPT !.rest = loading[1].rest \ {h}]
           mid == [loading EXCEPT ![1] = f]
<1>1. /\ loading \in Seq(FrameSet) /\ loading # <<>>
      /\ 1 \in DOMAIN loading /\ loading[1] \in FrameSet /\ Top = loading[1]
  BY DEF WhileLoading, ManagerInv, FramesOK, Top
<1>2. /\ loading[1].bound /\ h \in loading[1].rest
      /\ loading' = <<Frame(h)>> \o mid /\ Enter(h, yaml.var) /\ UNCHANGED bound
  BY <1>1 DEF Descend, WhileLoading
<1>3. f \in FrameSet
  BY <1>1 DEF FrameSet
<1>4. mid \in Seq(FrameSet)
  <2> HIDE DEF f
  <2> QED BY <1>1, <1>3, FramesAre
<1>5. /\ Nested(loading', bound) /\ Ended(loading', bound) = Ended(loading, bound)
      /\ In(loading') = In(loading) \cup {h}
  <2>1. IsEntered(loading', mid, loading, h)
    BY <1>2, <1>4 DEF IsEntered
  <2>2. FramesOK(loading, bound, declared) /\ Nested(loading, bound)
    BY DEF WhileLoading
  <2> HIDE DEF f, mid
  <2> QED BY <1>1, <2>1, <2>2, NestedDescend
<1>7. ASSUME failure' = None
      PROVE  TargetsRead(target', loading', bound)
  BY <1>2, <1>5, <1>7, EnterTargets DEF WhileLoading
<1>8. loading' # <<>>
  BY <1>5 DEF Nested
<1> QED BY <1>2, <1>5, <1>7, <1>8 DEF ReadOn

LEMMA EndReads ==
  ASSUME WhileLoading, EndGroup
  PROVE  ReadOn
<1> DEFINE grp   == Top.group
           plain == Sub[grp] \ Group
           new   == [s \in Svc |-> IF s \in plain THEN ReadTarget(yaml, s, yaml.var)
                                   ELSE target[s]]
<1>1. /\ loading \in Seq(FrameSet) /\ loading # <<>>
      /\ 1 \in DOMAIN loading /\ loading[1] \in FrameSet /\ Top = loading[1]
  BY DEF WhileLoading, ManagerInv, FramesOK, Top
<1>2. /\ loading[1].bound /\ loading[1].rest = {} /\ grp = loading[1].group
      /\ UNCHANGED bound
      /\ IF yaml.var = None /\ \E s \in plain : yaml.target[s] = VAR
         THEN failure' # None /\ loading' = loading
         ELSE target' = Inherit(new, grp) /\ loading' = Tail(loading)
  BY <1>1, NoneAssumption DEF EndGroup, WhileLoading
<1>3. CASE yaml.var = None /\ \E s \in plain : yaml.target[s] = VAR
  BY <1>1, <1>2, <1>3 DEF ReadOn
<1>4. CASE ~(yaml.var = None /\ \E s \in plain : yaml.target[s] = VAR)
  <2>1. target' = Inherit(new, grp) /\ loading' = Tail(loading)
    BY <1>2, <1>4
  <2>2. \A s \in Sub[grp] \ Group : yaml.target[s] = VAR => yaml.var # None
    BY <1>4
  <2> HIDE DEF grp
  <2>3. /\ grp \in Group /\ Sub[grp] \cap Group \subseteq Ended(loading, bound)
        /\ Ended(loading', bound) = Ended(loading, bound) \cup {grp}
        /\ loading' # <<>> => Nested(loading', bound)
        /\ loading' = <<>> => grp = MAIN
    BY <1>1, <1>2, <2>1, NestedEnd DEF WhileLoading
  <2>4. grp \in Done(bound)
    BY <2>3 DEF Ended
  <2>5. In(loading') \subseteq In(loading)
    <3>1. \A i \in DOMAIN loading' : i + 1 \in DOMAIN loading /\ loading'[i] = loading[i + 1]
      BY <1>1, <2>1
    <3> QED BY <3>1 DEF In
  <2>6. \A g \in Ended(loading, bound) : Sub[g] \cap Group \subseteq Ended(loading, bound)
    BY DEF WhileLoading, Nested
  <2>7. TargetsRead(target, loading, bound)
    BY DEF WhileLoading
  <2>8. new = [s \in Svc |-> IF s \in Sub[grp] \ Group
                             THEN ReadTarget(yaml, s, yaml.var) ELSE target[s]]
    OBVIOUS
  <2> HIDE DEF new
  <2>9. TargetsRead(target', loading', bound) /\ (grp = MAIN => TargetsDeclared(target'))
    BY <2>1, <2>2, <2>3, <2>4, <2>5, <2>6, <2>7, <2>8, EndTargets
  <2> QED BY <1>2, <2>3, <2>9 DEF ReadOn
<1> QED BY <1>3, <1>4
-------------------------------------------------------------------------------
(* The targets of the calls *)

LEMMA DeclaredType ==
  ASSUME yaml \in Files, NEW s \in Svc
  PROVE  DeclaredTarget[s] = None \/ DeclaredTarget[s] \in SUBSET Node
<1> DEFINE Bad == {t \in Svc : ~(DeclaredTarget[t] = None \/ DeclaredTarget[t] \in SUBSET Node)}
<1> SUFFICES ASSUME Bad # {} PROVE FALSE
  OBVIOUS
<1>1. PICK t \in Bad : t \in Inner[MAIN] => Up(t) \in Svc \ Bad
  BY Upwards
<1>2. /\ yaml.target[t] \in {None, VAR} \cup SUBSET Node
      /\ yaml.var \in {None} \cup SUBSET Node
  BY FileAssumption DEF FileOK
<1> QED BY <1>1, <1>2, DeclaredIs DEF ReadTarget

\* Did no call restrict the nodes yet?
FreshAfter(calls) == \A j \in DOMAIN calls : Unrestricted(calls[j].call)

\* The nodes that these calls took from each service
GoneAfter(calls) ==
  [s \in Svc |-> {n \in Node : \E j \in DOMAIN calls : <<s, n>> \in calls[j].filtered}]

\* The targets that calls leave: those that were declared, but the nodes that are
\* gone, or less.
TargetsLeft(targets, fresh, gone) ==
  \A s \in Plain :
    IF DeclaredTarget[s] = None THEN fresh => targets[s] = None
    ELSE /\ targets[s] # None /\ targets[s] \subseteq DeclaredTarget[s] \ gone[s]
         /\ fresh => targets[s] = DeclaredTarget[s] \ gone[s]

\* TargetsAsAsked, of one call
AskedNodes(c, s, gone) ==
  {n \in DeclaredTarget[s] : /\ c.only # None => n \in c.only
                             /\ c.only = None /\ c.without # None => n \notin c.without
                             /\ n \notin gone[s]}

TargetsAsked(c, targets, fresh, gone) ==
  \A s \in Plain :
    IF s \in Skipped(c) THEN targets[s] = {}
    ELSE IF DeclaredTarget[s] = None THEN fresh => targets[s] = None
    ELSE /\ targets[s] # None /\ targets[s] \subseteq AskedNodes(c, s, gone)
         /\ fresh => targets[s] = AskedNodes(c, s, gone)

Asking == {"reverse", "variables", "resolve", "select", "nodeps", "run"}

TargetsInv ==
  /\ TargetsAsAsked
  /\ pc \in {"load", "loading"} => runs = <<>>
  /\ pc = "idle" /\ runs = <<>> => backup = [s \in Svc |-> None]
  /\ pc = "load" => target = [s \in Svc |-> None]
  /\ pc = "loading" /\ failure = None =>
       var = yaml.var /\ Nested(loading, bound) /\ TargetsRead(target, loading, bound)
  /\ pc = "idle" /\ runs # <<>> => TargetsLeft(backup, FreshAfter(runs), GoneAfter(runs))
  /\ pc = "apply" => TargetsLeft(target, FreshAfter(runs), GoneAfter(runs))
  /\ pc \in Asking => TargetsAsked(call, target, FreshAfter(runs), GoneAfter(runs))
  /\ pc \in {"select", "nodeps", "run"} => backup = target

\* _apply_config
LEMMA TargetsApplied ==
  ASSUME yaml \in Files, NEW t, NEW fresh, NEW gone, TargetsLeft(t, fresh, gone), NEW c,
         NEW t2, t2 = [s \in Svc |-> IF s \in Skipped(c) \cap Plain THEN {}
                                     ELSE Restricted(c, t[s])]
  PROVE  TargetsAsked(c, t2, fresh, gone)
<1> SUFFICES ASSUME NEW s \in Plain
             PROVE  IF s \in Skipped(c) THEN t2[s] = {}
                    ELSE IF DeclaredTarget[s] = None THEN fresh => t2[s] = None
                    ELSE /\ t2[s] # None /\ t2[s] \subseteq AskedNodes(c, s, gone)
                         /\ fresh => t2[s] = AskedNodes(c, s, gone)
  BY DEF TargetsAsked
<1>1. s \in Svc /\ t2[s] = IF s \in Skipped(c) THEN {} ELSE Restricted(c, t[s])
  BY DEF Plain
<1>2. CASE s \in Skipped(c)
  BY <1>1, <1>2
<1>3. CASE s \notin Skipped(c) /\ DeclaredTarget[s] = None
  BY <1>1, <1>3 DEF TargetsLeft, Restricted
<1>4. CASE s \notin Skipped(c) /\ DeclaredTarget[s] # None
  <2> DEFINE d    == DeclaredTarget[s]
             here == Restricted(c, t[s])
  <2>1. /\ d \in SUBSET Node /\ t[s] # None /\ t[s] \subseteq d \ gone[s]
        /\ (fresh => t[s] = d \ gone[s])
    BY <1>1, <1>4, DeclaredType DEF TargetsLeft
  <2>2. AskedNodes(c, s, gone) =
          {n \in d : /\ c.only # None => n \in c.only
                     /\ c.only = None /\ c.without # None => n \notin c.without
                     /\ n \notin gone[s]}
    BY DEF AskedNodes
  <2>3. here = IF c.only # None THEN t[s] \cap c.only
               ELSE IF c.without # None THEN t[s] \ c.without ELSE t[s]
    BY <2>1 DEF Restricted
  <2> HIDE DEF d, here
  <2>4. here \in SUBSET Node /\ here \subseteq AskedNodes(c, s, gone)
    BY <2>1, <2>2, <2>3
  <2>5. fresh => here = AskedNodes(c, s, gone)
    BY <2>1, <2>2, <2>3
  <2>6. here # None
    BY <2>4, NoneAssumption
  <2> QED BY <1>1, <1>4, <2>4, <2>5, <2>6 DEF here
<1> QED BY <1>2, <1>3, <1>4

\* What a call that ran leaves
LEMMA TargetsAfter ==
  ASSUME yaml \in Files, NEW t, NEW fresh, NEW gone, NEW c, TargetsAsked(c, t, fresh, gone),
         NEW fresh2, fresh2 <=> fresh /\ Unrestricted(c),
         NEW filtered \in SUBSET (Plain \X Node), NEW gone2,
         \A s \in Svc : gone2[s] = gone[s] \cup {n \in Node : <<s, n>> \in filtered}
  PROVE  TargetsLeft(Less(t, filtered), fresh2, gone2)
<1> DEFINE t2 == Less(t, filtered)
<1> SUFFICES ASSUME NEW s \in Plain
             PROVE  IF DeclaredTarget[s] = None THEN fresh2 => t2[s] = None
                    ELSE /\ t2[s] # None /\ t2[s] \subseteq DeclaredTarget[s] \ gone2[s]
                         /\ fresh2 => t2[s] = DeclaredTarget[s] \ gone2[s]
  BY DEF TargetsLeft
<1> DEFINE out == {n \in Node : <<s, n>> \in filtered}
<1>1. /\ s \in Svc /\ gone2[s] = gone[s] \cup out
      /\ t2[s] = IF t[s] = None THEN None ELSE t[s] \ out
  BY DEF Plain, Less
<1> HIDE DEF out, t2
<1>2. CASE s \in Skipped(c)
  <2>1. t[s] = {} /\ t[s] # None
    BY <1>2, NoneAssumption DEF TargetsAsked
  <2>2. ~Unrestricted(c)
    BY <1>2 DEF Skipped, Unrestricted
  <2>3. t2[s] = {}
    BY <1>1, <2>1
  <2> QED BY <2>1, <2>2, <2>3
<1>3. CASE s \notin Skipped(c) /\ DeclaredTarget[s] = None
  BY <1>1, <1>3 DEF TargetsAsked
<1>4. CASE s \notin Skipped(c) /\ DeclaredTarget[s] # None
  <2> DEFINE d == DeclaredTarget[s]
             a == AskedNodes(c, s, gone)
  <2>1. d \in SUBSET Node /\ a \subseteq d \ gone[s] /\ (Unrestricted(c) => a = d \ gone[s])
    BY <1>1, <1>4, DeclaredType DEF AskedNodes, Unrestricted
  <2>2. t[s] # None /\ t[s] \subseteq a /\ (fresh => t[s] = a)
    BY <1>4 DEF TargetsAsked
  <2> HIDE DEF d, a
  <2>3. t2[s] \in SUBSET Node /\ t2[s] \subseteq d \ gone2[s]
    BY <1>1, <2>1, <2>2
  <2>4. fresh2 => t2[s] = d \ gone2[s]
    BY <1>1, <2>1, <2>2
  <2>5. t2[s] # None
    BY <2>3, NoneAssumption
  <2> QED BY <1>4, <2>3, <2>4, <2>5 DEF d
<1> QED BY <1>2, <1>3, <1>4

LEMMA SameDeclared ==
  ASSUME UNCHANGED yaml
  PROVE  /\ DeclaredTarget' = DeclaredTarget
         /\ \A c : Skipped(c)' = Skipped(c)
BY DEF DeclaredTarget, ReadTarget, Skipped, Inherited

LEMMA Carried ==
  ASSUME UNCHANGED yaml
  PROVE  /\ TargetsLeft(target', FreshAfter(runs'), GoneAfter(runs'))
              => TargetsLeft(target, FreshAfter(runs), GoneAfter(runs))'
         /\ TargetsLeft(backup', FreshAfter(runs'), GoneAfter(runs'))
              => TargetsLeft(backup, FreshAfter(runs), GoneAfter(runs))'
         /\ TargetsAsked(call', target', FreshAfter(runs'), GoneAfter(runs'))
              => TargetsAsked(call, target, FreshAfter(runs), GoneAfter(runs))'
         /\ TargetsRead(target', loading', bound') => TargetsRead(target, loading, bound)'
<1>1. TargetsLeft(target', FreshAfter(runs'), GoneAfter(runs'))
        => TargetsLeft(target, FreshAfter(runs), GoneAfter(runs))'
  BY SameDeclared DEF TargetsLeft
<1>2. TargetsLeft(backup', FreshAfter(runs'), GoneAfter(runs'))
        => TargetsLeft(backup, FreshAfter(runs), GoneAfter(runs))'
  BY SameDeclared DEF TargetsLeft
<1>3. TargetsAsked(call', target', FreshAfter(runs'), GoneAfter(runs'))
        => TargetsAsked(call, target, FreshAfter(runs), GoneAfter(runs))'
  BY SameDeclared DEF TargetsAsked, AskedNodes
<1>4. TargetsRead(target', loading', bound') => TargetsRead(target, loading, bound)'
  BY SameDeclared DEF TargetsRead
<1> QED BY <1>1, <1>2, <1>3, <1>4

\* What the calls before the i-th left
FreshBefore(calls, i) == \A j \in 1..i-1 : Unrestricted(calls[j].call)
GoneBefore(calls, i) ==
  [s \in Svc |-> {n \in Node : \E j \in 1..i-1 : <<s, n>> \in calls[j].filtered}]

\* TargetsAsAsked of a sequence of calls
EachAsked(calls) ==
  \A i \in DOMAIN calls :
    TargetsAsked(calls[i].call, calls[i].target, FreshBefore(calls, i), GoneBefore(calls, i))

LEMMA EachIs ==
  /\ EachAsked(runs) <=> TargetsAsAsked
  /\ UNCHANGED yaml /\ EachAsked(runs') => TargetsAsAsked'
<1>1. \A i, s : s \in Plain => GoneBefore(runs, i)[s] = TakenBefore(i, s)
  BY DEF GoneBefore, TakenBefore, Plain
<1>2. \A i, s : s \in Plain => GoneBefore(runs', i)[s] = TakenBefore(i, s)'
  BY DEF GoneBefore, TakenBefore, Plain
<1>3. EachAsked(runs) <=> TargetsAsAsked
  BY <1>1 DEF EachAsked, TargetsAsAsked, TargetsAsked, AskedNodes, FreshBefore
<1>4. ASSUME UNCHANGED yaml, EachAsked(runs')
      PROVE  TargetsAsAsked'
  BY <1>2, <1>4, SameDeclared
     DEF EachAsked, TargetsAsAsked, TargetsAsked, AskedNodes, FreshBefore
<1> QED BY <1>3, <1>4

LEMMA TargetsInit == Init => TargetsInv
<1> SUFFICES ASSUME Init PROVE TargetsInv
  OBVIOUS
<1>1. pc = "idle" /\ runs = <<>> /\ backup = [s \in Svc |-> None]
  BY DEF Init
<1>2. TargetsAsAsked
  BY <1>1 DEF TargetsAsAsked
<1> QED BY <1>1, <1>2 DEF TargetsInv, Asking

\* A step that keeps the targets and the calls
LEMMA TargetsSame ==
  ASSUME TargetsInv, UNCHANGED <<yaml, call, target, runs>>, pc \in Asking, pc' \in Asking,
         pc' \in {"select", "nodeps", "run"} => backup' = target
  PROVE  TargetsInv'
<1>1. TargetsAsAsked'
  BY EachIs DEF TargetsInv
<1>2. TargetsAsked(call, target, FreshAfter(runs), GoneAfter(runs))'
  BY Carried DEF TargetsInv
<1>3. pc' \notin {"idle", "load", "loading", "apply"}
  BY DEF Asking
<1> QED BY <1>1, <1>2, <1>3 DEF TargetsInv

LEMMA TargetsNext ==
  ASSUME ManagerInv, DefineInv, LoadInv, TargetsInv, [Next]_vars
  PROVE  TargetsInv'
<1>1. ASSUME NEW c \in Calls, Reset(c)
      PROVE  TargetsInv'
  <2>1. /\ pc = "idle" /\ pc' = (IF runs = <<>> THEN "load" ELSE "apply") /\ target' = backup
        /\ UNCHANGED <<yaml, runs>>
    BY <1>1 DEF Reset, At
  <2>2. TargetsAsAsked'
    BY <2>1, EachIs DEF TargetsInv
  <2>3. runs # <<>> => TargetsLeft(target, FreshAfter(runs), GoneAfter(runs))'
    BY <2>1, Carried DEF TargetsInv
  <2> QED BY <2>1, <2>2, <2>3 DEF TargetsInv, Asking
<1>2. CASE Load
  <2>1. /\ pc = "load" /\ pc' = "loading" /\ failure = None /\ loading' = <<Frame(MAIN)>>
        /\ var' = yaml.var /\ Enter(MAIN, yaml.var)
        /\ UNCHANGED <<yaml, runs, bound>>
    BY <1>2 DEF Load, At, StartLoading, managerVars
  <2>2. TargetsAsAsked' /\ runs = <<>> /\ target = [s \in Svc |-> None]
    BY <2>1, EachIs DEF TargetsInv
  <2>3. Done(bound) = {} /\ MAIN \in Group
    BY <2>1, <2>2, InnerMain DEF LoadInv
  <2>4. /\ DOMAIN loading' = {1} /\ Len(loading') = 1 /\ loading' # <<>>
        /\ loading'[1].group = MAIN /\ loading'[1].rest = Sub[MAIN] \cap Group
    <3> DEFINE f == Frame(MAIN)
    <3>1. f.group = MAIN /\ f.rest = Sub[MAIN] \cap Group /\ loading' = <<f>>
      BY <2>1, <2>3, NewFrame
    <3> HIDE DEF f
    <3>2. DOMAIN loading' = {1} /\ Len(loading') = 1 /\ loading' # <<>> /\ loading'[1] = f
      BY <3>1
    <3> QED BY <3>1, <3>2
  <2>5. In(loading') = {MAIN} /\ Ended(loading', bound) = {}
    BY <2>3, <2>4 DEF In, Ended
  <2>6. Nested(loading', bound)
    BY <2>3, <2>4, <2>5, TreeAssumption DEF Nested
  <2>7. TargetsRead(target, <<>>, bound) /\ In(<<>>) = {} /\ Ended(<<>>, bound) = {}
    BY <2>2, <2>3 DEF TargetsRead, IsRead, In, Ended
  <2>8. failure' = None => TargetsRead(target', loading', bound)
    BY <2>1, <2>3, <2>5, <2>7, EnterTargets
  <2>9. failure' = None => TargetsRead(target, loading, bound)'
    BY <2>1, <2>8, Carried
  <2>10. Nested(loading, bound)'
    BY <2>1, <2>6
  <2> QED BY <2>1, <2>2, <2>9, <2>10 DEF TargetsInv, Asking
<1>3. CASE Loaded
  <2>1. /\ pc = "loading" /\ LoadStep /\ pc' = IF loading' = <<>> THEN "apply" ELSE "loading"
        /\ UNCHANGED <<yaml, runs>>
    BY <1>3, LoadKeeps DEF Loaded, managerVars
  <2>2. failure = None /\ UNCHANGED var
    BY <2>1 DEF LoadStep, Link, Bind, EndGroup, Descend, Loading
  <2>3. runs = <<>>
    BY <2>1 DEF TargetsInv
  <2>4. WhileLoading
    BY <2>1, <2>2, <2>3 DEF WhileLoading, TargetsInv, LoadInv
  <2>5. ReadOn
    BY <2>1, <2>4, LinkReads, BindReads, EndReads, DescendReads DEF LoadStep
  <2>6. TargetsAsAsked'
    BY <2>1, EachIs DEF TargetsInv
  <2>7. CASE loading' = <<>>
    <3>1. Plain \subseteq Own /\ FreshAfter(runs') /\ TargetsDeclared(target')
      BY <2>1, <2>3, <2>5, <2>7 DEF Own, FreshAfter, ReadOn
    <3>2. \A s \in Svc : GoneAfter(runs')[s] = {}
      BY <2>1, <2>3 DEF GoneAfter
    <3>3. TargetsLeft(target', FreshAfter(runs'), GoneAfter(runs'))
      <4> SUFFICES ASSUME NEW s \in Plain
                   PROVE  IF DeclaredTarget[s] = None THEN target'[s] = None
                          ELSE target'[s] # None /\ target'[s] = DeclaredTarget[s] \ {}
        BY <3>1, <3>2 DEF TargetsLeft, Plain
      <4> QED BY <3>1, DeclaredType, NoneAssumption, <2>4
              DEF TargetsDeclared, WhileLoading
    <3>4. TargetsLeft(target, FreshAfter(runs), GoneAfter(runs))'
      BY <2>1, <3>3, Carried
    <3> QED BY <2>1, <2>6, <2>7, <3>4 DEF TargetsInv, Asking
  <2>8. CASE loading' # <<>>
    <3>1. failure' = None => Nested(loading', bound') /\ TargetsRead(target', loading', bound')
      BY <2>5, <2>8 DEF ReadOn
    <3>2. failure' = None => Nested(loading, bound)' /\ TargetsRead(target, loading, bound)'
      BY <2>1, <3>1, Carried
    <3>3. var' = yaml'.var
      BY <2>1, <2>2, <2>4 DEF WhileLoading
    <3> QED BY <2>1, <2>3, <2>6, <2>8, <3>2, <3>3 DEF TargetsInv, Asking
  <2> QED BY <2>7, <2>8
<1>4. CASE ApplyConfig
  <2>1. /\ pc = "apply" /\ pc' = "reverse" /\ UNCHANGED <<yaml, runs, call>>
        /\ target' = [s \in Svc |-> IF s \in Skipped(call) \cap Plain THEN {}
                                    ELSE Restricted(call, target[s])]
    BY <1>4 DEF ApplyConfig, At
  <2>2. TargetsAsAsked' /\ yaml \in Files
    BY <2>1, EachIs DEF TargetsInv, ManagerInv
  <2>3. TargetsAsked(call', target', FreshAfter(runs'), GoneAfter(runs'))
    BY <2>1, <2>2, TargetsApplied DEF TargetsInv
  <2>4. TargetsAsked(call, target, FreshAfter(runs), GoneAfter(runs))'
    BY <2>1, <2>3, Carried
  <2> QED BY <2>1, <2>2, <2>4 DEF TargetsInv
<1>5. CASE SetReversed
  <2>1. pc = "reverse" /\ pc' = "variables" /\ UNCHANGED <<yaml, runs, call, target>>
    BY <1>5 DEF SetReversed, At
  <2> QED BY <2>1, TargetsSame DEF Asking
<1>6. CASE VariableConfig
  <2>1. pc = "variables" /\ pc' = "resolve" /\ UNCHANGED <<yaml, runs, call, target>>
    BY <1>6 DEF VariableConfig, At
  <2> QED BY <2>1, TargetsSame DEF Asking
<1>7. CASE ResolveAll
  <2>1. /\ pc = "resolve" /\ pc' = "select" /\ backup' = target
        /\ UNCHANGED <<yaml, runs, call, target>>
    BY <1>7 DEF ResolveAll, At
  <2> QED BY <2>1, TargetsSame DEF Asking
<1>8. CASE SelectServices
  <2>1. pc = "select" /\ pc' = "nodeps" /\ UNCHANGED <<yaml, runs, call, target, backup>>
    BY <1>8 DEF SelectServices, At
  <2> QED BY <2>1, TargetsSame DEF Asking, TargetsInv
<1>9. CASE DisableDeps
  <2>1. pc = "nodeps" /\ pc' = "run" /\ UNCHANGED <<yaml, runs, call, target, backup>>
    BY <1>9 DEF DisableDeps, At
  <2> QED BY <2>1, TargetsSame DEF Asking, TargetsInv
<1>10. CASE Run
  <2>1. PICK filtered \in SUBSET Filterable(Reach(graph, {MAIN})) :
          /\ pc = "run" /\ pc' = "idle" /\ yaml' = yaml
          /\ target' = Less(target, filtered) /\ backup' = Less(backup, filtered)
          /\ runs' = Append(runs,
                      [call |-> call, target |-> target, command |-> command,
                       filtered |-> filtered,
                       reached |-> Reach(graph, {MAIN}) \cap (Plain \cup Group)])
    BY <1>10 DEF Run, At
  <2> DEFINE r == [call |-> call, target |-> target, command |-> command,
                   filtered |-> filtered,
                   reached |-> Reach(graph, {MAIN}) \cap (Plain \cup Group)]
  <2>2. r.call = call /\ r.target = target /\ r.filtered = filtered /\ runs' = Append(runs, r)
    BY <2>1
  <2> HIDE DEF r
  <2>3. PICK S : runs \in Seq(S)
    BY DEF DefineInv
  <2>4. /\ Len(runs) \in Nat /\ DOMAIN runs = 1..Len(runs) /\ runs' # <<>>
        /\ DOMAIN runs' = 1..(Len(runs) + 1) /\ runs'[Len(runs) + 1] = r
        /\ \A i \in DOMAIN runs : runs'[i] = runs[i]
    <3>1. runs \in Seq(S \cup {r}) /\ r \in S \cup {r}
      BY <2>3
    <3> QED BY <2>2, <3>1
  <2>5. /\ TargetsAsked(call, target, FreshAfter(runs), GoneAfter(runs)) /\ backup = target
        /\ yaml \in Files
    BY <2>1 DEF TargetsInv, Asking, ManagerInv
  <2>6. DOMAIN runs' = DOMAIN runs \cup {Len(runs) + 1}
    BY <2>4
  <2>7. FreshAfter(runs') <=> FreshAfter(runs) /\ Unrestricted(call)
    BY <2>2, <2>4, <2>6 DEF FreshAfter
  <2>8. \A s \in Svc : GoneAfter(runs')[s] = GoneAfter(runs)[s]
                                            \cup {n \in Node : <<s, n>> \in filtered}
    BY <2>2, <2>4, <2>6 DEF GoneAfter
  <2>9. filtered \in SUBSET (Plain \X Node)
    BY <2>1 DEF Filterable
  <2>10. TargetsLeft(backup', FreshAfter(runs'), GoneAfter(runs'))
    <3>1. TargetsLeft(Less(target, filtered), FreshAfter(runs'), GoneAfter(runs'))
      <4> HIDE <2>1
      <4> DEFINE fresh2 == FreshAfter(runs')
                 gone2  == GoneAfter(runs')
      <4>1. /\ fresh2 <=> FreshAfter(runs) /\ Unrestricted(call)
            /\ \A s \in Svc : gone2[s] = GoneAfter(runs)[s] \cup {n \in Node : <<s, n>> \in filtered}
        BY <2>7, <2>8
      <4> HIDE DEF fresh2, gone2
      <4>2. TargetsLeft(Less(target, filtered), fresh2, gone2)
        BY <2>5, <2>9, <4>1, TargetsAfter
      <4> QED BY <4>2 DEF fresh2, gone2
    <3> QED BY <2>1, <2>5, <3>1
  <2>11. TargetsLeft(backup, FreshAfter(runs), GoneAfter(runs))'
    BY <2>1, <2>10, Carried
  <2>12. EachAsked(runs')
    <3> SUFFICES ASSUME NEW i \in DOMAIN runs'
                 PROVE  TargetsAsked(runs'[i].call, runs'[i].target,
                                     FreshBefore(runs', i), GoneBefore(runs', i))
      BY DEF EachAsked
    <3>1. \A j \in 1..i-1 : j \in DOMAIN runs
      BY <2>4
    <3>2. /\ FreshBefore(runs', i) <=> FreshBefore(runs, i)
          /\ GoneBefore(runs', i) = GoneBefore(runs, i)
      BY <2>4, <3>1 DEF FreshBefore, GoneBefore
    <3>3. CASE i \in DOMAIN runs
      <4>1. TargetsAsked(runs[i].call, runs[i].target, FreshBefore(runs, i),
                         GoneBefore(runs, i))
        BY <3>3, EachIs DEF TargetsInv, EachAsked
      <4> QED BY <2>4, <3>2, <3>3, <4>1 DEF TargetsAsked
    <3>4. CASE i \notin DOMAIN runs
      <4>1. i = Len(runs) + 1 /\ 1..i-1 = DOMAIN runs
        BY <2>4, <3>4
      <4>2. /\ FreshAfter(runs) <=> FreshBefore(runs, i)
            /\ GoneAfter(runs) = GoneBefore(runs, i)
        BY <4>1 DEF FreshAfter, FreshBefore, GoneAfter, GoneBefore
      <4> QED BY <2>2, <2>4, <2>5, <3>2, <4>1, <4>2 DEF TargetsAsked
    <3> QED BY <3>3, <3>4
  <2>13. TargetsAsAsked'
    BY <2>1, <2>12, EachIs
  <2> QED BY <2>1, <2>4, <2>11, <2>13 DEF TargetsInv, Asking
<1>11. CASE UNCHANGED vars
  <2>1. UNCHANGED <<yaml, pc, runs, call, target, backup, loading, bound, var, failure>>
    BY <1>11 DEF vars, loaderVars
  <2>2. TargetsAsAsked'
    BY <2>1, EachIs DEF TargetsInv
  <2>3. /\ TargetsLeft(target, FreshAfter(runs), GoneAfter(runs))
             => TargetsLeft(target, FreshAfter(runs), GoneAfter(runs))'
        /\ TargetsLeft(backup, FreshAfter(runs), GoneAfter(runs))
             => TargetsLeft(backup, FreshAfter(runs), GoneAfter(runs))'
        /\ TargetsAsked(call, target, FreshAfter(runs), GoneAfter(runs))
             => TargetsAsked(call, target, FreshAfter(runs), GoneAfter(runs))'
        /\ TargetsRead(target, loading, bound) => TargetsRead(target, loading, bound)'
    BY <2>1, Carried
  <2>4. Nested(loading, bound) => Nested(loading, bound)'
    BY <2>1
  <2> QED BY <2>1, <2>2, <2>3, <2>4 DEF TargetsInv
<1> QED BY <1>1, <1>2, <1>3, <1>4, <1>5, <1>6, <1>7, <1>8, <1>9, <1>10, <1>11
        DEF Next, Step, Stopped

\* Commands run on nodes that were declared for their service or its group, minus
\* those excluded and those that failures took from it in earlier calls, and only
\* those asked for: on all of these while no call was restricted.  In every call of
\* any sequence of calls, for all trees of groups and all files, in whatever order
\* they are read.
THEOREM TargetsAsAskedHolds == Spec => []TargetsAsAsked
<1> DEFINE IInv == ManagerInv /\ DefineInv /\ LoadInv /\ TargetsInv
<1>1. Init => IInv
  BY ManagerInit, DefineInit, LoadInit, TargetsInit
<1>2. IInv /\ [Next]_vars => IInv'
  BY ManagerNext, DefineNext, LoadNext, TargetsNext
<1>3. IInv => TargetsAsAsked
  BY DEF TargetsInv
<1> QED BY <1>1, <1>2, <1>3, PTL DEF Spec
-------------------------------------------------------------------------------
(* What is reached from some entities, step by step *)

\* Reach and Scope: `next' is what an entity leads to, unless it is in `lock'.
Further(next, lock, from) == (UNION {next[s] : s \in from}) \ (from \cup lock)

Explores(F, next, lock) ==
  F = [from \in SUBSET Svc |->
         IF Further(next, lock, from) = {} THEN from
         ELSE F[from \cup Further(next, lock, from)]]

\* Nothing else is ahead.
Closed(next, lock, X) == X \in SUBSET Svc /\ \A s \in X : next[s] \subseteq X \cup lock

LEMMA FurtherIs ==
  ASSUME NEW next \in [Svc -> SUBSET Svc], NEW lock, NEW from \in SUBSET Svc
  PROVE  /\ from \cup Further(next, lock, from) \in SUBSET Svc
         /\ Further(next, lock, from) \cap from = {}
         /\ Further(next, lock, from) = {} <=> Closed(next, lock, from)
         /\ \A X : from \subseteq X /\ Closed(next, lock, X) => Further(next, lock, from) \subseteq X
<1>1. \A s \in from : next[s] \subseteq Svc
  OBVIOUS
<1>2. Further(next, lock, from) = {} <=> Closed(next, lock, from)
  BY DEF Further, Closed
<1>3. \A X : from \subseteq X /\ Closed(next, lock, X) => Further(next, lock, from) \subseteq X
  BY DEF Further, Closed
<1> QED BY <1>1, <1>2, <1>3 DEF Further

\* There is such a function: the least closed set around the entities given.
LEMMA ExplorerIs ==
  ASSUME NEW next \in [Svc -> SUBSET Svc], NEW lock
  PROVE  \E F : Explores(F, next, lock)
<1> DEFINE Around(from) == {X \in SUBSET Svc : from \subseteq X /\ Closed(next, lock, X)}
           C(from)  == {s \in Svc : \A X \in Around(from) : s \in X}
           more(from) == Further(next, lock, from)
           F == [from \in SUBSET Svc |-> C(from)]
           G == [from \in SUBSET Svc |-> IF more(from) = {} THEN from
                                         ELSE F[from \cup more(from)]]
<1>1. ASSUME NEW from \in SUBSET Svc
      PROVE  F[from] = G[from]
  <2>1. CASE more(from) = {}
    <3>1. from \in Around(from)
      BY <2>1, FurtherIs
    <3>2. C(from) = from
      BY <3>1
    <3> QED BY <2>1, <3>2
  <2>2. CASE more(from) # {}
    <3>1. from \cup more(from) \in SUBSET Svc
      BY FurtherIs
    <3>2. \A X \in Around(from) : more(from) \subseteq X
      BY FurtherIs
    <3>3. Around(from \cup more(from)) = Around(from)
      BY <3>2
    <3>4. C(from \cup more(from)) = C(from)
      <4> HIDE DEF Around
      <4> QED BY <3>3
    <3> HIDE DEF C, more
    <3> QED BY <2>2, <3>1, <3>4
  <2> QED BY <2>1, <2>2
<1>2. F = G
  <2> HIDE DEF C, more
  <2> QED BY <1>1
<1> HIDE DEF F
<1>3. Explores(F, next, lock)
  BY <1>2 DEF Explores
<1> QED BY <1>3

\* Whatever the function, its value is closed, and included in what is closed: if
\* not, take the largest set for which it fails, which a step makes larger.
LEMMA ExploredIs ==
  ASSUME NEW next \in [Svc -> SUBSET Svc], NEW lock, NEW F, Explores(F, next, lock),
         NEW start \in SUBSET Svc
  PROVE  /\ start \subseteq F[start] /\ Closed(next, lock, F[start])
         /\ \A X : start \subseteq X /\ Closed(next, lock, X) => F[start] \subseteq X
<1> DEFINE Good(from) ==
             /\ from \subseteq F[from] /\ Closed(next, lock, F[from])
             /\ \A X : from \subseteq X /\ Closed(next, lock, X) => F[from] \subseteq X
           Bad  == {from \in SUBSET Svc : ~Good(from)}
           left == [from \in Bad |-> Cardinality(Svc \ from)]
<1> SUFFICES ASSUME Bad # {} PROVE FALSE
  OBVIOUS
<1>1. left \in [Bad -> Nat]
  <2>1. \A from \in Bad : Svc \ from \in SUBSET Svc
    OBVIOUS
  <2> QED BY <2>1, Finite
<1>2. PICK from \in Bad : \A other \in Bad : left[from] <= left[other]
  <2> HIDE DEF left, Bad
  <2> QED BY <1>1, Lowest
<1> DEFINE more == Further(next, lock, from)
<1>3. from \in SUBSET Svc /\ F[from] = IF more = {} THEN from ELSE F[from \cup more]
  BY DEF Explores
<1>4. CASE more = {}
  <2>1. F[from] = from /\ Closed(next, lock, from)
    BY <1>3, <1>4, FurtherIs
  <2>2. Good(from)
    BY <2>1
  <2> QED BY <2>2
<1>5. CASE more # {}
  <2> DEFINE wider == from \cup more
  <2>1. /\ wider \in SUBSET Svc /\ more \cap from = {}
        /\ \A X : from \subseteq X /\ Closed(next, lock, X) => wider \subseteq X
    BY <1>3, FurtherIs
  <2>2. PICK x : x \in more
    BY <1>5
  <2>3. /\ Svc \ from \in SUBSET Svc /\ Svc \ wider \in SUBSET (Svc \ from)
        /\ x \in (Svc \ from) \ (Svc \ wider)
    BY <2>1, <2>2
  <2>4. Cardinality(Svc \ wider) < Cardinality(Svc \ from)
    <3> HIDE DEF wider, more
    <3> QED BY <2>3, Smaller
  <2>5. wider \notin Bad
    <3>1. wider \in Bad => left[wider] = Cardinality(Svc \ wider)
      OBVIOUS
    <3>2. left[from] = Cardinality(Svc \ from)
      OBVIOUS
    <3> HIDE DEF left, Bad, wider, more
    <3> QED BY <1>1, <1>2, <2>4, <3>1, <3>2
  <2>6. Good(wider)
    BY <2>1, <2>5
  <2>7. F[from] = F[wider] /\ from \subseteq wider
    BY <1>3, <1>5
  <2> HIDE DEF wider, more
  <2>8. Good(from)
    BY <2>1, <2>6, <2>7
  <2> QED BY <2>8
<1> QED BY <1>4, <1>5

\* Reach, from MAIN
DepsOf == [s \in Svc |-> DepsIn(graph, s)]

LEMMA ReachIs ==
  ASSUME GraphType(graph), NEW R, R = Reach(graph, {MAIN})
  PROVE  /\ MAIN \in R /\ Closed(DepsOf, locked, R)
         /\ \A X : MAIN \in X /\ Closed(DepsOf, locked, X) => R \subseteq X
<1> DEFINE Sat(F) == F = [from \in SUBSET Svc |->
                            LET more == (UNION {DepsIn(graph, s) : s \in from})
                                          \ (from \cup locked)
                            IN  IF more = {} THEN from ELSE F[from \cup more]]
<1>1. DepsOf \in [Svc -> SUBSET Svc]
  <2> SUFFICES ASSUME NEW s \in Svc PROVE DepsIn(graph, s) \subseteq Svc
    BY DEF DepsOf
  <2>1. Targets(graph[Side][s]) \subseteq Svc
    BY SpotIs, EntryOf DEF Targets
  <2> QED BY <2>1, OwnOrGate DEF DepsIn
<1>2. \A F : Explores(F, DepsOf, locked) <=> Sat(F)
  <2>1. ASSUME NEW from \in SUBSET Svc
        PROVE  Further(DepsOf, locked, from)
                 = (UNION {DepsIn(graph, s) : s \in from}) \ (from \cup locked)
    BY DEF Further, DepsOf
  <2> QED BY <2>1 DEF Explores
<1>3. R = (CHOOSE F : Sat(F))[{MAIN}]
  BY DEF Reach
<1>4. PICK F : Explores(F, DepsOf, locked) /\ R = F[{MAIN}]
  <2> HIDE DEF Sat
  <2>1. \E F : Sat(F)
    BY <1>1, <1>2, ExplorerIs
  <2>2. Sat(CHOOSE F : Sat(F))
    BY <2>1
  <2> QED BY <1>2, <1>3, <2>2
<1> DEFINE start == {MAIN}
<1>5. start \in SUBSET Svc
  BY StructureAssumption
<1>6. /\ start \subseteq R /\ Closed(DepsOf, locked, R)
      /\ \A X : start \subseteq X /\ Closed(DepsOf, locked, X) => R \subseteq X
  <2>1. R = F[start]
    BY <1>4
  <2> DEFINE lock == locked
  <2>2. Explores(F, DepsOf, lock)
    BY <1>4
  <2> HIDE DEF Sat, start, lock
  <2>3. /\ start \subseteq F[start] /\ Closed(DepsOf, lock, F[start])
        /\ \A X : start \subseteq X /\ Closed(DepsOf, lock, X) => F[start] \subseteq X
    BY <1>1, <1>5, <2>2, ExploredIs
  <2> QED BY <2>1, <2>3 DEF lock
<1> QED BY <1>6

\* Scope
NeedsOf(c) == [s \in Svc |-> Needs(c, s) \cup (IF s \in Group THEN Ends(c, s) ELSE {})]

LEMMA ScopeIs ==
  ASSUME declared \in DeclaredSet, NEW c, NEW start \in SUBSET Svc, NEW S, S = Scope(c, start)
  PROVE  /\ start \subseteq S /\ Closed(NeedsOf(c), Excluded(c), S)
         /\ \A X : start \subseteq X /\ Closed(NeedsOf(c), Excluded(c), X) => S \subseteq X
<1> DEFINE lock   == Excluded(c)
           Sat(F) == F = [from \in SUBSET Svc |->
                            LET more == UNION {Needs(c, s) \cup (IF s \in Group THEN Ends(c, s)
                                                                ELSE {}) : s \in from}
                                new  == more \ (from \cup Excluded(c))
                            IN  IF new = {} THEN from ELSE F[from \cup new]]
<1>1. NeedsOf(c) \in [Svc -> SUBSET Svc]
  <2> SUFFICES ASSUME NEW s \in Svc
               PROVE  Needs(c, s) \subseteq Svc /\ (s \in Group => Ends(c, s) \subseteq Svc)
    BY DEF NeedsOf
  <2>1. Needs(c, s) \subseteq Svc
    BY DEF Needs, DeclaredSet
  <2>2. s \in Group => Ends(c, s) \subseteq Sub[s]
    BY DEF Ends, BoundToSink, BoundToSource
  <2> QED BY <2>1, <2>2, OwnOrGate
<1>2. \A F : Explores(F, NeedsOf(c), lock) <=> Sat(F)
  <2>1. ASSUME NEW from \in SUBSET Svc
        PROVE  Further(NeedsOf(c), lock, from)
                 = (UNION {Needs(c, s) \cup (IF s \in Group THEN Ends(c, s) ELSE {}) : s \in from})
                     \ (from \cup lock)
    BY DEF Further, NeedsOf
  <2> QED BY <2>1 DEF Explores
<1>3. S = (CHOOSE F : Sat(F))[start]
  BY DEF Scope
<1>4. PICK F : Explores(F, NeedsOf(c), lock) /\ S = F[start]
  <2> HIDE DEF Sat, lock
  <2>1. \E F : Sat(F)
    BY <1>1, <1>2, ExplorerIs
  <2>2. Sat(CHOOSE F : Sat(F))
    BY <2>1
  <2> QED BY <1>2, <1>3, <2>2
<1> HIDE DEF lock
<1>5. /\ start \subseteq S /\ Closed(NeedsOf(c), lock, S)
      /\ \A X : start \subseteq X /\ Closed(NeedsOf(c), lock, X) => S \subseteq X
  BY <1>1, <1>4, ExploredIs
<1> QED BY <1>5 DEF lock
-------------------------------------------------------------------------------
(* ScopeExact: what prepare reaches is what the call asks for. *)

\* Nobody depends on a gate or on the root.
Unnamed == GatesUnnamed /\ MainUnnamed

\* Only subservices have dependencies.
DeclaredInside(decl) == \A s \in Svc : DOMAIN decl[s] # {} => \E g \in Group : s \in Sub[g]

\* What depends on an entity, or what it depends on, and the ends of a group, on
\* one side of the graph
Ahead(decl, side, s) ==
  IF side = "children" THEN {t \in Svc : s \in DOMAIN decl[t]} ELSE DOMAIN decl[s]

EndsOf(decl, bnd, side, g) ==
  IF side = "children" THEN BoundToSink(decl, g) ELSE BoundToSource(decl, bnd, g)

\* The graph on which the run of a call is prepared
Ready(g, c) ==
  /\ \A s \in Own : Targets(g[Side][s]) \cap Own = Needs(c, s)
  /\ \A h \in Group \ {MAIN} : Targets(g[Side][Gate(h, Side)]) = Ends(c, h)
  /\ \A h \in Group : Targets(g[Side][Gate(h, Flip(Side))]) = {}
  /\ Targets(g[Side][Spot]) = Entries(c)

\* The root is in no group, and nothing of a call leads to it.
LEMMA BelowMain ==
  ASSUME GraphOK(graph, declared), DeclaredInside(declared), MainUnnamed, NEW c
  PROVE  /\ \A g \in Group : Sub[g] \subseteq Own \ {MAIN}
         /\ \A s \in Svc : Needs(c, s) \subseteq Own \ {MAIN}
         /\ Needs(c, MAIN) = {}
         /\ \A g \in Group : Ends(c, g) \subseteq Own \ {MAIN}
         /\ Entries(c) \subseteq Own \ {MAIN}
         /\ Excluded(c) \subseteq Own \ {MAIN}
<1>1. \A g \in Group : Sub[g] \subseteq Own \ {MAIN}
  BY InnerIs
<1>2. OnlyDeclared(graph, declared)
  BY DEF GraphOK
<1>3. /\ \A s \in Svc : DOMAIN declared[s] \subseteq Own \ {MAIN}
      /\ \A s \in Svc \ (Own \ {MAIN}) : DOMAIN declared[s] = {}
  <2>1. \A s \in Svc : DOMAIN declared[s] \subseteq Own \ {MAIN}
    BY <1>2 DEF OnlyDeclared, MainUnnamed
  <2>2. \A s \in Svc \ (Own \ {MAIN}) : DOMAIN declared[s] = {}
    BY <1>1 DEF DeclaredInside
  <2> QED BY <2>1, <2>2
<1>4. MAIN \in Svc /\ MAIN \in Group
  BY StructureAssumption
<1>5. \A s \in Svc : Needs(c, s) \subseteq Own \ {MAIN}
  BY <1>3 DEF Needs
<1>6. Needs(c, MAIN) = {}
  BY <1>3, <1>4 DEF Needs, MainUnnamed
<1>7. \A g \in Group : Ends(c, g) \subseteq Sub[g]
  BY DEF Ends, BoundToSink, BoundToSource
<1>8. Entries(c) \subseteq Sub[MAIN] /\ Excluded(c) \subseteq Sub[MAIN]
  BY <1>4, <1>7 DEF Entries, Excluded
<1> QED BY <1>1, <1>4, <1>5, <1>6, <1>7, <1>8

\* What prepare reaches is the scope of the call.
LEMMA ReachIsScope ==
  ASSUME GraphOK(graph, declared), declared \in DeclaredSet, DeclaredInside(declared),
         MainUnnamed, NEW c, Ready(graph, c), locked = Excluded(c)
  PROVE  (Reach(graph, {MAIN}) \cap Own) \ {MAIN} = Scope(c, Entries(c) \ Excluded(c))
<1> DEFINE R     == Reach(graph, {MAIN})
           start == Entries(c) \ Excluded(c)
           S     == Scope(c, start)
<1>1. GraphType(graph) /\ GatesInside(graph) /\ Side \in Sides /\ Flip(Side) \in Sides
  BY SpotIs, FlipOther DEF GraphOK
<1>2. /\ \A g \in Group : Sub[g] \subseteq Own \ {MAIN}
      /\ \A s \in Svc : Needs(c, s) \subseteq Own \ {MAIN}
      /\ Needs(c, MAIN) = {}
      /\ \A g \in Group : Ends(c, g) \subseteq Own \ {MAIN}
      /\ Entries(c) \subseteq Own \ {MAIN} /\ Excluded(c) \subseteq Own \ {MAIN}
  BY BelowMain
<1>3. /\ Own \subseteq Svc /\ Own \cap Gates = {} /\ Group \subseteq Own /\ MAIN \in Group
  BY OwnOrGate, StructureAssumption DEF Own
<1>4. /\ MAIN \in R /\ Closed(DepsOf, locked, R)
      /\ \A X : MAIN \in X /\ Closed(DepsOf, locked, X) => R \subseteq X
  BY <1>1, ReachIs
<1>5. /\ start \subseteq S /\ Closed(NeedsOf(c), locked, S)
      /\ \A X : start \subseteq X /\ Closed(NeedsOf(c), locked, X) => S \subseteq X
  <2>1. start \in SUBSET Svc
    BY <1>2, <1>3
  <2> HIDE DEF start
  <2> QED BY <2>1, ScopeIs
<1>6. \A s \in Svc : DepsOf[s] = Targets(graph[Side][s]) \cup (IF s \in Group THEN {Gate(s, Side)} ELSE {})
  BY DEF DepsOf, DepsIn, Gate, Side
<1>7. \A s \in Svc : NeedsOf(c)[s] = Needs(c, s) \cup (IF s \in Group THEN Ends(c, s) ELSE {})
  BY DEF NeedsOf
<1>8. \A g \in Group : Gate(g, Side) \in Svc /\ Gate(g, Side) \in Gates
                       /\ Gate(g, Flip(Side)) \in Svc /\ Gate(g, Flip(Side)) \in Gates
  BY <1>1, GateFacts
<1>9. /\ \A s \in Own : Targets(graph[Side][s]) \cap Own = Needs(c, s)
      /\ \A g \in Group \ {MAIN} : Targets(graph[Side][Gate(g, Side)]) = Ends(c, g)
      /\ \A g \in Group : Targets(graph[Side][Gate(g, Flip(Side))]) = {}
      /\ Targets(graph[Side][Gate(MAIN, Side)]) = Entries(c)
  BY SpotIs DEF Ready
<1>10. \A s \in Svc : Targets(graph[Side][s]) \subseteq
                        Own \cup {Gate(g, Flip(Side)) : g \in Group}
  <2> SUFFICES ASSUME NEW s \in Svc, NEW t \in Targets(graph[Side][s]), t \notin Own
               PROVE  \E g \in Group : t = Gate(g, Flip(Side))
    OBVIOUS
  <2>1. t \in Svc
    BY <1>1, EntryOf DEF Targets
  <2>2. t \in Gates /\ \A g \in Group : t # Gate(g, Side)
    BY <1>1, <2>1, OwnOrGate, InsideGate
  <2> QED BY <1>1, <2>2 DEF Gates, Gate, Flip, Sides
<1> HIDE DEF R, start, S
<1>11. S \subseteq (R \cap Own) \ {MAIN}
  <2> DEFINE X == (R \cap Own) \ {MAIN}
  <2>1. \A g \in Group : g \in R => Gate(g, Side) \in R
    BY <1>2, <1>3, <1>4, <1>6, <1>8 DEF Closed
  <2>2. start \subseteq X
    <3>1. Entries(c) \subseteq R \cup locked
      BY <1>3, <1>4, <1>6, <1>8, <1>9, <2>1 DEF Closed
    <3> QED BY <3>1, <1>2 DEF start
  <2>3. ASSUME NEW s \in X
        PROVE  NeedsOf(c)[s] \subseteq X \cup locked
    <3>1. s \in Svc /\ s \in R /\ s \in Own
      BY <1>3
    <3>2. Targets(graph[Side][s]) \subseteq R \cup locked
      BY <3>1, <1>4, <1>6 DEF Closed
    <3>3. Needs(c, s) \subseteq X \cup locked
      BY <3>1, <3>2, <1>2, <1>9
    <3>4. s \in Group => Ends(c, s) \subseteq X \cup locked
      <4> SUFFICES ASSUME s \in Group PROVE Ends(c, s) \subseteq X \cup locked
        OBVIOUS
      <4>1. Gate(s, Side) \in R /\ Gate(s, Side) \in Svc /\ Gate(s, Side) \notin Group
        BY <3>1, <2>1, <1>3, <1>8
      <4>2. DepsOf[Gate(s, Side)] = Ends(c, s)
        BY <4>1, <1>6, <1>9
      <4>3. Ends(c, s) \subseteq R \cup locked
        BY <4>1, <4>2, <1>4 DEF Closed
      <4> QED BY <4>3, <1>2
    <3> QED BY <3>1, <3>3, <3>4, <1>7
  <2>4. Closed(NeedsOf(c), locked, X)
    BY <2>3, <1>3 DEF Closed
  <2> HIDE DEF X
  <2>5. S \subseteq X
    BY <2>2, <2>4, <1>5
  <2> QED BY <2>5 DEF X
<1>12. S \subseteq Own \ {MAIN}
  <2> DEFINE X == Own \ {MAIN}
  <2>1. \A s \in X : NeedsOf(c)[s] \subseteq X
    BY <1>2, <1>3, <1>7
  <2>2. Closed(NeedsOf(c), locked, X) /\ start \subseteq X
    BY <2>1, <1>2, <1>3 DEF Closed, start
  <2> HIDE DEF X
  <2>3. S \subseteq X
    BY <2>2, <1>5
  <2> QED BY <2>3 DEF X
<1>13. R \cap Own \subseteq S \cup {MAIN}
  <2> DEFINE G1 == {Gate(g, Side) : g \in (S \cap Group) \cup {MAIN}}
             G2 == {Gate(g, Flip(Side)) : g \in Group}
             Z  == S \cup {MAIN} \cup G1 \cup G2
  <2>1. G1 \subseteq Gates /\ G1 \subseteq Svc /\ G2 \subseteq Gates /\ G2 \subseteq Svc
    BY <1>3, <1>8
  <2>2. ASSUME NEW s \in Z
        PROVE  DepsOf[s] \subseteq Z \cup locked
    <3>1. CASE s = MAIN
      BY <3>1, <1>2, <1>3, <1>6, <1>9, <1>10
    <3>2. CASE s \in S
      <4>1. NeedsOf(c)[s] \subseteq S \cup locked
        BY <3>2, <1>5 DEF Closed
      <4>2. s \in Own /\ s \in Svc
        BY <3>2, <1>3, <1>12
      <4>3. Needs(c, s) \subseteq S \cup locked
        BY <4>1, <4>2, <1>7
      <4>4. Targets(graph[Side][s]) \subseteq Z \cup locked
        BY <4>2, <4>3, <1>9, <1>10
      <4> QED BY <3>2, <4>2, <4>4, <1>6
    <3>3. CASE s \in G1
      <4>1. PICK g \in (S \cap Group) \cup {MAIN} : s = Gate(g, Side)
        BY <3>3
      <4>2. s \in Svc /\ s \notin Group /\ g \in Group
        BY <4>1, <1>3, <1>8
      <4>3. DepsOf[s] = Targets(graph[Side][Gate(g, Side)])
        BY <4>1, <4>2, <1>6
      <4>4. CASE g = MAIN
        BY <4>3, <4>4, <1>5, <1>9 DEF start
      <4>5. CASE g # MAIN
        <5>1. g \in S /\ g \in Svc /\ NeedsOf(c)[g] \subseteq S \cup locked
          BY <4>1, <4>5, <1>3, <1>12, <1>5 DEF Closed
        <5>2. Ends(c, g) \subseteq S \cup locked
          BY <5>1, <4>2, <1>7
        <5> QED BY <5>2, <4>2, <4>3, <4>5, <1>9
      <4> QED BY <4>4, <4>5
    <3>4. CASE s \in G2
      <4>1. PICK g \in Group : s = Gate(g, Flip(Side))
        BY <3>4
      <4>2. s \in Svc /\ s \notin Group
        BY <4>1, <1>3, <1>8
      <4> QED BY <4>1, <4>2, <1>6, <1>9
    <3> QED BY <3>1, <3>2, <3>3, <3>4
  <2>3. Closed(DepsOf, locked, Z) /\ MAIN \in Z
    BY <2>1, <2>2, <1>3, <1>12 DEF Closed
  <2>4. Z \cap Own \subseteq S \cup {MAIN}
    BY <2>1, <1>3
  <2> HIDE DEF Z
  <2>5. R \subseteq Z
    BY <2>3, <1>4
  <2> QED BY <2>4, <2>5
<1> QED BY <1>11, <1>12, <1>13 DEF R, S, start
-------------------------------------------------------------------------------
(* What the graph keeps of the loading, whatever the calls *)

\* One side of the graph: the dependencies that were declared and the ends of the
\* groups, but not of MAIN, the one that a selection replaces.
AsLoaded(g, decl, bnd, rev, side) ==
  /\ \A s \in Own : Targets(g[side][s]) \cap Own = Ahead(decl, side, s)
  /\ \A h \in Group \ {MAIN} : Targets(g[side][Gate(h, side)]) = EndsOf(decl, bnd, side, h)
  /\ \A h \in Group : Targets(g[side][Gate(h, Flip(side))]) =
                        IF rev <=> side = "children" THEN {} ELSE {h}

\* No service was selected.
Unselected(g, decl, bnd, side) ==
  Targets(g[side][Gate(MAIN, side)]) = EndsOf(decl, bnd, side, MAIN)

LEMMA ParentsLoaded ==
  ASSUME NEW g, GraphOK(g, declared), NEW bnd, Done(bnd) = Group, NEW rev \in BOOLEAN,
         AsStated(g, declared, bnd, rev)
  PROVE  /\ AsLoaded(g, declared, bnd, rev, "parents")
         /\ Unselected(g, declared, bnd, "parents")
<1>1. GraphType(g) /\ OnlyDeclared(g, declared)
  BY DEF GraphOK
<1>2. ASSUME NEW s \in Svc, NEW p
      PROVE  p \in Targets(g["parents"][s]) <=> p \in Svc /\ IsParent(declared, bnd, rev, s, p)
  BY <1>1, TargetsIn DEF AsStated, ParentsAre, Targets
<1>3. \A h \in Group : /\ BoundToSink(declared, h) \subseteq Sub[h]
                       /\ BoundToSource(declared, bnd, h) \subseteq Sub[h]
  BY DEF BoundToSink, BoundToSource
<1>4. \A s \in Gates : DOMAIN declared[s] = {}
  BY <1>1 DEF OnlyDeclared
<1>5. \A s \in Svc : DOMAIN declared[s] \subseteq Own
  BY <1>1 DEF OnlyDeclared
<1>6. \A h \in Group : Source[h] \in Gates /\ Sink[h] \in Gates /\ Source[h] \in Svc /\ Sink[h] \in Svc
  BY OwnOrGate DEF Gates
<1>7. ASSUME NEW s \in Own
      PROVE  Targets(g["parents"][s]) \cap Own = DOMAIN declared[s]
  <2>1. s \in Svc /\ \A h \in Group : s # Source[h] /\ s # Sink[h]
    BY <1>6, OwnOrGate
  <2>2. \A p \in Own : p \in Svc /\ \A h \in Group : p # Sink[h]
    BY <1>6, OwnOrGate
  <2>3. \A p \in Own : p \in Targets(g["parents"][s]) <=> p \in DOMAIN declared[s]
    BY <2>1, <2>2, <1>2 DEF IsParent
  <2> QED BY <2>1, <2>3, <1>5
<1>8. ASSUME NEW h \in Group
      PROVE  /\ Targets(g["parents"][Source[h]]) = BoundToSource(declared, bnd, h)
             /\ Targets(g["parents"][Sink[h]]) = IF rev THEN {h} ELSE {}
  <2>1. \A i \in Group : /\ Source[h] \notin Sub[i] /\ Sink[h] \notin Sub[i]
                         /\ Source[h] # Sink[i] /\ (Source[h] = Source[i] => h = i)
                         /\ Sink[h] # Source[i] /\ (Sink[h] = Sink[i] => h = i)
    BY <1>6, OwnOrGate, TreeAssumption
  <2>2. \A p : IsParent(declared, bnd, rev, Source[h], p)
                 <=> p \in BoundToSource(declared, bnd, h)
    BY <2>1, <1>3, <1>4, <1>6 DEF IsParent
  <2>3. \A p : IsParent(declared, bnd, rev, Sink[h], p) <=> rev /\ p = h
    BY <2>1, <1>3, <1>4, <1>6 DEF IsParent
  <2>4. BoundToSource(declared, bnd, h) \subseteq Svc /\ h \in Svc
    BY <1>3, OwnOrGate, StructureAssumption
  <2> QED BY <2>2, <2>3, <2>4, <1>2, <1>6
<1>9. AsLoaded(g, declared, bnd, rev, "parents")
  BY <1>7, <1>8, SideIs DEF AsLoaded, Ahead, EndsOf
<1>10. Unselected(g, declared, bnd, "parents")
  BY <1>8, SideIs, StructureAssumption DEF Unselected, EndsOf
<1> QED BY <1>9, <1>10

LEMMA ChildrenLoaded ==
  ASSUME NEW g, GraphOK(g, declared), NEW bnd, Done(bnd) = Group, NEW rev \in BOOLEAN,
         AsStated(g, declared, bnd, rev), GatesApart, NoCollision
  PROVE  /\ AsLoaded(g, declared, bnd, rev, "children")
         /\ Unselected(g, declared, bnd, "children")
<1>1. GraphType(g) /\ OnlyDeclared(g, declared) /\ Keyed(g)
  BY DEF GraphOK
<1>2. ASSUME NEW s \in Svc, NEW c
      PROVE  c \in Targets(g["children"][s]) <=> c \in Svc /\ IsChild(declared, bnd, rev, s, c)
  <2> DEFINE d == g["children"][s]
  <2>1. ChildrenAre(d, declared, bnd, rev, s) /\ \A k \in DOMAIN d : d[k].target \in Svc
    BY <1>1, TargetsIn DEF AsStated
  <2>2. \A k \in DOMAIN d : Label[d[k].target] = k
    BY <1>1, SideIs DEF Keyed
  <2> HIDE DEF d
  <2>3. ASSUME c \in Svc, IsChild(declared, bnd, rev, s, c)
        PROVE  c \in Targets(d)
    <3>1. Label[c] \in DOMAIN d
      BY <2>1, <2>3 DEF ChildrenAre
    <3> DEFINE u == d[Label[c]].target
    <3>2. u \in Svc /\ Label[u] = Label[c] /\ IsChild(declared, bnd, rev, s, u)
      BY <3>1, <2>1, <2>2 DEF ChildrenAre
    <3>3. u = c
      <4> HIDE DEF u
      <4> QED BY <3>2, <2>3, <1>1, ChildNames
    <3> QED BY <3>1, <3>3 DEF Targets
  <2>4. c \in Targets(d) => c \in Svc /\ IsChild(declared, bnd, rev, s, c)
    BY <2>1 DEF ChildrenAre, Targets
  <2> QED BY <2>3, <2>4 DEF d
<1>3. \A h \in Group : /\ BoundToSink(declared, h) \subseteq Sub[h]
                       /\ BoundToSource(declared, bnd, h) \subseteq Sub[h]
  BY DEF BoundToSink, BoundToSource
<1>4. \A s \in Gates : DOMAIN declared[s] = {} /\ \A c \in Svc : s \notin DOMAIN declared[c]
  BY <1>1, NoGateDeclared
<1>6. \A h \in Group : Source[h] \in Gates /\ Sink[h] \in Gates /\ Source[h] \in Svc /\ Sink[h] \in Svc
  BY OwnOrGate DEF Gates
<1>7. ASSUME NEW s \in Own
      PROVE  Targets(g["children"][s]) \cap Own = {t \in Svc : s \in DOMAIN declared[t]}
  <2>1. s \in Svc /\ \A h \in Group : s # Source[h] /\ s # Sink[h]
    BY <1>6, OwnOrGate
  <2>2. \A p \in Own : p \in Svc /\ \A h \in Group : p # Source[h]
    BY <1>6, OwnOrGate
  <2>3. \A p \in Own : p \in Targets(g["children"][s]) <=> s \in DOMAIN declared[p]
    BY <2>1, <2>2, <1>2 DEF IsChild
  <2>4. \A p \in Svc : s \in DOMAIN declared[p] => p \in Own
    BY <1>4, OwnOrGate
  <2> QED BY <2>2, <2>3, <2>4
<1>8. ASSUME NEW h \in Group
      PROVE  /\ Targets(g["children"][Sink[h]]) = BoundToSink(declared, h)
             /\ Targets(g["children"][Source[h]]) = IF rev THEN {} ELSE {h}
  <2>1. \A i \in Group : /\ Source[h] \notin Sub[i] /\ Sink[h] \notin Sub[i]
                         /\ Source[h] # Sink[i] /\ (Source[h] = Source[i] => h = i)
                         /\ Sink[h] # Source[i] /\ (Sink[h] = Sink[i] => h = i)
    BY <1>6, OwnOrGate, TreeAssumption
  <2>2. \A c : IsChild(declared, bnd, rev, Sink[h], c) <=> c \in BoundToSink(declared, h)
    BY <2>1, <1>3, <1>4, <1>6 DEF IsChild
  <2>3. \A c : IsChild(declared, bnd, rev, Source[h], c) <=> ~rev /\ c = h
    BY <2>1, <1>3, <1>4, <1>6 DEF IsChild
  <2>4. BoundToSink(declared, h) \subseteq Svc /\ h \in Svc
    BY <1>3, OwnOrGate, StructureAssumption
  <2> QED BY <2>2, <2>3, <2>4, <1>2, <1>6
<1>9. AsLoaded(g, declared, bnd, rev, "children")
  BY <1>7, <1>8, SideIs DEF AsLoaded, Ahead, EndsOf
<1>10. Unselected(g, declared, bnd, "children")
  BY <1>8, SideIs, StructureAssumption DEF Unselected, EndsOf
<1> QED BY <1>9, <1>10

LEMMA SamePut ==
  ASSUME NEW new, NEW d, NEW type, NEW T, T = {}, IsPut(new, d, T, type)
  PROVE  Targets(new) = Targets(d)
<1>1. Labels(T) = {}
  BY DEF Labels
<1>2. DOMAIN new = DOMAIN d /\ \A k \in DOMAIN d : new[k] = d[k]
  BY <1>1 DEF IsPut
<1> QED BY <1>2 DEF Targets

LEMMA SameDrop ==
  ASSUME NEW new, NEW d, NEW N, N = {}, IsDrop(new, d, N)
  PROVE  Targets(new) = Targets(d)
BY DEF IsDrop, Targets

\* Moving the half edges changes nothing but them.
MovedTargets(g2, g, z) ==
  /\ \A s \in Own : \A side \in Sides : Targets(g2[side][s]) = Targets(g[side][s])
  /\ \A h \in Group : \A side \in Sides :
       Targets(g2[side][Gate(h, side)]) = Targets(g[side][Gate(h, side)])
  /\ \A h \in Group : Targets(g[z][Gate(h, Flip(z))]) = {h} => Targets(g2[z][Gate(h, Flip(z))]) = {}
  /\ \A h \in Group : Targets(g[Flip(z)][Gate(h, z)]) = {} => Targets(g2[Flip(z)][Gate(h, z)]) = {h}

LEMMA MovedTargetsAre ==
  ASSUME NEW g, GraphType(g), Keyed(g), NEW z \in Sides, NEW g2, IsMoved(g2, g, z)
  PROVE  MovedTargets(g2, g, z)
<1> DEFINE other == Flip(z)
           Lost(x) == {Label[h] : h \in {i \in Group : Gate(i, other) = x}}
           Got(x)  == {h \in Group : Gate(h, z) = x}
<1>1. /\ other \in Sides /\ other # z /\ Flip(other) = z
      /\ \A side \in Sides : side = z \/ side = other
  BY FlipOther DEF Sides
<1>2. \A x \in Svc : /\ IsDrop(g2[z][x], g[z][x], Lost(x))
                     /\ IsPut(g2[other][x], g[other][x], Got(x), REQUIRE)
  BY DEF IsMoved
<1>3. \A h \in Group : \A side \in Sides : Gate(h, side) \in Svc /\ Gate(h, side) \in Gates
  BY GateFacts
<1>4. ASSUME NEW x \in Svc, x \notin Gates
      PROVE  Lost(x) = {} /\ Got(x) = {}
  BY <1>1, <1>3, <1>4
<1>5. ASSUME NEW h \in Group
      PROVE  Lost(Gate(h, z)) = {} /\ Got(Gate(h, other)) = {}
  BY <1>1, GateFacts
<1>6. ASSUME NEW h \in Group
      PROVE  Lost(Gate(h, other)) = {Label[h]} /\ Got(Gate(h, z)) = {h}
  BY <1>1, GateFacts
<1> HIDE DEF Lost, Got, other
<1>7. ASSUME NEW s \in Own, NEW side \in Sides
      PROVE  Targets(g2[side][s]) = Targets(g[side][s])
  <2>1. s \in Svc /\ s \notin Gates
    BY OwnOrGate
  <2> QED BY <2>1, <1>1, <1>2, <1>4, SamePut, SameDrop
<1>8. ASSUME NEW h \in Group, NEW side \in Sides
      PROVE  Targets(g2[side][Gate(h, side)]) = Targets(g[side][Gate(h, side)])
  <2>1. Gate(h, side) \in Svc
    BY <1>3
  <2>2. CASE side = z
    BY <2>1, <2>2, <1>2, <1>5, SameDrop
  <2>3. CASE side = other
    BY <2>1, <2>3, <1>2, <1>5, SamePut
  <2> QED BY <2>2, <2>3, <1>1
<1>9. ASSUME NEW h \in Group, Targets(g[z][Gate(h, other)]) = {h}
      PROVE  Targets(g2[z][Gate(h, other)]) = {}
  <2> DEFINE x == Gate(h, other)
             d == g[z][x]
             e == g2[z][x]
  <2>1. x \in Svc /\ Lost(x) = {Label[h]}
    BY <1>1, <1>3, <1>6
  <2>2. IsDrop(e, d, {Label[h]})
    BY <2>1, <1>2
  <2>3. \A k \in DOMAIN d : Label[d[k].target] = k /\ d[k].target \in {h}
    BY <1>9, <2>1 DEF Keyed, Targets
  <2> HIDE DEF d, e
  <2>4. DOMAIN e = {}
    BY <2>2, <2>3 DEF IsDrop
  <2>5. Targets(e) = {}
    BY <2>4 DEF Targets
  <2> QED BY <2>5 DEF e
<1>10. ASSUME NEW h \in Group, Targets(g[other][Gate(h, z)]) = {}
       PROVE  Targets(g2[other][Gate(h, z)]) = {h}
  <2> DEFINE x == Gate(h, z)
             d == g[other][x]
             e == g2[other][x]
             T == {h}
  <2>1. x \in Svc /\ Got(x) = T
    BY <1>3, <1>6
  <2>2. IsPut(e, d, T, REQUIRE)
    BY <2>1, <1>2
  <2>3. DOMAIN d = {}
    BY <1>10 DEF Targets
  <2>4. h \in T /\ \A t \in T : t = h
    OBVIOUS
  <2> HIDE DEF d, e, T
  <2>5. \A k \in DOMAIN e : e[k].target \in T
    BY <2>2, <2>3, <2>4, FreshPut
  <2>6. h \in Targets(e)
    BY <2>2, <2>3, <2>4, FreshPut
  <2>7. Targets(e) = {h}
    BY <2>4, <2>5, <2>6 DEF Targets
  <2> QED BY <2>7 DEF e
<1> QED BY <1>7, <1>8, <1>9, <1>10 DEF MovedTargets, other

LEMMA ReversedLoaded ==
  ASSUME NEW g, GraphOK(g, declared), NEW from \in BOOLEAN, NEW to \in BOOLEAN,
         NEW g2, g2 = AlgoReversed(g, from, to), NEW side \in Sides
  PROVE  /\ AsLoaded(g, declared, bound, from, side) => AsLoaded(g2, declared, bound, to, side)
         /\ Unselected(g, declared, bound, side) => Unselected(g2, declared, bound, side)
<1>1. CASE from = to
  BY <1>1 DEF AlgoReversed
<1>2. CASE from # to
  <2> DEFINE z == IF to THEN "children" ELSE "parents"
  <2>1. GraphType(g) /\ Keyed(g) /\ z \in Sides /\ MAIN \in Group
    BY SideIs, StructureAssumption DEF GraphOK
  <2>2. IsMoved(g2, g, z)
    <3>1. CASE to
      <4>1. g2 = MoveHalfEdges(g, "children", Source, Sink)
        BY <1>2, <3>1 DEF AlgoReversed
      <4> QED BY <4>1, <3>1, <2>1, SideIs, MoveHalfEdgesIs
    <3>2. CASE ~to
      <4>1. g2 = MoveHalfEdges(g, "parents", Sink, Source)
        BY <1>2, <3>2 DEF AlgoReversed
      <4> QED BY <4>1, <3>2, <2>1, SideIs, MoveHalfEdgesIs
    <3> QED BY <3>1, <3>2
  <2>3. (z = "children" <=> to) /\ from = ~to
    BY <1>2
  <2> HIDE DEF z
  <2>4. MovedTargets(g2, g, z)
    BY <2>1, <2>2, MovedTargetsAre
  <2>5. ASSUME AsLoaded(g, declared, bound, from, side)
        PROVE  AsLoaded(g2, declared, bound, to, side)
    <3>1. \A h \in Group : Targets(g2[side][Gate(h, Flip(side))]) =
                             IF to <=> side = "children" THEN {} ELSE {h}
      <4> SUFFICES ASSUME NEW h \in Group
                   PROVE  Targets(g2[side][Gate(h, Flip(side))]) =
                            IF to <=> side = "children" THEN {} ELSE {h}
        OBVIOUS
      <4>1. Targets(g[side][Gate(h, Flip(side))]) = IF from <=> side = "children" THEN {} ELSE {h}
        BY <2>5 DEF AsLoaded
      <4>2. CASE side = z
        <5>1. ~(from <=> side = "children") /\ (to <=> side = "children")
          BY <2>3, <4>2
        <5> QED BY <4>1, <4>2, <5>1, <2>4 DEF MovedTargets
      <4>3. CASE side # z
        <5>1. side = Flip(z) /\ Flip(side) = z
          BY <4>3, <2>1 DEF Sides, Flip
        <5>2. (from <=> side = "children") /\ ~(to <=> side = "children")
          <6>1. side = "children" <=> z # "children"
            BY <4>3, <2>1 DEF Sides
          <6> QED BY <2>3, <6>1
        <5> QED BY <4>1, <5>1, <5>2, <2>4 DEF MovedTargets
      <4> QED BY <4>2, <4>3
    <3> QED BY <3>1, <2>4, <2>5 DEF AsLoaded, MovedTargets
  <2>6. Unselected(g, declared, bound, side) => Unselected(g2, declared, bound, side)
    BY <2>1, <2>4 DEF Unselected, MovedTargets
  <2> QED BY <2>5, <2>6
<1> QED BY <1>1, <1>2

\* A selection changes what the gate of MAIN starts from, and nothing between
\* services and groups.
SelectedTargets(g2, g, names) ==
  /\ \A x \in Svc \ {Spot} : Targets(g2[Side][x]) = Targets(g[Side][x])
  /\ Targets(g2[Side][Spot]) = {s \in Sub[MAIN] : Label[s] \in names}
  /\ \A x \in Svc : Targets(g2[Flip(Side)][x]) \cap Own = Targets(g[Flip(Side)][x]) \cap Own
  /\ \A x \in Gates : Targets(g2[Flip(Side)][x]) = Targets(g[Flip(Side)][x])

LEMMA SelectedTargetsAre ==
  ASSUME GatesApart, GraphOK(graph, declared), NEW names
  PROVE  SelectedTargets(Select(graph, names), graph, names)
<1> DEFINE S     == {Spot}
           lost  == Others(graph, names)
           left  == RemoveDeps(graph, S, lost, Side)
           T     == {s \in Sub[MAIN] : Label[s] \in names \ DOMAIN graph[Side][Spot]}
           g2    == AddDeps(left, Spot, T, REQUIRE, Side)
           other == Flip(Side)
           key   == Label[Spot]
<1>1. /\ GraphType(graph) /\ Keyed(graph) /\ GatesInside(graph) /\ Side \in Sides
      /\ other \in Sides /\ Spot \in Svc /\ Spot \in Gates /\ MAIN \in Group
      /\ Spot = Gate(MAIN, Side)
  BY SpotIs, FlipOther, GateFacts DEF GraphOK
<1>2. S \in SUBSET Svc /\ Sub[MAIN] \subseteq Own /\ T \in SUBSET Svc /\ REQUIRE \in Strength
      /\ Own \cap Gates = {}
  BY <1>1, OwnOrGate DEF Strength
<1>3. IsRemoved(left, graph, S, lost, Side)
  BY <1>1, <1>2, RemoveDepsIs
<1>4. IsAdded(g2, left, Spot, T, REQUIRE, Side)
  <2> HIDE DEF left, T
  <2> QED BY <1>1, <1>2, <1>3, AddDepsIs DEF IsRemoved
<1>5. \A x \in Svc : Cut(graph, x, S, lost, Side) \subseteq {key}
  BY DEF Cut
<1>6. \A x \in Gates : Cut(graph, x, S, lost, Side) = {}
  <2>1. Targets(graph[Side][Spot]) \subseteq Sub[MAIN]
    BY <1>1, InsideGate
  <2>2. Removed(graph, Spot, lost, Side) \subseteq Sub[MAIN]
    BY <2>1 DEF Removed, Targets
  <2> QED BY <2>2, <1>2 DEF Cut
<1>7. \A x \in Svc : Label[x] = key => x \in Gates
  BY <1>1, GateFacts
<1>8. ASSUME NEW x \in Svc \ {Spot}
      PROVE  Targets(g2[Side][x]) = Targets(graph[Side][x])
  BY <1>3, <1>4 DEF IsRemoved, IsAdded
<1>9. Targets(g2[Side][Spot]) = {s \in Sub[MAIN] : Label[s] \in names}
  <2> DEFINE d == graph[Side][Spot]
             m == left[Side][Spot]
             e == g2[Side][Spot]
             known == Sub[MAIN]
  <2>1. IsDrop(m, d, lost) /\ IsPut(e, m, T, REQUIRE) /\ lost = DOMAIN d \ names
    BY <1>3, <1>4 DEF IsRemoved, IsAdded, Others
  <2>2. \A k \in DOMAIN d : d[k].target \in known /\ Label[d[k].target] = k
    <3>1. Targets(d) \subseteq known
      BY <1>1, InsideGate
    <3>2. \A k \in DOMAIN d : Label[d[k].target] = k
      BY <1>1 DEF Keyed
    <3> QED BY <3>1, <3>2 DEF Targets
  <2>3. T = {s \in known : Label[s] \in names \ DOMAIN d}
    OBVIOUS
  <2>4. \A s, t \in known : Label[s] = Label[t] => s = t
    BY <1>1, <1>2, OwnOrGate, LabelAssumption
  <2> HIDE DEF d, m, e, T, lost, known
  <2>5. \A k \in DOMAIN e : e[k].target \in known /\ Label[e[k].target] \in names
    <3> SUFFICES ASSUME NEW k \in DOMAIN e
                 PROVE  e[k].target \in known /\ Label[e[k].target] \in names
      OBVIOUS
    <3>1. CASE k \in Labels(T)
      <4>1. PICK t \in T : Label[t] = k /\ e[k] = [target |-> t, type |-> REQUIRE]
        BY <3>1, <2>1 DEF IsPut
      <4> QED BY <4>1, <2>3
    <3>2. CASE k \notin Labels(T)
      <4>1. k \in DOMAIN m /\ e[k] = m[k]
        BY <3>2, <2>1 DEF IsPut
      <4>2. k \in DOMAIN d /\ k \in names /\ m[k] = d[k]
        BY <4>1, <2>1 DEF IsDrop
      <4> QED BY <4>1, <4>2, <2>2
    <3> QED BY <3>1, <3>2
  <2>6. \A s \in known : Label[s] \in names => s \in Targets(e)
    <3> SUFFICES ASSUME NEW s \in known, Label[s] \in names
                 PROVE  s \in Targets(e)
      OBVIOUS
    <3>1. CASE Label[s] \in DOMAIN d
      <4>1. Label[s] \in DOMAIN m /\ m[Label[s]] = d[Label[s]]
        BY <3>1, <2>1 DEF IsDrop
      <4>2. Label[s] \notin Labels(T)
        BY <3>1, <2>3 DEF Labels
      <4>3. Label[s] \in DOMAIN e /\ e[Label[s]] = d[Label[s]]
        BY <4>1, <4>2, <2>1 DEF IsPut
      <4>4. d[Label[s]].target = s
        BY <3>1, <2>2, <2>4
      <4> QED BY <4>3, <4>4 DEF Targets
    <3>2. CASE Label[s] \notin DOMAIN d
      <4>1. s \in T /\ Label[s] \in Labels(T)
        BY <3>2, <2>3 DEF Labels
      <4>2. PICK t \in T : Label[t] = Label[s] /\ e[Label[s]] = [target |-> t, type |-> REQUIRE]
        BY <4>1, <2>1 DEF IsPut
      <4>3. t = s /\ Label[s] \in DOMAIN e
        BY <4>1, <4>2, <2>1, <2>3, <2>4 DEF IsPut
      <4> QED BY <4>2, <4>3 DEF Targets
    <3> QED BY <3>1, <3>2
  <2>7. Targets(e) = {s \in known : Label[s] \in names}
    BY <2>5, <2>6 DEF Targets
  <2> QED BY <2>7 DEF e, known
<1>10. ASSUME NEW x \in Gates
       PROVE  Targets(g2[other][x]) = Targets(graph[other][x])
  <2>1. x \in Svc /\ x \notin T
    BY <1>2, OwnOrGate
  <2>2. g2[other][x] = left[other][x]
    BY <2>1, <1>4 DEF IsAdded
  <2>3. IsDrop(left[other][x], graph[other][x], Cut(graph, x, S, lost, Side))
    BY <2>1, <1>3 DEF IsRemoved
  <2> QED BY <2>2, <2>3, <1>6, SameDrop
<1>11. ASSUME NEW x \in Svc
       PROVE  Targets(g2[other][x]) \cap Own = Targets(graph[other][x]) \cap Own
  <2> DEFINE d == graph[other][x]
             m == left[other][x]
             e == g2[other][x]
             cut == Cut(graph, x, S, lost, Side)
  <2>1. IsDrop(m, d, cut) /\ (e = m \/ IsPutOne(e, m, Spot, REQUIRE))
    BY <1>3, <1>4 DEF IsRemoved, IsAdded
  <2>2. cut \subseteq {key}
    BY <1>5
  <2>3. \A k \in DOMAIN d : d[k].target \in Svc /\ Label[d[k].target] = k
    BY <1>1, EntryOf DEF Keyed
  <2> HIDE DEF d, m, e, cut, key
  <2>4. \A k : k # key => (k \in DOMAIN e <=> k \in DOMAIN d) /\ (k \in DOMAIN d => e[k] = d[k])
    BY <2>1, <2>2 DEF IsDrop, IsPutOne, key
  <2>5. key \in DOMAIN d => d[key].target \notin Own
    BY <2>3, <1>2, <1>7
  <2>6. key \in DOMAIN e => e[key].target \notin Own
    <3>1. CASE e = m
      BY <3>1, <2>1, <2>5 DEF IsDrop
    <3>2. CASE IsPutOne(e, m, Spot, REQUIRE)
      <4>1. e[key] = [target |-> Spot, type |-> REQUIRE]
        BY <3>2 DEF IsPutOne, key
      <4> QED BY <4>1, <1>1, <1>2
    <3> QED BY <3>1, <3>2, <2>1
  <2>7. Targets(e) \cap Own = Targets(d) \cap Own
    BY <2>4, <2>5, <2>6 DEF Targets
  <2> QED BY <2>7 DEF d, e
<1>12. g2 = Select(graph, names)
  BY DEF Select
<1> HIDE DEF g2
<1>13. SelectedTargets(g2, graph, names)
  BY <1>8, <1>9, <1>10, <1>11 DEF SelectedTargets, other
<1> QED BY <1>12, <1>13

LEMMA SelectLoaded ==
  ASSUME GatesApart, GraphOK(graph, declared), NEW names, NEW side \in Sides,
         NEW g2, g2 = Select(graph, names), AsLoaded(graph, declared, bound, reversed, side)
  PROVE  /\ AsLoaded(g2, declared, bound, reversed, side)
         /\ side # Side /\ Unselected(graph, declared, bound, side)
              => Unselected(g2, declared, bound, side)
<1>1. SelectedTargets(g2, graph, names)
  BY SelectedTargetsAre
<1>2. /\ Side \in Sides /\ Spot = Gate(MAIN, Side) /\ MAIN \in Group
      /\ Own \subseteq Svc /\ Own \cap Gates = {} /\ Spot \in Gates
  BY SpotIs, OwnOrGate, GateFacts
<1>3. \A h \in Group : \A z \in Sides : Gate(h, z) \in Svc /\ Gate(h, z) \in Gates
  BY GateFacts
<1>4. Flip(side) \in Sides
  BY FlipOther
<1>5. CASE side = Side
  <2>1. \A s \in Own : Targets(g2[side][s]) = Targets(graph[side][s])
    BY <1>1, <1>2, <1>5 DEF SelectedTargets
  <2>2. \A h \in Group \ {MAIN} : Targets(g2[side][Gate(h, side)]) = Targets(graph[side][Gate(h, side)])
    <3>1. \A h \in Group \ {MAIN} : Gate(h, side) # Spot
      BY <1>2, <1>5, GateFacts
    <3> QED BY <3>1, <1>1, <1>3, <1>5 DEF SelectedTargets
  <2>3. \A h \in Group : Targets(g2[side][Gate(h, Flip(side))])
                           = Targets(graph[side][Gate(h, Flip(side))])
    <3>1. \A h \in Group : Gate(h, Flip(side)) # Spot
      BY <1>2, <1>5, GateFacts
    <3> QED BY <3>1, <1>1, <1>3, <1>4, <1>5 DEF SelectedTargets
  <2> QED BY <2>1, <2>2, <2>3, <1>5 DEF AsLoaded
<1>6. CASE side # Side
  <2>1. side = Flip(Side)
    BY <1>2, <1>6 DEF Sides, Flip
  <2>2. \A s \in Own : Targets(g2[side][s]) \cap Own = Targets(graph[side][s]) \cap Own
    BY <2>1, <1>1, <1>2 DEF SelectedTargets
  <2>3. \A h \in Group : \A z \in Sides : Targets(g2[side][Gate(h, z)]) = Targets(graph[side][Gate(h, z)])
    BY <2>1, <1>1, <1>3 DEF SelectedTargets
  <2>4. AsLoaded(g2, declared, bound, reversed, side)
    BY <2>2, <2>3, <1>4 DEF AsLoaded
  <2>5. Unselected(graph, declared, bound, side) => Unselected(g2, declared, bound, side)
    BY <2>3, <1>2 DEF Unselected
  <2> QED BY <2>4, <2>5
<1> QED BY <1>5, <1>6

\* The last cut, if any, and the run is ready.
LEMMA ReadyIs ==
  ASSUME GraphOK(graph, declared), NEW c, c.reversed = reversed, reversed \in BOOLEAN,
         AsLoaded(graph, declared, bound, reversed, Side),
         Targets(graph[Side][Spot]) = Entries(c),
         NEW g2,
         g2 = IF c.nodeps THEN RemoveDeps(graph, Entries(c), Names, Side) ELSE graph
  PROVE  Ready(g2, c)
<1>1. /\ GraphType(graph) /\ GatesInside(graph) /\ Side \in Sides /\ Flip(Side) \in Sides
      /\ MAIN \in Group /\ Spot = Gate(MAIN, Side)
  BY SpotIs, FlipOther DEF GraphOK
<1>2. /\ \A s \in Own : Targets(graph[Side][s]) \cap Own = Ahead(declared, Side, s)
      /\ \A h \in Group \ {MAIN} : Targets(graph[Side][Gate(h, Side)]) = Ends(c, h)
      /\ \A h \in Group : Targets(graph[Side][Gate(h, Flip(Side))]) = {}
  BY DEF AsLoaded, EndsOf, Ends, Side
<1>3. \A s : Needs(c, s) = IF c.nodeps /\ s \in Entries(c) THEN {} ELSE Ahead(declared, Side, s)
  BY DEF Needs, Ahead, Side
<1>4. CASE ~c.nodeps
  BY <1>2, <1>3, <1>4 DEF Ready
<1>5. CASE c.nodeps
  <2> DEFINE S == Entries(c)
  <2>1. S \subseteq Sub[MAIN] /\ S \subseteq Own /\ S \in SUBSET Svc /\ Own \cap Gates = {}
    BY <1>1, OwnOrGate, InsideGate
  <2>2. IsRemoved(g2, graph, S, Names, Side)
    <3> HIDE DEF S
    <3>1. g2 = RemoveDeps(graph, S, Names, Side)
      BY <1>5 DEF S
    <3> QED BY <3>1, <2>1, <1>1, RemoveDepsIs
  <2>3. ASSUME NEW s \in S
        PROVE  Targets(g2[Side][s]) = {}
    <3>1. DOMAIN graph[Side][s] \subseteq Names
      BY <2>1, <1>1, EntryOf
    <3>2. DOMAIN g2[Side][s] = {}
      BY <3>1, <2>2 DEF IsRemoved, IsDrop
    <3> QED BY <3>2 DEF Targets
  <2>4. \A s \in Svc \ S : Targets(g2[Side][s]) = Targets(graph[Side][s])
    BY <2>2 DEF IsRemoved
  <2>5. \A h \in Group : \A z \in Sides : Gate(h, z) \in Svc \ S
    BY <2>1, GateFacts
  <2>6. \A s \in Own : Targets(g2[Side][s]) \cap Own = Needs(c, s)
    <3> HIDE DEF S
    <3>1. \A s \in Own : s \in Svc
      BY OwnOrGate
    <3>2. \A s : Needs(c, s) = IF s \in S THEN {} ELSE Ahead(declared, Side, s)
      BY <1>3, <1>5 DEF S
    <3> QED BY <3>1, <3>2, <2>3, <2>4, <1>2
  <2> HIDE DEF S
  <2>7. /\ \A h \in Group \ {MAIN} : Targets(g2[Side][Gate(h, Side)]) = Ends(c, h)
        /\ \A h \in Group : Targets(g2[Side][Gate(h, Flip(Side))]) = {}
        /\ Targets(g2[Side][Spot]) = Entries(c)
    BY <2>4, <2>5, <1>1, <1>2
  <2> QED BY <2>6, <2>7 DEF Ready
<1> QED BY <1>4, <1>5
-------------------------------------------------------------------------------
(* The invariant of all the calls *)

SideOf(c) == IF c.reversed THEN "children" ELSE "parents"

\* The sides of the graph on which services were selected
NamedBy(c) == IF c.services = {} THEN {} ELSE {SideOf(c)}
NamedBefore == UNION {NamedBy(runs[j].call) : j \in DOMAIN runs}
Named ==
  NamedBefore \cup (IF pc \in {"nodeps", "run"} THEN NamedBy(call) ELSE {})

Kept(g, rev, named) ==
  \A side \in Sides : (side = "children" => NoCollision) =>
    /\ AsLoaded(g, declared, bound, rev, side)
    /\ side \notin named => Unselected(g, declared, bound, side)

IsLoaded == pc \notin {"load", "loading"} /\ (pc = "idle" => runs # <<>>)
NoneCut == \A j \in DOMAIN runs : ~runs[j].call.nodeps

\* UncutBefore, of two calls
Spares(before, c) ==
  /\ ~before.nodeps
  /\ before.services = {} \/ c.services # {} \/ before.reversed # c.reversed

EachScoped(calls) ==
  \A i \in DOMAIN calls :
    LET c == calls[i].call
    IN  (\A j \in 1..i-1 : Spares(calls[j].call, c)) /\ (c.reversed => NoCollision) =>
          calls[i].reached \ {MAIN} = Scope(c, Entries(c) \ Excluded(c))

\* The graph keeps what was loaded as long as no call has --nodeps; and when no
\* earlier call left cuts that this one meets, it starts from what it asks for.
ScopeInv ==
  /\ Unnamed => EachScoped(runs)
  /\ reversed \in BOOLEAN /\ (pc # "idle" => call \in Calls)
  /\ \A j \in DOMAIN runs : runs[j].call \in Calls
  /\ DeclaredInside(declared)
  /\ pc \in Asking => locked = Excluded(call)
  /\ pc \in Asking \ {"reverse"} => reversed = call.reversed
  /\ Unnamed /\ IsLoaded /\ NoneCut /\ ~(pc = "run" /\ call.nodeps) =>
       Kept(graph, reversed, Named)
  /\ /\ Unnamed /\ (reversed => NoCollision) /\ failure = None
     /\ \A j \in DOMAIN runs : Spares(runs[j].call, call)
     => /\ pc \in {"nodeps", "run"} => Targets(graph[Side][Spot]) = Entries(call)
        /\ pc = "run" => Ready(graph, call)

LEMMA ScopeIsExact == EachScoped(runs) => ScopeExact
BY DEF EachScoped, ScopeExact, UncutBefore, Spares

LEMMA ScopeCarried ==
  ASSUME UNCHANGED <<declared, bound>>
  PROVE  /\ Unnamed' <=> Unnamed
         /\ NoCollision' <=> NoCollision
         /\ DeclaredInside(declared)' <=> DeclaredInside(declared)
         /\ EachScoped(runs') => EachScoped(runs)'
         /\ Kept(graph', reversed', Named') => Kept(graph, reversed, Named)'
         /\ Entries(call)' = Entries(call')
         /\ UNCHANGED reversed => /\ Side' = Side /\ Spot' = Spot
                                  /\ Ready(graph', call') => Ready(graph, call)'
<1>1. Unnamed' <=> Unnamed
  BY SameNames DEF Unnamed, MainUnnamed
<1>2. NoCollision' <=> NoCollision
  BY DEF NoCollision, Collide
<1>3. DeclaredInside(declared)' <=> DeclaredInside(declared)
  BY DEF DeclaredInside
<1>4. \A c : Entries(c)' = Entries(c)
  BY DEF Entries, Ends
<1>5. \A c, start : Scope(c, start)' = Scope(c, start)
  BY DEF Scope, Needs, Entries, Ends
<1>6. EachScoped(runs') => EachScoped(runs)'
  BY <1>2, <1>4, <1>5 DEF EachScoped
<1>7. Kept(graph', reversed', Named') => Kept(graph, reversed, Named)'
  BY <1>2 DEF Kept
<1>8. Entries(call)' = Entries(call')
  BY DEF Entries, Ends
<1>9. UNCHANGED reversed => Side' = Side /\ Spot' = Spot
  BY DEF Side, Spot
<1>10. UNCHANGED reversed /\ Ready(graph', call') => Ready(graph, call)'
  BY <1>8, <1>9 DEF Ready, Needs, Entries, Ends
<1> QED BY <1>1, <1>2, <1>3, <1>6, <1>7, <1>8, <1>9, <1>10

LEMMA ScopeInit == Init => ScopeInv
<1> SUFFICES ASSUME Init PROVE ScopeInv
  OBVIOUS
<1>1. /\ runs = <<>> /\ pc = "idle" /\ reversed = FALSE
      /\ declared = [s \in Svc |-> Empty] /\ DOMAIN runs = {} /\ DOMAIN Empty = {}
  BY DEF Init, LoaderInit, Empty
<1>2. EachScoped(runs) /\ DeclaredInside(declared)
  BY <1>1 DEF EachScoped, DeclaredInside
<1> QED BY <1>1, <1>2 DEF ScopeInv, IsLoaded, Asking

\* A step between the changes of the graph
LEMMA ScopeSame ==
  ASSUME ScopeInv, UNCHANGED <<graph, declared, bound, reversed, call, runs>>,
         pc \in {"apply", "variables", "resolve"}, pc' \in {"reverse", "resolve", "select"},
         locked' = Excluded(call), pc' # "reverse" => reversed = call.reversed
  PROVE  ScopeInv'
<1>1. (Unnamed => EachScoped(runs))' /\ DeclaredInside(declared)'
  BY ScopeCarried DEF ScopeInv
<1>2. Named' = Named
  BY DEF Named, NamedBefore
<1>3. (Unnamed /\ IsLoaded /\ NoneCut /\ ~(pc = "run" /\ call.nodeps) =>
         Kept(graph, reversed, Named))'
  <2> SUFFICES ASSUME Unnamed', NoneCut'
               PROVE  Kept(graph, reversed, Named)'
    OBVIOUS
  <2>1. Unnamed /\ IsLoaded /\ NoneCut
    BY ScopeCarried DEF IsLoaded, NoneCut
  <2>2. Kept(graph', reversed', Named')
    BY <2>1, <1>2 DEF ScopeInv
  <2> QED BY <2>2, ScopeCarried
<1>4. locked' = Excluded(call') /\ (pc' \in Asking \ {"reverse"} => reversed' = call'.reversed)
  OBVIOUS
<1> QED BY <1>1, <1>3, <1>4 DEF ScopeInv

\* set_algo_reversed, by a call or by reset
LEMMA ScopeTurned ==
  ASSUME ManagerInv, ScopeInv, NEW to \in BOOLEAN, reversed' = to,
         graph' = AlgoReversed(graph, reversed, to), UNCHANGED <<declared, bound, runs>>,
         call' \in Calls, pc \in {"idle", "reverse"},
         pc' = IF pc = "reverse" THEN "variables" ELSE IF runs = <<>> THEN "load" ELSE "apply",
         pc = "reverse" => to = call.reversed /\ UNCHANGED <<call, locked>>
  PROVE  ScopeInv'
<1>1. (Unnamed => EachScoped(runs))' /\ DeclaredInside(declared)'
  BY ScopeCarried DEF ScopeInv
<1>2. Named' = Named
  BY DEF Named, NamedBefore
<1>3. (Unnamed /\ IsLoaded /\ NoneCut /\ ~(pc = "run" /\ call.nodeps) =>
         Kept(graph, reversed, Named))'
  <2> SUFFICES ASSUME Unnamed', IsLoaded', NoneCut'
               PROVE  Kept(graph, reversed, Named)'
    OBVIOUS
  <2>1. Unnamed /\ IsLoaded /\ NoneCut
    BY ScopeCarried DEF IsLoaded, NoneCut
  <2>2. Kept(graph, reversed, Named) /\ reversed \in BOOLEAN
    BY <2>1 DEF ScopeInv
  <2>3. GraphOK(graph, declared)
    BY <2>1 DEF Unnamed, ManagerInv
  <2> DEFINE g2 == graph'
  <2>4. g2 = AlgoReversed(graph, reversed, to)
    OBVIOUS
  <2> HIDE DEF g2
  <2>5. Kept(g2, to, Named)
    BY <2>2, <2>3, <2>4, ReversedLoaded DEF Kept
  <2> QED BY <2>5, <1>2, ScopeCarried DEF g2
<1>4. pc' \in Asking => locked' = Excluded(call)'
  BY DEF ScopeInv, Asking, Excluded
<1>5. /\ reversed' \in BOOLEAN /\ (pc' # "idle" => call' \in Calls)
      /\ (\A j \in DOMAIN runs : runs[j].call \in Calls)'
      /\ pc' \in Asking \ {"reverse"} => reversed' = call'.reversed
      /\ pc' \notin {"nodeps", "run"}
  BY DEF ScopeInv, Asking
<1> QED BY <1>1, <1>3, <1>4, <1>5 DEF ScopeInv

\* fromdict
LEMMA ScopeRead ==
  ASSUME ManagerInv, LoadInv, LoadInv', TargetsInv, ScopeInv, Loaded
  PROVE  ScopeInv'
<1>1. /\ pc = "loading" /\ LoadStep /\ pc' = IF loading' = <<>> THEN "apply" ELSE "loading"
      /\ UNCHANGED <<call, locked, reversed, runs>>
  BY DEF Loaded, managerVars
<1>2. runs = <<>> /\ DOMAIN runs = {} /\ reversed = FALSE /\ call \in Calls
  BY <1>1 DEF TargetsInv, LoadInv, Before
<1>3. EachScoped(runs)'
  BY <1>1, <1>2 DEF EachScoped
<1>4. loading \in Seq(FrameSet) /\ declared \in DeclaredSet /\ DeclaredInside(declared)
  BY DEF ManagerInv, ScopeInv
<1>5. DeclaredInside(declared')
  <2>1. ASSUME NEW s \in Svc, NEW type \in Strength, NEW name, Link(s, type, name)
        PROVE  DeclaredInside(declared')
    <3>1. /\ loading # <<>> /\ <<s, <<type, name>>>> \in Top.links
          /\ declared' = declared \/ \E t \in Svc \cup {None} : declared' = [declared EXCEPT ![s] =
                    [u \in DOMAIN declared[s] \cup {t} |-> IF u = t THEN type ELSE declared[s][u]]]
      BY <2>1 DEF Link, Loading
    <3>2. Top \in FrameSet
      BY <3>1, <1>4 DEF Top
    <3>3. s \in Sub[Top.group] /\ Top.group \in Group
      BY <3>1, <3>2 DEF FrameSet
    <3>4. \A x \in Svc \ {s} : declared'[x] = declared[x]
      <4>1. CASE declared' = declared
        BY <4>1
      <4>2. ASSUME NEW d, declared' = [declared EXCEPT ![s] = d]
            PROVE  \A x \in Svc \ {s} : declared'[x] = declared[x]
        BY <4>2, <1>4 DEF DeclaredSet
      <4> QED BY <3>1, <4>1, <4>2
    <3> QED BY <3>3, <3>4, <1>4 DEF DeclaredInside
  <2>2. ASSUME Bind \/ EndGroup \/ \E g \in Group : Descend(g)
        PROVE  DeclaredInside(declared')
    BY <2>2, <1>4 DEF Bind, EndGroup, Descend
  <2> QED BY <1>1, <2>1, <2>2 DEF LoadStep
<1>6. CASE loading' # <<>>
  <2>1. pc' = "loading"
    BY <1>1, <1>6
  <2> QED BY <2>1, <1>1, <1>2, <1>3, <1>5 DEF ScopeInv, IsLoaded, Asking
<1>7. CASE loading' = <<>>
  <2>1. UNCHANGED <<graph, declared, bound>>
    <3>1. loading # <<>> => 1 \in DOMAIN loading
      BY <1>4
    <3>2. ASSUME NEW s \in Svc, NEW type \in Strength, NEW name, Link(s, type, name)
          PROVE  FALSE
      <4>1. loading' = loading \/ DOMAIN loading' = DOMAIN loading
        BY <3>2 DEF Link
      <4> QED BY <3>1, <3>2, <4>1, <1>7 DEF Link, Loading
    <3>3. ASSUME Bind
          PROVE  FALSE
      <4>1. DOMAIN loading' = DOMAIN loading
        BY <3>3 DEF Bind
      <4> QED BY <3>1, <3>3, <4>1, <1>7 DEF Bind, Loading
    <3>4. CASE EndGroup \/ \E g \in Group : Descend(g)
      BY <3>4 DEF EndGroup, Descend
    <3> QED BY <1>1, <3>2, <3>3, <3>4 DEF LoadStep
  <2>2. pc' = "apply" /\ runs' = <<>> /\ Done(bound) = Group
    <3>1. pc' = "apply" /\ runs' = <<>>
      BY <1>1, <1>2, <1>7
    <3>2. Done(bound') = Group
      BY <3>1 DEF LoadInv, After
    <3> QED BY <3>1, <3>2, <2>1
  <2>3. (Unnamed /\ IsLoaded /\ NoneCut /\ ~(pc = "run" /\ call.nodeps) =>
           Kept(graph, reversed, Named))'
    <3> SUFFICES ASSUME Unnamed'
                 PROVE  Kept(graph, reversed, Named)'
      OBVIOUS
    <3>1. Unnamed
      BY <2>1, ScopeCarried
    <3>2. /\ GraphOK(graph, declared) /\ GatesApart
          /\ AsStated(graph, declared, bound, FALSE)
      BY <3>1, <1>1, <1>2 DEF Unnamed, GatesUnnamed, ManagerInv, LoadInv, Before
    <3>3. \A named : Kept(graph, FALSE, named)
      BY <3>2, <2>2, ParentsLoaded, ChildrenLoaded DEF Kept, Sides
    <3>4. Kept(graph', reversed', Named')
      BY <3>3, <2>1, <1>1, <1>2
    <3> QED BY <3>4, <2>1, ScopeCarried
  <2> QED BY <2>2, <2>3, <1>1, <1>2, <1>3, <1>5 DEF ScopeInv, Asking
<1> QED BY <1>6, <1>7

\* Where no earlier call left cuts, nothing was cut, nor selected on this side.
LEMMA SparedIs ==
  ASSUME ScopeInv, call \in Calls, reversed = call.reversed,
         \A j \in DOMAIN runs : Spares(runs[j].call, call)
  PROVE  /\ NoneCut
         /\ call.services = {} => Side \notin NamedBefore
<1>1. NoneCut
  BY DEF NoneCut, Spares
<1>2. ASSUME call.services = {}, NEW j \in DOMAIN runs, Side \in NamedBy(runs[j].call)
      PROVE  FALSE
  <2>1. runs[j].call \in Calls
    BY DEF ScopeInv
  <2>2. runs[j].call.reversed \in BOOLEAN /\ call.reversed \in BOOLEAN
    BY <2>1, CallAssumption DEF CallOK
  <2>3. runs[j].call.services # {} /\ SideOf(runs[j].call) = Side
    BY <1>2 DEF NamedBy
  <2>4. runs[j].call.reversed # call.reversed
    BY <1>2, <2>3 DEF Spares
  <2> QED BY <2>2, <2>3, <2>4 DEF SideOf, Side
<1> QED BY <1>1, <1>2 DEF NamedBefore

\* The services of a call are selected.
LEMMA ScopeSelected ==
  ASSUME ManagerInv, ScopeInv, SelectServices
  PROVE  ScopeInv'
<1>1. /\ pc = "select" /\ pc' = "nodeps" /\ failure = None
      /\ UNCHANGED <<declared, bound, reversed, call, runs, locked>>
  BY DEF SelectServices, At
<1>2. \/ /\ graph' = IF call.services = {} THEN graph ELSE Select(graph, call.services)
         /\ failure' = failure
      \/ failure' # None /\ graph' = graph
  BY NoneAssumption DEF SelectServices
<1>3. call \in Calls /\ reversed = call.reversed /\ locked = Excluded(call) /\ reversed \in BOOLEAN
  BY <1>1 DEF ScopeInv, Asking
<1>4. (Unnamed => EachScoped(runs))' /\ DeclaredInside(declared)' /\ (locked = Excluded(call))'
  BY <1>1, <1>3, ScopeCarried DEF ScopeInv, Excluded
<1>5. Named = NamedBefore /\ Named' = NamedBefore \cup NamedBy(call)
  BY <1>1 DEF Named, NamedBefore
<1>6. Side = SideOf(call) /\ Side \in Sides /\ Spot = Gate(MAIN, Side)
  BY <1>3, SpotIs DEF Side, SideOf
<1>7. ASSUME Unnamed
      PROVE  GraphOK(graph, declared) /\ GatesApart
  BY <1>7 DEF Unnamed, GatesUnnamed, ManagerInv
<1>8. ASSUME Unnamed, NoneCut
      PROVE  Kept(graph, reversed, NamedBefore)
  BY <1>1, <1>5, <1>8 DEF ScopeInv, IsLoaded
<1> DEFINE g2 == graph'
<1>9. ASSUME Unnamed, NoneCut
      PROVE  Kept(g2, reversed, NamedBefore \cup NamedBy(call))
  <2>1. CASE g2 = graph
    BY <2>1, <1>8, <1>9 DEF Kept
  <2>2. CASE g2 = Select(graph, call.services) /\ call.services # {}
    <3> HIDE DEF g2
    <3>1. NamedBy(call) = {Side}
      BY <2>2, <1>6 DEF NamedBy
    <3>2. ASSUME NEW side \in Sides, side = "children" => NoCollision
          PROVE  /\ AsLoaded(g2, declared, bound, reversed, side)
                 /\ side \notin NamedBefore \cup NamedBy(call) => Unselected(g2, declared, bound, side)
      <4>1. /\ AsLoaded(graph, declared, bound, reversed, side)
            /\ side \notin NamedBefore => Unselected(graph, declared, bound, side)
        BY <3>2, <1>8, <1>9 DEF Kept
      <4>2. /\ AsLoaded(g2, declared, bound, reversed, side)
            /\ side # Side /\ Unselected(graph, declared, bound, side)
                 => Unselected(g2, declared, bound, side)
        BY <4>1, <2>2, <1>7, <1>9, SelectLoaded
      <4> QED BY <3>1, <4>1, <4>2
    <3> QED BY <3>2 DEF Kept
  <2> QED BY <1>2, <2>1, <2>2
<1>10. (Unnamed /\ IsLoaded /\ NoneCut /\ ~(pc = "run" /\ call.nodeps) =>
          Kept(graph, reversed, Named))'
  <2> SUFFICES ASSUME Unnamed', NoneCut'
               PROVE  Kept(graph, reversed, Named)'
    OBVIOUS
  <2>1. Unnamed /\ NoneCut
    BY <1>1, ScopeCarried DEF NoneCut
  <2>2. Kept(graph', reversed', Named')
    BY <2>1, <1>1, <1>5, <1>9
  <2> QED BY <2>2, <1>1, ScopeCarried
<1>11. ASSUME Unnamed, reversed => NoCollision, failure' = None,
              \A j \in DOMAIN runs : Spares(runs[j].call, call)
       PROVE  Targets(g2[Side][Spot]) = Entries(call)
  <2>1. g2 = IF call.services = {} THEN graph ELSE Select(graph, call.services)
    BY <1>2, <1>11
  <2>2. NoneCut /\ (call.services = {} => Side \notin NamedBefore)
    BY <1>3, <1>11, SparedIs DEF NamedBefore
  <2>3. CASE call.services = {}
    <3>1. Unselected(graph, declared, bound, Side)
      BY <2>2, <2>3, <1>6, <1>8, <1>11 DEF Kept, Side
    <3>2. Targets(graph[Side][Spot]) = EndsOf(declared, bound, Side, MAIN)
      BY <3>1, <1>6 DEF Unselected
    <3>3. EndsOf(declared, bound, Side, MAIN) = Entries(call)
      BY <2>3, <1>3 DEF EndsOf, Entries, Ends, Side
    <3> QED BY <2>1, <2>3, <3>2, <3>3
  <2>4. CASE call.services # {}
    <3>1. SelectedTargets(g2, graph, call.services)
      BY <2>1, <2>4, <1>7, <1>11, SelectedTargetsAre
    <3> QED BY <3>1, <2>4 DEF SelectedTargets, Entries
  <2> QED BY <2>3, <2>4
<1>12. (/\ Unnamed /\ (reversed => NoCollision) /\ failure = None
        /\ \A j \in DOMAIN runs : Spares(runs[j].call, call)
        => /\ pc \in {"nodeps", "run"} => Targets(graph[Side][Spot]) = Entries(call)
           /\ pc = "run" => Ready(graph, call))'
  <2> SUFFICES ASSUME Unnamed', (reversed => NoCollision)', failure' = None,
                      (\A j \in DOMAIN runs : Spares(runs[j].call, call))'
               PROVE  (Targets(graph[Side][Spot]) = Entries(call))'
    BY <1>1
  <2>1. Unnamed /\ (reversed => NoCollision)
    BY <1>1, ScopeCarried
  <2>2. \A j \in DOMAIN runs : Spares(runs[j].call, call)
    BY <1>1
  <2>3. Targets(g2[Side][Spot]) = Entries(call)
    BY <2>1, <2>2, <1>11
  <2>4. Side' = Side /\ Spot' = Spot /\ Entries(call)' = Entries(call)
    BY <1>1, ScopeCarried
  <2> QED BY <2>3, <2>4
<1>13. /\ (reversed \in BOOLEAN)' /\ (pc # "idle" => call \in Calls)'
       /\ (\A j \in DOMAIN runs : runs[j].call \in Calls)' /\ (reversed = call.reversed)'
  BY <1>1, <1>3 DEF ScopeInv
<1> QED BY <1>4, <1>10, <1>12, <1>13 DEF ScopeInv

\* --nodeps
LEMMA ScopeCut ==
  ASSUME ManagerInv, ScopeInv, DisableDeps
  PROVE  ScopeInv'
<1> DEFINE entries == Targets(graph[Side][Spot])
<1>1. /\ pc = "nodeps" /\ pc' = "run" /\ failure = None
      /\ UNCHANGED <<declared, bound, reversed, call, runs, locked>>
  BY DEF DisableDeps, At
<1>2. \/ /\ graph' = IF call.nodeps THEN RemoveDeps(graph, entries, Names, Side) ELSE graph
         /\ failure' = failure
      \/ failure' # None /\ call.nodeps
  BY NoneAssumption DEF DisableDeps, Names
<1>3. call \in Calls /\ reversed = call.reversed /\ locked = Excluded(call) /\ reversed \in BOOLEAN
  BY <1>1 DEF ScopeInv, Asking
<1>4. (Unnamed => EachScoped(runs))' /\ DeclaredInside(declared)' /\ (locked = Excluded(call))'
  BY <1>1, <1>3, ScopeCarried DEF ScopeInv, Excluded
<1>5. Named' = Named
  BY <1>1 DEF Named, NamedBefore
<1>6. ASSUME Unnamed, NoneCut
      PROVE  Kept(graph, reversed, Named)
  BY <1>1, <1>6 DEF ScopeInv, IsLoaded
<1>7. (Unnamed /\ IsLoaded /\ NoneCut /\ ~(pc = "run" /\ call.nodeps) =>
          Kept(graph, reversed, Named))'
  <2> SUFFICES ASSUME Unnamed', NoneCut', ~call'.nodeps
               PROVE  Kept(graph, reversed, Named)'
    BY <1>1
  <2>1. Unnamed /\ NoneCut /\ graph' = graph
    BY <1>1, <1>2, ScopeCarried DEF NoneCut
  <2>2. Kept(graph', reversed', Named')
    BY <2>1, <1>1, <1>5, <1>6
  <2> QED BY <2>2, <1>1, ScopeCarried
<1> DEFINE g2 == graph'
<1>8. ASSUME Unnamed, reversed => NoCollision, failure' = None,
             \A j \in DOMAIN runs : Spares(runs[j].call, call)
      PROVE  Ready(g2, call)
  <2>1. NoneCut /\ GraphOK(graph, declared) /\ Side \in Sides
    BY <1>3, <1>8, SparedIs, SpotIs DEF Unnamed, ManagerInv
  <2>2. AsLoaded(graph, declared, bound, reversed, Side)
    BY <2>1, <1>6, <1>8 DEF Kept, Side
  <2>3. entries = Entries(call)
    BY <1>1, <1>8 DEF ScopeInv
  <2>4. g2 = IF call.nodeps THEN RemoveDeps(graph, Entries(call), Names, Side) ELSE graph
    BY <2>3, <1>2, <1>8
  <2> DEFINE c == call
  <2> HIDE DEF g2, c
  <2>5. Ready(g2, c)
    BY <2>1, <2>2, <2>3, <2>4, <1>3, ReadyIs DEF c
  <2> QED BY <2>5 DEF c
<1>9. (/\ Unnamed /\ (reversed => NoCollision) /\ failure = None
       /\ \A j \in DOMAIN runs : Spares(runs[j].call, call)
       => /\ pc \in {"nodeps", "run"} => Targets(graph[Side][Spot]) = Entries(call)
          /\ pc = "run" => Ready(graph, call))'
  <2> SUFFICES ASSUME Unnamed', (reversed => NoCollision)', failure' = None,
                      (\A j \in DOMAIN runs : Spares(runs[j].call, call))'
               PROVE  Ready(graph, call)'
    BY DEF Ready
  <2>1. Unnamed /\ (reversed => NoCollision)
    BY <1>1, ScopeCarried
  <2>2. \A j \in DOMAIN runs : Spares(runs[j].call, call)
    BY <1>1
  <2>3. Ready(graph', call')
    BY <2>1, <2>2, <1>1, <1>8
  <2> QED BY <2>3, <1>1, ScopeCarried
<1>10. /\ (reversed \in BOOLEAN)' /\ (pc # "idle" => call \in Calls)'
       /\ (\A j \in DOMAIN runs : runs[j].call \in Calls)' /\ (reversed = call.reversed)'
  BY <1>1, <1>3 DEF ScopeInv
<1> QED BY <1>4, <1>7, <1>9, <1>10 DEF ScopeInv

\* The call runs.
LEMMA ScopeRun ==
  ASSUME ManagerInv, DefineInv, ScopeInv, Run
  PROVE  ScopeInv'
<1>1. PICK r :
        /\ pc = "run" /\ pc' = "idle" /\ failure = None /\ runs' = Append(runs, r)
        /\ r.call = call /\ r.reached = Reach(graph, {MAIN}) \cap (Plain \cup Group)
        /\ UNCHANGED <<graph, declared, bound, reversed, call, locked>>
  BY DEF Run, At
<1>2. r.call = call /\ r.reached = Reach(graph, {MAIN}) \cap Own
  BY <1>1 DEF Own
<1>3. PICK S : runs \in Seq(S)
  BY DEF DefineInv
<1>4. /\ Len(runs) \in Nat /\ DOMAIN runs = 1..Len(runs) /\ runs' # <<>>
      /\ DOMAIN runs' = 1..(Len(runs) + 1) /\ runs'[Len(runs) + 1] = r
      /\ \A i \in DOMAIN runs : runs'[i] = runs[i]
  <2>1. runs \in Seq(S \cup {r}) /\ r \in S \cup {r}
    BY <1>3
  <2> QED BY <1>1, <2>1
<1>5. DOMAIN runs' = DOMAIN runs \cup {Len(runs) + 1}
  BY <1>4
<1>6. call \in Calls /\ reversed = call.reversed /\ locked = Excluded(call) /\ reversed \in BOOLEAN
  BY <1>1 DEF ScopeInv, Asking
<1>7. ASSUME Unnamed
      PROVE  EachScoped(runs')
  <2> SUFFICES ASSUME NEW i \in DOMAIN runs',
                      \A j \in 1..i-1 : Spares(runs'[j].call, runs'[i].call),
                      runs'[i].call.reversed => NoCollision
               PROVE  runs'[i].reached \ {MAIN}
                        = Scope(runs'[i].call, Entries(runs'[i].call) \ Excluded(runs'[i].call))
    BY DEF EachScoped
  <2>1. \A j \in 1..i-1 : j \in DOMAIN runs /\ runs'[j] = runs[j]
    BY <1>4
  <2>2. CASE i \in DOMAIN runs
    <3>1. \A j \in 1..i-1 : Spares(runs[j].call, runs[i].call)
      BY <2>1, <2>2, <1>4
    <3> QED BY <3>1, <2>2, <1>4, <1>7 DEF ScopeInv, EachScoped
  <2>3. CASE i \notin DOMAIN runs
    <3>1. i = Len(runs) + 1 /\ 1..i-1 = DOMAIN runs /\ runs'[i] = r
      BY <2>3, <1>4, <1>5
    <3>2. \A j \in DOMAIN runs : Spares(runs[j].call, call)
      BY <3>1, <2>1, <1>2
    <3>3. Ready(graph, call)
      BY <3>1, <3>2, <1>1, <1>2, <1>6, <1>7 DEF ScopeInv
    <3>4. /\ GraphOK(graph, declared) /\ declared \in DeclaredSet /\ DeclaredInside(declared)
          /\ MainUnnamed
      BY <1>7 DEF Unnamed, ManagerInv, ScopeInv
    <3> DEFINE c == call
    <3>5. Ready(graph, c) /\ locked = Excluded(c)
      BY <3>3, <1>6
    <3> HIDE DEF c
    <3>6. (Reach(graph, {MAIN}) \cap Own) \ {MAIN} = Scope(c, Entries(c) \ Excluded(c))
      BY <3>4, <3>5, ReachIsScope
    <3> QED BY <3>1, <3>6, <1>2 DEF c
  <2> QED BY <2>2, <2>3
<1>8. (Unnamed => EachScoped(runs))' /\ DeclaredInside(declared)'
  BY <1>1, <1>7, ScopeCarried DEF ScopeInv
<1>9. Named' = Named
  <2>1. Named = NamedBefore \cup NamedBy(call)
    BY <1>1 DEF Named
  <2>2. Named' = NamedBefore'
    BY <1>1 DEF Named
  <2>3. NamedBefore' = UNION {NamedBy(runs'[j].call) : j \in DOMAIN runs'}
    BY DEF NamedBefore, NamedBy, SideOf
  <2>4. (UNION {NamedBy(runs'[j].call) : j \in DOMAIN runs'})
          = (UNION {NamedBy(runs[j].call) : j \in DOMAIN runs}) \cup NamedBy(call)
    BY <1>2, <1>4, <1>5
  <2> QED BY <2>1, <2>2, <2>3, <2>4 DEF NamedBefore
<1>10. (Unnamed /\ IsLoaded /\ NoneCut /\ ~(pc = "run" /\ call.nodeps) =>
          Kept(graph, reversed, Named))'
  <2> SUFFICES ASSUME Unnamed', NoneCut'
               PROVE  Kept(graph, reversed, Named)'
    OBVIOUS
  <2>1. Unnamed
    BY <1>1, ScopeCarried
  <2>2. NoneCut /\ ~call.nodeps
    BY <1>2, <1>4, <1>5 DEF NoneCut
  <2>3. Kept(graph', reversed', Named')
    BY <2>1, <2>2, <1>1, <1>9 DEF ScopeInv, IsLoaded
  <2> QED BY <2>3, <1>1, ScopeCarried
<1>11. (\A j \in DOMAIN runs : runs[j].call \in Calls)'
  BY <1>2, <1>4, <1>5, <1>6 DEF ScopeInv
<1> QED BY <1>1, <1>6, <1>8, <1>10, <1>11 DEF ScopeInv, Asking

LEMMA ScopeNext ==
  ASSUME ManagerInv, DefineInv, LoadInv, LoadInv', TargetsInv, ScopeInv, [Next]_vars
  PROVE  ScopeInv'
<1>1. ASSUME NEW c \in Calls, Reset(c)
      PROVE  ScopeInv'
  <2>1. /\ pc = "idle" /\ pc' = (IF runs = <<>> THEN "load" ELSE "apply") /\ call' = c
        /\ reversed' = FALSE /\ graph' = AlgoReversed(graph, reversed, FALSE)
        /\ UNCHANGED <<declared, bound, runs>>
    BY <1>1 DEF Reset, At
  <2> QED BY <2>1, ScopeTurned
<1>2. CASE Load
  <2>1. /\ pc = "load" /\ pc' = "loading"
        /\ UNCHANGED <<graph, declared, bound, reversed, call, runs>>
    BY <1>2 DEF Load, At, StartLoading, managerVars
  <2>2. (Unnamed => EachScoped(runs))' /\ DeclaredInside(declared)'
    BY <2>1, ScopeCarried DEF ScopeInv
  <2> QED BY <2>1, <2>2 DEF ScopeInv, IsLoaded, Asking
<1>3. CASE Loaded
  BY <1>3, ScopeRead
<1>4. CASE ApplyConfig
  <2>1. /\ pc = "apply" /\ pc' = "reverse" /\ locked' = Excluded(call)
        /\ UNCHANGED <<graph, declared, bound, reversed, call, runs>>
    BY <1>4 DEF ApplyConfig, At
  <2> QED BY <2>1, ScopeSame
<1>5. CASE SetReversed
  <2>1. /\ pc = "reverse" /\ pc' = "variables" /\ reversed' = call.reversed
        /\ graph' = AlgoReversed(graph, reversed, call.reversed)
        /\ UNCHANGED <<declared, bound, call, locked, runs>>
    BY <1>5 DEF SetReversed, At
  <2>2. call \in Calls /\ call.reversed \in BOOLEAN
    BY <2>1, CallAssumption DEF ScopeInv, CallOK
  <2> QED BY <2>1, <2>2, ScopeTurned
<1>6. CASE VariableConfig
  <2>1. /\ pc = "variables" /\ pc' = "resolve"
        /\ UNCHANGED <<graph, declared, bound, reversed, call, locked, runs>>
    BY <1>6 DEF VariableConfig, At
  <2> QED BY <2>1, ScopeSame DEF ScopeInv, Asking
<1>7. CASE ResolveAll
  <2>1. /\ pc = "resolve" /\ pc' = "select"
        /\ UNCHANGED <<graph, declared, bound, reversed, call, locked, runs>>
    BY <1>7 DEF ResolveAll, At
  <2> QED BY <2>1, ScopeSame DEF ScopeInv, Asking
<1>8. CASE SelectServices
  BY <1>8, ScopeSelected
<1>9. CASE DisableDeps
  BY <1>9, ScopeCut
<1>10. CASE Run
  BY <1>10, ScopeRun
<1>11. CASE UNCHANGED vars
  <2>1. UNCHANGED <<pc, graph, declared, bound, reversed, call, locked, runs, failure>>
    BY <1>11 DEF vars, loaderVars
  <2>2. Named' = Named
    BY <2>1 DEF Named, NamedBefore
  <2> QED BY <2>1, <2>2, ScopeCarried DEF ScopeInv, IsLoaded, NoneCut, Excluded
<1> QED BY <1>1, <1>2, <1>3, <1>4, <1>5, <1>6, <1>7, <1>8, <1>9, <1>10, <1>11
        DEF Next, Step, Stopped

\* In every call of any sequence of calls, for all trees of groups and all files in
\* which nobody depends on a gate or on the root: a call that meets no cut of an
\* earlier one runs the services it names, what they depend on in its direction
\* and the inside of groups, and no other.
THEOREM ScopeExactHolds == Spec => [](GatesUnnamed /\ MainUnnamed => ScopeExact)
<1> DEFINE IInv == ManagerInv /\ DefineInv /\ LoadInv /\ TargetsInv /\ ScopeInv
<1>1. Init => IInv
  BY ManagerInit, DefineInit, LoadInit, TargetsInit, ScopeInit
<1>2. IInv /\ [Next]_vars => IInv'
  <2> SUFFICES ASSUME IInv, [Next]_vars PROVE IInv'
    OBVIOUS
  <2>1. ManagerInv' /\ DefineInv' /\ LoadInv' /\ TargetsInv'
    BY ManagerNext, DefineNext, LoadNext, TargetsNext
  <2>2. ScopeInv'
    BY <2>1, ScopeNext
  <2> QED BY <2>1, <2>2
<1>3. IInv => (GatesUnnamed /\ MainUnnamed => ScopeExact)
  BY ScopeIsExact DEF ScopeInv, Unnamed
<1> QED BY <1>1, <1>2, <1>3, PTL DEF Spec
===============================================================================
