------------------------- MODULE PipelineLoadProofs -------------------------
(***************************************************************************)
(* Proofs about PipelineLoad, for pipelines of any length and shape: the   *)
(* edges that the load adds, the invariant of the depth-first search, and  *)
(* that the search accepts exactly the graphs that can be run.             *)
(***************************************************************************)
EXTENDS PipelineLoad, FiniteSetTheorems, SequenceTheorems, WellFoundedInduction, TLAPS

\* A set of natural numbers has a least member.
LEMMA LeastMember ==
  ASSUME NEW T, T \subseteq Nat, T # {}
  PROVE  Min(T) \in T /\ \A y \in T : Min(T) <= y
  <1> DEFINE Less == OpToRel(<, Nat)
  <1>0. IsWellFoundedOn(Less, Nat)
    BY NatLessThanWellFounded, Zenon
  <1>1. \E x \in T : \A y \in T : ~(<<y, x>> \in Less)
    <2> HIDE DEF Less
    <2> QED BY <1>0, WFMin, Zenon
  <1>2. PICK x \in T : \A y \in T : ~(<<y, x>> \in Less)
    BY <1>1, Zenon
  <1>3. \A y \in T : ~(y < x)
    BY <1>2, Zenon DEF OpToRel
  <1>4. \A y \in T : x <= y
    BY <1>3
  <1> QED BY <1>4, Zenon DEF Min

\* Appending adds one member.
LEMMA AppendedSet ==
  ASSUME NEW S, NEW q \in Seq(S), NEW x \in S
  PROVE  /\ Append(q, x) \in Seq(S)
         /\ ToSet(Append(q, x)) = ToSet(q) \cup {x}
  <1>1. Append(q, x) \in Seq(S) /\ Len(Append(q, x)) = Len(q) + 1
    OBVIOUS
  <1>2. DOMAIN q = 1..Len(q) /\ DOMAIN Append(q, x) = 1..(Len(q) + 1) /\ Len(q) \in Nat
    OBVIOUS
  <1>3. \A i \in 1..Len(q) : Append(q, x)[i] = q[i]
    OBVIOUS
  <1>4. Append(q, x)[Len(q) + 1] = x
    OBVIOUS
  <1>5. ASSUME NEW y \in ToSet(Append(q, x)) PROVE y \in ToSet(q) \cup {x}
    <2>1. PICK i \in 1..(Len(q) + 1) : y = Append(q, x)[i]
      BY <1>2, <1>5, Zenon DEF ToSet
    <2>2. i \in 1..Len(q) \/ i = Len(q) + 1
      BY <1>2
    <2> QED BY <1>2, <1>3, <1>4, <2>1, <2>2, Zenon DEF ToSet
  <1>6. ASSUME NEW y \in ToSet(q) \cup {x} PROVE y \in ToSet(Append(q, x))
    <2>1. CASE y \in ToSet(q)
      <3>1. PICK i \in 1..Len(q) : y = q[i]
        BY <1>2, <2>1, Zenon DEF ToSet
      <3>2. i \in 1..(Len(q) + 1)
        BY <1>2
      <3> QED BY <1>2, <1>3, <3>1, <3>2, Zenon DEF ToSet
    <2>2. CASE y = x
      <3>1. Len(q) + 1 \in 1..(Len(q) + 1)
        BY <1>2
      <3> QED BY <1>2, <1>4, <2>2, <3>1, Zenon DEF ToSet
    <2> QED BY <1>6, <2>1, <2>2, Zenon
  <1> QED BY <1>1, <1>5, <1>6, Zenon

\* Adjacency lists over a set of steps.
Lists(D) == [D -> Seq(D)]

LEMMA AddedEdge ==
  ASSUME NEW D, NEW d \in Lists(D), NEW from \in D, NEW to \in D
  PROVE  /\ Add(d, from, to) \in Lists(D)
         /\ \A t \in D : \A s : s \in ToSet(Add(d, from, to)[t])
                                  <=> s \in ToSet(d[t]) \/ (s = from /\ t = to)
  <1>1. CASE from \in ToSet(d[to])
    <2>1. Add(d, from, to) = d
      BY <1>1, Zenon DEF Add
    <2> QED BY <1>1, <2>1
  <1>2. CASE from \notin ToSet(d[to])
    <2>1. Append(d[to], from) \in Seq(D) /\ ToSet(Append(d[to], from)) = ToSet(d[to]) \cup {from}
      <3>1. d[to] \in Seq(D)
        BY DEF Lists
      <3> QED BY <3>1, AppendedSet
    <2>2. Add(d, from, to) = [d EXCEPT ![to] = Append(d[to], from)]
      BY <1>2, Zenon DEF Add
    <2>3. Add(d, from, to) \in Lists(D)
      BY <2>1, <2>2 DEF Lists
    <2>4. \A t \in D : Add(d, from, to)[t] = IF t = to THEN Append(d[to], from) ELSE d[t]
      BY <2>2 DEF Lists
    <2>5. ASSUME NEW t \in D, NEW s
          PROVE  s \in ToSet(Add(d, from, to)[t]) <=> s \in ToSet(d[t]) \/ (s = from /\ t = to)
      <3>1. CASE t = to
        BY <2>1, <2>4, <3>1
      <3>2. CASE t # to
        BY <2>4, <3>2, Zenon
      <3> QED BY <3>1, <3>2, Zenon
    <2> QED BY <2>3, <2>5, Zenon
  <1> QED BY <1>1, <1>2, Zenon

\* Every link that is not bad adds the edge it stands for.
LEMMA AddedLink ==
  ASSUME NEW q, NEW x, x.id \in Ids(q), NEW l, ~BadLink(q, x, l),
         l.kind \in LinkKinds,
         NEW d \in Lists(Ids(q))
  PROVE  /\ AddLink(d, x, l) \in Lists(Ids(q))
         /\ \A t \in Ids(q) : \A s : s \in ToSet(AddLink(d, x, l)[t])
                                       <=> s \in ToSet(d[t]) \/ Because(x, l, t, s)
  <1>0. l.kind \in {"ref", "need", "goto"}
    BY DEF BadLink, LinkKinds
  <1>1. l.name \in Ids(q)
    BY DEF BadLink
  <1>2. CASE l.kind = "goto"
    <2>1. AddLink(d, x, l) = Add(d, x.id, l.name)
      BY <1>2, Zenon DEF AddLink
    <2>2. \A t, s : Because(x, l, t, s) <=> s = x.id /\ t = l.name
      BY <1>2, Zenon DEF Because
    <2>3. /\ Add(d, x.id, l.name) \in Lists(Ids(q))
          /\ \A t \in Ids(q) : \A s : s \in ToSet(Add(d, x.id, l.name)[t])
                                        <=> s \in ToSet(d[t]) \/ (s = x.id /\ t = l.name)
      BY <1>1, AddedEdge, Zenon
    <2> QED BY <2>1, <2>2, <2>3, Zenon
  <1>3. CASE l.kind # "goto"
    <2>1. AddLink(d, x, l) = Add(d, l.name, x.id)
      BY <1>3, Zenon DEF AddLink
    <2>2. \A t, s : Because(x, l, t, s) <=> s = l.name /\ t = x.id
      BY <1>0, <1>3, Zenon DEF Because
    <2>3. /\ Add(d, l.name, x.id) \in Lists(Ids(q))
          /\ \A t \in Ids(q) : \A s : s \in ToSet(Add(d, l.name, x.id)[t])
                                        <=> s \in ToSet(d[t]) \/ (s = l.name /\ t = x.id)
      BY <1>1, AddedEdge, Zenon
    <2> QED BY <2>1, <2>2, <2>3, Zenon
  <1> QED BY <1>2, <1>3, Zenon

LEMMA IdsFinite ==
  ASSUME NEW q, Len(q) \in Nat
  PROVE  IsFiniteSet(Ids(q)) /\ Cardinality(Ids(q)) \in Nat /\ Cardinality(Ids(q)) <= Len(q)
  <1> DEFINE f == [k \in 1..Len(q) |-> q[k].id]
  <1>1. f \in Surjection(1..Len(q), Ids(q))
    BY Zenon DEF Surjection, Ids
  <1>2. ExistsSurjection(1..Len(q), Ids(q))
    <2> HIDE DEF f
    <2> QED BY <1>1, Zenon DEF ExistsSurjection
  <1>3. IsFiniteSet(Ids(q)) /\ Cardinality(Ids(q)) <= Len(q)
    BY <1>2, FS_NatSurjection, FS_SurjCardinalityBound, Zenon
  <1> QED BY <1>3, FS_CardinalityType, Zenon
-----------------------------------------------------------------------------
(***************************************************************************)
(* The search, on lists d over the steps D, with colors c and calls v.     *)
(***************************************************************************)
Colors == {"white", "gray", "black"}
Frames(D) == [id : D, next : Nat \ {0}]
Typed(D, d, c, v) == d \in Lists(D) /\ c \in [D -> Colors] /\ v \in Seq(Frames(D))

\* The step of call m, and the dependency it looks at next.
At(v, m) == v[m].id
Round(v, m) == v[m].next

\* The gray steps are those on the path, each there once.
GrayPath(D, c, v) ==
    /\ \A m \in 1..Len(v) : c[At(v, m)] = "gray"
    /\ \A t \in D : c[t] = "gray" => \E m \in 1..Len(v) : At(v, m) = t
    /\ \A m, n \in 1..Len(v) : At(v, m) = At(v, n) => m = n

\* Each call was made for a dependency of the call before it.
Chained(d, v) ==
    \A m \in 1..Len(v) :
        /\ Round(v, m) <= Len(d[At(v, m)]) + 1
        /\ m < Len(v) => Round(v, m) > 1 /\ d[At(v, m)][Round(v, m) - 1] = At(v, m + 1)

\* What a call has looked at is black, but for the dependency it is at.
LookedAt(d, c, v) ==
    \A m \in 1..Len(v) : \A j \in 1..(Round(v, m) - 1) :
        c[d[At(v, m)][j]] = "black" \/ (m < Len(v) /\ j = Round(v, m) - 1)

\* The black steps are sorted.
Black(D, c) == {t \in D : c[t] = "black"}
Sorted(d, B) ==
    \E rank \in [B -> 1..Cardinality(B)] :
        \A t \in B : \A s \in ToSet(d[t]) : s \in B /\ rank[s] < rank[t]

Searched(D, d, c, v) ==
    GrayPath(D, c, v) /\ Chained(d, v) /\ LookedAt(d, c, v) /\ Sorted(d, Black(D, c))

\* What the types say of a call of visit.
LEMMA FrameTypes ==
  ASSUME NEW D, NEW v \in Seq(Frames(D))
  PROVE  /\ Len(v) \in Nat
         /\ \A m \in 1..Len(v) : At(v, m) \in D /\ Round(v, m) \in Nat /\ Round(v, m) > 0
  <1>1. Len(v) \in Nat /\ \A m \in 1..Len(v) : v[m] \in Frames(D)
    <2> HIDE DEF Frames
    <2> QED OBVIOUS
  <1>2. \A f \in Frames(D) : f.id \in D /\ f.next \in Nat /\ f.next > 0
    BY DEF Frames
  <1> QED BY <1>1, <1>2, Zenon DEF At, Round

LEMMA ListTypes ==
  ASSUME NEW D, NEW d \in Lists(D), NEW t \in D
  PROVE  Len(d[t]) \in Nat /\ \A j \in 1..Len(d[t]) : d[t][j] \in D /\ d[t][j] \in ToSet(d[t])
  <1>1. d[t] \in Seq(D)
    BY DEF Lists
  <1>2. Len(d[t]) \in Nat /\ DOMAIN d[t] = 1..Len(d[t]) /\ \A j \in 1..Len(d[t]) : d[t][j] \in D
    BY <1>1
  <1> QED BY <1>2, Zenon DEF ToSet

\* w is v with the loop of the innermost call one round on.
Ahead(v, w) ==
    /\ Len(w) = Len(v)
    /\ \A m \in 1..Len(v) :
        /\ At(w, m) = At(v, m)
        /\ Round(w, m) = IF m = Len(v) THEN Round(v, m) + 1 ELSE Round(v, m)

LEMMA MovedAhead ==
  ASSUME NEW D, NEW v \in Seq(Frames(D)), v # << >>
  PROVE  /\ [v EXCEPT ![Len(v)].next = @ + 1] \in Seq(Frames(D))
         /\ Ahead(v, [v EXCEPT ![Len(v)].next = @ + 1])
  <1> DEFINE n == Len(v)
             top == [v[n] EXCEPT !.next = @ + 1]
             w == [v EXCEPT ![n] = top]
  <1>1. n \in Nat /\ n \in 1..n /\ v[n] \in Frames(D) /\ \A m \in 1..n : v[m] \in Frames(D)
    <2> HIDE DEF Frames
    <2> QED OBVIOUS
  <1>2. top \in Frames(D) /\ top.id = v[n].id /\ top.next = v[n].next + 1
    BY <1>1 DEF Frames
  <1>3. /\ w \in Seq(Frames(D)) /\ Len(w) = n
        /\ \A m \in 1..n : w[m] = IF m = n THEN top ELSE v[m]
    <2> HIDE DEF top, Frames
    <2> QED BY <1>1, <1>2
  <1>4. w = [v EXCEPT ![Len(v)].next = @ + 1]
    OBVIOUS
  <1>5. Ahead(v, w)
    <2> HIDE DEF top, w
    <2>1. ASSUME NEW m \in 1..n
          PROVE  /\ w[m].id = v[m].id
                 /\ w[m].next = IF m = n THEN v[m].next + 1 ELSE v[m].next
      BY <1>2, <1>3, <2>1, Zenon
    <2> QED BY <1>3, <2>1, Zenon DEF Ahead, At, Round
  <1> QED BY <1>3, <1>4, <1>5, Zenon

\* visit finds a black step: it goes on.
LEMMA LookBlack ==
  ASSUME NEW D, NEW d, NEW c, NEW v, Typed(D, d, c, v), Searched(D, d, c, v), v # << >>,
         NEW w \in Seq(Frames(D)), Ahead(v, w),
         Round(v, Len(v)) <= Len(d[At(v, Len(v))]),
         c[d[At(v, Len(v))][Round(v, Len(v))]] = "black"
  PROVE  Searched(D, d, c, w)
  <1> DEFINE n == Len(v)
  <1>1. /\ n \in Nat /\ n \in 1..n
        /\ \A m \in 1..n : At(v, m) \in D /\ Round(v, m) \in Nat /\ Round(v, m) > 0
    BY FrameTypes DEF Typed
  <1>2. /\ Len(w) = n
        /\ \A m \in 1..n : At(w, m) = At(v, m)
        /\ \A m \in 1..n : m # n => Round(w, m) = Round(v, m)
        /\ Round(w, n) = Round(v, n) + 1
    BY <1>1 DEF Ahead
  <1> HIDE DEF n
  <1>3. GrayPath(D, c, w)
    BY <1>2 DEF Searched, GrayPath, n
  <1>4. Chained(d, w)
    <2>1. \A m \in 1..n : Len(d[At(v, m)]) \in Nat
      BY <1>1, ListTypes, Zenon DEF Typed
    <2>2. ASSUME NEW m \in 1..n
          PROVE  /\ Round(w, m) <= Len(d[At(w, m)]) + 1
                 /\ m < n => Round(w, m) > 1 /\ d[At(w, m)][Round(w, m) - 1] = At(w, m + 1)
      <3>1. CASE m = n
        <4>1. Round(w, m) = Round(v, n) + 1 /\ At(w, m) = At(v, n) /\ ~(m < n)
          BY <1>1, <1>2, <3>1
        <4>2. Round(v, n) <= Len(d[At(v, n)])
          BY DEF n
        <4> QED BY <1>1, <2>1, <4>1, <4>2
      <3>2. CASE m # n
        <4>1. m < n /\ m + 1 \in 1..n
          BY <1>1, <3>2
        <4>2. Round(w, m) = Round(v, m) /\ At(w, m) = At(v, m) /\ At(w, m + 1) = At(v, m + 1)
          BY <1>2, <3>2, <4>1, Zenon
        <4>3. /\ Round(v, m) <= Len(d[At(v, m)]) + 1
              /\ Round(v, m) > 1 /\ d[At(v, m)][Round(v, m) - 1] = At(v, m + 1)
          BY <4>1, Zenon DEF Searched, Chained, n
        <4> QED BY <4>2, <4>3, Zenon
      <3> QED BY <3>1, <3>2, Zenon
    <2> QED BY <1>2, <2>2, Zenon DEF Chained
  <1>5. LookedAt(d, c, w)
    <2>1. \A m \in 1..n : \A j \in 1..(Round(v, m) - 1) :
            c[d[At(v, m)][j]] = "black" \/ (m < n /\ j = Round(v, m) - 1)
      BY Zenon DEF Searched, LookedAt, n
    <2>2. ASSUME NEW m \in 1..n, NEW j \in 1..(Round(w, m) - 1)
          PROVE  c[d[At(w, m)][j]] = "black" \/ (m < n /\ j = Round(w, m) - 1)
      <3>1. CASE m # n
        BY <1>2, <2>1, <2>2, <3>1, Zenon
      <3>2. CASE m = n /\ j = Round(v, n)
        BY <1>1, <1>2, <3>2, Zenon DEF n
      <3>3. CASE m = n /\ j # Round(v, n)
        <4>1. j \in 1..(Round(v, n) - 1) /\ ~(n < n)
          BY <1>1, <1>2, <3>3
        <4> QED BY <1>1, <1>2, <2>1, <3>3, <4>1, Zenon
      <3> QED BY <3>1, <3>2, <3>3, Zenon
    <2> QED BY <1>2, <2>2, Zenon DEF LookedAt
  <1> QED BY <1>3, <1>4, <1>5 DEF Searched

\* visit finds a white step: it calls itself.
LEMMA LookWhite ==
  ASSUME NEW D, NEW d, NEW c, NEW v, Typed(D, d, c, v), Searched(D, d, c, v), v # << >>,
         NEW w \in Seq(Frames(D)), Ahead(v, w),
         Round(v, Len(v)) <= Len(d[At(v, Len(v))]),
         NEW dep, dep = d[At(v, Len(v))][Round(v, Len(v))], c[dep] = "white"
  PROVE  /\ dep \in D
         /\ Append(w, Enter(dep)) \in Seq(Frames(D))
         /\ Searched(D, d, [c EXCEPT ![dep] = "gray"], Append(w, Enter(dep)))
  <1> DEFINE n == Len(v)
             u == Append(w, Enter(dep))
             e == [c EXCEPT ![dep] = "gray"]
  <1>1. /\ n \in Nat /\ n \in 1..n
        /\ \A m \in 1..n : At(v, m) \in D /\ Round(v, m) \in Nat /\ Round(v, m) > 0
    BY FrameTypes DEF Typed
  <1>2. \A t \in D : Len(d[t]) \in Nat /\ \A j \in 1..Len(d[t]) : d[t][j] \in D
    BY ListTypes, Zenon DEF Typed
  <1>3. dep \in D
    BY <1>1, <1>2
  <1>4. Enter(dep) \in Frames(D) /\ Enter(dep).id = dep /\ Enter(dep).next = 1
    BY <1>3 DEF Enter, Frames
  <1>5. /\ u \in Seq(Frames(D)) /\ Len(u) = n + 1 /\ u[n + 1] = Enter(dep)
        /\ \A m \in 1..n : u[m] = w[m]
    <2>1. Len(w) = n
      BY Zenon DEF Ahead
    <2> HIDE DEF Frames
    <2> QED BY <1>1, <1>4, <2>1
  <1>6. /\ \A m \in 1..n : At(u, m) = At(v, m)
        /\ \A m \in 1..n : m # n => Round(u, m) = Round(v, m)
        /\ Round(u, n) = Round(v, n) + 1
        /\ At(u, n + 1) = dep /\ Round(u, n + 1) = 1
    <2>1. /\ \A m \in 1..n : At(u, m) = At(w, m) /\ Round(u, m) = Round(w, m)
          /\ At(u, n + 1) = dep /\ Round(u, n + 1) = 1
      BY <1>4, <1>5, Zenon DEF At, Round
    <2> HIDE DEF u
    <2> QED BY <1>1, <2>1 DEF Ahead
  <1>7. \A t \in D : e[t] = IF t = dep THEN "gray" ELSE c[t]
    BY DEF Typed
  <1> HIDE DEF n, u, e
  <1>8. GrayPath(D, e, u)
    <2>1. /\ \A m \in 1..n : c[At(v, m)] = "gray"
          /\ \A t \in D : c[t] = "gray" => \E m \in 1..n : At(v, m) = t
          /\ \A m, k \in 1..n : At(v, m) = At(v, k) => m = k
      BY Zenon DEF Searched, GrayPath, n
    <2>2. \A m \in 1..Len(u) : m \in 1..n \/ m = n + 1
      BY <1>1, <1>5
    <2>3. ASSUME NEW m \in 1..Len(u) PROVE e[At(u, m)] = "gray"
      <3>1. CASE m \in 1..n
        <4>1. At(u, m) \in D /\ c[At(u, m)] = "gray" /\ At(u, m) # dep
          BY <1>1, <1>6, <2>1, <3>1, Zenon
        <4> QED BY <1>7, <4>1, Zenon
      <3>2. CASE m = n + 1
        BY <1>3, <1>6, <1>7, <3>2, Zenon
      <3> QED BY <2>2, <3>1, <3>2, Zenon
    <2>4. \A t \in D : e[t] = "gray" => \E m \in 1..Len(u) : At(u, m) = t
      <3>1. n + 1 \in 1..Len(u) /\ \A m \in 1..n : m \in 1..Len(u)
        BY <1>1, <1>5
      <3> QED BY <1>3, <1>6, <1>7, <2>1, <3>1
    <2>5. \A m, k \in 1..Len(u) : At(u, m) = At(u, k) => m = k
      <3>1. \A m \in 1..n : At(u, m) # At(u, n + 1)
        BY <1>6, <2>1
      <3>2. \A m, k \in 1..n : At(u, m) = At(u, k) => m = k
        BY <1>6, <2>1, Zenon
      <3> QED BY <2>2, <3>1, <3>2, Zenon
    <2> QED BY <2>3, <2>4, <2>5, Zenon DEF GrayPath
  <1>9. Chained(d, u)
    <2>1. \A m \in 1..n : Round(v, m) <= Len(d[At(v, m)]) + 1
              /\ (m < n => Round(v, m) > 1 /\ d[At(v, m)][Round(v, m) - 1] = At(v, m + 1))
      BY Zenon DEF Searched, Chained, n
    <2>2. ASSUME NEW m \in 1..n
          PROVE  /\ Round(u, m) <= Len(d[At(u, m)]) + 1
                 /\ Round(u, m) > 1 /\ d[At(u, m)][Round(u, m) - 1] = At(u, m + 1)
      <3>1. CASE m = n
        <4>1. PICK r, t : r = Round(v, n) /\ t = At(v, n)
          BY Zenon
        <4>2. r \in Nat /\ r > 0 /\ t \in D /\ Len(d[t]) \in Nat /\ r <= Len(d[t])
              /\ dep = d[t][r]
          BY <1>1, <1>2, <4>1, Zenon DEF n
        <4>3. r + 1 <= Len(d[t]) + 1 /\ r + 1 > 1 /\ (r + 1) - 1 = r
          BY <4>2
        <4>4. Round(u, m) = r + 1 /\ At(u, m) = t /\ At(u, m + 1) = dep
          BY <1>1, <1>6, <3>1, <4>1, Zenon
        <4> QED BY <4>2, <4>3, <4>4, Zenon
      <3>2. CASE m # n
        <4>1. m < n /\ m + 1 \in 1..n
          BY <1>1, <3>2
        <4> QED BY <1>6, <2>1, <3>2, <4>1, Zenon
      <3> QED BY <3>1, <3>2
    <2>3. Round(u, n + 1) <= Len(d[At(u, n + 1)]) + 1
      BY <1>2, <1>3, <1>6
    <2>4. \A m \in 1..Len(u) : m \in 1..n \/ m = n + 1
      BY <1>1, <1>5
    <2>5. ASSUME NEW m \in 1..Len(u)
          PROVE  /\ Round(u, m) <= Len(d[At(u, m)]) + 1
                 /\ m < Len(u) => Round(u, m) > 1 /\ d[At(u, m)][Round(u, m) - 1] = At(u, m + 1)
      <3>1. ~(n + 1 < Len(u))
        <4>1. PICK l : l = Len(u)
          BY Zenon
        <4>2. n \in Nat /\ l = n + 1
          BY <1>1, <1>5, <4>1, Zenon
        <4>3. ~(n + 1 < l)
          BY <4>2
        <4> QED BY <4>1, <4>3, Zenon
      <3> QED BY <2>2, <2>3, <2>4, <3>1, Zenon
    <2> QED BY <2>5, Zenon DEF Chained
  <1>10. LookedAt(d, e, u)
    <2>1. \A m \in 1..n : \A j \in 1..(Round(v, m) - 1) :
            c[d[At(v, m)][j]] = "black" \/ (m < n /\ j = Round(v, m) - 1)
      BY Zenon DEF Searched, LookedAt, n
    <2>2. \A m \in 1..n : \A j \in 1..(Round(v, m) - 1) : d[At(v, m)][j] \in D
      <3>1. \A m \in 1..n : Round(v, m) <= Len(d[At(v, m)]) + 1
        BY Zenon DEF Searched, Chained, n
      <3>2. ASSUME NEW m \in 1..n, NEW j \in 1..(Round(v, m) - 1) PROVE d[At(v, m)][j] \in D
        <4>1. PICK t \in D : t = At(v, m)
          BY <1>1, Zenon
        <4>2. PICK r, l : r = Round(v, m) /\ l = Len(d[t])
          BY Zenon
        <4>3. r \in Nat /\ l \in Nat /\ r <= l + 1 /\ j \in 1..(r - 1)
          BY <1>1, <1>2, <3>1, <4>1, <4>2, Zenon
        <4>4. j \in 1..l
          BY <4>3
        <4> QED BY <1>2, <4>1, <4>2, <4>4, Zenon
      <3> QED BY <3>2, Zenon
    <2>3. ASSUME NEW m \in 1..n, NEW j \in 1..(Round(u, m) - 1)
          PROVE  e[d[At(u, m)][j]] = "black" \/ j = Round(u, m) - 1
      <3>1. CASE j = Round(u, m) - 1
        BY <3>1
      <3>2. CASE j # Round(u, m) - 1
        <4>1. j \in 1..(Round(v, m) - 1) /\ c[d[At(v, m)][j]] = "black"
          <5>1. j \in 1..(Round(v, m) - 1) /\ (m = n => ~(m < n)) /\ (m # n => j # Round(v, m) - 1)
            BY <1>1, <1>6, <3>2
          <5> QED BY <2>1, <5>1, Zenon
        <4>2. d[At(v, m)][j] \in D /\ d[At(v, m)][j] # dep
          BY <2>2, <4>1
        <4> QED BY <1>6, <1>7, <4>1, <4>2
      <3> QED BY <3>1, <3>2
    <2>4. \A m \in 1..Len(u) : (m \in 1..n /\ m < Len(u)) \/ (m = n + 1 /\ Round(u, m) - 1 = 0)
      BY <1>1, <1>5, <1>6
    <2> QED BY <2>3, <2>4 DEF LookedAt
  <1>11. Black(D, e) = Black(D, c)
    BY <1>3, <1>7 DEF Black
  <1>12. Searched(D, d, e, u)
    BY <1>8, <1>9, <1>10, <1>11, Zenon DEF Searched
  <1> QED BY <1>3, <1>5, <1>12, Zenon DEF u, e

\* The search starts at a white step.
LEMMA EnterRoot ==
  ASSUME NEW D, NEW d, NEW c, Typed(D, d, c, << >>), Searched(D, d, c, << >>),
         NEW r \in D, c[r] = "white"
  PROVE  /\ <<Enter(r)>> \in Seq(Frames(D))
         /\ Searched(D, d, [c EXCEPT ![r] = "gray"], <<Enter(r)>>)
  <1> DEFINE u == <<Enter(r)>>
             e == [c EXCEPT ![r] = "gray"]
  <1>1. Enter(r) \in Frames(D) /\ Enter(r).id = r /\ Enter(r).next = 1
    BY DEF Enter, Frames
  <1>2. u \in Seq(Frames(D)) /\ Len(u) = 1 /\ u[1] = Enter(r)
    <2> HIDE DEF Frames
    <2> QED BY <1>1
  <1>3. \A m \in 1..Len(u) : m = 1 /\ At(u, m) = r /\ Round(u, m) = 1
    <2>1. At(u, 1) = r /\ Round(u, 1) = 1
      BY <1>1, <1>2, Zenon DEF At, Round
    <2>2. \A m \in 1..1 : m = 1
      OBVIOUS
    <2> QED BY <1>2, <2>1, <2>2, Zenon
  <1>4. 1 \in 1..Len(u)
    BY <1>2
  <1>5. \A t \in D : e[t] = IF t = r THEN "gray" ELSE c[t]
    BY DEF Typed
  <1>6. \A t \in D : c[t] # "gray"
    <2>1. \A m \in 1..Len(<< >>) : FALSE
      OBVIOUS
    <2> QED BY <2>1, Zenon DEF Searched, GrayPath
  <1> HIDE DEF u, e
  <1>7. GrayPath(D, e, u)
    <2>1. \A t \in D : e[t] = "gray" => t = r
      BY <1>5, <1>6
    <2>2. e[r] = "gray"
      BY <1>5
    <2> QED BY <1>3, <1>4, <2>1, <2>2, Zenon DEF GrayPath
  <1>8. Chained(d, u)
    <2>1. Len(d[r]) \in Nat
      BY ListTypes, Zenon DEF Typed
    <2> QED BY <1>2, <1>3, <2>1 DEF Chained
  <1>9. LookedAt(d, e, u)
    BY <1>3 DEF LookedAt
  <1>10. Black(D, e) = Black(D, c)
    BY <1>5 DEF Black
  <1>11. Searched(D, d, e, u)
    BY <1>7, <1>8, <1>9, <1>10, Zenon DEF Searched
  <1> QED BY <1>2, <1>11, Zenon DEF u, e

\* A step all of whose dependencies are sorted comes after them.
LEMMA SortedNext ==
  ASSUME NEW d, NEW B, IsFiniteSet(B), Sorted(d, B), NEW r, r \notin B, ToSet(d[r]) \subseteq B
  PROVE  Sorted(d, B \cup {r})
  <1> DEFINE N == Cardinality(B)
             C == B \cup {r}
  <1>1. N \in Nat /\ Cardinality(C) = N + 1
    BY FS_AddElement, FS_CardinalityType, Zenon
  <1>2. PICK rank \in [B -> 1..N] : \A t \in B : \A s \in ToSet(d[t]) : s \in B /\ rank[s] < rank[t]
    BY Zenon DEF Sorted
  <1> DEFINE more == [t \in C |-> IF t = r THEN N + 1 ELSE rank[t]]
  <1> HIDE DEF N
  <1>3. \A t \in B : rank[t] \in 1..N
    BY <1>2
  <1>4. more \in [C -> 1..(N + 1)]
    BY <1>1, <1>3
  <1>5. ASSUME NEW t \in C, NEW s \in ToSet(d[t]) PROVE s \in C /\ more[s] < more[t]
    <2>1. CASE t = r
      <3>1. s \in B /\ s # r
        BY <1>5, <2>1, Zenon
      <3> QED BY <1>1, <1>3, <2>1, <3>1
    <2>2. CASE t # r
      <3>1. t \in B
        BY <2>2
      <3>2. s \in B /\ s # r /\ rank[s] < rank[t]
        BY <1>2, <1>5, <3>1, Zenon
      <3> QED BY <2>2, <3>1, <3>2
    <2> QED BY <2>1, <2>2, Zenon
  <1> HIDE DEF more, C
  <1> QED BY <1>1, <1>4, <1>5, Zenon DEF Sorted, C, N

\* A stack without its last element.
LEMMA DropLast ==
  ASSUME NEW S, NEW v, NEW n \in Nat, n > 0, \A m \in 1..n : v[m] \in S
  PROVE  /\ SubSeq(v, 1, n - 1) \in Seq(S) /\ Len(SubSeq(v, 1, n - 1)) = n - 1
         /\ \A m \in 1..(n - 1) : SubSeq(v, 1, n - 1)[m] = v[m]
  <1>1. PICK k \in Nat : k = n - 1
    OBVIOUS
  <1>2. PICK one \in Int : one = 1
    OBVIOUS
  <1>3. k \in Int /\ \A m \in one..k : v[m] \in S
    BY <1>1, <1>2
  <1>4. /\ SubSeq(v, one, k) \in Seq(S)
        /\ Len(SubSeq(v, one, k)) = IF one <= k THEN k - one + 1 ELSE 0
        /\ \A m \in 1..(k - one + 1) : SubSeq(v, one, k)[m] = v[one + m - 1]
    BY <1>2, <1>3, SubSeqProperties
  <1>5. PICK u : u = SubSeq(v, one, k)
    OBVIOUS
  <1>6. u \in Seq(S) /\ Len(u) = IF one <= k THEN k - one + 1 ELSE 0
    BY <1>4, <1>5, Zenon
  <1>7. Len(u) = k
    BY <1>1, <1>2, <1>6
  <1>8. \A m \in 1..(k - one + 1) : u[m] = v[one + m - 1]
    BY <1>4, <1>5, Zenon
  <1>9. \A m \in 1..k : u[m] = v[m]
    <2>1. \A m \in 1..k : m \in 1..(k - one + 1) /\ one + m - 1 = m
      BY <1>1, <1>2
    <2> QED BY <1>8, <2>1, Zenon
  <1> QED BY <1>1, <1>2, <1>5, <1>6, <1>7, <1>9, Zenon

\* A call of visit that has looked at everything returns.
LEMMA LeaveStep ==
  ASSUME NEW D, IsFiniteSet(D), NEW d, NEW c, NEW v,
         Typed(D, d, c, v), Searched(D, d, c, v), v # << >>,
         Round(v, Len(v)) > Len(d[At(v, Len(v))])
  PROVE  /\ At(v, Len(v)) \in D
         /\ SubSeq(v, 1, Len(v) - 1) \in Seq(Frames(D))
         /\ Searched(D, d, [c EXCEPT ![At(v, Len(v))] = "black"], SubSeq(v, 1, Len(v) - 1))
  <1> DEFINE n == Len(v)
             r == At(v, n)
             u == SubSeq(v, 1, n - 1)
             e == [c EXCEPT ![r] = "black"]
  <1>1. /\ n \in Nat /\ n \in 1..n
        /\ \A m \in 1..n : At(v, m) \in D /\ Round(v, m) \in Nat /\ Round(v, m) > 0
    BY FrameTypes DEF Typed
  <1>2. \A t \in D : Len(d[t]) \in Nat /\ \A j \in 1..Len(d[t]) : d[t][j] \in D
    BY ListTypes, Zenon DEF Typed
  <1>3. r \in D
    BY <1>1, Zenon
  <1>4. /\ u \in Seq(Frames(D)) /\ Len(u) = n - 1
        /\ \A m \in 1..(n - 1) : u[m] = v[m]
    <2>1. \A m \in 1..n : v[m] \in Frames(D)
      BY DEF Typed
    <2>2. n > 0
      BY <1>1
    <2> HIDE DEF n
    <2>3. /\ SubSeq(v, 1, n - 1) \in Seq(Frames(D)) /\ Len(SubSeq(v, 1, n - 1)) = n - 1
          /\ \A m \in 1..(n - 1) : SubSeq(v, 1, n - 1)[m] = v[m]
      BY <1>1, <2>1, <2>2, DropLast
    <2> QED BY <2>3, Zenon
  <1>5. \A m \in 1..(n - 1) : At(u, m) = At(v, m) /\ Round(u, m) = Round(v, m)
    BY <1>4, Zenon DEF At, Round
  <1>6. \A t \in D : e[t] = IF t = r THEN "black" ELSE c[t]
    BY DEF Typed
  <1>7. /\ \A m \in 1..n : c[At(v, m)] = "gray"
        /\ \A t \in D : c[t] = "gray" => \E m \in 1..n : At(v, m) = t
        /\ \A m, k \in 1..n : At(v, m) = At(v, k) => m = k
    BY Zenon DEF Searched, GrayPath
  <1>8. \A m \in 1..n : Round(v, m) <= Len(d[At(v, m)]) + 1
            /\ (m < n => Round(v, m) > 1 /\ d[At(v, m)][Round(v, m) - 1] = At(v, m + 1))
    BY Zenon DEF Searched, Chained
  <1>9. \A m \in 1..n : \A j \in 1..(Round(v, m) - 1) :
            c[d[At(v, m)][j]] = "black" \/ (m < n /\ j = Round(v, m) - 1)
    BY Zenon DEF Searched, LookedAt
  <1>10. \A m \in 1..(n - 1) : m \in 1..n /\ m # n /\ m < n
    BY <1>1
  <1>11. Round(v, n) > Len(d[r])
    BY Zenon
  <1> HIDE DEF n, r, u, e
  <1>12. c[r] = "gray" /\ \A m \in 1..(n - 1) : At(v, m) # r
    BY <1>1, <1>7, <1>10, Zenon DEF r
  <1>13. GrayPath(D, e, u)
    <2>1. ASSUME NEW m \in 1..(n - 1) PROVE e[At(u, m)] = "gray"
      <3>1. At(v, m) \in D /\ At(v, m) # r /\ c[At(v, m)] = "gray" /\ At(u, m) = At(v, m)
        BY <1>1, <1>5, <1>7, <1>10, <1>12, Zenon
      <3> QED BY <1>6, <3>1, Zenon
    <2>2. ASSUME NEW t \in D, e[t] = "gray" PROVE \E m \in 1..(n - 1) : At(u, m) = t
      <3>1. t # r /\ c[t] = "gray"
        BY <1>6, <2>2
      <3>2. PICK m \in 1..n : At(v, m) = t
        BY <1>7, <3>1, Zenon
      <3>3. m \in 1..(n - 1)
        BY <1>1, <3>1, <3>2 DEF r
      <3> QED BY <1>5, <3>2, <3>3, Zenon
    <2>3. \A m, k \in 1..(n - 1) : At(u, m) = At(u, k) => m = k
      BY <1>5, <1>7, <1>10, Zenon
    <2> QED BY <1>4, <2>1, <2>2, <2>3, Zenon DEF GrayPath
  <1>14. Chained(d, u)
    <2>1. ASSUME NEW m \in 1..(n - 1), m < n - 1 PROVE At(u, m + 1) = At(v, m + 1)
      BY <1>1, <1>5, <2>1
    <2> QED BY <1>4, <1>5, <1>8, <1>10, <2>1, Zenon DEF Chained
  <1>15. LookedAt(d, e, u)
    <2>1. ASSUME NEW m \in 1..(n - 1), NEW j \in 1..(Round(v, m) - 1)
          PROVE  e[d[At(v, m)][j]] = "black" \/ (m < n - 1 /\ j = Round(v, m) - 1)
      <3>1. d[At(v, m)][j] \in D
        <4>1. PICK t \in D : t = At(v, m)
          BY <1>1, <1>10, Zenon
        <4>2. j \in 1..Len(d[t])
          BY <1>1, <1>2, <1>8, <1>10, <4>1
        <4> QED BY <1>2, <4>1, <4>2, Zenon
      <3>2. CASE c[d[At(v, m)][j]] = "black"
        BY <1>6, <3>1, <3>2, Zenon
      <3>3. CASE j = Round(v, m) - 1 /\ m < n - 1
        BY <3>3, Zenon
      <3>4. CASE j = Round(v, m) - 1 /\ ~(m < n - 1)
        <4>1. m + 1 = n
          BY <1>1, <3>4
        <4>2. d[At(v, m)][j] = r
          BY <1>8, <1>10, <3>4, <4>1, Zenon DEF r
        <4> QED BY <1>3, <1>6, <4>2, Zenon
      <3> QED BY <1>9, <1>10, <3>2, <3>3, <3>4, Zenon
    <2> QED BY <1>4, <1>5, <2>1, Zenon DEF LookedAt
  <1>16. Sorted(d, Black(D, e))
    <2>1. Black(D, e) = Black(D, c) \cup {r} /\ r \notin Black(D, c)
      BY <1>3, <1>6, <1>12 DEF Black
    <2>2. IsFiniteSet(Black(D, c))
      BY FS_Subset, Zenon DEF Black
    <2>3. ASSUME NEW s \in ToSet(d[r]) PROVE s \in Black(D, c)
      <3>1. d[r] \in Seq(D)
        BY <1>3 DEF Typed, Lists
      <3>2. DOMAIN d[r] = 1..Len(d[r])
        BY <3>1
      <3>3. PICK j \in 1..Len(d[r]) : s = d[r][j]
        BY <2>3, <3>2, Zenon DEF ToSet
      <3>4. j \in 1..(Round(v, n) - 1) /\ ~(n < n)
        BY <1>1, <1>2, <1>3, <1>11, <3>3
      <3>5. c[s] = "black"
        BY <1>1, <1>9, <3>3, <3>4, Zenon DEF r
      <3>6. s \in D
        BY <1>2, <1>3, <3>3, Zenon
      <3> QED BY <3>5, <3>6, Zenon DEF Black
    <2>4. ToSet(d[r]) \subseteq Black(D, c) /\ Sorted(d, Black(D, c))
      BY <2>3, Zenon DEF Searched
    <2>5. Sorted(d, Black(D, c) \cup {r})
      BY <2>1, <2>2, <2>4, SortedNext, Zenon
    <2> QED BY <2>1, <2>5, Zenon
  <1>17. Searched(D, d, e, u)
    BY <1>13, <1>14, <1>15, <1>16, Zenon DEF Searched
  <1> QED BY <1>3, <1>4, <1>17, Zenon DEF n, r, u, e

\* visit finds a gray step: the path from it to the innermost call is a cycle.
LEMMA LookGray ==
  ASSUME NEW D, NEW d, NEW c, NEW v, Typed(D, d, c, v), Searched(D, d, c, v), v # << >>,
         Round(v, Len(v)) <= Len(d[At(v, Len(v))]),
         c[d[At(v, Len(v))][Round(v, Len(v))]] = "gray",
         NEW N \in Nat, NEW rank \in [D -> 1..N],
         \A t \in D : \A s \in ToSet(d[t]) : rank[s] < rank[t]
  PROVE  FALSE
  <1> DEFINE n == Len(v)
             R(m) == rank[At(v, m)]
  <1>1. /\ n \in Nat /\ n \in 1..n
        /\ \A m \in 1..n : At(v, m) \in D /\ Round(v, m) \in Nat /\ Round(v, m) > 0
    BY FrameTypes DEF Typed
  <1>2. \A t \in D : \A j \in 1..Len(d[t]) : d[t][j] \in D /\ d[t][j] \in ToSet(d[t])
    BY ListTypes, Zenon DEF Typed
  <1>3. \A m \in 1..n : R(m) \in Nat
    <2>1. \A t \in D : rank[t] \in Nat
      OBVIOUS
    <2> QED BY <1>1, <2>1, Zenon
  <1>4. \A t \in D : Len(d[t]) \in Nat
    BY ListTypes, Zenon DEF Typed
  <1>5. ASSUME NEW m \in 1..n, m < n PROVE R(m + 1) < R(m)
    <2>1. /\ Round(v, m) <= Len(d[At(v, m)]) + 1 /\ Round(v, m) > 1
          /\ d[At(v, m)][Round(v, m) - 1] = At(v, m + 1)
      BY <1>5, Zenon DEF Searched, Chained
    <2>2. PICK t \in D : t = At(v, m)
      BY <1>1, Zenon
    <2>3. Round(v, m) - 1 \in 1..Len(d[t])
      <3>1. PICK r, l : r = Round(v, m) /\ l = Len(d[t])
        BY Zenon
      <3>2. r \in Nat /\ l \in Nat /\ r <= l + 1 /\ r > 1
        BY <1>1, <1>4, <2>1, <2>2, <3>1, Zenon
      <3>3. r - 1 \in 1..l
        BY <3>2
      <3> QED BY <3>1, <3>3, Zenon
    <2>4. At(v, m + 1) \in ToSet(d[t])
      BY <1>2, <2>1, <2>2, <2>3, Zenon
    <2> QED BY <2>2, <2>4, Zenon
  <1>6. PICK dep : dep = d[At(v, n)][Round(v, n)]
    BY Zenon
  <1>7. dep \in D /\ rank[dep] < R(n) /\ c[dep] = "gray"
    <2>1. PICK t \in D : t = At(v, n)
      BY <1>1, Zenon
    <2>2. Round(v, n) \in 1..Len(d[t])
      BY <1>1, <1>4, <2>1
    <2>3. dep \in D /\ dep \in ToSet(d[t])
      BY <1>2, <1>6, <2>1, <2>2, Zenon
    <2> QED BY <1>6, <2>1, <2>3, Zenon
  <1>8. PICK p \in 1..n : At(v, p) = dep
    BY <1>7, Zenon DEF Searched, GrayPath
  <1> DEFINE Above == {m \in p..n : R(m) > R(p)}
  <1> HIDE DEF n, R
  <1>9. n \in Above
    BY <1>1, <1>3, <1>7, <1>8 DEF R
  <1>10. Min(Above) \in Above
    <2>1. Above \subseteq Nat
      BY <1>1, <1>8
    <2> HIDE DEF Above
    <2> QED BY <1>9, <2>1, LeastMember, Zenon
  <1>11. \A x \in Above : Min(Above) <= x
    <2>1. Above \subseteq Nat
      BY <1>1, <1>8
    <2> HIDE DEF Above
    <2> QED BY <1>9, <2>1, LeastMember, Zenon
  <1>12. PICK m \in p..n : R(m) > R(p) /\ \A x \in Above : m <= x
    BY <1>10, <1>11, Zenon
  <1>13. m # p /\ m \in 1..n /\ m - 1 \in p..n /\ m - 1 \in 1..n /\ m - 1 < n /\ (m - 1) + 1 = m
    BY <1>1, <1>3, <1>8, <1>12
  <1>14. R(m) < R(m - 1)
    BY <1>5, <1>13, Zenon
  <1>15. m - 1 \in Above
    BY <1>3, <1>8, <1>12, <1>13, <1>14
  <1>16. m <= m - 1
    BY <1>12, <1>15, Zenon
  <1> QED BY <1>1, <1>8, <1>13, <1>16

-----------------------------------------------------------------------------
(***************************************************************************)
(* Loading a pipeline.                                                     *)
(***************************************************************************)
\* The loops of Deps have read link j of step k.
WasRead(k, j) == k < step \/ (k = step /\ j < link)

LoadType ==
    /\ pipeline \in Pipelines
    /\ step \in 1..(Len(pipeline) + 1) /\ link \in Nat \ {0}
    /\ Typed(Ids(pipeline), deps, color, visits)
    /\ loaded \in {"linking", "searching", "ok", "bad_name", "cycle"}

\* So far no link is bad, and deps has the edges of the links that were read.
Linked ==
    /\ visits = << >>
    /\ \A t \in Ids(pipeline) : color[t] = "white"
    /\ \A k \in 1..Len(pipeline) : \A j \in 1..Len(pipeline[k].links) :
        WasRead(k, j) => ~BadLink(pipeline, pipeline[k], pipeline[k].links[j])
    /\ \A t \in Ids(pipeline) : \A s : s \in ToSet(deps[t]) <=>
        \E k \in 1..Len(pipeline) : \E j \in 1..Len(pipeline[k].links) :
            WasRead(k, j) /\ Because(pipeline[k], pipeline[k].links[j], t, s)

\* deps is what the steps wait for.
Wired ==
    /\ ~BadName(pipeline)
    /\ \A t \in Ids(pipeline) : ToSet(deps[t]) = WaitsFor(pipeline, t)

LoadInv ==
    /\ LoadType
    /\ loaded = "linking" => Linked
    /\ loaded \in {"searching", "ok", "cycle"} => Wired
    /\ loaded = "searching" =>
        /\ Searched(Ids(pipeline), deps, color, visits)
        /\ \A k \in 1..(step - 1) : color[pipeline[k].id] # "white"
    /\ loaded = "bad_name" => BadName(pipeline)
    /\ loaded = "ok" => Runnable(pipeline)
    /\ loaded = "cycle" => ~Runnable(pipeline)

\* What is assumed of a step of a pipeline.
LEMMA StepTypes ==
  ASSUME NEW q \in Pipelines
  PROVE  /\ Len(q) \in Nat
         /\ \A k \in 1..Len(q) :
              /\ q[k].id \in Ids(q) /\ Len(q[k].links) \in Nat
              /\ DOMAIN q[k].links = 1..Len(q[k].links)
              /\ \A j \in 1..Len(q[k].links) : q[k].links[j].kind \in LinkKinds
  BY LoadAssumption, Zenon DEF Ids

LEMMA LoadStarts == LoadInit => LoadInv
  <1> SUFFICES ASSUME LoadInit PROVE LoadInv
    OBVIOUS
  <1>1. /\ Len(pipeline) \in Nat /\ pipeline \in Pipelines /\ step = 1 /\ link = 1
        /\ loaded = "linking" /\ visits = << >>
    BY StepTypes, Zenon DEF LoadInit
  <1>2. deps = [s \in Ids(pipeline) |-> << >>] /\ color = [s \in Ids(pipeline) |-> "white"]
    BY Zenon DEF LoadInit
  <1>3. deps \in Lists(Ids(pipeline))
    BY <1>2 DEF Lists
  <1>4. color \in [Ids(pipeline) -> Colors]
    BY <1>2 DEF Colors
  <1>5. visits \in Seq(Frames(Ids(pipeline)))
    <2> HIDE DEF Frames
    <2> QED BY <1>1
  <1>6. LoadType
    <2>1. step \in 1..(Len(pipeline) + 1) /\ link \in Nat \ {0}
      BY <1>1
    <2> QED BY <1>1, <1>3, <1>4, <1>5, <2>1, Zenon DEF LoadType, Typed
  <1>7. \A k \in 1..Len(pipeline) : \A j \in 1..Len(pipeline[k].links) : ~WasRead(k, j)
    <2>1. \A k \in 1..Len(pipeline) : Len(pipeline[k].links) \in Nat
      BY <1>1, StepTypes, Zenon
    <2> QED BY <1>1, <2>1 DEF WasRead
  <1>8. \A t \in Ids(pipeline) : \A s : s \notin ToSet(deps[t])
    <2>1. DOMAIN << >> = {}
      OBVIOUS
    <2> QED BY <1>2, <2>1, Zenon DEF ToSet
  <1>9. Linked
    BY <1>1, <1>2, <1>7, <1>8, Zenon DEF Linked
  <1> QED BY <1>1, <1>6, <1>9, Zenon DEF LoadInv

LEMMA ReadLinkKeeps == LoadInv /\ ReadLink => LoadInv'
  <1> SUFFICES ASSUME LoadInv, ReadLink PROVE LoadInv'
    OBVIOUS
  <1> DEFINE x == pipeline[step]
             l == x.links[link]
  <1>1. /\ loaded = "linking" /\ Linked /\ LoadType
        /\ UNCHANGED <<pipeline, step, color, visits>>
    BY Zenon DEF LoadInv, ReadLink
  <1>2. pipeline \in Pipelines /\ Len(pipeline) \in Nat /\ link \in Nat \ {0} /\ step \in 1..(Len(pipeline) + 1)
    BY <1>1, StepTypes, Zenon DEF LoadType
  <1>3. step \in 1..Len(pipeline) /\ link \in 1..Len(x.links)
    <2>1. step \in 1..Len(pipeline)
      BY <1>2 DEF ReadLink
    <2>2. Len(x.links) \in Nat
      BY <1>2, <2>1, StepTypes, Zenon
    <2> QED BY <1>2, <2>1, <2>2 DEF ReadLink
  <1>4. CASE BadLink(pipeline, x, l)
    <2>1. loaded' = "bad_name" /\ UNCHANGED <<link, deps>>
      BY <1>4, Zenon DEF ReadLink
    <2>2. l \in ToSet(x.links)
      BY <1>2, <1>3, StepTypes, Zenon DEF ToSet
    <2>3. BadName(pipeline)
      BY <1>3, <1>4, <2>2, Zenon DEF BadName
    <2>4. BadName(pipeline)'
      BY <1>1, <2>3, Zenon DEF BadName, BadLink
    <2>5. LoadType'
      BY <1>1, <2>1 DEF LoadType, Typed
    <2> QED BY <2>1, <2>4, <2>5 DEF LoadInv
  <1>5. CASE ~BadLink(pipeline, x, l)
    <2>1. deps' = AddLink(deps, x, l) /\ link' = link + 1 /\ UNCHANGED loaded
      BY <1>5, Zenon DEF ReadLink
    <2>2. /\ deps' \in Lists(Ids(pipeline))
          /\ \A t \in Ids(pipeline) : \A s :
                s \in ToSet(deps'[t]) <=> s \in ToSet(deps[t]) \/ Because(x, l, t, s)
      <3>1. x.id \in Ids(pipeline) /\ l.kind \in LinkKinds
        BY <1>2, <1>3, StepTypes, Zenon
      <3>2. deps \in Lists(Ids(pipeline))
        BY <1>1, Zenon DEF LoadType, Typed
      <3> HIDE DEF x, l
      <3> QED BY <1>5, <2>1, <3>1, <3>2, AddedLink, Zenon
    <2>3. LoadType'
      <3>1. link' \in Nat \ {0}
        BY <1>2, <2>1
      <3>2. Typed(Ids(pipeline), deps', color, visits)
        BY <1>1, <2>2, Zenon DEF LoadType, Typed
      <3> QED BY <1>1, <2>1, <3>1, <3>2, Zenon DEF LoadType
    <2>4. \A k \in 1..Len(pipeline) : \A j \in 1..Len(pipeline[k].links) :
            WasRead(k, j)' <=> WasRead(k, j) \/ (k = step /\ j = link)
      <3>1. \A k \in 1..Len(pipeline) : Len(pipeline[k].links) \in Nat
        BY <1>2, StepTypes, Zenon
      <3> QED BY <1>1, <1>2, <2>1, <3>1 DEF WasRead
    <2>5. Linked'
      <3>1. ASSUME NEW k \in 1..Len(pipeline), NEW j \in 1..Len(pipeline[k].links), WasRead(k, j)'
            PROVE  ~BadLink(pipeline, pipeline[k], pipeline[k].links[j])
        BY <1>1, <1>5, <2>4, <3>1, Zenon DEF Linked
      <3>2. ASSUME NEW t \in Ids(pipeline), NEW s
            PROVE  s \in ToSet(deps'[t]) <=>
                     \E k \in 1..Len(pipeline) : \E j \in 1..Len(pipeline[k].links) :
                        WasRead(k, j)' /\ Because(pipeline[k], pipeline[k].links[j], t, s)
        <4>1. s \in ToSet(deps[t]) <=>
                     \E k \in 1..Len(pipeline) : \E j \in 1..Len(pipeline[k].links) :
                        WasRead(k, j) /\ Because(pipeline[k], pipeline[k].links[j], t, s)
          BY <1>1, Zenon DEF Linked
        <4> QED BY <1>3, <2>2, <2>4, <4>1, Zenon
      <3>3. visits' = << >> /\ \A t \in Ids(pipeline) : color'[t] = "white"
        BY <1>1, Zenon DEF Linked
      <3>4. pipeline' = pipeline
        BY <1>1, Zenon
      <3> QED BY <3>1, <3>2, <3>3, <3>4, Zenon DEF Linked, BadLink
    <2> QED BY <1>1, <2>1, <2>3, <2>5 DEF LoadInv
  <1> QED BY <1>4, <1>5, Zenon

LEMMA NextStepKeeps == LoadInv /\ NextStep => LoadInv'
  <1> SUFFICES ASSUME LoadInv, NextStep PROVE LoadInv'
    OBVIOUS
  <1>1. /\ loaded = "linking" /\ Linked /\ LoadType /\ step' = step + 1 /\ link' = 1
        /\ UNCHANGED <<pipeline, deps, color, visits, loaded>>
    BY Zenon DEF LoadInv, NextStep
  <1>2. pipeline \in Pipelines /\ Len(pipeline) \in Nat /\ link \in Nat \ {0} /\ step \in 1..(Len(pipeline) + 1)
    BY <1>1, StepTypes, Zenon DEF LoadType
  <1>3. step \in 1..Len(pipeline) /\ link > Len(pipeline[step].links)
    BY <1>2 DEF NextStep
  <1>4. LoadType'
    <2>1. step' \in 1..(Len(pipeline) + 1) /\ link' \in Nat \ {0}
      BY <1>1, <1>2, <1>3
    <2> QED BY <1>1, <2>1, Zenon DEF LoadType, Typed
  <1>5. \A k \in 1..Len(pipeline) : \A j \in 1..Len(pipeline[k].links) :
            WasRead(k, j)' <=> WasRead(k, j)
    <2>1. \A k \in 1..Len(pipeline) : Len(pipeline[k].links) \in Nat
      BY <1>2, StepTypes, Zenon
    <2> QED BY <1>1, <1>2, <1>3, <2>1 DEF WasRead
  <1>6. Linked'
    BY <1>1, <1>5, Zenon DEF Linked, BadLink
  <1> QED BY <1>1, <1>4, <1>6 DEF LoadInv

\* The loops are over: no link is bad, and the edges are those of the links.
LEMMA LinkedWires ==
  ASSUME LoadType, Linked, step > Len(pipeline)
  PROVE  Wired
  <1>1. pipeline \in Pipelines /\ Len(pipeline) \in Nat /\ step \in 1..(Len(pipeline) + 1)
    BY StepTypes, Zenon DEF LoadType
  <1>2. \A k \in 1..Len(pipeline) : \A j \in 1..Len(pipeline[k].links) : WasRead(k, j)
    BY <1>1 DEF WasRead
  <1>3. \A k \in 1..Len(pipeline) : DOMAIN pipeline[k].links = 1..Len(pipeline[k].links)
    BY <1>1, StepTypes, Zenon
  <1>4. ~BadName(pipeline)
    <2> SUFFICES ASSUME NEW k \in 1..Len(pipeline), NEW l \in ToSet(pipeline[k].links),
                        BadLink(pipeline, pipeline[k], l)
                 PROVE  FALSE
      BY Zenon DEF BadName
    <2>1. PICK j \in 1..Len(pipeline[k].links) : l = pipeline[k].links[j]
      BY <1>3, Zenon DEF ToSet
    <2> QED BY <1>2, <2>1, Zenon DEF Linked
  <1>5. ASSUME NEW t \in Ids(pipeline), NEW s
        PROVE  s \in ToSet(deps[t]) <=> s \in WaitsFor(pipeline, t)
    <2>1. s \in ToSet(deps[t]) => s \in Ids(pipeline)
      <3>1. deps[t] \in Seq(Ids(pipeline))
        BY DEF LoadType, Typed, Lists
      <3>2. DOMAIN deps[t] = 1..Len(deps[t]) /\ \A j \in 1..Len(deps[t]) : deps[t][j] \in Ids(pipeline)
        BY <3>1
      <3> QED BY <3>2, Zenon DEF ToSet
    <2>2. s \in ToSet(deps[t]) <=>
            \E k \in 1..Len(pipeline) : \E j \in 1..Len(pipeline[k].links) :
                Because(pipeline[k], pipeline[k].links[j], t, s)
      BY <1>2, Zenon DEF Linked
    <2>3. ASSUME NEW k \in 1..Len(pipeline)
          PROVE  (\E j \in 1..Len(pipeline[k].links) : Because(pipeline[k], pipeline[k].links[j], t, s))
                   <=> \E l \in ToSet(pipeline[k].links) : Because(pipeline[k], l, t, s)
      <3>1. DOMAIN pipeline[k].links = 1..Len(pipeline[k].links)
        BY <1>3, Zenon
      <3> QED BY <3>1, Zenon DEF ToSet
    <2> QED BY <2>1, <2>2, <2>3, Zenon DEF WaitsFor
  <1>6. \A t \in Ids(pipeline) : ToSet(deps[t]) = WaitsFor(pipeline, t)
    BY <1>5, Zenon
  <1> QED BY <1>4, <1>6, Zenon DEF Wired

LEMMA StartSearchKeeps == LoadInv /\ StartSearch => LoadInv'
  <1> SUFFICES ASSUME LoadInv, StartSearch PROVE LoadInv'
    OBVIOUS
  <1>1. /\ loaded = "linking" /\ Linked /\ LoadType /\ step > Len(pipeline)
        /\ step' = 1 /\ loaded' = "searching"
        /\ UNCHANGED <<pipeline, link, deps, color, visits>>
    BY Zenon DEF LoadInv, StartSearch
  <1>2. Wired'
    <2>1. Wired
      BY <1>1, LinkedWires, Zenon
    <2> QED BY <1>1, <2>1, Zenon DEF Wired, BadName, BadLink, WaitsFor
  <1>3. LoadType'
    <2>1. Len(pipeline) \in Nat
      BY <1>1, StepTypes, Zenon DEF LoadType
    <2>2. step' \in 1..(Len(pipeline) + 1)
      BY <1>1, <2>1
    <2> QED BY <1>1, <2>2 DEF LoadType, Typed
  <1>4. Searched(Ids(pipeline), deps, color, << >>)
    <2> DEFINE D == Ids(pipeline)
    <2>1. \A t \in D : color[t] = "white"
      BY <1>1, Zenon DEF Linked
    <2>2. \A m \in 1..Len(<< >>) : FALSE
      OBVIOUS
    <2>3. GrayPath(D, color, << >>) /\ Chained(deps, << >>) /\ LookedAt(deps, color, << >>)
      BY <2>1, <2>2, Zenon DEF GrayPath, Chained, LookedAt
    <2>4. Black(D, color) = {}
      BY <2>1, Zenon DEF Black
    <2>5. Sorted(deps, {})
      <3>1. [t \in {} |-> 1] \in [{} -> 1..Cardinality({})]
        OBVIOUS
      <3> QED BY <3>1, Zenon DEF Sorted
    <2> QED BY <2>3, <2>4, <2>5, Zenon DEF Searched
  <1>5. \A k \in 1..(step' - 1) : FALSE
    BY <1>1
  <1>6. visits' = << >>
    BY <1>1, Zenon DEF Linked
  <1> QED BY <1>1, <1>2, <1>3, <1>4, <1>5, <1>6 DEF LoadInv

LEMMA NextRootKeeps == LoadInv /\ NextRoot => LoadInv'
  <1> SUFFICES ASSUME LoadInv, NextRoot PROVE LoadInv'
    OBVIOUS
  <1> DEFINE D == Ids(pipeline)
             id == pipeline[step].id
  <1>1. /\ loaded = "searching" /\ LoadType /\ Wired /\ visits = << >>
        /\ Searched(D, deps, color, visits)
        /\ \A k \in 1..(step - 1) : color[pipeline[k].id] # "white"
        /\ step <= Len(pipeline) /\ step' = step + 1
        /\ UNCHANGED <<pipeline, link, deps, loaded>>
    BY Zenon DEF LoadInv, NextRoot
  <1>2. pipeline \in Pipelines /\ Len(pipeline) \in Nat /\ step \in 1..(Len(pipeline) + 1)
    BY <1>1, StepTypes, Zenon DEF LoadType
  <1>3. step \in 1..Len(pipeline) /\ step' \in 1..(Len(pipeline) + 1)
    BY <1>1, <1>2
  <1>4. id \in D /\ \A k \in 1..Len(pipeline) : pipeline[k].id \in D
    BY <1>2, <1>3, StepTypes, Zenon
  <1>5. Typed(D, deps, color, visits)
    BY <1>1, Zenon DEF LoadType
  <1>6. /\ color' \in [D -> Colors] /\ visits' \in Seq(Frames(D))
        /\ Searched(D, deps, color', visits')
        /\ color'[id] # "white"
        /\ \A t \in D : color[t] # "white" => color'[t] # "white"
    <2>1. CASE color[id] = "white"
      <3>1. color' = [color EXCEPT ![id] = "gray"] /\ visits' = <<Enter(id)>>
        BY <2>1, Zenon DEF NextRoot
      <3>2. /\ color' \in [D -> Colors] /\ color'[id] = "gray"
            /\ \A t \in D : t # id => color'[t] = color[t]
        <4> HIDE DEF id, D
        <4> QED BY <1>4, <1>5, <3>1 DEF Typed, Colors
      <3>3. visits' \in Seq(Frames(D)) /\ Searched(D, deps, color', visits')
        <4>1. Typed(D, deps, color, << >>) /\ Searched(D, deps, color, << >>)
          BY <1>1, <1>5, Zenon
        <4> HIDE DEF id, D
        <4> QED BY <1>4, <2>1, <3>1, <4>1, EnterRoot, Zenon
      <3> QED BY <3>2, <3>3
    <2>2. CASE color[id] # "white"
      <3>1. color' = color /\ visits' = visits
        BY <2>2, Zenon DEF NextRoot
      <3> QED BY <1>1, <1>5, <2>2, <3>1, Zenon DEF Typed
    <2> QED BY <2>1, <2>2, Zenon
  <1>7. LoadType'
    BY <1>1, <1>3, <1>5, <1>6, Zenon DEF LoadType, Typed
  <1>8. \A k \in 1..(step' - 1) : color'[pipeline[k].id] # "white"
    <2> SUFFICES ASSUME NEW k \in 1..(step' - 1) PROVE color'[pipeline[k].id] # "white"
      BY Zenon
    <2>1. k = step \/ (k \in 1..(step - 1) /\ k \in 1..Len(pipeline))
      BY <1>1, <1>2
    <2> QED BY <1>1, <1>4, <1>6, <2>1, Zenon
  <1>9. Wired'
    BY <1>1, Zenon DEF Wired, BadName, BadLink, WaitsFor
  <1> HIDE DEF D
  <1>10. Ids(pipeline)' = D /\ deps' = deps /\ pipeline' = pipeline /\ loaded' = "searching"
    BY <1>1, Zenon DEF D
  <1> QED BY <1>6, <1>7, <1>8, <1>9, <1>10 DEF LoadInv

LEMMA LookKeeps == LoadInv /\ Look => LoadInv'
  <1> SUFFICES ASSUME LoadInv, Look PROVE LoadInv'
    OBVIOUS
  <1> DEFINE D == Ids(pipeline)
             n == Len(visits)
             dep == deps[At(visits, n)][Round(visits, n)]
             moved == [visits EXCEPT ![n].next = @ + 1]
  <1>1. /\ loaded = "searching" /\ LoadType /\ Wired /\ visits # << >>
        /\ Searched(D, deps, color, visits)
        /\ \A k \in 1..(step - 1) : color[pipeline[k].id] # "white"
        /\ Round(visits, n) <= Len(deps[At(visits, n)])
        /\ UNCHANGED <<pipeline, step, link, deps>>
    BY Zenon DEF LoadInv, Look, Top, At, Round
  <1>2. pipeline \in Pipelines /\ Len(pipeline) \in Nat /\ step \in 1..(Len(pipeline) + 1)
    BY <1>1, StepTypes, Zenon DEF LoadType
  <1>3. Typed(D, deps, color, visits)
    BY <1>1, Zenon DEF LoadType
  <1>4. \/ color[dep] = "gray" /\ loaded' = "cycle" /\ UNCHANGED <<color, visits>>
        \/ /\ color[dep] = "white" /\ color' = [color EXCEPT ![dep] = "gray"]
           /\ visits' = Append(moved, Enter(dep)) /\ UNCHANGED loaded
        \/ color[dep] \notin {"gray", "white"} /\ visits' = moved /\ UNCHANGED <<color, loaded>>
    BY ZenonT(60) DEF Look, Top, At, Round
  <1>5. Wired'
    BY <1>1, Zenon DEF Wired, BadName, BadLink, WaitsFor
  <1>6. moved \in Seq(Frames(D)) /\ Ahead(visits, moved)
    BY <1>1, <1>3, MovedAhead, Zenon DEF Typed
  <1>7. CASE color[dep] = "gray" /\ loaded' = "cycle" /\ UNCHANGED <<color, visits>>
    <2>1. ~Runnable(pipeline)
      <3> SUFFICES ASSUME NEW rank \in [D -> 1..Len(pipeline)],
                          \A t \in D : \A s \in WaitsFor(pipeline, t) : rank[s] < rank[t]
                   PROVE  FALSE
        BY Zenon DEF Runnable
      <3>1. \A t \in D : \A s \in ToSet(deps[t]) : rank[s] < rank[t]
        BY <1>1, Zenon DEF Wired
      <3> HIDE DEF D
      <3> QED BY <1>1, <1>2, <1>3, <1>7, <3>1, LookGray, Zenon
    <2>2. ~Runnable(pipeline)'
      BY <1>1, <2>1, Zenon DEF Runnable, WaitsFor
    <2>3. LoadType'
      BY <1>1, <1>7 DEF LoadType, Typed
    <2> QED BY <1>5, <1>7, <2>2, <2>3 DEF LoadInv
  <1>8. ASSUME color' \in [D -> Colors], visits' \in Seq(Frames(D)), loaded' = loaded,
               Searched(D, deps, color', visits'),
               \A t \in D : color[t] # "white" => color'[t] # "white"
        PROVE  LoadInv'
    <2>1. LoadType'
      BY <1>1, <1>3, <1>8, Zenon DEF LoadType, Typed
    <2>2. ASSUME NEW k \in 1..(step' - 1) PROVE color'[pipeline[k].id] # "white"
      <3>1. k \in 1..(step - 1) /\ k \in 1..Len(pipeline)
        BY <1>1, <1>2
      <3>2. pipeline[k].id \in D
        BY <1>2, <3>1, StepTypes, Zenon
      <3> QED BY <1>1, <1>8, <3>1, <3>2, Zenon
    <2>3. Ids(pipeline)' = D /\ deps' = deps /\ pipeline' = pipeline /\ loaded' = "searching"
      BY <1>1, <1>8, Zenon
    <2> HIDE DEF D
    <2> QED BY <1>5, <1>8, <2>1, <2>2, <2>3 DEF LoadInv
  <1>9. CASE /\ color[dep] = "white" /\ color' = [color EXCEPT ![dep] = "gray"]
             /\ visits' = Append(moved, Enter(dep)) /\ UNCHANGED loaded
    <2>1. /\ dep \in D /\ Append(moved, Enter(dep)) \in Seq(Frames(D))
          /\ Searched(D, deps, [color EXCEPT ![dep] = "gray"], Append(moved, Enter(dep)))
      <3> HIDE DEF D, moved
      <3> QED BY <1>1, <1>3, <1>6, <1>9, LookWhite, Zenon
    <2>2. /\ color' \in [D -> Colors]
          /\ \A t \in D : color[t] # "white" => color'[t] # "white"
      <3> HIDE DEF D, dep, moved
      <3> QED BY <1>3, <1>9, <2>1 DEF Typed, Colors
    <2> QED BY <1>8, <1>9, <2>1, <2>2, Zenon
  <1>10. CASE color[dep] \notin {"gray", "white"} /\ visits' = moved /\ UNCHANGED <<color, loaded>>
    <2>1. dep \in D
      <3>1. /\ n \in Nat /\ n \in 1..n /\ At(visits, n) \in D
            /\ Round(visits, n) \in Nat /\ Round(visits, n) > 0
        BY <1>1, <1>3, FrameTypes DEF Typed
      <3>2. Round(visits, n) \in 1..Len(deps[At(visits, n)])
        <4>1. Len(deps[At(visits, n)]) \in Nat
          BY <1>3, <3>1, ListTypes, Zenon DEF Typed
        <4> QED BY <1>1, <3>1, <4>1
      <3> QED BY <1>3, <3>1, <3>2, ListTypes, Zenon DEF Typed
    <2>2. color[dep] = "black"
      <3> HIDE DEF D, dep
      <3> QED BY <1>3, <1>10, <2>1 DEF Typed, Colors
    <2>3. Searched(D, deps, color, moved)
      <3> HIDE DEF D, moved
      <3> QED BY <1>1, <1>3, <1>6, <2>2, LookBlack, Zenon
    <2> QED BY <1>3, <1>6, <1>8, <1>10, <2>3, Zenon DEF Typed
  <1> QED BY <1>4, <1>7, <1>9, <1>10, Zenon

LEMMA LeaveKeeps == LoadInv /\ Leave => LoadInv'
  <1> SUFFICES ASSUME LoadInv, Leave PROVE LoadInv'
    OBVIOUS
  <1> DEFINE D == Ids(pipeline)
             n == Len(visits)
             id == At(visits, n)
  <1>1. /\ loaded = "searching" /\ LoadType /\ Wired /\ visits # << >>
        /\ Searched(D, deps, color, visits)
        /\ \A k \in 1..(step - 1) : color[pipeline[k].id] # "white"
        /\ Round(visits, n) > Len(deps[id])
        /\ UNCHANGED <<pipeline, step, link, deps, loaded>>
        /\ color' = [color EXCEPT ![id] = "black"] /\ visits' = SubSeq(visits, 1, n - 1)
    BY Zenon DEF LoadInv, Leave, Top, At, Round
  <1>2. pipeline \in Pipelines /\ Len(pipeline) \in Nat /\ step \in 1..(Len(pipeline) + 1)
    BY <1>1, StepTypes, Zenon DEF LoadType
  <1>3. Typed(D, deps, color, visits)
    BY <1>1, Zenon DEF LoadType
  <1>4. /\ id \in D /\ visits' \in Seq(Frames(D)) /\ Searched(D, deps, color', visits')
    <2>1. IsFiniteSet(D)
      BY <1>2, IdsFinite, Zenon
    <2> HIDE DEF D
    <2> QED BY <1>1, <1>3, <2>1, LeaveStep, Zenon
  <1>5. /\ color' \in [D -> Colors]
        /\ \A t \in D : color[t] # "white" => color'[t] # "white"
    <2> HIDE DEF D, id
    <2> QED BY <1>1, <1>3, <1>4 DEF Typed, Colors
  <1>6. LoadType'
    BY <1>1, <1>3, <1>4, <1>5, Zenon DEF LoadType, Typed
  <1>7. ASSUME NEW k \in 1..(step' - 1) PROVE color'[pipeline[k].id] # "white"
    <2>1. k \in 1..(step - 1) /\ k \in 1..Len(pipeline)
      BY <1>1, <1>2
    <2>2. pipeline[k].id \in D
      BY <1>2, <2>1, StepTypes, Zenon
    <2> QED BY <1>1, <1>5, <2>1, <2>2, Zenon
  <1>8. Wired'
    BY <1>1, Zenon DEF Wired, BadName, BadLink, WaitsFor
  <1>9. Ids(pipeline)' = D /\ deps' = deps /\ pipeline' = pipeline /\ loaded' = "searching"
    BY <1>1, Zenon
  <1> HIDE DEF D
  <1> QED BY <1>4, <1>6, <1>7, <1>8, <1>9 DEF LoadInv

LEMMA EndSearchKeeps == LoadInv /\ EndSearch => LoadInv'
  <1> SUFFICES ASSUME LoadInv, EndSearch PROVE LoadInv'
    OBVIOUS
  <1> DEFINE D == Ids(pipeline)
  <1>1. /\ LoadType /\ Wired /\ visits = << >> /\ Searched(D, deps, color, << >>)
        /\ \A k \in 1..(step - 1) : color[pipeline[k].id] # "white"
        /\ step > Len(pipeline) /\ loaded' = "ok"
        /\ UNCHANGED <<pipeline, step, link, deps, color, visits>>
    BY Zenon DEF LoadInv, EndSearch
  <1>2. pipeline \in Pipelines /\ Len(pipeline) \in Nat /\ step \in 1..(Len(pipeline) + 1)
    BY <1>1, StepTypes, Zenon DEF LoadType
  <1>3. ASSUME NEW t \in D PROVE color[t] = "black"
    <2>1. PICK k \in 1..Len(pipeline) : t = pipeline[k].id
      BY Zenon DEF Ids
    <2>2. k \in 1..(step - 1)
      BY <1>1, <1>2
    <2>3. color[t] # "white"
      BY <1>1, <2>1, <2>2, Zenon
    <2>4. color[t] # "gray"
      <3>1. \A m \in 1..Len(<< >>) : FALSE
        OBVIOUS
      <3> QED BY <1>1, <3>1, Zenon DEF Searched, GrayPath
    <2>5. color[t] \in Colors
      <3> HIDE DEF D
      <3> QED BY <1>1 DEF LoadType, Typed, D
    <2> QED BY <2>3, <2>4, <2>5 DEF Colors
  <1>4. Black(D, color) = D
    BY <1>3, Zenon DEF Black
  <1>5. Runnable(pipeline)
    <2>1. PICK rank \in [D -> 1..Cardinality(D)] :
            \A t \in D : \A s \in ToSet(deps[t]) : s \in D /\ rank[s] < rank[t]
      BY <1>1, <1>4, Zenon DEF Searched, Sorted
    <2>2. Cardinality(D) \in Nat /\ Cardinality(D) <= Len(pipeline)
      BY <1>2, IdsFinite, Zenon
    <2>3. rank \in [D -> 1..Len(pipeline)]
      <3> HIDE DEF D
      <3> QED BY <1>2, <2>1, <2>2
    <2> QED BY <1>1, <2>1, <2>3, Zenon DEF Runnable, Wired
  <1>6. Runnable(pipeline)' /\ Wired'
    BY <1>1, <1>5, Zenon DEF Runnable, Wired, BadName, BadLink, WaitsFor
  <1>7. LoadType'
    BY <1>1 DEF LoadType, Typed
  <1> QED BY <1>1, <1>6, <1>7 DEF LoadInv

LEMMA LoadInvariant == LoadSpec => []LoadInv
  <1>1. LoadInv /\ UNCHANGED loadVars => LoadInv'
    <2> SUFFICES ASSUME LoadInv, UNCHANGED loadVars PROVE LoadInv'
      OBVIOUS
    <2>1. UNCHANGED <<pipeline, step, link, deps, color, visits, loaded>>
      BY Zenon DEF loadVars
    <2>2. LoadType'
      BY <2>1, Zenon DEF LoadInv, LoadType, Typed
    <2>3. loaded = "linking" => Linked'
      BY <2>1, Zenon DEF LoadInv, Linked, WasRead, BadLink
    <2>4. loaded \in {"searching", "ok", "cycle"} => Wired'
      BY <2>1, Zenon DEF LoadInv, Wired, BadName, BadLink, WaitsFor
    <2>5. /\ BadName(pipeline)' <=> BadName(pipeline)
          /\ Runnable(pipeline)' <=> Runnable(pipeline)
      BY <2>1, Zenon DEF BadName, BadLink, Runnable, WaitsFor
    <2>6. loaded = "searching" =>
            /\ Searched(Ids(pipeline), deps, color, visits)'
            /\ (\A k \in 1..(step - 1) : color[pipeline[k].id] # "white")'
      BY <2>1, Zenon DEF LoadInv
    <2> QED BY <2>1, <2>2, <2>3, <2>4, <2>5, <2>6 DEF LoadInv
  <1>2. LoadInv /\ [LoadNext]_loadVars => LoadInv'
    BY <1>1, ReadLinkKeeps, NextStepKeeps, StartSearchKeeps, NextRootKeeps, LookKeeps,
       LeaveKeeps, EndSearchKeeps DEF LoadNext
  <1> QED BY <1>2, LoadStarts, PTL DEF LoadSpec

\* For every pipeline: the depth-first search accepts it exactly when every name
\* in it exists and its steps can be ordered so that each comes after all it
\* waits for.
THEOREM SearchDecides == LoadSpec => []AcceptedIffRunnable
  <1>1. LoadInv => AcceptedIffRunnable
    <2> SUFFICES ASSUME LoadInv, loaded \in {"ok", "bad_name", "cycle"}
                 PROVE  loaded = "ok" <=> ~BadName(pipeline) /\ Runnable(pipeline)
      BY Zenon DEF AcceptedIffRunnable
    <2> QED BY DEF LoadInv, Wired
  <1> QED BY <1>1, LoadInvariant, PTL
=============================================================================
