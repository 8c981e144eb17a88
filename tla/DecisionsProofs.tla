-------------------------- MODULE DecisionsProofs --------------------------
(***************************************************************************)
(* Proofs about Decisions, for every schema, document, path, router and    *)
(* request.                                                                *)
(***************************************************************************)
EXTENDS Decisions, FiniteSetTheorems, WellFoundedInduction, TLAPS

\* A set of natural numbers has a least member.
LEMMA LeastMember ==
  ASSUME NEW T, T \subseteq Nat, T # {}
  PROVE  Min(T) \in T /\ \A y \in T : Min(T) <= y
  <1> DEFINE Less == OpToRel(<, Nat)
  <1>0. IsWellFoundedOn(Less, Nat)
    BY NatLessThanWellFounded, Zenon
  <1>1. \E x \in T : \A y \in T : ~(<<y, x>> \in Less)
    <2> HIDE DEF Less
    <2> QED BY <1>0, WFMin, Zenon
  <1>2. PICK x \in T : \A y \in T : ~(<<y, x>> \in Less)
    BY <1>1, Zenon
  <1>3. \A y \in T : ~(y < x)
    BY <1>2, Zenon DEF OpToRel
  <1>4. \A y \in T : x <= y
    BY <1>3
  <1> QED BY <1>4, Zenon DEF Min
-----------------------------------------------------------------------------
(***************************************************************************)
(* Definitions by levels.  The model has several, each a recursive function *)
(* on the levels; that the function exists is shown once, for all of them. *)
(***************************************************************************)
\* What the levels of a walk are made from: the level before, and the round.
Grow(walk, arg, n, A) ==
    CASE walk = "nodes" -> UNION {Children(x) : x \in A}
      [] walk = "calls" -> UNION {checkArray(x[1], x[2]) \cup checkProperties(x[1], x[2]) : x \in A}
      [] walk = "along" -> UNION {ChildrenAt(x, arg[n]) : x \in A}
      [] walk = "lookup" -> UNION {Descend(x, arg[n], StrconvAtoi(arg[n])) : x \in A}
      [] walk = "walk" -> UNION {Descend(x, arg[n], Atoi(arg[n])) : x \in A}

Level(walk, arg, base, N, f) ==
    [n \in 0..N |-> IF n = 0 THEN base ELSE Grow(walk, arg, n, f[n - 1])]
Levels(walk, arg, base, N) == CHOOSE f : f = Level(walk, arg, base, N, f)

\* There is a function with these levels.
LEMMA LevelsExist ==
  ASSUME NEW walk, NEW arg, NEW base, NEW N \in Nat
  PROVE  \E f : f = Level(walk, arg, base, N, f)
  <1> DEFINE G(n, A) == Grow(walk, arg, n, A)
             L(n, f) == [m \in 0..n |-> IF m = 0 THEN base ELSE G(m, f[m - 1])]
             Bad == {n \in Nat : ~\E f : f = L(n, f)}
  <1> HIDE DEF G
  <1>1. SUFFICES Bad = {}
    BY <1>1, Zenon DEF Level, G
  <1>2. SUFFICES ASSUME Bad # {} PROVE FALSE
    OBVIOUS
  <1>3. Min(Bad) \in Bad /\ \A y \in Bad : Min(Bad) <= y
    <2>1. Bad \subseteq Nat
      BY Zenon
    <2> HIDE DEF Bad
    <2> QED BY <1>2, <2>1, LeastMember, Zenon
  <1>4. PICK n \in Nat : n \in Bad /\ \A y \in Bad : n <= y
    BY <1>3, Zenon
  <1>5. CASE n = 0
    <2>1. [m \in 0..0 |-> base] = L(0, [m \in 0..0 |-> base])
      <3>1. \A m \in 0..0 : m = 0
        OBVIOUS
      <3> QED BY <3>1, Zenon
    <2> QED BY <1>4, <1>5, <2>1, Zenon
  <1>6. CASE n # 0
    <2>1. PICK k \in Nat : n = k + 1
      <3>1. n - 1 \in Nat /\ n = (n - 1) + 1
        BY <1>6
      <3> QED BY <3>1, Zenon
    <2>2. k \notin Bad
      <3>1. ~(n <= k)
        BY <2>1
      <3> QED BY <1>4, <3>1, Zenon
    <2>3. PICK f : f = L(k, f)
      BY <2>2, Zenon
    <2> DEFINE g == [m \in 0..n |-> IF m = n THEN G(n, f[k]) ELSE f[m]]
    <2>4. DOMAIN f = 0..k /\ \A m \in 0..k : f[m] = IF m = 0 THEN base ELSE G(m, f[m - 1])
      BY <2>3, Zenon
    <2>5. ASSUME NEW m \in 0..n PROVE g[m] = IF m = 0 THEN base ELSE G(m, g[m - 1])
      <3>1. CASE m = n
        <4>1. n - 1 = k /\ k \in 0..n /\ k # n /\ n # 0
          BY <2>1
        <4>2. g[n - 1] = f[k] /\ g[m] = G(n, f[k])
          BY <3>1, <4>1, Zenon
        <4> QED BY <3>1, <4>1, <4>2, Zenon
      <3>2. CASE m # n /\ m = 0
        <4>1. 0 \in 0..k
          BY <2>1
        <4> QED BY <2>4, <3>2, <4>1, Zenon
      <3>3. CASE m # n /\ m # 0
        <4>1. m \in 0..k /\ m - 1 \in 0..n /\ m - 1 # n
          BY <2>1, <3>3
        <4>2. g[m] = f[m] /\ g[m - 1] = f[m - 1]
          BY <3>3, <4>1, Zenon
        <4>3. f[m] = G(m, f[m - 1])
          BY <2>4, <3>3, <4>1, Zenon
        <4> QED BY <3>3, <4>2, <4>3, Zenon
      <3> QED BY <3>1, <3>2, <3>3, Zenon
    <2>6. g = L(n, g)
      <3>1. g = [m \in 0..n |-> g[m]]
        BY Zenon
      <3> HIDE DEF g
      <3> QED BY <2>5, <3>1, Zenon
    <2> HIDE DEF g
    <2> QED BY <1>4, <2>6, Zenon
  <1> QED BY <1>5, <1>6, Zenon

LEMMA LevelsUnfold ==
  ASSUME NEW walk, NEW arg, NEW base, NEW N \in Nat
  PROVE  /\ Levels(walk, arg, base, N)[0] = base
         /\ \A n \in 1..N : Levels(walk, arg, base, N)[n] = Grow(walk, arg, n, Levels(walk, arg, base, N)[n - 1])
  <1>1. PICK f : f = Levels(walk, arg, base, N) /\ f = Level(walk, arg, base, N, f)
    BY LevelsExist, Zenon DEF Levels
  <1>2. \A n \in 0..N : f[n] = IF n = 0 THEN base ELSE Grow(walk, arg, n, f[n - 1])
    BY <1>1, Zenon DEF Level
  <1>3. 0 \in 0..N /\ \A n \in 1..N : n \in 0..N /\ n # 0
    OBVIOUS
  <1> QED BY <1>1, <1>2, <1>3, Zenon

\* The recursive definitions of the model, unfolded.
LEMMA NodesUnfold ==
  ASSUME NEW s
  PROVE  /\ Nodes(s)[0] = {s}
         /\ \A n \in 1..MaxDepth : Nodes(s)[n] = UNION {Children(x) : x \in Nodes(s)[n - 1]}
  <1>1. \A n, A : Grow("nodes", s, n, A) = UNION {Children(x) : x \in A}
    BY Zenon DEF Grow
  <1> DEFINE F(f) == [n \in 0..MaxDepth |-> IF n = 0 THEN {s} ELSE UNION {Children(x) : x \in f[n - 1]}]
  <1>2. \A f : Level("nodes", s, {s}, MaxDepth, f) = F(f)
    BY <1>1, Zenon DEF Level
  <1>3. Nodes(s) = CHOOSE f : f = F(f)
    BY Zenon DEF Nodes
  <1>4. Nodes(s) = Levels("nodes", s, {s}, MaxDepth)
    <2> HIDE DEF F
    <2> QED BY <1>2, <1>3, Zenon DEF Levels
  <1>5. /\ Levels("nodes", s, {s}, MaxDepth)[0] = {s}
        /\ \A n \in 1..MaxDepth : Levels("nodes", s, {s}, MaxDepth)[n]
                = Grow("nodes", s, n, Levels("nodes", s, {s}, MaxDepth)[n - 1])
    <2>1. PICK base : base = {s}
      BY Zenon
    <2>2. MaxDepth \in Nat
      BY DepthAssumption, Zenon
    <2> QED BY <2>1, <2>2, LevelsUnfold
  <1> QED BY <1>1, <1>4, <1>5, Zenon

\* The calls that one call of validate makes.
Below(x) == checkArray(x[1], x[2]) \cup checkProperties(x[1], x[2])

LEMMA CallsUnfold ==
  ASSUME NEW s, NEW v
  PROVE  /\ Calls(s, v)[0] = {<<s, v>>}
         /\ \A n \in 1..MaxDepth : Calls(s, v)[n] = UNION {Below(x) : x \in Calls(s, v)[n - 1]}
  <1>1. \A n, A : Grow("calls", s, n, A) = UNION {Below(x) : x \in A}
    BY Zenon DEF Grow, Below
  <1> DEFINE F(f) == [n \in 0..MaxDepth |-> IF n = 0 THEN {<<s, v>>} ELSE UNION {Below(x) : x \in f[n - 1]}]
  <1>2. \A f : Level("calls", s, {<<s, v>>}, MaxDepth, f) = F(f)
    BY <1>1, Zenon DEF Level
  <1>3. Calls(s, v) = CHOOSE f : f = F(f)
    BY Zenon DEF Calls, Below
  <1>4. Calls(s, v) = Levels("calls", s, {<<s, v>>}, MaxDepth)
    <2> HIDE DEF F
    <2> QED BY <1>2, <1>3, Zenon DEF Levels
  <1>5. /\ Levels("calls", s, {<<s, v>>}, MaxDepth)[0] = {<<s, v>>}
        /\ \A n \in 1..MaxDepth : Levels("calls", s, {<<s, v>>}, MaxDepth)[n]
                = Grow("calls", s, n, Levels("calls", s, {<<s, v>>}, MaxDepth)[n - 1])
    <2>1. PICK base : base = {<<s, v>>}
      BY Zenon
    <2>2. MaxDepth \in Nat
      BY DepthAssumption, Zenon
    <2> QED BY <2>1, <2>2, LevelsUnfold
  <1> QED BY <1>1, <1>4, <1>5, Zenon

LEMMA CallsStep ==
  ASSUME NEW s, NEW v, NEW n \in 1..MaxDepth
  PROVE  \A y : y \in Calls(s, v)[n] <=> \E x \in Calls(s, v)[n - 1] : y \in Below(x)
  <1>1. Calls(s, v)[n] = UNION {Below(x) : x \in Calls(s, v)[n - 1]}
    BY CallsUnfold
  <1> QED BY <1>1, Zenon

LEMMA AlongUnfold ==
  ASSUME NEW s, NEW path, Len(path) \in Nat
  PROVE  /\ Along(s, path)[0] = {s}
         /\ \A n \in 1..Len(path) : \A y :
              y \in Along(s, path)[n] <=> \E x \in Along(s, path)[n - 1] : y \in ChildrenAt(x, path[n])
  <1>1. \A n, A : Grow("along", path, n, A) = UNION {ChildrenAt(x, path[n]) : x \in A}
    BY Zenon DEF Grow
  <1> DEFINE F(f) == [n \in 0..Len(path) |-> IF n = 0 THEN {s} ELSE UNION {ChildrenAt(x, path[n]) : x \in f[n - 1]}]
  <1>2. \A f : Level("along", path, {s}, Len(path), f) = F(f)
    BY <1>1, Zenon DEF Level
  <1>3. Along(s, path) = CHOOSE f : f = F(f)
    BY Zenon DEF Along
  <1>4. Along(s, path) = Levels("along", path, {s}, Len(path))
    <2> HIDE DEF F
    <2> QED BY <1>2, <1>3, Zenon DEF Levels
  <1>5. /\ Levels("along", path, {s}, Len(path))[0] = {s}
        /\ \A n \in 1..Len(path) : Levels("along", path, {s}, Len(path))[n]
                = Grow("along", path, n, Levels("along", path, {s}, Len(path))[n - 1])
    <2>1. PICK base : base = {s}
      BY Zenon
    <2>2. Len(path) \in Nat
      BY Zenon
    <2> QED BY <2>1, <2>2, LevelsUnfold
  <1>6. ASSUME NEW n \in 1..Len(path), NEW y
        PROVE  y \in Along(s, path)[n] <=> \E x \in Along(s, path)[n - 1] : y \in ChildrenAt(x, path[n])
    <2>1. PICK A : A = Along(s, path)[n - 1]
      BY Zenon
    <2>2. Along(s, path)[n] = Grow("along", path, n, A)
      BY <1>4, <1>5, <2>1, Zenon
    <2>3. Along(s, path)[n] = UNION {ChildrenAt(x, path[n]) : x \in A}
      BY <1>1, <2>2, Zenon
    <2> QED BY <2>1, <2>3, Zenon
  <1>7. Along(s, path)[0] = {s}
    BY <1>4, <1>5, Zenon
  <1> QED BY <1>6, <1>7, Zenon

\* The values at the first n segments of a path, for a reference and for a
\* condition.
LookedUp(at, doc, path) ==
    /\ at[0] = {doc}
    /\ \A n \in 1..Len(path) : \A u :
        u \in at[n] <=> \E x \in at[n - 1] : u \in Descend(x, path[n], StrconvAtoi(path[n]))

LEMMA LookupUnfold ==
  ASSUME NEW a, Decodes(a), NEW path, Len(path) \in Nat
  PROVE  \E at : LookedUp(at, a.doc, path) /\ LookupPath(a, path) = at[Len(path)]
  <1>1. \A n, A : Grow("lookup", path, n, A) = UNION {Descend(x, path[n], StrconvAtoi(path[n])) : x \in A}
    BY Zenon DEF Grow
  <1> DEFINE F(f) == [n \in 0..Len(path) |->
                IF n = 0 THEN {a.doc}
                ELSE UNION {Descend(x, path[n], StrconvAtoi(path[n])) : x \in f[n - 1]}]
             at == Levels("lookup", path, {a.doc}, Len(path))
  <1>2. \A f : Level("lookup", path, {a.doc}, Len(path), f) = F(f)
    BY <1>1, Zenon DEF Level
  <1>3. LookupPath(a, path) = (CHOOSE f : f = F(f))[Len(path)]
    BY Zenon DEF LookupPath
  <1>4. LookupPath(a, path) = at[Len(path)]
    <2> HIDE DEF F
    <2> QED BY <1>2, <1>3, Zenon DEF Levels
  <1>5. at[0] = {a.doc} /\ \A n \in 1..Len(path) : at[n] = Grow("lookup", path, n, at[n - 1])
    <2>1. PICK base : base = {a.doc}
      BY Zenon
    <2> QED BY <2>1, LevelsUnfold
  <1> HIDE DEF at
  <1>6. ASSUME NEW n \in 1..Len(path), NEW u
        PROVE  u \in at[n] <=> \E x \in at[n - 1] : u \in Descend(x, path[n], StrconvAtoi(path[n]))
    <2>1. PICK A : A = at[n - 1]
      BY Zenon
    <2>2. at[n] = Grow("lookup", path, n, A)
      BY <1>4, <1>5, <2>1, Zenon
    <2>3. at[n] = UNION {Descend(x, path[n], StrconvAtoi(path[n])) : x \in A}
      BY <1>1, <2>2, Zenon
    <2> QED BY <2>1, <2>3, Zenon
  <1>7. LookedUp(at, a.doc, path)
    BY <1>5, <1>6, Zenon DEF LookedUp
  <1> QED BY <1>4, <1>7, Zenon

Walked(at, doc, path) ==
    /\ at[0] = {doc}
    /\ \A n \in 1..Len(path) : \A u :
        u \in at[n] <=> \E x \in at[n - 1] : u \in Descend(x, path[n], Atoi(path[n]))

LEMMA WalkUnfold ==
  ASSUME NEW v, NEW path, Len(path) \in Nat
  PROVE  \E at : Walked(at, v, path) /\ WalkPath(v, path) = at[Len(path)]
  <1>1. \A n, A : Grow("walk", path, n, A) = UNION {Descend(x, path[n], Atoi(path[n])) : x \in A}
    BY Zenon DEF Grow
  <1> DEFINE F(f) == [n \in 0..Len(path) |->
                IF n = 0 THEN {v}
                ELSE UNION {Descend(x, path[n], Atoi(path[n])) : x \in f[n - 1]}]
             at == Levels("walk", path, {v}, Len(path))
  <1>2. \A f : Level("walk", path, {v}, Len(path), f) = F(f)
    BY <1>1, Zenon DEF Level
  <1>3. WalkPath(v, path) = (CHOOSE f : f = F(f))[Len(path)]
    BY Zenon DEF WalkPath
  <1>4. WalkPath(v, path) = at[Len(path)]
    <2> HIDE DEF F
    <2> QED BY <1>2, <1>3, Zenon DEF Levels
  <1>5. at[0] = {v} /\ \A n \in 1..Len(path) : at[n] = Grow("walk", path, n, at[n - 1])
    <2>1. PICK base : base = {v}
      BY Zenon
    <2> QED BY <2>1, LevelsUnfold
  <1> HIDE DEF at
  <1>6. ASSUME NEW n \in 1..Len(path), NEW u
        PROVE  u \in at[n] <=> \E x \in at[n - 1] : u \in Descend(x, path[n], Atoi(path[n]))
    <2>1. PICK A : A = at[n - 1]
      BY Zenon
    <2>2. at[n] = Grow("walk", path, n, A)
      BY <1>4, <1>5, <2>1, Zenon
    <2>3. at[n] = UNION {Descend(x, path[n], Atoi(path[n])) : x \in A}
      BY <1>1, <2>2, Zenon
    <2> QED BY <2>1, <2>3, Zenon
  <1>7. Walked(at, v, path)
    BY <1>5, <1>6, Zenon DEF Walked
  <1> QED BY <1>4, <1>7, Zenon
-----------------------------------------------------------------------------
(***************************************************************************)
(* Paths.                                                                  *)
(***************************************************************************)
\* A number below the modulus is its own remainder.
LEMMA SmallRemainder ==
  ASSUME NEW n \in Nat, NEW m \in Nat \ {0}, n < m
  PROVE  n % m = n
  OBVIOUS

\* The two conversions of an index agree where it has no sign and fits.
LEMMA ConversionsAgree ==
  ASSUME NEW g \in Segments, g.is # "minus",
         g.is = "digits" => g.num < 2^(WordSize - 1)
  PROVE  Atoi(g) = StrconvAtoi(g)
  <1>1. CASE g.is = "digits"
    <2> DEFINE half == 2^(WordSize - 1)
    <2>1. g.num \in Nat /\ half \in Nat \ {0} /\ 2^WordSize = 2 * half /\ g.num < half
      BY <1>1, WordAssumption DEF Segments
    <2>2. g.num % 2^WordSize = g.num
      <3> HIDE DEF half
      <3> QED BY <2>1, SmallRemainder
    <2>3. Wrap(g.num) = g.num
      BY <2>1, <2>2, Zenon DEF Wrap
    <2>4. {n \in {g.num} : n < half} = {g.num}
      BY <2>1, Zenon
    <2> QED BY <1>1, <2>3, <2>4, Zenon DEF Atoi, StrconvAtoi
  <1>2. CASE g.is # "digits"
    <2>1. g.is = "name"
      BY <1>2 DEF Segments
    <2> QED BY <1>2, <2>1, Zenon DEF Atoi, StrconvAtoi
  <1> QED BY <1>1, <1>2, Zenon

\* Then a condition and a reference read the same.
LEMMA WalksAgree ==
  ASSUME NEW a, Decodes(a), NEW path \in Seq(Segments),
         \A k \in 1..Len(path) :
            path[k].is # "minus" /\ (path[k].is = "digits" => path[k].num < 2^(WordSize - 1))
  PROVE  LookupPath(a, path) = WalkPath(a.doc, path)
  <1> DEFINE Own(f) == [n \in 0..Len(path) |->
                 IF n = 0 THEN {a.doc}
                 ELSE UNION {Descend(x, path[n], Atoi(path[n])) : x \in f[n - 1]}]
             Lib(f) == [n \in 0..Len(path) |->
                 IF n = 0 THEN {a.doc}
                 ELSE UNION {Descend(x, path[n], StrconvAtoi(path[n])) : x \in f[n - 1]}]
  <1>1. \A n \in 0..Len(path) : n # 0 => Atoi(path[n]) = StrconvAtoi(path[n])
    <2> SUFFICES ASSUME NEW n \in 0..Len(path), n # 0 PROVE Atoi(path[n]) = StrconvAtoi(path[n])
      BY Zenon
    <2>1. n \in 1..Len(path) /\ path[n] \in Segments
      OBVIOUS
    <2> QED BY <2>1, ConversionsAgree, Zenon
  <1>2. \A f : Own(f) = Lib(f)
    BY <1>1, Zenon
  <1>3. (CHOOSE f : f = Own(f)) = (CHOOSE f : f = Lib(f))
    <2> HIDE DEF Own, Lib
    <2> QED BY <1>2, Zenon
  <1>4. WalkPath(a.doc, path) = (CHOOSE f : f = Own(f))[Len(path)]
    BY Zenon DEF WalkPath
  <1>5. LookupPath(a, path) = (CHOOSE f : f = Lib(f))[Len(path)]
    BY Zenon DEF LookupPath
  <1> QED BY <1>3, <1>4, <1>5, Zenon
-----------------------------------------------------------------------------
(***************************************************************************)
(* Schemas.                                                                *)
(***************************************************************************)
\* Every call of validate is for a node that checkNode has seen.
LEMMA CallsAreNodes ==
  ASSUME NEW s, NEW v, NEW n \in 0..MaxDepth, NEW x \in Calls(s, v)[n]
  PROVE  x[1] \in Nodes(s)[n]
  <1> DEFINE Bad == {m \in 0..MaxDepth : \E y \in Calls(s, v)[m] : y[1] \notin Nodes(s)[m]}
  <1>1. SUFFICES Bad = {}
    BY <1>1, Zenon
  <1>2. SUFFICES ASSUME Bad # {} PROVE FALSE
    OBVIOUS
  <1>3. PICK m \in 0..MaxDepth : m \in Bad /\ \A y \in Bad : m <= y
    <2>1. Bad \subseteq Nat /\ Bad \subseteq 0..MaxDepth
      BY DepthAssumption
    <2>2. Min(Bad) \in Bad /\ \A y \in Bad : Min(Bad) <= y
      <3> HIDE DEF Bad
      <3> QED BY <1>2, <2>1, LeastMember, Zenon
    <2> HIDE DEF Bad
    <2> QED BY <2>1, <2>2, Zenon
  <1>4. PICK y \in Calls(s, v)[m] : y[1] \notin Nodes(s)[m]
    BY <1>3, Zenon
  <1>5. CASE m = 0
    <2>1. y = <<s, v>> /\ Nodes(s)[m] = {s}
      <3>1. Calls(s, v)[0] = {<<s, v>>}
        BY CallsUnfold, Zenon
      <3>2. Nodes(s)[0] = {s}
        BY NodesUnfold, Zenon
      <3> QED BY <1>4, <1>5, <3>1, <3>2, Zenon
    <2>2. y[1] = s
      BY <2>1
    <2> QED BY <1>4, <2>1, <2>2, Zenon
  <1>6. CASE m # 0
    <2>1. m \in 1..MaxDepth /\ m - 1 \in 0..MaxDepth /\ ~(m <= m - 1)
      BY <1>6, DepthAssumption
    <2>2. m - 1 \notin Bad
      BY <1>3, <2>1, Zenon
    <2>3. Nodes(s)[m] = UNION {Children(z) : z \in Nodes(s)[m - 1]}
      BY <2>1, NodesUnfold, Zenon
    <2>4. PICK z \in Calls(s, v)[m - 1] : y \in Below(z)
      BY <1>4, <2>1, CallsStep, Zenon
    <2>5. z[1] \in Nodes(s)[m - 1]
      BY <2>1, <2>2, <2>4, Zenon
    <2>6. y[1] \in Children(z[1])
      <3>1. PICK node, w : node = z[1] /\ w = z[2]
        BY Zenon
      <3>2. CASE y \in checkArray(node, w)
        <4>1. PICK child \in node.items, k \in 1..Len(w.items) : y = <<child, w.items[k]>>
          BY <3>2 DEF checkArray
        <4>2. y[1] = child
          BY <4>1
        <4> QED BY <3>1, <4>1, <4>2, Zenon DEF Children
      <3>3. CASE y \in checkProperties(node, w)
        <4>1. PICK name \in DOMAIN node.properties :
                node.properties[name] # NotASchema /\ y = <<node.properties[name], w.fields[name]>>
          BY <3>3, Zenon DEF checkProperties
        <4>2. y[1] = node.properties[name]
          BY <4>1
        <4> QED BY <3>1, <4>1, <4>2, Zenon DEF Children
      <3> QED BY <2>4, <3>1, <3>2, <3>3, Zenon DEF Below
    <2> QED BY <1>4, <2>3, <2>5, <2>6, Zenon
  <1> QED BY <1>5, <1>6, Zenon

\* The nodes for a segment are children of the node.
LEMMA ChildrenAtSegment ==
  ASSUME NEW s, NEW g
  PROVE  ChildrenAt(s, g) \subseteq Children(s)
  <1>1. CASE g.is = "name"
    BY <1>1, Zenon DEF ChildrenAt, Children
  <1>2. CASE g.is = "digits"
    BY <1>2, Zenon DEF ChildrenAt, Children
  <1>3. CASE g.is # "name" /\ g.is # "digits"
    <2>1. ChildrenAt(s, g) = {}
      BY <1>3, Zenon DEF ChildrenAt
    <2> QED BY <2>1, Zenon
  <1> QED BY <1>1, <1>2, <1>3, Zenon

\* What meets a schema that asks for a segment has a value there, and validate
\* holds that value against every node for the segment.
LEMMA AskedIsThere ==
  ASSUME NEW s, NEW w, NEW g \in Segments, Asks(s, g), ValidateOwn(s, w),
         w.is = "array" => Len(w.items) \in Nat,
         \A m \in s.min : m[2] \in Int
  PROVE  \E u \in Descend(w, g, StrconvAtoi(g)) :
            \A x : \A y \in ChildrenAt(x, g) : <<y, u>> \in Below(<<x, w>>)
  <1>1. \A x : Below(<<x, w>>) = checkArray(x, w) \cup checkProperties(x, w)
    <2>1. \A x : <<x, w>>[1] = x /\ <<x, w>>[2] = w
      OBVIOUS
    <2> QED BY <2>1, Zenon DEF Below
  <1>2. ASSUME NEW t, s.type = <<t>>, t # "integer" PROVE w.is = t
    <2>1. s.type # << >> /\ ToSet(s.type) = {t}
      <3>1. <<t>> # << >> /\ DOMAIN <<t>> = {1} /\ <<t>>[1] = t
        OBVIOUS
      <3> QED BY <1>2, <3>1 DEF ToSet
    <2> QED BY <1>2, <2>1, Zenon DEF ValidateOwn, checkType, matchesType
  <1>3. CASE g.is = "name"
    <2>1. s.type = <<"object">> /\ g.name \in s.required
      BY <1>3, Zenon DEF Asks
    <2>2. w.is = "object"
      <3>1. "object" # "integer"
        OBVIOUS
      <3> QED BY <1>2, <2>1, <3>1, Zenon
    <2>3. g.name \in DOMAIN w.fields
      BY <2>1, <2>2, Zenon DEF ValidateOwn, checkObject
    <2>4. w.fields[g.name] \in Descend(w, g, StrconvAtoi(g))
      BY <1>3, <2>2, <2>3, Zenon DEF Descend, SegText
    <2>5. ASSUME NEW x, NEW y \in ChildrenAt(x, g) PROVE <<y, w.fields[g.name]>> \in Below(<<x, w>>)
      <3>1. g.name \in DOMAIN x.properties /\ y = x.properties[g.name] /\ y # NotASchema
        BY <1>3, <2>5, Zenon DEF ChildrenAt
      <3>2. <<y, w.fields[g.name]>> \in checkProperties(x, w)
        BY <2>2, <2>3, <3>1, Zenon DEF checkProperties
      <3> QED BY <1>1, <3>2, Zenon
    <2> QED BY <2>4, <2>5, Zenon
  <1>4. CASE g.is = "digits"
    <2>1. /\ s.type = <<"array">> /\ g.num < 2^(WordSize - 1)
          /\ \E m \in s.min : m[1] = "array" /\ 2 * g.num < m[2]
      BY <1>4, Zenon DEF Asks
    <2>2. w.is = "array"
      <3>1. "array" # "integer"
        OBVIOUS
      <3> QED BY <1>2, <2>1, <3>1, Zenon
    <2>3. g.num \in Nat
      BY <1>4 DEF Segments
    <2>4. PICK m \in s.min : m[1] = "array" /\ 2 * g.num < m[2]
      BY <2>1, Zenon
    <2>5. 2 * Len(w.items) >= m[2]
      <3>1. Measure(w) = {2 * Len(w.items)}
        BY <2>2, Zenon DEF Measure
      <3> QED BY <2>2, <2>4, <3>1, Zenon DEF ValidateOwn, checkBounds
    <2>6. Len(w.items) \in Nat /\ m[2] \in Int
      BY <2>2, <2>4, Zenon
    <2>7. g.num \in 0..(Len(w.items) - 1) /\ g.num + 1 \in 1..Len(w.items)
      BY <2>3, <2>4, <2>5, <2>6
    <2>8. StrconvAtoi(g) = {g.num}
      BY <1>4, <2>1, Zenon DEF StrconvAtoi
    <2>9. w.items[g.num + 1] \in Descend(w, g, StrconvAtoi(g))
      BY <2>2, <2>7, <2>8, Zenon DEF Descend
    <2>10. ASSUME NEW x, NEW y \in ChildrenAt(x, g) PROVE <<y, w.items[g.num + 1]>> \in Below(<<x, w>>)
      <3>1. y \in x.items
        BY <1>4, <2>10, Zenon DEF ChildrenAt
      <3>2. <<y, w.items[g.num + 1]>> \in checkArray(x, w)
        BY <2>2, <2>7, <3>1 DEF checkArray
      <3> QED BY <1>1, <3>2, Zenon
    <2> QED BY <2>9, <2>10, Zenon
  <1>5. g.is = "name" \/ g.is = "digits"
    BY Zenon DEF Asks
  <1> QED BY <1>3, <1>4, <1>5, Zenon

\* So a reference along a required path of an accepted document finds a value.
LEMMA RequiredResolves ==
  ASSUME NEW s, NEW a, Decodes(a), NEW path \in Seq(Segments),
         Validate(s, a.doc), Requires(s, path),
         \A x \in Nodes(s)[MaxDepth] : Children(x) = {},
         \A n \in 0..MaxDepth : \A x \in Calls(s, a.doc)[n] :
            /\ x[2].is = "array" => Len(x[2].items) \in Nat
            /\ \A m \in x[1].min : m[2] \in Int
  PROVE  LookupPath(a, path) # {}
  <1>1. Len(path) \in Nat /\ \A n \in 1..Len(path) : path[n] \in Segments
    OBVIOUS
  <1>2. PICK at : LookedUp(at, a.doc, path) /\ LookupPath(a, path) = at[Len(path)]
    BY <1>1, LookupUnfold, Zenon
  <1> DEFINE Reached(n) == \E w \in at[n] : \A x \in Along(s, path)[n] :
                              n \in 0..MaxDepth /\ <<x, w>> \in Calls(s, a.doc)[n]
             Bad == {n \in 0..Len(path) : ~Reached(n)}
  <1>3. SUFFICES Bad = {}
    <2>1. Len(path) \in 0..Len(path)
      BY <1>1
    <2>2. Reached(Len(path))
      BY <1>3, <2>1, Zenon
    <2> QED BY <1>2, <2>2, Zenon
  <1>4. SUFFICES ASSUME Bad # {} PROVE FALSE
    OBVIOUS
  <1> HIDE DEF Reached
  <1>5. PICK n \in 0..Len(path) : n \in Bad /\ \A y \in Bad : n <= y
    <2>1. Bad \subseteq Nat /\ Bad \subseteq 0..Len(path)
      BY <1>1
    <2>2. Min(Bad) \in Bad /\ \A y \in Bad : Min(Bad) <= y
      <3> HIDE DEF Bad
      <3> QED BY <1>4, <2>1, LeastMember, Zenon
    <2> HIDE DEF Bad
    <2> QED BY <2>1, <2>2, Zenon
  <1>6. CASE n = 0
    <2>1. Along(s, path)[0] = {s}
      BY <1>1, AlongUnfold, Zenon
    <2>2. Calls(s, a.doc)[0] = {<<s, a.doc>>}
      BY CallsUnfold, Zenon
    <2>3. 0 \in 0..MaxDepth
      BY DepthAssumption
    <2>4. Reached(0)
      BY <1>2, <2>1, <2>2, <2>3, Zenon DEF Reached, LookedUp
    <2> QED BY <1>5, <1>6, <2>4, Zenon
  <1>7. CASE n # 0
    <2>1. /\ n \in 1..Len(path) /\ n - 1 \in 0..Len(path) /\ ~(n <= n - 1)
          /\ \A k \in 0..MaxDepth : k = n - 1 /\ k # MaxDepth => n \in 1..MaxDepth /\ n \in 0..MaxDepth
      BY <1>1, <1>7, DepthAssumption
    <2>2. Reached(n - 1)
      BY <1>5, <2>1, Zenon
    <2>3. PICK w \in at[n - 1] : \A x \in Along(s, path)[n - 1] :
                              n - 1 \in 0..MaxDepth /\ <<x, w>> \in Calls(s, a.doc)[n - 1]
      BY <2>2, Zenon DEF Reached
    <2>4. PICK x0 \in Along(s, path)[n - 1] : Asks(x0, path[n])
      BY <2>1, Zenon DEF Requires
    <2>5. n - 1 \in 0..MaxDepth /\ <<x0, w>> \in Calls(s, a.doc)[n - 1]
      BY <2>3, <2>4, Zenon
    <2>6. \A x : <<x, w>>[1] = x /\ <<x, w>>[2] = w
      OBVIOUS
    <2>7. ValidateOwn(x0, w)
      BY <2>5, <2>6, Zenon DEF Validate
    <2>8. /\ w.is = "array" => Len(w.items) \in Nat
          /\ \A m \in x0.min : m[2] \in Int
      BY <2>5, <2>6, Zenon
    <2>9. PICK u \in Descend(w, path[n], StrconvAtoi(path[n])) :
            \A x : \A y \in ChildrenAt(x, path[n]) : <<y, u>> \in Below(<<x, w>>)
      <3>1. path[n] \in Segments
        BY <1>1, <2>1, Zenon
      <3> QED BY <2>4, <2>7, <2>8, <3>1, AskedIsThere, Zenon
    <2>10. u \in at[n]
      BY <1>2, <2>1, <2>3, <2>9, Zenon DEF LookedUp
    <2>11. ASSUME NEW y \in Along(s, path)[n]
           PROVE  n \in 0..MaxDepth /\ <<y, u>> \in Calls(s, a.doc)[n]
      <3>1. PICK x \in Along(s, path)[n - 1] : y \in ChildrenAt(x, path[n])
        BY <1>1, <2>1, <2>11, AlongUnfold, Zenon
      <3>2. <<x, w>> \in Calls(s, a.doc)[n - 1] /\ <<y, u>> \in Below(<<x, w>>)
        BY <2>3, <2>9, <3>1, Zenon
      <3>3. x \in Nodes(s)[n - 1]
        <4>1. <<x, w>>[1] \in Nodes(s)[n - 1]
          BY <2>5, <3>2, CallsAreNodes, Zenon
        <4> QED BY <2>6, <4>1, Zenon
      <3>4. n - 1 # MaxDepth
        <4>1. Children(x) # {}
          BY <3>1, ChildrenAtSegment, Zenon
        <4> QED BY <3>3, <4>1, Zenon
      <3>5. n \in 1..MaxDepth /\ n \in 0..MaxDepth
        BY <2>1, <2>5, <3>4, Zenon
      <3> QED BY <3>2, <3>5, CallsStep, Zenon
    <2>12. Reached(n)
      BY <2>10, <2>11, Zenon DEF Reached
    <2> QED BY <1>5, <2>12, Zenon
  <1> QED BY <1>6, <1>7, Zenon
-----------------------------------------------------------------------------
(***************************************************************************)
(* Routers.                                                                *)
(***************************************************************************)
\* A condition with one operator, whose pattern compiles, can be evaluated.
LEMMA Evaluates ==
  ASSUME NEW c, NEW doc, Cardinality(Operators(c)) = 1, \A re \in c.matches : re.valid
  PROVE  EvaluateCondition(c, doc) \in {"yes", "no"}
  <1>1. IsFiniteSet(Operators(c))
    <2>1. Operators(c) \subseteq {"equals", "not_equals", "in", "matches", "exists"}
      BY Zenon DEF Operators
    <2>2. IsFiniteSet({"equals", "not_equals", "in", "matches", "exists"})
      <3>1. IsFiniteSet({"equals"}) /\ IsFiniteSet({"not_equals"}) /\ IsFiniteSet({"in"})
            /\ IsFiniteSet({"matches"}) /\ IsFiniteSet({"exists"})
        BY FS_Singleton, Zenon
      <3>2. IsFiniteSet({"equals"} \cup {"not_equals"} \cup {"in"} \cup {"matches"} \cup {"exists"})
        BY <3>1, FS_Union, Zenon
      <3>3. {"equals", "not_equals", "in", "matches", "exists"}
              = {"equals"} \cup {"not_equals"} \cup {"in"} \cup {"matches"} \cup {"exists"}
        BY Zenon
      <3> QED BY <3>2, <3>3, Zenon
    <2> QED BY <2>1, <2>2, FS_Subset, Zenon
  <1>2. \E op : Operators(c) = {op}
    BY <1>1, FS_Singleton, Zenon
  <1>3. \E op \in {"equals", "not_equals", "in", "matches", "exists"} : Operators(c) = {op}
    BY <1>2, Zenon DEF Operators
  <1> QED BY <1>3, Zenon DEF EvaluateCondition, Truth

\* The routes with a condition, and those of them whose condition holds.
Rules(q) == {k \in 1..Len(q) : ~q[k].default}
Held(q, a) == {k \in Rules(q) : \E c \in q[k].when : EvaluateCondition(c, a.doc) = "yes"}

\* The walk ends at a route that holds, or else at the default.
LEMMA RouterDecides ==
  ASSUME NEW a, Decodes(a), NEW q, Len(q) \in Nat, ValidRoutes(q),
         \A k \in 1..Len(q) : \A c, d \in q[k].when : c = d,
         \A k \in Rules(q) : \A c \in q[k].when : \A re \in c.matches : re.valid
  PROVE  /\ Held(q, a) # {} => \E k \in Held(q, a) : PickRoute(q, a) = Goto(q[k].goto)
         /\ Held(q, a) = {} /\ Rules(q) # 1..Len(q) =>
                \E k \in (1..Len(q)) \ Rules(q) : PickRoute(q, a) = Goto(q[k].goto)
  <1>0. PICK rules, held :
            /\ rules = Rules(q) /\ held = Held(q, a)
            /\ rules = {k \in 1..Len(q) : ~q[k].default}
            /\ held = {k \in rules : \E c \in q[k].when : EvaluateCondition(c, a.doc) = "yes"}
    BY Zenon DEF Rules, Held
  <1>1. \A k \in rules : \E c \in q[k].when :
            /\ Met(q[k], a) = EvaluateCondition(c, a.doc)
            /\ Met(q[k], a) \in {"yes", "no"}
    <2> SUFFICES ASSUME NEW k \in rules
                 PROVE  \E c \in q[k].when :
                            /\ Met(q[k], a) = EvaluateCondition(c, a.doc)
                            /\ Met(q[k], a) \in {"yes", "no"}
      BY Zenon
    <2>1. PICK c \in q[k].when : Cardinality(Operators(c)) = 1
      BY <1>0, Zenon DEF ValidRoutes
    <2>2. (CHOOSE d \in q[k].when : TRUE) = c
      BY <1>0, <2>1, Zenon
    <2>3. Met(q[k], a) = EvaluateCondition(c, a.doc)
      BY <2>2, Zenon DEF Met
    <2>4. EvaluateCondition(c, a.doc) \in {"yes", "no"}
      BY <1>0, <2>1, Evaluates, Zenon
    <2> QED BY <2>3, <2>4, Zenon
  <1>2. Stops(q, a) = held
    <2>1. ASSUME NEW k \in Stops(q, a) PROVE k \in held
      <3>1. k \in rules /\ Met(q[k], a) # "no"
        BY <1>0, <2>1, Zenon DEF Stops
      <3>2. PICK c \in q[k].when : Met(q[k], a) = EvaluateCondition(c, a.doc) /\ Met(q[k], a) \in {"yes", "no"}
        BY <1>1, <3>1, Zenon
      <3>3. EvaluateCondition(c, a.doc) = "yes"
        BY <3>1, <3>2, Zenon
      <3> QED BY <1>0, <3>1, <3>3, Zenon
    <2>2. ASSUME NEW k \in held PROVE k \in Stops(q, a)
      <3>1. k \in rules /\ \E c \in q[k].when : EvaluateCondition(c, a.doc) = "yes"
        BY <1>0, <2>2, Zenon
      <3>2. Met(q[k], a) = "yes" /\ q[k].when # {}
        BY <1>0, <1>1, <3>1, ZenonT(60)
      <3> QED BY <1>0, <3>1, <3>2, Zenon DEF Stops
    <2> QED BY <2>1, <2>2, Zenon
  <1>3. CASE held # {}
    <2>1. Min(held) \in held
      <3>1. held \subseteq Nat
        <4>1. 1..Len(q) \subseteq Nat
          OBVIOUS
        <4> QED BY <1>0, <4>1, Zenon
      <3> QED BY <1>3, <3>1, LeastMember, Zenon
    <2>2. Met(q[Min(held)], a) = "yes"
      <3>1. PICK k : k = Min(held)
        BY Zenon
      <3>2. k \in rules /\ \E c \in q[k].when : EvaluateCondition(c, a.doc) = "yes"
        BY <1>0, <2>1, <3>1, Zenon
      <3>3. PICK c \in q[k].when : EvaluateCondition(c, a.doc) = "yes"
        BY <3>2, Zenon
      <3>4. PICK d \in q[k].when : Met(q[k], a) = EvaluateCondition(d, a.doc)
        BY <1>1, <3>2, Zenon
      <3>5. c = d
        BY <1>0, <3>2, <3>3, <3>4, Zenon
      <3> QED BY <3>1, <3>3, <3>4, <3>5, Zenon
    <2>3. PickRoute(q, a) = Goto(q[Min(held)].goto)
      BY <1>2, <1>3, <2>2, Zenon DEF PickRoute
    <2> QED BY <1>0, <1>3, <2>1, <2>3, Zenon
  <1>4. CASE held = {} /\ rules # 1..Len(q)
    <2>1. Defaults(q) = (1..Len(q)) \ rules /\ Defaults(q) # {}
      BY <1>0, <1>4, Zenon DEF Defaults
    <2>2. Max(Defaults(q)) \in Defaults(q)
      <3>1. IsFiniteSet(Defaults(q)) /\ Cardinality(Defaults(q)) \in Nat
        <4>1. IsFiniteSet(1..Len(q))
          BY FS_Interval
        <4> QED BY <4>1, FS_Subset, FS_CardinalityType, Zenon DEF Defaults
      <3>2. Cardinality(Defaults(q)) = 1
        <4>1. Cardinality(Defaults(q)) # 0
          BY <2>1, <3>1, FS_EmptySet, Zenon
        <4>2. Cardinality(Defaults(q)) <= 1
          BY Zenon DEF ValidRoutes
        <4> QED BY <3>1, <4>1, <4>2
      <3>3. PICK k : Defaults(q) = {k}
        BY <3>1, <3>2, FS_Singleton, Zenon
      <3>4. k \in Nat
        <4>1. k \in 1..Len(q)
          BY <3>3, Zenon DEF Defaults
        <4> QED BY <4>1
      <3>5. k >= k
        BY <3>4
      <3> QED BY <3>3, <3>5, Zenon DEF Max
    <2>3. PickRoute(q, a) = Goto(q[Max(Defaults(q))].goto)
      BY <1>2, <1>4, <2>1, Zenon DEF PickRoute
    <2> QED BY <1>0, <1>4, <2>1, <2>2, <2>3, Zenon
  <1> QED BY <1>0, <1>3, <1>4, Zenon

\* A condition on one property of an object reads that property.
LEMMA PropertyRead ==
  ASSUME NEW v, v.is = "object", NEW name \in DOMAIN v.fields
  PROVE  WalkPath(v, <<Name(name)>>) = {v.fields[name]}
  <1> DEFINE path == <<Name(name)>>
  <1>1. Len(path) = 1 /\ Len(path) \in Nat /\ path[1] = Name(name) /\ 1 \in 1..Len(path) /\ 1 - 1 = 0
    OBVIOUS
  <1>2. Name(name).is = "name" /\ Name(name).name = name
    BY DEF Name
  <1> HIDE DEF path
  <1>3. PICK at : Walked(at, v, path) /\ WalkPath(v, path) = at[Len(path)]
    BY <1>1, WalkUnfold, Zenon
  <1>4. Descend(v, Name(name), Atoi(Name(name))) = {v.fields[name]}
    <2>1. SegText(Name(name)) = name
      BY <1>2, Zenon DEF SegText
    <2>2. DOMAIN v.fields \cap {name} = {name}
      BY Zenon
    <2>3. Descend(v, Name(name), Atoi(Name(name))) = {v.fields[k] : k \in {name}}
      BY <2>1, <2>2, Zenon DEF Descend
    <2> QED BY <2>3, Zenon
  <1>5. \A u : u \in at[1] <=> \E x \in at[0] : u \in Descend(x, Name(name), Atoi(Name(name)))
    BY <1>1, <1>3, Zenon DEF Walked
  <1>6. at[0] = {v}
    BY <1>3, Zenon DEF Walked
  <1>7. at[1] = {v.fields[name]}
    BY <1>4, <1>5, <1>6, Zenon
  <1> QED BY <1>1, <1>3, <1>7, Zenon DEF path

\* A text or a value is loosely equal to itself, and to no value that reads
\* differently.
LEMMA LooselyEqual ==
  ASSUME NEW v, NEW w, v # w => Stringify(v) # Stringify(w)
  PROVE  LooseEqual(v, w) <=> v = w
  <1>1. w.is = "string" => Stringify(w) = w.text
    BY Zenon DEF Stringify
  <1> QED BY <1>1, Zenon DEF LooseEqual

\* The schemas at the last level have no schemas below them.
Shallow(s) == \A x \in Nodes(s)[MaxDepth] : Children(x) = {}

\* A route has at most one condition.
OneRule(q) == \A k \in 1..Len(q) : \A c, d \in q[k].when : c = d

\* Outcome o is the route for the value of property name.
Lands(q, a, name, o) ==
  \E k \in 1..Len(q) : \E c \in q[k].when :
    /\ ~q[k].default
    /\ c.equals = {a.doc.fields[name]}
    /\ o = Goto(q[k].goto)

\* The router sends an accepted answer to the route of its value.
LEMMA EnumDecides ==
  ASSUME NEW s, NEW a, Decodes(a), CheckNode(s), Accepted(s, a), Shallow(s),
         NEW q, Len(q) \in Nat, OneRule(q),
         NEW name, Covers(s, name, q)
  PROVE  Lands(q, a, name, PickRoute(q, a))
  <1> SUFFICES \E k \in 1..Len(q) : \E c \in q[k].when :
                  /\ ~q[k].default
                  /\ c.equals = {a.doc.fields[name]}
                  /\ PickRoute(q, a) = Goto(q[k].goto)
    BY Zenon DEF Lands
  <1> /\ \A x \in Nodes(s)[MaxDepth] : Children(x) = {}
      /\ \A k \in 1..Len(q) : \A c, d \in q[k].when : c = d
    BY Zenon DEF Shallow, OneRule
  <1> DEFINE Whens(v) == {k \in 1..Len(q) : \E c \in q[k].when : c.equals = {v} /\ ~q[k].default}
             p == s.properties[name]
             val == a.doc.fields[name]
  <1>1. /\ name \in s.required \cap DOMAIN s.properties
        /\ ValidRoutes(q)
        /\ \A k \in Rules(q) : \A c \in q[k].when : Operators(c) = {"equals"} /\ c.field = <<Name(name)>>
        /\ p.enum # {}
        /\ \A values \in p.enum :
            /\ \A v, w \in values : v # w => Stringify(v) # Stringify(w)
            /\ \A v \in values : Cardinality(Whens(v)) = 1
            /\ Rules(q) = UNION {Whens(v) : v \in values}
    BY Zenon DEF Covers, Rules
  <1>2. 0 \in 0..MaxDepth /\ s \in Nodes(s)[0] /\ <<s, a.doc>> \in Calls(s, a.doc)[0]
    <2>1. 0 \in 0..MaxDepth
      BY DepthAssumption
    <2>2. Nodes(s)[0] = {s}
      BY NodesUnfold, Zenon
    <2>3. Calls(s, a.doc)[0] = {<<s, a.doc>>}
      BY CallsUnfold, Zenon
    <2> QED BY <2>1, <2>2, <2>3, Zenon
  <1>3. /\ \A y, v : <<y, v>>[1] = y /\ <<y, v>>[2] = v
        /\ a.doc.is = "object" /\ Validate(s, a.doc)
    <2>1. \A y, v : <<y, v>>[1] = y /\ <<y, v>>[2] = v
      OBVIOUS
    <2> QED BY <2>1, Zenon DEF Accepted
  <1>4. name \in DOMAIN a.doc.fields
    <2>1. ValidateOwn(s, a.doc)
      BY <1>2, <1>3, Zenon DEF Validate
    <2> QED BY <1>1, <1>3, <2>1, Zenon DEF ValidateOwn, checkObject
  <1>5. p # NotASchema /\ p \in Children(s)
    <2>1. p # NotASchema
      BY <1>1, <1>2, Zenon DEF CheckNode, CheckOwn
    <2> QED BY <1>1, <2>1, Zenon DEF Children
  <1>6. checkEnum(p, val)
    <2>1. MaxDepth # 0
      BY <1>2, <1>5, Zenon
    <2>2. 1 \in 1..MaxDepth /\ 1 \in 0..MaxDepth /\ 1 - 1 = 0
      BY <2>1, DepthAssumption
    <2>3. <<p, val>> \in checkProperties(s, a.doc)
      BY <1>1, <1>3, <1>4, <1>5, Zenon DEF checkProperties
    <2>4. <<p, val>> \in Below(<<s, a.doc>>)
      BY <1>3, <2>3, Zenon DEF Below
    <2> HIDE DEF p, val
    <2>5. <<p, val>> \in Calls(s, a.doc)[1]
      BY <1>2, <2>2, <2>4, CallsStep, Zenon
    <2>6. ValidateOwn(p, val)
      BY <1>3, <2>2, <2>5, Zenon DEF Validate
    <2> QED BY <2>6, Zenon DEF ValidateOwn
  <1>7. PICK values \in p.enum : val \in values
    BY <1>1, <1>6, Zenon DEF checkEnum
  <1>8. \A v \in values : LooseEqual(val, v) <=> val = v
    <2> SUFFICES ASSUME NEW v \in values PROVE LooseEqual(val, v) <=> val = v
      BY Zenon
    <2>1. val # v => Stringify(val) # Stringify(v)
      BY <1>1, <1>7, Zenon
    <2> HIDE DEF val
    <2> QED BY <2>1, LooselyEqual, Zenon
  <1>9. ASSUME NEW k \in Rules(q), NEW c \in q[k].when
        PROVE  /\ EvaluateCondition(c, a.doc) = "yes" <=> \E x \in c.equals : LooseEqual(val, x)
               /\ c.matches = {}
    <2>1. Operators(c) = {"equals"} /\ c.field = <<Name(name)>>
      BY <1>1, <1>9, Zenon
    <2>2. WalkPath(a.doc, c.field) = {val}
      <3>1. PICK v : v = a.doc
        BY Zenon
      <3>2. v.is = "object" /\ name \in DOMAIN v.fields
        BY <1>3, <1>4, <3>1, Zenon
      <3>3. WalkPath(v, <<Name(name)>>) = {v.fields[name]}
        BY <3>2, PropertyRead, Zenon
      <3> QED BY <2>1, <3>1, <3>3, Zenon
    <2>3. c.matches = {}
      <3>1. "matches" \notin Operators(c)
        BY <2>1
      <3> QED BY <3>1 DEF Operators
    <2>4. EvaluateCondition(c, a.doc) = Truth(\E v \in {val} : \E x \in c.equals : LooseEqual(v, x))
      <3>1. {"equals"} # {"exists"}
        OBVIOUS
      <3> HIDE DEF val
      <3> QED BY <2>1, <2>2, <3>1, Zenon DEF EvaluateCondition
    <2> HIDE DEF val
    <2>5. (\E v \in {val} : \E x \in c.equals : LooseEqual(v, x))
            <=> \E x \in c.equals : LooseEqual(val, x)
      OBVIOUS
    <2>6. "yes" # "no"
      OBVIOUS
    <2>7. \A b : b \in BOOLEAN => (Truth(b) = "yes" <=> b)
      BY <2>6, Zenon DEF Truth
    <2> QED BY <2>3, <2>4, <2>5, <2>7, Zenon
  <1> HIDE DEF p, val, Whens
  <1>10. Held(q, a) # {}
    <2>1. Cardinality(Whens(val)) = 1 /\ Rules(q) = UNION {Whens(v) : v \in values}
      BY <1>1, <1>7, Zenon
    <2>2. Whens(val) # {}
      <3>1. Cardinality({}) = 0
        BY FS_EmptySet, Zenon
      <3>2. 0 # 1
        OBVIOUS
      <3> QED BY <2>1, <3>1, <3>2, Zenon
    <2>3. PICK k \in Rules(q) : k \in Whens(val)
      BY <1>7, <2>1, <2>2, Zenon
    <2>4. PICK c \in q[k].when : c.equals = {val}
      BY <2>3, Zenon DEF Whens
    <2>5. EvaluateCondition(c, a.doc) = "yes"
      BY <1>7, <1>8, <1>9, <2>4, Zenon
    <2> QED BY <2>3, <2>4, <2>5, Zenon DEF Held
  <1>11. PICK k \in Held(q, a) : PickRoute(q, a) = Goto(q[k].goto)
    <2>1. \A k \in Rules(q) : \A c \in q[k].when : \A re \in c.matches : re.valid
      BY <1>9, Zenon
    <2>2. Held(q, a) # {} => \E k \in Held(q, a) : PickRoute(q, a) = Goto(q[k].goto)
      BY <1>1, <2>1, RouterDecides, Zenon
    <2> QED BY <1>10, <2>2, Zenon
  <1>12. k \in Rules(q) /\ k \in 1..Len(q) /\ ~q[k].default
    BY <1>11, Zenon DEF Held, Rules
  <1>13. PICK c \in q[k].when : EvaluateCondition(c, a.doc) = "yes"
    BY <1>11, Zenon DEF Held
  <1>14. PICK w \in values : k \in Whens(w)
    <2>1. Rules(q) = UNION {Whens(v) : v \in values}
      BY <1>1, <1>7, Zenon
    <2> QED BY <1>12, <2>1
  <1>15. c.equals = {w}
    <2>1. PICK d \in q[k].when : d.equals = {w}
      BY <1>14, Zenon DEF Whens
    <2>2. c = d
      BY <1>12, <1>13, <2>1, Zenon
    <2> QED BY <2>1, <2>2, Zenon
  <1>16. w = val
    <2>1. \E x \in c.equals : LooseEqual(val, x)
      BY <1>9, <1>12, <1>13, Zenon
    <2>2. LooseEqual(val, w)
      BY <1>15, <2>1, Zenon
    <2> QED BY <1>8, <1>14, <2>2, Zenon
  <1> QED BY <1>11, <1>12, <1>13, <1>15, <1>16, Zenon DEF val
-----------------------------------------------------------------------------
(***************************************************************************)
(* Requests.                                                               *)
(***************************************************************************)
\* The jobs that a request leaves: of an agent that is there, or of a pipeline
\* with all the inputs it declares.
LEMMA Leaves ==
  ASSUME NEW r, NEW defs, NEW outcome \in {"queued", "full", "failed"},
         NEW j \in HandleRequest(r, defs, outcome).jobs
  PROVE  \/ j.kind = "agent" /\ j.target \in defs.agents
         \/ /\ j.kind = "pipeline" /\ j.target \in DOMAIN defs.pipelines
            /\ \A name \in defs.pipelines[j.target] :
                /\ name \in DOMAIN ParseJobInput(j.input)
                /\ ParseJobInput(j.input)[name] \notin Blank
  <1> DEFINE id == r.path[2]
             body == r.body
  <1>1. ASSUME NEW code PROVE Refuse(code).jobs = {}
    BY DEF Refuse, Reply
  <1>2. j \in HandleExecute(r.path[1], id, body, defs, outcome).jobs
    <2> DEFINE shaped == Len(r.path) = 3 /\ r.path[3] = "execute" /\ r.path[2] # ""
    <2>1. CASE r.token # "valid"
      <3>1. \E code : HandleRequest(r, defs, outcome) = Refuse(code)
        BY <2>1, Zenon DEF HandleRequest
      <3> QED BY <1>1, <3>1, Zenon
    <2>2. CASE r.token = "valid" /\ ~shaped
      <3>1. \E code : HandleRequest(r, defs, outcome) = Refuse(code)
        BY <2>2, Zenon DEF HandleRequest
      <3> QED BY <1>1, <3>1, Zenon
    <2>3. CASE r.token = "valid" /\ shaped /\ r.method # "POST"
      <3>1. \E code : HandleRequest(r, defs, outcome) = Refuse(code)
        BY <2>3, ZenonT(60) DEF HandleRequest
      <3> QED BY <1>1, <3>1, Zenon
    <2>4. CASE r.token = "valid" /\ shaped /\ r.method = "POST"
      BY <2>4, Zenon DEF HandleRequest
    <2> QED BY <2>1, <2>2, <2>3, <2>4, Zenon
  <1>3. ASSUME NEW jobs, j \in Submit(jobs, outcome).jobs PROVE j \in jobs
    <2>1. ASSUME NEW code PROVE Reply(code, jobs).jobs = jobs
      BY DEF Reply
    <2>2. \/ \E code : Submit(jobs, outcome) = Reply(code, jobs)
          \/ \E code : Submit(jobs, outcome) = Refuse(code)
      BY DEF Submit
    <2> QED BY <1>1, <1>3, <2>1, <2>2, Zenon
  <1>4. CASE r.path[1] = "agents"
    <2>1. id \in defs.agents /\ j \in {Job("agent", id, Raw(t)) : t \in AgentInput(body)}
      <3> DEFINE jobs == {Job("agent", id, Raw(t)) : t \in AgentInput(body)}
      <3>1. \/ \E code : HandleExecute("agents", id, body, defs, outcome) = Refuse(code)
            \/ /\ HandleExecute("agents", id, body, defs, outcome) = Submit(jobs, outcome)
               /\ id \in defs.agents
        <4> HIDE DEF id, body
        <4> QED BY ZenonT(60) DEF HandleExecute
      <3>2. j \in Submit(jobs, outcome).jobs /\ id \in defs.agents
        <4> HIDE DEF jobs, id, body
        <4> QED BY <1>1, <1>2, <1>4, <3>1, Zenon
      <3> QED BY <1>3, <3>2, Zenon
    <2>2. PICK t : j = Job("agent", id, Raw(t))
      BY <2>1, Zenon
    <2>3. j.kind = "agent" /\ j.target = id
      <3> HIDE DEF id
      <3> QED BY <2>2 DEF Job
    <2> QED BY <2>1, <2>3, Zenon
  <1>5. CASE r.path[1] # "agents"
    <2>1. /\ id \in DOMAIN defs.pipelines
          /\ j \in {Job("pipeline", id, Encoded(g)) : g \in PipelineInputs(body, defs.pipelines[id])}
      <3> DEFINE jobs == {Job("pipeline", id, Encoded(g)) : g \in PipelineInputs(body, defs.pipelines[id])}
      <3>1. \/ \E code : HandleExecute(r.path[1], id, body, defs, outcome) = Refuse(code)
            \/ /\ HandleExecute(r.path[1], id, body, defs, outcome) = Submit(jobs, outcome)
               /\ id \in DOMAIN defs.pipelines
        <4> HIDE DEF id, body
        <4> QED BY <1>5, ZenonT(60) DEF HandleExecute
      <3>2. j \in Submit(jobs, outcome).jobs /\ id \in DOMAIN defs.pipelines
        <4> HIDE DEF jobs, id, body
        <4> QED BY <1>1, <1>2, <3>1, Zenon
      <3> QED BY <1>3, <3>2, Zenon
    <2>2. PICK g \in PipelineInputs(body, defs.pipelines[id]) : j = Job("pipeline", id, Encoded(g))
      BY <2>1, Zenon
    <2>3. \A name \in defs.pipelines[id] : name \in DOMAIN g /\ g[name] \notin Blank
      <3> HIDE DEF id, body
      <3> QED BY <2>2, Zenon DEF PipelineInputs
    <2>4. j.kind = "pipeline" /\ j.target = id /\ j.input = Encoded(g)
      <3> HIDE DEF id, body
      <3> QED BY <2>2 DEF Job
    <2>5. Encoded(g).json /\ Encoded(g).named = g
      BY DEF Encoded
    <2>6. ParseJobInput(j.input) = g
      BY <2>4, <2>5, Zenon DEF ParseJobInput
    <2> QED BY <2>1, <2>3, <2>4, <2>6, Zenon
  <1> QED BY <1>4, <1>5, Zenon

LEMMA AdmittedExecutes ==
  ASSUME NEW r, NEW defs, NEW outcome \in {"queued", "full", "failed"},
         NEW j \in HandleRequest(r, defs, outcome).jobs
  PROVE  Execute(j, defs) = "runs"
  <1>1. CASE j.kind = "agent" /\ j.target \in defs.agents
    BY <1>1, Zenon DEF Execute
  <1>2. CASE /\ j.kind = "pipeline" /\ j.target \in DOMAIN defs.pipelines
             /\ \A name \in defs.pipelines[j.target] : name \in DOMAIN ParseJobInput(j.input)
    <2>1. j.kind # "agent"
      BY <1>2
    <2> QED BY <1>2, <2>1, Zenon DEF Execute
  <1> QED BY <1>1, <1>2, Leaves, Zenon
-----------------------------------------------------------------------------
(***************************************************************************)
(* Every call.                                                             *)
(***************************************************************************)
\* The verdict is that of the call.
DecideInv ==
    /\ AnswerCall \/ RequestCall
    /\ verdict = NoVerdict
       \/ /\ call.fn = "answer"
          /\ verdict = [of |-> "answer",
                        route |-> PickRoute(call.case.routes, call.case.answer),
                        value |-> LookupPath(call.case.answer, call.case.path)]
          /\ check = [compiled |-> CheckNode(call.case.schema),
                      accepted |-> CheckNode(call.case.schema)
                                   /\ Accepted(call.case.schema, call.case.answer)]
       \/ /\ call.fn = "execute"
          /\ verdict = LET reply == HandleRequest(call.req, call.now, call.outcome) IN
                 [of |-> "execute", reply |-> reply,
                  runs |-> {[job |-> j, result |-> Execute(j, call.later)] : j \in reply.jobs}]

LEMMA DecideInvariant == DecideSpec => []DecideInv
  <1>1. DecideInit => DecideInv
    BY Zenon DEF DecideInit, DecideInv
  <1>2. ASSUME DecideInv, [DecideNext]_<<call, verdict, check>> PROVE DecideInv'
    <2>1. CASE TakeAnswer
      BY <1>2, <2>1, Zenon DEF DecideInv, TakeAnswer, Returns, AnswerCall, RequestCall
    <2>2. CASE ExecuteRequest
      BY <1>2, <2>2, Zenon DEF DecideInv, ExecuteRequest, Returns, AnswerCall, RequestCall
    <2>3. CASE UNCHANGED <<call, verdict, check>>
      BY <1>2, <2>3, ZenonT(60) DEF DecideInv, AnswerCall, RequestCall
    <2> QED BY <1>2, <2>1, <2>2, <2>3, Zenon DEF DecideNext
  <1> QED BY <1>1, <1>2, PTL DEF DecideSpec

\* What an answer call is about, and what it finds.
LEMMA AnswerRead ==
  ASSUME DecideInv, verdict.of = "answer"
  PROVE  /\ verdict.route = PickRoute(call.case.routes, call.case.answer)
         /\ verdict.value = LookupPath(call.case.answer, call.case.path)
         /\ call.case.path \in Seq(Segments)
         /\ Len(call.case.routes) \in Nat
         /\ \A k \in 1..Len(call.case.routes) : \A c, d \in call.case.routes[k].when : c = d
  <1>1. call.fn = "answer" /\ verdict = [of |-> "answer",
                        route |-> PickRoute(call.case.routes, call.case.answer),
                        value |-> LookupPath(call.case.answer, call.case.path)]
    BY DEF DecideInv, NoVerdict
  <1>2. verdict.route = PickRoute(call.case.routes, call.case.answer)
        /\ verdict.value = LookupPath(call.case.answer, call.case.path)
    BY <1>1
  <1>3. AnswerCall
    BY <1>1 DEF DecideInv, RequestCall
  <1>4. PICK f, s, q, x, t :
            /\ f \in Families /\ q \in f.routes /\ t \in f.paths
            /\ call = [fn |-> "answer",
                       case |-> [schema |-> s, routes |-> q, answer |-> x, path |-> t]]
    BY <1>3, Zenon DEF AnswerCall
  <1>5. call.case.routes = q /\ call.case.path = t
    BY <1>4
  <1>6. q \in f.routes /\ t \in Seq(Segments)
    BY <1>4, FamilyAssumption, Zenon
  <1>7. Len(q) \in Nat /\ \A k \in 1..Len(q) : \A c, d \in q[k].when : c = d
    BY <1>4, <1>6, FamilyAssumption, Zenon
  <1> QED BY <1>2, <1>5, <1>6, <1>7, Zenon

\* What its schema is assumed to be, and what the schema says of the answer.
LEMMA AnswerChecked ==
  ASSUME DecideInv, verdict.of = "answer"
  PROVE  /\ check.compiled = CheckNode(call.case.schema)
         /\ check.accepted = (CheckNode(call.case.schema) /\ Accepted(call.case.schema, call.case.answer))
         /\ \A x \in Nodes(call.case.schema)[MaxDepth] : Children(x) = {}
         /\ \A n \in 0..MaxDepth : \A x \in Calls(call.case.schema, call.case.answer.doc)[n] :
              /\ x[2].is = "array" => Len(x[2].items) \in Nat
              /\ \A m \in x[1].min : m[2] \in Int
  <1>1. call.fn = "answer"
        /\ check = [compiled |-> CheckNode(call.case.schema),
                    accepted |-> CheckNode(call.case.schema)
                                 /\ Accepted(call.case.schema, call.case.answer)]
    BY DEF DecideInv, NoVerdict
  <1>2. AnswerCall
    BY <1>1 DEF DecideInv, RequestCall
  <1>3. PICK f, s, q, a, t :
            /\ f \in Families /\ s \in f.schemas /\ a \in f.answers
            /\ call = [fn |-> "answer",
                       case |-> [schema |-> s, routes |-> q, answer |-> a, path |-> t]]
    BY <1>2, Zenon DEF AnswerCall
  <1>4. call.case.schema = s /\ call.case.answer = a
    BY <1>3
  <1>5. \A x \in Nodes(s)[MaxDepth] : Children(x) = {}
    BY <1>3, FamilyAssumption, Zenon
  <1>6. \A n \in 0..MaxDepth : \A x \in Calls(s, a.doc)[n] :
              /\ x[2].is = "array" => Len(x[2].items) \in Nat
              /\ \A m \in x[1].min : m[2] \in Int
    BY <1>3, FamilyAssumption, Zenon
  <1>7. check.compiled = CheckNode(call.case.schema)
        /\ check.accepted = (CheckNode(call.case.schema) /\ Accepted(call.case.schema, call.case.answer))
    BY <1>1, Zenon
  <1> QED BY <1>4, <1>5, <1>6, <1>7, Zenon

\* For every schema and every document: validate meets no node that Compile has
\* not checked, so no type it does not know and no property that is no schema.
THEOREM BadSchemasFail == DecideSpec => []BadSchemaFailsAtLoad
  <1>1. ASSUME DecideInv PROVE BadSchemaFailsAtLoad
    <2> DEFINE s == call.case.schema
               v == call.case.answer.doc
    <2> SUFFICES ASSUME verdict.of = "answer", check.compiled,
                        NEW n \in 0..MaxDepth, NEW x \in Calls(s, v)[n]
                 PROVE  CheckOwn(x[1])
      BY Zenon DEF BadSchemaFailsAtLoad
    <2>1. CheckNode(s)
      BY <1>1, AnswerChecked, Zenon
    <2> HIDE DEF s, v
    <2>2. x[1] \in Nodes(s)[n]
      BY CallsAreNodes, Zenon
    <2> QED BY <2>1, <2>2, Zenon DEF CheckNode
  <1> QED BY <1>1, DecideInvariant, PTL

\* For every schema, document and path: a reference along a path that the schema
\* requires finds a value in every answer that was accepted without a fence.
THEOREM RequiredPathsResolve == DecideSpec => []RequiredPathResolves
  <1>1. ASSUME DecideInv PROVE RequiredPathResolves
    <2> DEFINE s == call.case.schema
               a == call.case.answer
               path == call.case.path
    <2> SUFFICES ASSUME verdict.of = "answer", check.accepted, ~a.fence, Requires(s, path)
                 PROVE  verdict.value # {}
      BY Zenon DEF RequiredPathResolves
    <2>1. /\ Accepted(s, a)
          /\ \A x \in Nodes(s)[MaxDepth] : Children(x) = {}
          /\ \A n \in 0..MaxDepth : \A x \in Calls(s, a.doc)[n] :
              /\ x[2].is = "array" => Len(x[2].items) \in Nat
              /\ \A m \in x[1].min : m[2] \in Int
      BY <1>1, AnswerChecked, Zenon
    <2>2. verdict.value = LookupPath(a, path) /\ path \in Seq(Segments)
      BY <1>1, AnswerRead, Zenon
    <2> HIDE DEF s, a, path
    <2>3. Decodes(a) /\ Validate(s, a.doc)
      BY <2>1, Zenon DEF Accepted, Decodes, DecodesStripped
    <2> QED BY <2>1, <2>2, <2>3, RequiredResolves, Zenon
  <1> QED BY <1>1, DecideInvariant, PTL

\* For every schema, router and document: an accepted answer whose enum the
\* routes cover is sent to the route of its value.
THEOREM EnumsRouted == DecideSpec => []EnumRouted
  <1>1. ASSUME DecideInv PROVE EnumRouted
    <2> DEFINE s == call.case.schema
               a == call.case.answer
               q == call.case.routes
    <2> SUFFICES ASSUME verdict.of = "answer", check.accepted, ~a.fence,
                        NEW name \in DOMAIN s.properties, Covers(s, name, q)
                 PROVE  Lands(q, a, name, verdict.route)
      BY Zenon DEF EnumRouted, Lands
    <2>1. CheckNode(s) /\ Accepted(s, a) /\ Shallow(s)
      BY <1>1, AnswerChecked, Zenon DEF Shallow
    <2>2. verdict.route = PickRoute(q, a) /\ Len(q) \in Nat /\ OneRule(q)
      BY <1>1, AnswerRead, Zenon DEF OneRule
    <2> HIDE DEF s, a, q
    <2>3. Decodes(a)
      BY <2>1, Zenon DEF Accepted, Decodes, DecodesStripped
    <2> QED BY <2>1, <2>2, <2>3, EnumDecides, Zenon
  <1> QED BY <1>1, DecideInvariant, PTL

\* For every router and every document: a router with a default always picks a
\* route, and the default only when no condition holds.
THEOREM DefaultsCatch == DecideSpec => []DefaultCatches
  <1>1. ASSUME DecideInv PROVE DefaultCatches
    <2> DEFINE q == call.case.routes
               a == call.case.answer
    <2> SUFFICES ASSUME verdict.of = "answer", Decodes(a), ValidRoutes(q), Rules(q) # 1..Len(q),
                        \A k \in Rules(q) : \A c \in q[k].when : \A re \in c.matches : re.valid
                 PROVE  \E k \in IF Held(q, a) # {} THEN Held(q, a) ELSE (1..Len(q)) \ Rules(q) :
                            verdict.route = Goto(q[k].goto)
      BY Zenon DEF DefaultCatches, Rules, Held
    <2>1. /\ verdict.route = PickRoute(q, a) /\ Len(q) \in Nat
          /\ \A k \in 1..Len(q) : \A c, d \in q[k].when : c = d
      BY <1>1, AnswerRead, Zenon
    <2> HIDE DEF q, a
    <2> QED BY <2>1, RouterDecides, Zenon
  <1> QED BY <1>1, DecideInvariant, PTL

\* For every document and path: a condition and a reference read the same
\* value, if no index has a sign and all fit an int.
THEOREM ReadersAgree == DecideSpec => []PathsAgree
  <1>1. ASSUME DecideInv PROVE PathsAgree
    BY <1>1, AnswerRead, WalksAgree, Zenon DEF PathsAgree
  <1> QED BY <1>1, DecideInvariant, PTL

\* For every request and all definitions: a job that is admitted runs, unless
\* the definitions changed before its turn, and declared inputs are not blank.
THEOREM AdmittedJobsRun == DecideSpec => []AdmittedRuns
  <1>1. ASSUME DecideInv, verdict.of = "execute", NEW run \in verdict.runs
        PROVE  \E j, o : /\ o \in {"queued", "full", "failed"}
                         /\ j \in HandleRequest(call.req, call.now, o).jobs
                         /\ run.job = j /\ run.result = Execute(j, call.later)
    <2> DEFINE jobs == HandleRequest(call.req, call.now, call.outcome).jobs
    <2>1. call.fn = "execute" /\ verdict.runs = {[job |-> j, result |-> Execute(j, call.later)] : j \in jobs}
      BY <1>1 DEF DecideInv, NoVerdict
    <2>2. call.outcome \in {"queued", "full", "failed"}
      BY <1>1, <2>1 DEF DecideInv, AnswerCall, RequestCall
    <2>3. PICK j \in jobs : run = [job |-> j, result |-> Execute(j, call.later)]
      BY <1>1, <2>1, Zenon
    <2>4. run.job = j /\ run.result = Execute(j, call.later)
      BY <2>3
    <2> QED BY <2>2, <2>3, <2>4, Zenon
  <1>2. ASSUME DecideInv PROVE AdmittedRuns
    <2> SUFFICES ASSUME verdict.of = "execute", NEW run \in verdict.runs
                 PROVE  /\ call.now = call.later => run.result = "runs"
                        /\ run.job.kind = "pipeline" =>
                             \A name \in call.now.pipelines[run.job.target] :
                                 ParseJobInput(run.job.input)[name] \notin Blank
      BY Zenon DEF AdmittedRuns
    <2>1. PICK j, o : /\ o \in {"queued", "full", "failed"}
                      /\ j \in HandleRequest(call.req, call.now, o).jobs
                      /\ run.job = j /\ run.result = Execute(j, call.later)
      BY <1>1, <1>2, Zenon
    <2>2. call.now = call.later => run.result = "runs"
      <3>1. Execute(j, call.now) = "runs"
        BY <2>1, AdmittedExecutes, Zenon
      <3> QED BY <2>1, <3>1, Zenon
    <2>3. j.kind = "pipeline" => \A name \in call.now.pipelines[j.target] :
                                     ParseJobInput(j.input)[name] \notin Blank
      <3>1. "agent" # "pipeline"
        OBVIOUS
      <3> QED BY <2>1, <3>1, Leaves, Zenon
    <2> QED BY <2>1, <2>2, <2>3, Zenon
  <1> QED BY <1>2, DecideInvariant, PTL
=============================================================================
