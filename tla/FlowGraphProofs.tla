--------------------------- MODULE FlowGraphProofs ---------------------------
(***************************************************************************)
(* What the graph analyses of os-flow compute, for every flow: Kahn's      *)
(* algorithm returns the nodes once each, sources before targets, exactly  *)
(* when the flow has such an order, which is what auditGraph relies on.    *)
(***************************************************************************)
EXTENDS FlowGraph, FiniteSetTheorems, TLAPS

-----------------------------------------------------------------------------
(* Induction, on sets of naturals and on functions.                        *)

\* Every set of naturals has a least element.
LEMMA LeastNatural ==
  ASSUME NEW T, T \subseteq Nat, T # {}
  PROVE  \E x \in T : \A y \in T : x <= y
<1> DEFINE R == {p \in Nat \X Nat : p[1] < p[2]}
<1>1. IsWellFoundedOn(R, Nat)
  BY NatLessThanWellFounded DEF OpToRel
<1> HIDE DEF R
<1>2. PICK x \in T : \A y \in T : <<y, x>> \notin R
  BY <1>1, WFMin
<1>3. \A y \in T : ~(y < x)
  BY <1>2 DEF R
<1>4. QED
  BY <1>3

\* Min of a set of naturals is its least element.
LEMMA MinIsLeast ==
  ASSUME NEW T, T \subseteq Nat, T # {}
  PROVE  Min(T) \in T /\ \A y \in T : Min(T) <= y
<1>1. \E x \in T : \A y \in T : x <= y
  BY LeastNatural
<1>2. QED
  BY <1>1 DEF Min

\* A function without arguments is the empty sequence.
LEMMA NoOutcomes ==
  ASSUME NEW S, NEW f, f \in [DOMAIN f -> S], DOMAIN f = {}
  PROVE  f = <<>>
OBVIOUS

\* Max of a bounded set of naturals is its greatest element.
LEMMA MaxIsGreatest ==
  ASSUME NEW T, T \subseteq Nat, T # {}, NEW b \in Nat, \A y \in T : y <= b
  PROVE  Max(T) \in T /\ \A y \in T : y <= Max(T)
<1> DEFINE bounds == {u \in Nat : \A y \in T : y <= u}
<1>1. PICK u \in bounds : \A v \in bounds : u <= v
  <2>1. bounds \subseteq Nat /\ bounds # {}
    OBVIOUS
  <2> HIDE DEF bounds
  <2>2. QED
    BY <2>1, LeastNatural
<1>2. u \in T
  <2>1. SUFFICES ASSUME u \notin T
                 PROVE  FALSE
    OBVIOUS
  <2>2. PICK y \in T : TRUE
    OBVIOUS
  <2>3. u # 0 /\ u - 1 \in Nat
    BY <2>1, <2>2
  <2>4. \A z \in T : z <= u - 1
    BY <2>1
  <2>5. u - 1 \in bounds
    BY <2>3, <2>4
  <2>6. QED
    BY <1>1, <2>3, <2>5
<1>3. \E x \in T : \A y \in T : x >= y
  BY <1>2
<1>4. QED
  BY <1>3 DEF Max

\* A set that 0 is in, and with each natural the next one, has all naturals.
LEMMA SetInduction ==
  ASSUME NEW T, T \subseteq Nat, 0 \in T, \A n \in T : n + 1 \in T
  PROVE  \A n \in Nat : n \in T
<1> SUFFICES ASSUME Nat \ T # {}
             PROVE  FALSE
  OBVIOUS
<1>1. PICK x \in Nat \ T : \A y \in Nat \ T : x <= y
  BY LeastNatural
<1>2. x # 0 /\ x - 1 \in Nat
  OBVIOUS
<1>3. x - 1 \in T
  BY <1>1, <1>2
<1>4. QED
  BY <1>1, <1>2, <1>3

\* What holds of zero and is passed on up to n holds up to n.
LEMMA UpTo ==
  ASSUME NEW n \in Nat, NEW T, 0 \in T, \A i \in 0 .. n - 1 : i \in T => i + 1 \in T
  PROVE  \A i \in 0 .. n : i \in T
<1> SUFFICES ASSUME NEW i \in 0 .. n, i \notin T
             PROVE  FALSE
  OBVIOUS
<1> DEFINE R == {p \in Nat \X Nat : p[1] < p[2]}
           Out == {k \in 0 .. n : k \notin T}
<1>1. IsWellFoundedOn(R, Nat)
  BY NatLessThanWellFounded DEF OpToRel
<1>2. Out \in SUBSET Nat /\ Out # {}
  OBVIOUS
<1> HIDE DEF R, Out
<1>3. PICK x \in Out : \A y \in Out : <<y, x>> \notin R
  BY <1>1, <1>2, WFMin
<1>4. x \in Nat /\ x <= n /\ x \notin T /\ x # 0
  BY <1>3 DEF Out
<1>5. x - 1 \in 0 .. n - 1 /\ (x - 1) + 1 = x
  BY <1>4
<1>6. x - 1 \in Out
  BY <1>4, <1>5 DEF Out
<1>7. <<x - 1, x>> \in R
  BY <1>4, <1>5 DEF R
<1>8. QED
  BY <1>3, <1>6, <1>7

\* f goes from start through n steps, each made at its place.
RunOf(f, n, S, start, step) ==
  /\ f \in [0 .. n -> S]
  /\ f = [k \in 0 .. n |-> IF k = 0 THEN start ELSE step[k][f[k - 1]]]

\* Steps that may depend on the place define a function on the naturals up to n.
LEMMA RunsThrough ==
  ASSUME NEW n \in Nat, NEW S, NEW start \in S, NEW step \in [1 .. n -> [S -> S]]
  PROVE  \E f : RunOf(f, n, S, start, step)
<1> DEFINE Upto(m, g) == /\ g \in [0 .. m -> S]
                         /\ g[0] = start
                         /\ \A i \in 1 .. m : g[i] = step[i][g[i - 1]]
           T == {m \in 0 .. n : \E g : Upto(m, g)}
<1>1. 0 \in T
  <2>1. PICK g : g = [i \in 0 .. 0 |-> start]
    OBVIOUS
  <2>2. g \in [0 .. 0 -> S] /\ g[0] = start
    BY <2>1
  <2>3. Upto(0, g)
    BY <2>2
  <2> HIDE DEF Upto
  <2>4. QED
    BY <2>3
<1>2. ASSUME NEW m \in 0 .. n - 1, m \in T
      PROVE  m + 1 \in T
  <2>1. PICK g : Upto(m, g)
    BY <1>2
  <2> DEFINE h == [i \in 0 .. m + 1 |-> IF i = m + 1 THEN step[m + 1][g[m]] ELSE g[i]]
  <2>2. g[m] \in S /\ m + 1 \in 1 .. n
    BY <2>1
  <2>3. step[m + 1][g[m]] \in S
    BY <2>2
  <2>4. h \in [0 .. m + 1 -> S] /\ h[0] = start
    BY <2>1, <2>3
  <2>5. ASSUME NEW i \in 1 .. m + 1
        PROVE  h[i] = step[i][h[i - 1]]
    <3>1. CASE i = m + 1
      <4>1. m \in 0 .. m + 1 /\ m # m + 1 /\ i - 1 = m
        BY <3>1
      <4>2. h[m] = g[m] /\ h[m + 1] = step[m + 1][g[m]]
        BY <4>1
      <4> HIDE DEF h
      <4>3. QED
        BY <3>1, <4>1, <4>2
    <3>2. CASE i # m + 1
      BY <2>1, <3>2
    <3>3. QED
      BY <3>1, <3>2
  <2>6. Upto(m + 1, h)
    BY <2>4, <2>5
  <2>7. m + 1 \in 0 .. n
    OBVIOUS
  <2> HIDE DEF Upto, h
  <2>8. QED
    BY <2>6, <2>7
<1> HIDE DEF Upto
<1>3. n \in T
  <2>1. n \in 0 .. n
    OBVIOUS
  <2> HIDE DEF T
  <2>2. QED
    BY <1>1, <1>2, <2>1, UpTo
<1>4. PICK g : Upto(n, g)
  BY <1>3
<1> USE DEF Upto
<1>5. g = [k \in 0 .. n |-> IF k = 0 THEN start ELSE step[k][g[k - 1]]]
  BY <1>4
<1>6. QED
  BY <1>4, <1>5 DEF RunOf

\* A function may be defined by iterating a step.
LEMMA Iteration ==
  \A S : \A start \in S : \A step \in [S -> S] :
    \E f \in [Nat -> S] : f = [k \in Nat |-> IF k = 0 THEN start ELSE step[f[k - 1]]]
<1> SUFFICES ASSUME NEW S, NEW start \in S, NEW step \in [S -> S]
             PROVE  \E f \in [Nat -> S] :
                      f = [k \in Nat |-> IF k = 0 THEN start ELSE step[f[k - 1]]]
  OBVIOUS
<1> DEFINE Upto(n, g) == /\ g \in [0 .. n -> S]
                         /\ g[0] = start
                         /\ \A i \in 0 .. n - 1 : g[i + 1] = step[g[i]]
           T == {n \in Nat : \E g : Upto(n, g)}
<1>1. \A n \in Nat : \E g : Upto(n, g)
  <2>1. 0 \in T
    <3>1. Upto(0, [i \in 0 .. 0 |-> start])
      OBVIOUS
    <3>2. QED
      BY <3>1
  <2>2. ASSUME NEW n \in T
        PROVE  n + 1 \in T
    <3>1. PICK g : Upto(n, g)
      OBVIOUS
    <3> DEFINE h == [i \in 0 .. n + 1 |-> IF i = n + 1 THEN step[g[n]] ELSE g[i]]
    <3>2. g[n] \in S /\ step[g[n]] \in S
      BY <3>1
    <3>3. h \in [0 .. n + 1 -> S]
      BY <3>1, <3>2
    <3>4. h[0] = start
      BY <3>1
    <3>5. ASSUME NEW i \in 0 .. (n + 1) - 1
          PROVE  h[i + 1] = step[h[i]]
      <4>1. CASE i = n
        BY <4>1
      <4>2. CASE i # n
        BY <3>1, <4>2
      <4>3. QED
        BY <4>1, <4>2
    <3>6. Upto(n + 1, h)
      BY <3>3, <3>4, <3>5
    <3>7. n + 1 \in Nat
      OBVIOUS
    <3> HIDE DEF Upto, h
    <3>8. QED
      BY <3>6, <3>7
  <2> HIDE DEF Upto
  <2>3. \A n \in Nat : n \in T
    <3>1. T \subseteq Nat
      OBVIOUS
    <3> HIDE DEF T
    <3>2. QED
      BY <2>1, <2>2, <3>1, SetInduction
  <2>4. QED
    BY <2>3
<1>2. ASSUME NEW n \in Nat, NEW m \in Nat, NEW g, NEW h, Upto(n, g), Upto(m, h), n <= m
      PROVE  \A i \in 0 .. n : g[i] = h[i]
  <2> DEFINE U == {i \in Nat : i <= n => g[i] = h[i]}
  <2>1. 0 \in U
    BY <1>2
  <2>2. ASSUME NEW i \in U
        PROVE  i + 1 \in U
    BY <1>2
  <2>3. U \subseteq Nat
    OBVIOUS
  <2> HIDE DEF U
  <2>4. \A i \in Nat : i \in U
    BY <2>1, <2>2, <2>3, SetInduction
  <2>5. QED
    BY <2>4 DEF U
<1> DEFINE upto(n) == CHOOSE g : Upto(n, g)
           f == [k \in Nat |-> upto(k)[k]]
<1>3. \A n \in Nat : Upto(n, upto(n))
  <2> HIDE DEF Upto
  <2>1. QED
    BY <1>1
<1> HIDE DEF upto
<1>4. \A k \in Nat : f[k] \in S
  BY <1>3
<1>5. f[0] = start
  BY <1>3
<1>6. ASSUME NEW k \in Nat \ {0}
      PROVE  f[k] = step[f[k - 1]]
  <2>1. k - 1 \in Nat /\ k - 1 \in 0 .. k - 1 /\ k - 1 <= k /\ (k - 1) + 1 = k
    OBVIOUS
  <2>2. upto(k)[k] = step[upto(k)[k - 1]]
    BY <1>3, <2>1
  <2>3. upto(k - 1)[k - 1] = upto(k)[k - 1]
    <3> HIDE DEF Upto
    <3>1. QED
      BY <1>2, <1>3, <2>1
  <2>4. f[k] = upto(k)[k] /\ f[k - 1] = upto(k - 1)[k - 1]
    BY <2>1
  <2> HIDE DEF f
  <2>5. QED
    BY <2>2, <2>3, <2>4
<1> HIDE DEF f
<1>7. f \in [Nat -> S]
  BY <1>4 DEF f
<1>8. f = [k \in Nat |-> IF k = 0 THEN start ELSE step[f[k - 1]]]
  BY <1>5, <1>6, <1>7
<1>9. QED
  BY <1>7, <1>8

-----------------------------------------------------------------------------
(* Sequences without repetition.                                           *)

Distinct(s) == \A i, j \in DOMAIN s : s[i] = s[j] => i = j

\* A sequence without repetition has as many elements as it is long.
LEMMA DistinctCounts ==
  ASSUME NEW S, NEW s \in Seq(S), Distinct(s)
  PROVE  IsFiniteSet(ToSet(s)) /\ Cardinality(ToSet(s)) = Len(s)
<1>1. s \in Bijection(1 .. Len(s), ToSet(s))
  BY DEF Bijection, Injection, Surjection, IsInjective, ToSet, Distinct
<1>2. IsFiniteSet(1 .. Len(s)) /\ Cardinality(1 .. Len(s)) = Len(s)
  <2>1. Len(s) \in Nat /\ Len(s) \in Int /\ 1 \in Int
    OBVIOUS
  <2>2. IsFiniteSet(1 .. Len(s))
          /\ Cardinality(1 .. Len(s)) = IF 1 > Len(s) THEN 0 ELSE Len(s) - 1 + 1
    BY <2>1, FS_Interval
  <2>3. QED
    BY <2>1, <2>2
<1>3. QED
  BY <1>1, <1>2, FS_Bijection DEF ExistsBijection

\* A sequence of all of a finite set has as many elements as it is long only
\* when it repeats none.
LEMMA AppendDistinct ==
  ASSUME NEW S, NEW s \in Seq(S), NEW x \in S, Distinct(s), x \notin ToSet(s)
  PROVE  /\ Append(s, x) \in Seq(S)
         /\ Distinct(Append(s, x))
         /\ ToSet(Append(s, x)) = ToSet(s) \cup {x}
<1>1. DOMAIN Append(s, x) = 1 .. Len(s) + 1 /\ DOMAIN s = 1 .. Len(s) /\ Len(s) \in Nat
  OBVIOUS
<1>2. \A i \in 1 .. Len(s) : Append(s, x)[i] = s[i]
  OBVIOUS
<1>3. Append(s, x)[Len(s) + 1] = x
  OBVIOUS
<1>4. QED
  BY <1>1, <1>2, <1>3 DEF Distinct, ToSet

-----------------------------------------------------------------------------
(* Kahn's algorithm: each round appends the first by name of the nodes     *)
(* whose predecessors are all in the order, as long as there is one.       *)

Ready(flow, order) ==
  {n \in Ids(flow) \ ToSet(order) :
     \A e \in flow.edges : e.to = n => e.from \in ToSet(order)}

Advance(flow, order) ==
  IF Ready(flow, order) = {} THEN order ELSE Append(order, Min(Ready(flow, order)))

\* Every edge into the order comes from a node before it.
SourcesFirst(flow, order) ==
  \A i \in DOMAIN order : \A e \in flow.edges :
    e.to = order[i] => \E j \in DOMAIN order : j < i /\ order[j] = e.from

\* At every place of the order is the first by name of the nodes that could be there.
FirstByName(flow, order) ==
  \A i \in DOMAIN order : \A n \in Ids(flow) :
    (/\ \A j \in DOMAIN order : j < i => order[j] # n
     /\ \A e \in flow.edges : e.to = n => \E j \in DOMAIN order : j < i /\ order[j] = e.from)
    => order[i] <= n

PartialOrder(flow, order) ==
  /\ order \in Seq(Ids(flow))
  /\ Distinct(order)
  /\ SourcesFirst(flow, order)
  /\ FirstByName(flow, order)

\* A round keeps the order a partial order, and makes it longer unless nothing is ready.
LEMMA AdvanceKeeps ==
  ASSUME NEW flow, Ids(flow) \subseteq Nat, NEW order, PartialOrder(flow, order)
  PROVE  /\ PartialOrder(flow, Advance(flow, order))
         /\ Ready(flow, order) # {} => Len(Advance(flow, order)) = Len(order) + 1
<1>1. CASE Ready(flow, order) = {}
  BY <1>1 DEF Advance
<1>2. CASE Ready(flow, order) # {}
  <2> DEFINE x == Min(Ready(flow, order))
             t == Append(order, x)
  <2>1. x \in Ready(flow, order) /\ \A y \in Ready(flow, order) : x <= y
    <3>1. Ready(flow, order) \subseteq Nat
      BY DEF Ready
    <3>2. QED
      BY <1>2, <3>1, MinIsLeast
  <2>2. x \in Ids(flow) /\ x \notin ToSet(order)
    BY <2>1 DEF Ready
  <2> HIDE DEF x
  <2>3. order \in Seq(Ids(flow))
    BY DEF PartialOrder
  <2>4. t \in Seq(Ids(flow)) /\ Distinct(t)
    BY <2>2, <2>3, AppendDistinct DEF PartialOrder
  <2>5. DOMAIN t = 1 .. Len(order) + 1 /\ DOMAIN order = 1 .. Len(order) /\ Len(order) \in Nat
    BY <2>3
  <2>6. (\A i \in 1 .. Len(order) : t[i] = order[i]) /\ t[Len(order) + 1] = x
    BY <2>3
  <2>7. Len(t) = Len(order) + 1
    BY <2>3
  <2> HIDE DEF t
  <2>8. SourcesFirst(flow, t)
    <3> SUFFICES ASSUME NEW i \in DOMAIN t, NEW e \in flow.edges, e.to = t[i]
                 PROVE  \E j \in DOMAIN t : j < i /\ t[j] = e.from
      BY DEF SourcesFirst
    <3>1. CASE i \in DOMAIN order
      <4>1. PICK j \in DOMAIN order : j < i /\ order[j] = e.from
        BY <2>5, <2>6, <3>1 DEF PartialOrder, SourcesFirst
      <4>2. QED
        BY <2>5, <2>6, <4>1
    <3>2. CASE i = Len(order) + 1
      <4>1. e.from \in ToSet(order)
        BY <2>1, <2>6, <3>2 DEF Ready
      <4>2. PICK j \in DOMAIN order : order[j] = e.from
        BY <4>1 DEF ToSet
      <4>3. QED
        BY <2>5, <2>6, <3>2, <4>2
    <3>3. QED
      BY <2>5, <3>1, <3>2
  <2>9. FirstByName(flow, t)
    <3> SUFFICES ASSUME NEW i \in DOMAIN t, NEW n \in Ids(flow),
                        \A j \in DOMAIN t : j < i => t[j] # n,
                        \A e \in flow.edges : e.to = n => \E j \in DOMAIN t : j < i /\ t[j] = e.from
                 PROVE  t[i] <= n
      BY DEF FirstByName
    <3>1. CASE i \in DOMAIN order
      <4>1. \A j \in DOMAIN order : j < i => order[j] # n
        BY <2>5, <2>6
      <4>2. \A e \in flow.edges : e.to = n => \E j \in DOMAIN order : j < i /\ order[j] = e.from
        BY <2>5, <2>6, <3>1
      <4>3. order[i] <= n
        BY <3>1, <4>1, <4>2 DEF PartialOrder, FirstByName
      <4>4. QED
        BY <2>5, <2>6, <3>1, <4>3
    <3>2. CASE i = Len(order) + 1
      <4>1. n \notin ToSet(order)
        BY <2>5, <2>6, <3>2 DEF ToSet
      <4>2. \A e \in flow.edges : e.to = n => e.from \in ToSet(order)
        BY <2>5, <2>6, <3>2 DEF ToSet
      <4>3. n \in Ready(flow, order)
        BY <4>1, <4>2 DEF Ready
      <4>4. QED
        BY <2>1, <2>6, <3>2, <4>3
    <3>3. QED
      BY <2>5, <3>1, <3>2
  <2>10. Advance(flow, order) = t
    BY <1>2 DEF Advance, x, t
  <2>11. QED
    BY <2>4, <2>7, <2>8, <2>9, <2>10 DEF PartialOrder
<1>3. QED
  BY <1>1, <1>2

\* topoOrder is reached from the empty order in as many rounds as there are nodes.
LEMMA SortSteps ==
  ASSUME NEW flow, Ids(flow) \subseteq Nat
  PROVE  \E order :
           /\ order[0] = <<>>
           /\ \A k \in Nat : order[k + 1] = Advance(flow, order[k])
           /\ topoOrder(flow) = order[Len(flow.nodes)]
<1> DEFINE IsOrder(order) ==
             order = [k \in Nat |-> IF k = 0 THEN <<>> ELSE Advance(flow, order[k - 1])]
           sort == CHOOSE order : IsOrder(order)
<1>1. PICK S : S = Seq(Nat)
  OBVIOUS
<1>2. PICK step : step = [s \in S |-> Advance(flow, s)]
  OBVIOUS
<1>3. \E order : IsOrder(order)
  <2> HIDE DEF IsOrder, sort
  <2>1. <<>> \in S
    BY <1>1
  <2>2. step \in [S -> S]
    <3> SUFFICES ASSUME NEW s \in S
                 PROVE  Advance(flow, s) \in S
      BY <1>2
    <3>1. Ready(flow, s) \subseteq Nat
      BY DEF Ready
    <3>2. Ready(flow, s) # {} => Min(Ready(flow, s)) \in Nat
      BY <3>1, MinIsLeast
    <3>3. QED
      BY <1>1, <3>2 DEF Advance
  <2>3. PICK f \in [Nat -> S] : f = [k \in Nat |-> IF k = 0 THEN <<>> ELSE step[f[k - 1]]]
    BY <2>1, <2>2, Iteration
  <2>4. ASSUME NEW k \in Nat, k # 0
        PROVE  step[f[k - 1]] = Advance(flow, f[k - 1])
    <3>1. k - 1 \in Nat
      BY <2>4
    <3>2. QED
      BY <1>2, <3>1
  <2>5. IsOrder(f)
    BY <2>3, <2>4 DEF IsOrder
  <2>6. QED
    BY <2>5
<1> HIDE DEF IsOrder
<1>4. IsOrder(sort)
  BY <1>3
<1>5. topoOrder(flow) = sort[Len(flow.nodes)]
  BY DEF topoOrder, sort, IsOrder, Advance, Ready
<1> HIDE DEF sort
<1>6. sort[0] = <<>>
  BY <1>4 DEF IsOrder
<1>7. ASSUME NEW k \in Nat
      PROVE  sort[k + 1] = Advance(flow, sort[k])
  <2>1. k + 1 \in Nat /\ k + 1 # 0 /\ (k + 1) - 1 = k
    OBVIOUS
  <2>2. QED
    BY <1>4, <2>1 DEF IsOrder
<1>8. QED
  BY <1>5, <1>6, <1>7

-----------------------------------------------------------------------------
(* What topoOrder returns.                                                 *)

\* An audited flow's node list is a sequence of names; the code's ids are strings,
\* which it compares by name.
Listed(flow) == flow.nodes \in Seq(Nat)

LEMMA ListedIds ==
  ASSUME NEW flow, Listed(flow)
  PROVE  Ids(flow) \subseteq Nat /\ IsFiniteSet(Ids(flow)) /\ Len(flow.nodes) \in Nat
<1>1. Ids(flow) \subseteq Nat /\ Len(flow.nodes) \in Nat
  BY DEF Listed, Ids, ToSet
<1>2. IsFiniteSet(Ids(flow))
  <2>1. flow.nodes \in Surjection(1 .. Len(flow.nodes), Ids(flow))
    BY DEF Listed, Ids, ToSet, Surjection
  <2>2. IsFiniteSet(1 .. Len(flow.nodes))
    <3>1. Len(flow.nodes) \in Int /\ 1 \in Int
      BY <1>1
    <3> HIDE DEF Listed
    <3>2. QED
      BY <3>1, FS_Interval
  <2>3. QED
    BY <2>1, <2>2, FS_Surjection DEF ExistsSurjection
<1>3. QED
  BY <1>1, <1>2

\* Whatever the flow, topoOrder returns a partial order, which lacks nodes only
\* when each of those has a predecessor that it lacks.
THEOREM SortIsPartial ==
  ASSUME NEW flow, Listed(flow)
  PROVE  /\ PartialOrder(flow, topoOrder(flow))
         /\ Len(topoOrder(flow)) <= Len(flow.nodes)
         /\ Len(topoOrder(flow)) # Len(flow.nodes) => Ready(flow, topoOrder(flow)) = {}
<1>1. Ids(flow) \subseteq Nat /\ Len(flow.nodes) \in Nat
  BY ListedIds
<1>2. PICK order : /\ order[0] = <<>>
                   /\ \A k \in Nat : order[k + 1] = Advance(flow, order[k])
                   /\ topoOrder(flow) = order[Len(flow.nodes)]
  BY <1>1, SortSteps
<1> DEFINE Good(k) == /\ PartialOrder(flow, order[k])
                      /\ Len(order[k]) <= k
                      /\ Len(order[k]) # k => Ready(flow, order[k]) = {}
           T == {k \in Nat : Good(k)}
<1>3. 0 \in T
  <2>1. <<>> \in Seq(Ids(flow)) /\ DOMAIN <<>> = {} /\ Len(<<>>) = 0
    OBVIOUS
  <2>2. PartialOrder(flow, <<>>)
    BY <2>1 DEF PartialOrder, Distinct, SourcesFirst, FirstByName
  <2>3. QED
    BY <1>2, <2>1, <2>2
<1>4. ASSUME NEW k \in T
      PROVE  k + 1 \in T
  <2>1. PartialOrder(flow, order[k + 1]) /\ order[k + 1] = Advance(flow, order[k])
    <3>1. k \in Nat /\ PartialOrder(flow, order[k])
      OBVIOUS
    <3> HIDE DEF T
    <3>2. order[k + 1] = Advance(flow, order[k])
      BY <1>2, <3>1
    <3>3. QED
      BY <1>1, <3>1, <3>2, AdvanceKeeps
  <2>2. Len(order[k]) \in Nat
    BY DEF PartialOrder
  <2>3. CASE Ready(flow, order[k]) = {}
    <3>1. order[k + 1] = order[k]
      BY <2>1, <2>3 DEF Advance
    <3>2. QED
      BY <2>1, <2>2, <2>3, <3>1
  <2>4. CASE Ready(flow, order[k]) # {}
    <3>1. Len(order[k + 1]) = Len(order[k]) + 1
      BY <1>1, <2>1, <2>4, AdvanceKeeps
    <3>2. Len(order[k]) = k
      BY <2>4
    <3>3. QED
      BY <2>1, <3>1, <3>2
  <2>5. QED
    BY <2>3, <2>4
<1>5. \A k \in Nat : k \in T
  <2>1. T \subseteq Nat
    OBVIOUS
  <2> HIDE DEF T
  <2>2. QED
    BY <1>3, <1>4, <2>1, SetInduction
<1>6. QED
  BY <1>1, <1>2, <1>5

\* A sequence without repetition over a flow's ids that is as long as its list of
\* distinct ids has all of them.
LEMMA CompleteOrder ==
  ASSUME NEW flow, Listed(flow), Cardinality(Ids(flow)) = Len(flow.nodes),
         NEW order \in Seq(Ids(flow)), Distinct(order)
  PROVE  Len(order) = Len(flow.nodes) <=> ToSet(order) = Ids(flow)
<1>1. ToSet(order) \subseteq Ids(flow)
  BY DEF ToSet
<1>2. IsFiniteSet(ToSet(order)) /\ Cardinality(ToSet(order)) = Len(order)
  BY DistinctCounts
<1>3. IsFiniteSet(Ids(flow))
  BY ListedIds
<1>4. Cardinality(Ids(flow)) = Cardinality(ToSet(order)) => Ids(flow) = ToSet(order)
  BY <1>1, <1>3, FS_Subset
<1>5. QED
  BY <1>2, <1>4

\* Every edge leads from a node to a node and no id is listed twice.
Shaped(flow) ==
  /\ Listed(flow)
  /\ Cardinality(Ids(flow)) = Len(flow.nodes)
  /\ \A e \in flow.edges : e.from \in Ids(flow) /\ e.to \in Ids(flow)

\* auditGraph lets no flow pass whose order topoSort could not complete: what runFlow
\* loops over has every node once, the source of each edge before its target.
THEOREM AuditedFlowsAreSorted ==
  ASSUME NEW flow, Listed(flow), auditGraph(flow) = {}
  PROVE  /\ Shaped(flow) /\ flow.entry \in Ids(flow)
         /\ PartialOrder(flow, topoOrder(flow))
         /\ ToSet(topoOrder(flow)) = Ids(flow)
<1>1. /\ Cardinality(Ids(flow)) = Len(flow.nodes)
      /\ flow.entry \in Ids(flow)
      /\ \A e \in flow.edges : e.from \in Ids(flow) /\ e.to \in Ids(flow)
  BY DEF auditGraph
<1>2. Len(topoOrder(flow)) = Len(flow.nodes)
  BY DEF auditGraph
<1>3. PartialOrder(flow, topoOrder(flow))
  BY SortIsPartial
<1>4. ToSet(topoOrder(flow)) = Ids(flow)
  BY <1>1, <1>2, <1>3, CompleteOrder DEF PartialOrder
<1>5. QED
  BY <1>1, <1>3, <1>4 DEF Shaped

\* The verdict on cycles is exact: topoSort completes the order of a well-shaped flow
\* just when the nodes can be ranked so that every edge leads to a higher rank.
THEOREM CycleVerdictIsExact ==
  ASSUME NEW flow, Shaped(flow)
  PROVE  Len(topoOrder(flow)) = Len(flow.nodes)
           <=> \E rank \in [Ids(flow) -> Nat] : \A e \in flow.edges : rank[e.from] < rank[e.to]
<1> DEFINE sorted == topoOrder(flow)
<1>1. /\ PartialOrder(flow, sorted)
      /\ Len(sorted) <= Len(flow.nodes)
      /\ Len(sorted) # Len(flow.nodes) => Ready(flow, sorted) = {}
  BY SortIsPartial DEF Shaped
<1>2. Len(sorted) = Len(flow.nodes) <=> ToSet(sorted) = Ids(flow)
  BY <1>1, CompleteOrder DEF PartialOrder, Shaped
<1> HIDE DEF sorted
<1>3. ASSUME ToSet(sorted) = Ids(flow)
      PROVE  \E rank \in [Ids(flow) -> Nat] : \A e \in flow.edges : rank[e.from] < rank[e.to]
  <2> DEFINE place(n) == CHOOSE i \in DOMAIN sorted : sorted[i] = n
             rank == [n \in Ids(flow) |-> place(n)]
  <2>1. \A n \in Ids(flow) : place(n) \in DOMAIN sorted /\ sorted[place(n)] = n
    BY <1>3 DEF ToSet
  <2>2. DOMAIN sorted \subseteq Nat
    BY <1>1 DEF PartialOrder
  <2> HIDE DEF place
  <2>3. rank \in [Ids(flow) -> Nat]
    BY <2>1, <2>2
  <2>4. ASSUME NEW e \in flow.edges
        PROVE  rank[e.from] < rank[e.to]
    <3>1. e.from \in Ids(flow) /\ e.to \in Ids(flow)
      BY DEF Shaped
    <3>2. PICK j \in DOMAIN sorted : j < place(e.to) /\ sorted[j] = e.from
      BY <1>1, <2>1, <3>1 DEF PartialOrder, SourcesFirst
    <3>3. j = place(e.from)
      BY <1>1, <2>1, <3>1, <3>2 DEF PartialOrder, Distinct
    <3>4. QED
      BY <3>1, <3>2, <3>3
  <2>5. QED
    BY <2>3, <2>4
<1>4. ASSUME NEW rank \in [Ids(flow) -> Nat], \A e \in flow.edges : rank[e.from] < rank[e.to],
             Len(sorted) # Len(flow.nodes)
      PROVE  FALSE
  <2> DEFINE left == Ids(flow) \ ToSet(sorted)
             ranks == {rank[n] : n \in left}
  <2>1. left # {}
    <3>1. ToSet(sorted) \subseteq Ids(flow)
      BY <1>1 DEF PartialOrder, ToSet
    <3>2. QED
      BY <1>2, <1>4, <3>1
  <2>2. ranks \subseteq Nat /\ ranks # {}
    BY <2>1
  <2>3. PICK r \in ranks : \A q \in ranks : r <= q
    <3> HIDE DEF ranks
    <3>1. QED
      BY <2>2, LeastNatural
  <2>4. PICK n \in left : rank[n] = r
    OBVIOUS
  <2>5. ASSUME NEW e \in flow.edges, e.to = n
        PROVE  e.from \in ToSet(sorted)
    <3>1. e.from \in Ids(flow) /\ rank[e.from] < rank[n]
      BY <1>4, <2>5 DEF Shaped
    <3>2. rank[e.from] \in Nat /\ rank[n] \in Nat
      BY <3>1
    <3>3. e.from \notin left
      BY <2>3, <2>4, <3>1, <3>2
    <3>4. QED
      BY <3>1, <3>3
  <2>6. n \in Ready(flow, sorted)
    BY <2>5 DEF Ready
  <2>7. QED
    BY <1>1, <1>4, <2>6
<1>5. QED
  BY <1>2, <1>3, <1>4 DEF sorted

\* Of all the orders a flow has, topoSort returns the first by name: what runs first
\* depends neither on how the nodes are listed nor on how the edges are.
THEOREM SortIsLeast ==
  ASSUME NEW flow, Shaped(flow),
         NEW t \in Seq(Ids(flow)), Distinct(t), ToSet(t) = Ids(flow), SourcesFirst(flow, t)
  PROVE  /\ ToSet(topoOrder(flow)) = Ids(flow)
         /\ t # topoOrder(flow) =>
              \E i \in DOMAIN t : /\ topoOrder(flow)[i] < t[i]
                                  /\ \A j \in DOMAIN t : j < i => topoOrder(flow)[j] = t[j]
<1> DEFINE sorted == topoOrder(flow)
           place(n) == CHOOSE i \in DOMAIN t : t[i] = n
           rank == [n \in Ids(flow) |-> place(n)]
<1>1. \A n \in Ids(flow) : place(n) \in DOMAIN t /\ t[place(n)] = n
  BY DEF ToSet
<1> HIDE DEF place
<1>2. rank \in [Ids(flow) -> Nat]
  BY <1>1
<1>3. ASSUME NEW e \in flow.edges
      PROVE  rank[e.from] < rank[e.to]
  <2>1. e.from \in Ids(flow) /\ e.to \in Ids(flow)
    BY DEF Shaped
  <2>2. PICK j \in DOMAIN t : j < place(e.to) /\ t[j] = e.from
    BY <1>1, <2>1 DEF SourcesFirst
  <2>3. j = place(e.from)
    BY <1>1, <2>1, <2>2 DEF Distinct
  <2>4. QED
    BY <2>1, <2>2, <2>3
<1>4. Len(sorted) = Len(flow.nodes)
  <2> HIDE DEF rank
  <2>1. QED
    BY <1>2, <1>3, CycleVerdictIsExact
<1>5. PartialOrder(flow, sorted)
  BY SortIsPartial DEF Shaped
<1>6. ToSet(sorted) = Ids(flow)
  BY <1>4, <1>5, CompleteOrder DEF PartialOrder, Shaped
<1>7. Len(t) = Len(sorted)
  BY <1>4, CompleteOrder DEF Shaped
<1>8. Ids(flow) \subseteq Nat
  BY ListedIds DEF Shaped
<1> HIDE DEF sorted, rank
<1>9. DOMAIN t = 1 .. Len(t) /\ DOMAIN sorted = DOMAIN t /\ Len(t) \in Nat
  BY <1>5, <1>7 DEF PartialOrder
<1>10. ASSUME t # sorted
       PROVE  \E i \in DOMAIN t : sorted[i] < t[i] /\ \A j \in DOMAIN t : j < i => sorted[j] = t[j]
  <2> DEFINE apart == {i \in DOMAIN t : sorted[i] # t[i]}
  <2>1. apart # {}
    BY <1>5, <1>7, <1>10 DEF PartialOrder
  <2>2. apart \subseteq Nat
    BY <1>9
  <2>3. PICK i \in apart : \A k \in apart : i <= k
    <3> HIDE DEF apart
    <3>1. QED
      BY <2>1, <2>2, LeastNatural
  <2>4. i \in DOMAIN t /\ sorted[i] # t[i]
    OBVIOUS
  <2>5. \A j \in DOMAIN t : j < i => sorted[j] = t[j]
    BY <1>9, <2>3
  <2> HIDE DEF apart
  <2>6. \A j \in DOMAIN sorted : j < i => sorted[j] # t[i]
    BY <1>9, <2>4, <2>5 DEF Distinct
  <2>7. ASSUME NEW e \in flow.edges, e.to = t[i]
        PROVE  \E j \in DOMAIN sorted : j < i /\ sorted[j] = e.from
    <3>1. PICK j \in DOMAIN t : j < i /\ t[j] = e.from
      BY <2>4, <2>7 DEF SourcesFirst
    <3>2. QED
      BY <1>9, <2>5, <3>1
  <2>8. t[i] \in Ids(flow) /\ sorted[i] \in Ids(flow)
    BY <1>5, <1>9, <2>4 DEF PartialOrder
  <2>9. sorted[i] <= t[i]
    BY <1>5, <1>9, <2>4, <2>6, <2>7, <2>8 DEF PartialOrder, FirstByName
  <2>10. sorted[i] < t[i]
    BY <1>8, <2>4, <2>8, <2>9
  <2>11. QED
    BY <2>4, <2>5, <2>10
<1>11. QED
  BY <1>6, <1>10 DEF sorted

-----------------------------------------------------------------------------
(* What reachableFrom returns, and auditGraph with it.                     *)

\* a set of nodes and the targets of their edges
Spread(flow, near) == near \cup {e.to : e \in {d \in flow.edges : d.from \in near}}

Closed(flow, near) == Spread(flow, near) = near

\* reachableFrom is reached from the entry in as many rounds as there are nodes.
LEMMA ReachSteps ==
  ASSUME NEW flow, NEW entry
  PROVE  \E reach : /\ reach[0] = {entry}
                    /\ \A k \in Nat : reach[k + 1] = Spread(flow, reach[k])
                    /\ reachableFrom(flow, entry) = reach[Len(flow.nodes)]
<1> DEFINE IsReach(reach) ==
             reach = [k \in Nat |-> IF k = 0 THEN {entry} ELSE Spread(flow, reach[k - 1])]
           found == CHOOSE reach : IsReach(reach)
<1>1. PICK S : S = SUBSET ({entry} \cup {e.to : e \in flow.edges})
  OBVIOUS
<1>2. PICK step : step = [s \in S |-> Spread(flow, s)]
  OBVIOUS
<1>3. \E reach : IsReach(reach)
  <2> HIDE DEF IsReach, found
  <2>1. {entry} \in S
    BY <1>1
  <2>2. step \in [S -> S]
    BY <1>1, <1>2 DEF Spread
  <2>3. PICK f \in [Nat -> S] : f = [k \in Nat |-> IF k = 0 THEN {entry} ELSE step[f[k - 1]]]
    BY <2>1, <2>2, Iteration
  <2>4. ASSUME NEW k \in Nat, k # 0
        PROVE  step[f[k - 1]] = Spread(flow, f[k - 1])
    <3>1. k - 1 \in Nat
      BY <2>4
    <3>2. QED
      BY <1>2, <3>1
  <2>5. IsReach(f)
    BY <2>3, <2>4 DEF IsReach
  <2>6. QED
    BY <2>5
<1>4. reachableFrom(flow, entry) = found[Len(flow.nodes)]
  BY DEF reachableFrom, found, IsReach, Spread
<1> HIDE DEF IsReach
<1>5. IsReach(found)
  BY <1>3
<1> HIDE DEF found
<1>6. found[0] = {entry}
  BY <1>5 DEF IsReach
<1>7. ASSUME NEW k \in Nat
      PROVE  found[k + 1] = Spread(flow, found[k])
  <2>1. k + 1 \in Nat /\ k + 1 # 0 /\ (k + 1) - 1 = k
    OBVIOUS
  <2>2. QED
    BY <1>5, <2>1 DEF IsReach
<1>8. QED
  BY <1>4, <1>6, <1>7

\* reachableFrom returns the least set of nodes that has the entry and every target of
\* an edge from it: each round adds a node until no edge leads out.
THEOREM ReachIsExact ==
  ASSUME NEW flow, Shaped(flow), NEW entry \in Ids(flow)
  PROVE  /\ reachableFrom(flow, entry) \subseteq Ids(flow)
         /\ entry \in reachableFrom(flow, entry)
         /\ Closed(flow, reachableFrom(flow, entry))
         /\ \A C \in SUBSET Ids(flow) :
              entry \in C /\ Closed(flow, C) => reachableFrom(flow, entry) \subseteq C
<1>1. IsFiniteSet(Ids(flow)) /\ Len(flow.nodes) \in Nat /\ Cardinality(Ids(flow)) = Len(flow.nodes)
  BY ListedIds DEF Shaped
<1>2. PICK reach : /\ reach[0] = {entry}
                   /\ \A k \in Nat : reach[k + 1] = Spread(flow, reach[k])
                   /\ reachableFrom(flow, entry) = reach[Len(flow.nodes)]
  BY ReachSteps
<1>3. \A s \in SUBSET Ids(flow) : s \subseteq Spread(flow, s) /\ Spread(flow, s) \subseteq Ids(flow)
  BY DEF Spread, Shaped
<1>4. \A s \in SUBSET Ids(flow) : IsFiniteSet(s) /\ Cardinality(s) \in Nat
  BY <1>1, FS_Subset, FS_CardinalityType
<1> DEFINE Good(k) ==
             /\ reach[k] \subseteq Ids(flow)
             /\ entry \in reach[k]
             /\ Closed(flow, reach[k]) \/ Cardinality(reach[k]) > k
             /\ \A C \in SUBSET Ids(flow) : entry \in C /\ Closed(flow, C) => reach[k] \subseteq C
           T == {k \in Nat : Good(k)}
<1>5. 0 \in T
  <2>1. Cardinality({entry}) = 1
    BY FS_Singleton
  <2>2. reach[0] = {entry} /\ Cardinality(reach[0]) > 0
    BY <1>2, <2>1
  <2>3. Good(0)
    BY <2>2
  <2> HIDE DEF Good
  <2>4. QED
    BY <2>3
<1>6. ASSUME NEW k \in T
      PROVE  k + 1 \in T
  <2>1. k \in Nat /\ Good(k) /\ reach[k + 1] = Spread(flow, reach[k])
    BY <1>2
  <2>2. reach[k] \subseteq reach[k + 1] /\ reach[k + 1] \subseteq Ids(flow)
    BY <1>3, <2>1
  <2>3. Closed(flow, reach[k + 1]) \/ Cardinality(reach[k + 1]) > k + 1
    <3>1. CASE Closed(flow, reach[k])
      BY <2>1, <3>1 DEF Closed
    <3>2. CASE ~Closed(flow, reach[k])
      <4>1. reach[k] # reach[k + 1] /\ Cardinality(reach[k]) > k
        BY <2>1, <3>2 DEF Closed
      <4>2. /\ Cardinality(reach[k]) <= Cardinality(reach[k + 1])
            /\ Cardinality(reach[k + 1]) = Cardinality(reach[k]) => reach[k + 1] = reach[k]
        BY <1>4, <2>2, FS_Subset
      <4>3. Cardinality(reach[k]) \in Nat /\ Cardinality(reach[k + 1]) \in Nat
        BY <1>4, <2>2
      <4> HIDE DEF T
      <4>4. QED
        BY <2>1, <4>1, <4>2, <4>3
    <3>3. QED
      BY <3>1, <3>2
  <2>4. ASSUME NEW C \in SUBSET Ids(flow), entry \in C, Closed(flow, C)
        PROVE  reach[k + 1] \subseteq C
    <3>1. reach[k] \subseteq C
      BY <2>1, <2>4
    <3>2. QED
      BY <2>1, <2>4, <3>1 DEF Spread, Closed
  <2>5. k + 1 \in Nat /\ entry \in reach[k + 1]
    BY <2>1, <2>2
  <2>6. QED
    BY <2>2, <2>3, <2>4, <2>5
<1>7. \A k \in Nat : k \in T
  <2>1. T \subseteq Nat
    OBVIOUS
  <2> HIDE DEF T
  <2>2. QED
    BY <1>5, <1>6, <2>1, SetInduction
<1>8. Good(Len(flow.nodes))
  BY <1>1, <1>7
<1>9. ~(Cardinality(reach[Len(flow.nodes)]) > Len(flow.nodes))
  <2>1. /\ Cardinality(reach[Len(flow.nodes)]) <= Cardinality(Ids(flow))
        /\ Cardinality(reach[Len(flow.nodes)]) \in Nat
    BY <1>1, <1>4, <1>8, FS_Subset
  <2>2. QED
    BY <1>1, <2>1
<1>10. QED
  BY <1>2, <1>8, <1>9

\* auditGraph passes exactly the flows it should: no id twice, the entry and the ends of
\* every edge among the nodes, no cycle, and no set of nodes that has the entry and is
\* left by no edge but all of them.
THEOREM AuditIsExact ==
  ASSUME NEW flow, Listed(flow)
  PROVE  auditGraph(flow) = {} <=>
           /\ Shaped(flow)
           /\ flow.entry \in Ids(flow)
           /\ \E rank \in [Ids(flow) -> Nat] : \A e \in flow.edges : rank[e.from] < rank[e.to]
           /\ \A C \in SUBSET Ids(flow) : flow.entry \in C /\ Closed(flow, C) => C = Ids(flow)
<1> DEFINE ranked == \E rank \in [Ids(flow) -> Nat] : \A e \in flow.edges : rank[e.from] < rank[e.to]
           spans == \A C \in SUBSET Ids(flow) : flow.entry \in C /\ Closed(flow, C) => C = Ids(flow)
<1>1. auditGraph(flow) = {} <=>
        /\ Shaped(flow) /\ flow.entry \in Ids(flow)
        /\ Len(topoOrder(flow)) = Len(flow.nodes)
        /\ Ids(flow) \subseteq reachableFrom(flow, flow.entry)
  BY DEF auditGraph, Shaped
<1>2. ASSUME Shaped(flow), flow.entry \in Ids(flow)
      PROVE  /\ Len(topoOrder(flow)) = Len(flow.nodes) <=> ranked
             /\ Ids(flow) \subseteq reachableFrom(flow, flow.entry) <=> spans
  <2>1. Len(topoOrder(flow)) = Len(flow.nodes) <=> ranked
    BY <1>2, CycleVerdictIsExact
  <2>2. /\ reachableFrom(flow, flow.entry) \subseteq Ids(flow)
        /\ flow.entry \in reachableFrom(flow, flow.entry)
        /\ Closed(flow, reachableFrom(flow, flow.entry))
        /\ \A C \in SUBSET Ids(flow) :
             flow.entry \in C /\ Closed(flow, C) => reachableFrom(flow, flow.entry) \subseteq C
    BY <1>2, ReachIsExact
  <2>3. Ids(flow) \subseteq reachableFrom(flow, flow.entry) <=> spans
    BY <2>2
  <2>4. QED
    BY <2>1, <2>3
<1>3. QED
  BY <1>1, <1>2

-----------------------------------------------------------------------------
(* The same in terms of paths and orders.                                  *)

\* A path may be continued along an edge, and paths may be joined.
LEMMA PathGoesOn ==
  ASSUME NEW flow, NEW a, NEW e \in flow.edges, e.from = a \/ Path(flow, a, e.from)
  PROVE  Path(flow, a, e.to)
BY DEF Path

LEMMA PathsJoin ==
  ASSUME NEW flow, NEW a, NEW b, NEW c, Path(flow, a, b), Path(flow, b, c)
  PROVE  Path(flow, a, c)
<1> SUFFICES ASSUME NEW S \in SUBSET Ids(flow),
                    \A e \in flow.edges : e.from \in S \cup {a} => e.to \in S
             PROVE  c \in S
  BY DEF Path
<1>1. b \in S
  BY DEF Path
<1>2. \A e \in flow.edges : e.from \in S \cup {b} => e.to \in S
  BY <1>1
<1>3. QED
  BY <1>2 DEF Path

\* Nodes that can be ranked along the edges have no path to themselves.
LEMMA RankedHasNoCycle ==
  ASSUME NEW flow, Shaped(flow), NEW rank \in [Ids(flow) -> Nat],
         \A e \in flow.edges : rank[e.from] < rank[e.to]
  PROVE  \A n \in Ids(flow) : ~Path(flow, n, n)
<1> SUFFICES ASSUME NEW n \in Ids(flow), Path(flow, n, n)
             PROVE  FALSE
  OBVIOUS
<1> DEFINE S == {m \in Ids(flow) : rank[n] < rank[m]}
<1>1. \A e \in flow.edges : e.from \in S \cup {n} => e.to \in S
  <2> SUFFICES ASSUME NEW e \in flow.edges, e.from \in S \cup {n}
               PROVE  e.to \in S
    OBVIOUS
  <2>1. /\ e.to \in Ids(flow) /\ e.from \in Ids(flow)
        /\ rank[e.from] \in Nat /\ rank[e.to] \in Nat /\ rank[n] \in Nat
    BY DEF Shaped
  <2>2. rank[n] <= rank[e.from] /\ rank[e.from] < rank[e.to]
    BY <2>1
  <2>3. QED
    BY <2>1, <2>2
<1>2. n \in S
  BY <1>1 DEF Path
<1>3. QED
  BY <1>2

\* The nodes from which a path leads to n.
Ancestors(flow, n) == {m \in Ids(flow) : Path(flow, m, n)}

\* Where each node of a set has a predecessor in it, one has a path to itself: of the
\* nodes with the fewest ancestors one would have a predecessor with fewer.
LEMMA PredecessorsMakeACycle ==
  ASSUME NEW flow, Shaped(flow), NEW stuck \in SUBSET Ids(flow), stuck # {},
         \A n \in stuck : \E e \in flow.edges : e.to = n /\ e.from \in stuck
  PROVE  \E n \in Ids(flow) : Path(flow, n, n)
<1> SUFFICES ASSUME \A n \in Ids(flow) : ~Path(flow, n, n)
             PROVE  FALSE
  OBVIOUS
<1> DEFINE count == [n \in stuck |-> Cardinality(Ancestors(flow, n))]
<1>1. \A n \in stuck : IsFiniteSet(Ancestors(flow, n)) /\ count[n] \in Nat
  <2> TAKE n \in stuck
  <2>1. Ancestors(flow, n) \subseteq Ids(flow) /\ IsFiniteSet(Ids(flow))
    BY ListedIds DEF Shaped, Ancestors
  <2>2. IsFiniteSet(Ancestors(flow, n))
    BY <2>1, FS_Subset
  <2>3. QED
    BY <2>2, FS_CardinalityType
<1>2. PICK n \in stuck : \A m \in stuck : count[n] <= count[m]
  <2> HIDE DEF count
  <2> DEFINE Counts == {count[n] : n \in stuck}
  <2>1. Counts \subseteq Nat /\ Counts # {}
    BY <1>1
  <2>2. PICK c \in Counts : \A d \in Counts : c <= d
    <3> HIDE DEF Counts
    <3>1. QED
      BY <2>1, LeastNatural
  <2>3. QED
    BY <2>2
<1>3. PICK e \in flow.edges : e.to = n /\ e.from \in stuck
  OBVIOUS
<1>4. Path(flow, e.from, n) /\ e.from \in Ids(flow)
  BY <1>3, PathGoesOn
<1>5. /\ e.from \in Ancestors(flow, n) /\ e.from \notin Ancestors(flow, e.from)
      /\ Ancestors(flow, e.from) \subseteq Ancestors(flow, n)
  BY <1>4, PathsJoin DEF Ancestors
<1>6. count[e.from] = Cardinality(Ancestors(flow, e.from)) /\ count[n] = Cardinality(Ancestors(flow, n))
  BY <1>3
<1> HIDE DEF count
<1>7. /\ Cardinality(Ancestors(flow, e.from)) <= Cardinality(Ancestors(flow, n))
      /\ Cardinality(Ancestors(flow, n)) # Cardinality(Ancestors(flow, e.from))
  <2>1. Ancestors(flow, e.from) \in SUBSET Ancestors(flow, n)
    BY <1>5
  <2>2. IsFiniteSet(Ancestors(flow, n)) /\ Ancestors(flow, n) # Ancestors(flow, e.from)
    BY <1>1, <1>5
  <2>3. QED
    BY <2>1, <2>2, FS_Subset
<1>8. count[e.from] \in Nat /\ count[n] \in Nat /\ count[n] <= count[e.from]
  BY <1>1, <1>2, <1>3
<1>9. QED
  BY <1>6, <1>7, <1>8

\* topoSort completes the order of a well-shaped flow just when no path leads back to
\* where it began.
THEOREM NoCycleNoRemainder ==
  ASSUME NEW flow, Shaped(flow)
  PROVE  Len(topoOrder(flow)) = Len(flow.nodes) <=> \A n \in Ids(flow) : ~Path(flow, n, n)
<1> DEFINE sorted == topoOrder(flow)
<1>1. /\ PartialOrder(flow, sorted)
      /\ Len(sorted) # Len(flow.nodes) => Ready(flow, sorted) = {}
  BY SortIsPartial DEF Shaped
<1>2. Len(sorted) = Len(flow.nodes) <=> ToSet(sorted) = Ids(flow)
  BY <1>1, CompleteOrder DEF PartialOrder, Shaped
<1>3. ASSUME Len(sorted) = Len(flow.nodes)
      PROVE  \A n \in Ids(flow) : ~Path(flow, n, n)
  <2>1. PICK rank \in [Ids(flow) -> Nat] : \A e \in flow.edges : rank[e.from] < rank[e.to]
    BY <1>3, CycleVerdictIsExact
  <2>2. QED
    BY <2>1, RankedHasNoCycle
<1>4. ASSUME Len(sorted) # Len(flow.nodes)
      PROVE  \E n \in Ids(flow) : Path(flow, n, n)
  <2> DEFINE stuck == Ids(flow) \ ToSet(sorted)
  <2>1. ToSet(sorted) \subseteq Ids(flow)
    BY <1>1 DEF PartialOrder, ToSet
  <2>2. stuck \in SUBSET Ids(flow) /\ stuck # {}
    BY <1>2, <1>4, <2>1
  <2>3. \A n \in stuck : \E e \in flow.edges : e.to = n /\ e.from \in stuck
    BY <1>1, <1>4 DEF Ready, Shaped
  <2> HIDE DEF stuck
  <2>4. QED
    BY <2>2, <2>3, PredecessorsMakeACycle
<1>5. QED
  BY <1>3, <1>4

\* The verdict of auditGraph in terms of paths: it passes exactly the flows it should,
\* malformed ones included.
THEOREM AuditIsExactOnPaths ==
  ASSUME NEW flow, Listed(flow)
  PROVE  AuditPassesExactly(flow)
<1>1. auditGraph(flow) = {} <=>
        /\ WellShaped(flow)
        /\ Len(topoOrder(flow)) = Len(flow.nodes)
        /\ Ids(flow) \subseteq reachableFrom(flow, flow.entry)
  BY DEF auditGraph, WellShaped
<1>2. ASSUME WellShaped(flow)
      PROVE  /\ Len(topoOrder(flow)) = Len(flow.nodes) <=> \A n \in Ids(flow) : ~Path(flow, n, n)
             /\ Ids(flow) \subseteq reachableFrom(flow, flow.entry)
                  <=> \A n \in Ids(flow) \ {flow.entry} : Path(flow, flow.entry, n)
  <2>1. Shaped(flow) /\ flow.entry \in Ids(flow)
    BY <1>2 DEF WellShaped, Shaped
  <2>2. Len(topoOrder(flow)) = Len(flow.nodes) <=> \A n \in Ids(flow) : ~Path(flow, n, n)
    BY <2>1, NoCycleNoRemainder
  <2> DEFINE reached == reachableFrom(flow, flow.entry)
  <2>3. /\ reached \subseteq Ids(flow) /\ flow.entry \in reached
        /\ Closed(flow, reached)
        /\ \A C \in SUBSET Ids(flow) : flow.entry \in C /\ Closed(flow, C) => reached \subseteq C
    BY <2>1, ReachIsExact
  <2> HIDE DEF reached
  <2>4. \A C \in SUBSET Ids(flow) :
          Closed(flow, C) <=> \A e \in flow.edges : e.from \in C => e.to \in C
    BY DEF Closed, Spread
  <2>5. ASSUME Ids(flow) \subseteq reached, NEW n \in Ids(flow) \ {flow.entry}
        PROVE  Path(flow, flow.entry, n)
    <3> SUFFICES ASSUME NEW S \in SUBSET Ids(flow),
                        \A e \in flow.edges : e.from \in S \cup {flow.entry} => e.to \in S
                 PROVE  n \in S
      BY DEF Path
    <3>1. S \cup {flow.entry} \in SUBSET Ids(flow) /\ Closed(flow, S \cup {flow.entry})
      BY <2>1, <2>4
    <3>2. reached \subseteq S \cup {flow.entry}
      BY <2>3, <3>1
    <3>3. QED
      BY <2>5, <3>2
  <2>6. ASSUME \A n \in Ids(flow) \ {flow.entry} : Path(flow, flow.entry, n)
        PROVE  Ids(flow) \subseteq reached
    <3>1. \A e \in flow.edges : e.from \in reached \cup {flow.entry} => e.to \in reached
      BY <2>3, <2>4
    <3>2. \A n \in Ids(flow) \ {flow.entry} : n \in reached
      BY <2>3, <2>6, <3>1 DEF Path
    <3>3. QED
      BY <2>3, <3>2
  <2>7. QED
    BY <2>2, <2>5, <2>6 DEF reached
<1>3. QED
  BY <1>1, <1>2 DEF AuditPassesExactly

\* topoSort succeeds on exactly the graphs with a topological order, and returns the
\* first of them by name.
THEOREM SortIsExact ==
  ASSUME NEW flow, Listed(flow)
  PROVE  SortReturnsTheLeast(flow)
<1> DEFINE sorted == topoOrder(flow)
           orders == TopologicalOrders(flow)
           least == \A t \in orders \ {sorted} :
                      \E i \in DOMAIN t : /\ sorted[i] < t[i]
                                         /\ \A j \in 1 .. i - 1 : sorted[j] = t[j]
<1> SUFFICES ASSUME WellShaped(flow)
             PROVE  IF orders = {} THEN Len(sorted) < Len(flow.nodes)
                    ELSE sorted \in orders /\ least
  BY DEF SortReturnsTheLeast
<1>1. /\ Shaped(flow)
      /\ PartialOrder(flow, sorted) /\ sorted \in Seq(Ids(flow)) /\ Len(sorted) \in Nat
      /\ Len(flow.nodes) \in Nat /\ DOMAIN flow.nodes = 1 .. Len(flow.nodes)
      /\ Len(sorted) <= Len(flow.nodes)
      /\ Len(sorted) = Len(flow.nodes) <=> ToSet(sorted) = Ids(flow)
  <2>1. Shaped(flow)
    BY DEF Shaped, WellShaped
  <2>2. PartialOrder(flow, sorted) /\ Len(sorted) <= Len(flow.nodes)
    BY SortIsPartial
  <2>3. sorted \in Seq(Ids(flow)) /\ Distinct(sorted)
    BY <2>2 DEF PartialOrder
  <2>4. Len(sorted) = Len(flow.nodes) <=> ToSet(sorted) = Ids(flow)
    <3> HIDE DEF sorted
    <3>1. QED
      BY <2>1, <2>3, CompleteOrder DEF Shaped
  <2>5. Len(flow.nodes) \in Nat /\ DOMAIN flow.nodes = 1 .. Len(flow.nodes)
    BY DEF Listed
  <2> HIDE DEF sorted
  <2>6. Len(sorted) \in Nat
    BY <2>3
  <2>7. QED
    BY <2>1, <2>2, <2>3, <2>4, <2>5, <2>6
<1>2. ASSUME ToSet(sorted) = Ids(flow)
      PROVE  sorted \in orders
  <2> HIDE DEF sorted
  <2>1. DOMAIN sorted = DOMAIN flow.nodes /\ sorted \in [DOMAIN flow.nodes -> Ids(flow)]
    BY <1>1, <1>2
  <2>2. ASSUME NEW e \in flow.edges, NEW i \in DOMAIN sorted, NEW j \in DOMAIN sorted,
               sorted[i] = e.from, sorted[j] = e.to
        PROVE  i < j
    <3>1. PICK k \in DOMAIN sorted : k < j /\ sorted[k] = e.from
      BY <1>1, <2>2 DEF PartialOrder, SourcesFirst
    <3>2. k = i
      BY <1>1, <2>2, <3>1 DEF PartialOrder, Distinct
    <3>3. QED
      BY <3>1, <3>2
  <2>3. QED
    BY <1>2, <2>1, <2>2 DEF TopologicalOrders
<1>3. ASSUME NEW t \in orders
      PROVE  /\ ToSet(sorted) = Ids(flow)
             /\ t # sorted => \E i \in DOMAIN t : /\ sorted[i] < t[i]
                                                /\ \A j \in 1 .. i - 1 : sorted[j] = t[j]
  <2>1. /\ t \in [DOMAIN flow.nodes -> Ids(flow)] /\ ToSet(t) = Ids(flow)
        /\ \A e \in flow.edges : \A i, j \in DOMAIN t : t[i] = e.from /\ t[j] = e.to => i < j
    BY <1>3 DEF TopologicalOrders
  <2>2. t \in Seq(Ids(flow)) /\ DOMAIN t = 1 .. Len(flow.nodes) /\ Len(t) = Len(flow.nodes)
    BY <1>1, <2>1
  <2>3. Distinct(t)
    <3>1. IsFiniteSet(1 .. Len(flow.nodes)) /\ Cardinality(1 .. Len(flow.nodes)) = Len(flow.nodes)
      <4> DEFINE n == Len(flow.nodes)
      <4>1. n \in Nat /\ n \in Int /\ 1 \in Int
        BY <1>1
      <4> HIDE DEF n
      <4>2. IsFiniteSet(1 .. n) /\ Cardinality(1 .. n) = IF 1 > n THEN 0 ELSE n - 1 + 1
        BY <4>1, FS_Interval
      <4>3. Cardinality(1 .. n) = n
        BY <4>1, <4>2
      <4>4. QED
        BY <4>2, <4>3 DEF n
    <3>2. t \in Surjection(1 .. Len(flow.nodes), Ids(flow))
      BY <2>1, <2>2 DEF Surjection, ToSet
    <3>3. Cardinality(Ids(flow)) = Cardinality(1 .. Len(flow.nodes))
      BY <1>1, <3>1 DEF Shaped
    <3>4. t \in Injection(1 .. Len(flow.nodes), Ids(flow))
      BY <3>1, <3>2, <3>3, FS_SurjSameCardinalityImpliesInj
    <3>5. QED
      BY <2>2, <3>4 DEF Injection, IsInjective, Distinct
  <2>4. SourcesFirst(flow, t)
    <3> SUFFICES ASSUME NEW i \in DOMAIN t, NEW e \in flow.edges, e.to = t[i]
                 PROVE  \E j \in DOMAIN t : j < i /\ t[j] = e.from
      BY DEF SourcesFirst
    <3>1. e.from \in ToSet(t)
      BY <1>1, <2>1 DEF Shaped
    <3>2. PICK j \in DOMAIN t : t[j] = e.from
      BY <3>1 DEF ToSet
    <3>3. QED
      BY <2>1, <3>2
  <2>5. /\ ToSet(topoOrder(flow)) = Ids(flow)
        /\ t # topoOrder(flow) =>
             \E i \in DOMAIN t : /\ topoOrder(flow)[i] < t[i]
                                /\ \A j \in DOMAIN t : j < i => topoOrder(flow)[j] = t[j]
    BY <1>1, <2>1, <2>2, <2>3, <2>4, SortIsLeast
  <2> HIDE DEF orders
  <2>6. \A i \in DOMAIN t : \A j \in 1 .. i - 1 : j \in DOMAIN t /\ j < i
    BY <2>2
  <2>7. QED
    BY <2>5, <2>6
<1>4. CASE orders = {}
  <2>1. ToSet(sorted) # Ids(flow)
    BY <1>2, <1>4
  <2> HIDE DEF sorted, orders
  <2>2. QED
    BY <1>1, <1>4, <2>1
<1>5. CASE orders # {}
  <2>1. ToSet(sorted) = Ids(flow)
    BY <1>3, <1>5
  <2>2. QED
    BY <1>2, <1>3, <1>5, <2>1
<1>6. QED
  BY <1>4, <1>5
=============================================================================
