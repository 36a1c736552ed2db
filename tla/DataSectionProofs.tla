------------------------- MODULE DataSectionProofs -------------------------
(***************************************************************************)
(* That the declarations the decompiler guesses never move a variable to   *)
(* another slot, for any DATA section and program.                         *)
(***************************************************************************)
EXTENDS DataSection, SequenceTheorems, WellFoundedInduction, TLAPS

(***************************************************************************)
(* Induction, and functions defined by recursion.                          *)
(***************************************************************************)
LEMMA Induction ==
    ASSUME NEW T, 0 \in T, \A n \in Nat : n \in T => n + 1 \in T
    PROVE  \A n \in Nat : n \in T
<1> SUFFICES ASSUME NEW n \in Nat, n \notin T PROVE FALSE
  OBVIOUS
<1> DEFINE B == {m \in Nat : m \notin T}
<1>1. PICK m \in B : \A k \in B : ~ (<< k, m >> \in OpToRel(<, Nat))
  <2>1. B \subseteq Nat /\ B # {}
    OBVIOUS
  <2> HIDE DEF B
  <2> QED
    BY <2>1, NatLessThanWellFounded, WFMin
<1>2. \A k \in B : ~ (k < m)
  BY <1>1 DEF OpToRel
<1>3. m # 0 /\ m - 1 \in Nat /\ m - 1 < m /\ (m - 1) + 1 = m
  OBVIOUS
<1>4. m - 1 \in T
  BY <1>2, <1>3
<1> QED
  BY <1>3, <1>4

\* What holds at first and is kept by each step up to N.
LEMMA Stepwise ==
    ASSUME NEW N \in Nat, NEW T, 0 \in T, \A n \in 1 .. N : n - 1 \in T => n \in T
    PROVE  \A n \in 0 .. N : n \in T
<1> DEFINE U == {n \in Nat : n <= N => n \in T}
<1>1. 0 \in U
  OBVIOUS
<1>2. ASSUME NEW n \in Nat, n \in U PROVE n + 1 \in U
  <2> SUFFICES ASSUME n + 1 <= N PROVE n + 1 \in T
    OBVIOUS
  <2>1. n + 1 \in 1 .. N /\ (n + 1) - 1 = n /\ n \in T
    BY <1>2
  <2> QED
    BY <2>1
<1>3. \A n \in Nat : n \in U
  <2> HIDE DEF U
  <2> QED
    BY <1>1, <1>2, Induction
<1> QED
  BY <1>3

\* There is a sequence of values in S that starts with x and goes on as f says.
Steps(h, S, x, N, f) == h \in [0 .. N -> S] /\ h[0] = x /\ \A n \in 1 .. N : h[n] = f[n][h[n - 1]]
Within(f, S, N) == \A n \in 1 .. N : f[n] \in [S -> S]

LEMMA Recursion ==
    ASSUME NEW S, NEW x, x \in S, NEW N, N \in Nat, NEW f, Within(f, S, N)
    PROVE  \E h : Steps(h, S, x, N, f)
<1> DEFINE T == {n \in Nat : \E h : Steps(h, S, x, n, f)}
<1>1. 0 \in T
  <2>1. Steps([i \in 0 .. 0 |-> x], S, x, 0, f)
    BY DEF Steps
  <2> QED
    BY <2>1
<1>2. ASSUME NEW n \in 1 .. N, n - 1 \in T PROVE n \in T
  <2>1. PICK h : Steps(h, S, x, n - 1, f)
    BY <1>2
  <2>2. h \in [0 .. n - 1 -> S] /\ h[0] = x /\ \A i \in 1 .. n - 1 : h[i] = f[i][h[i - 1]]
    BY <2>1 DEF Steps
  <2>3. h[n - 1] \in S /\ f[n][h[n - 1]] \in S
    BY <2>2 DEF Within
  <2>4. PICK g : g = [i \in 0 .. n |-> IF i = n THEN f[n][h[n - 1]] ELSE h[i]]
    OBVIOUS
  <2>5. g \in [0 .. n -> S] /\ g[0] = x
    BY <2>2, <2>3, <2>4
  <2>6. ASSUME NEW i \in 1 .. n PROVE g[i] = f[i][g[i - 1]]
    <3>1. CASE i = n
      BY <2>4, <3>1
    <3>2. CASE i # n
      BY <2>2, <2>4, <3>2
    <3> QED
      BY <3>1, <3>2
  <2>7. Steps(g, S, x, n, f)
    BY <2>5, <2>6 DEF Steps
  <2> QED
    BY <2>7
<1>3. \A n \in 0 .. N : n \in T
  <2> HIDE DEF T
  <2> QED
    BY <1>1, <1>2, Stepwise
<1> QED
  BY <1>3

-----------------------------------------------------------------------------
(***************************************************************************)
(* Sequences, and the slots of declarations in their order.                *)
(***************************************************************************)
LEMMA SequenceFacts ==
    ASSUME NEW s, IsSequence(s)
    PROVE  Len(s) \in Nat /\ DOMAIN s = 1 .. Len(s)
  BY DEF IsSequence

IsEnds(h, items) == h = [k \in 0 .. Len(items) |-> IF k = 0 THEN 0 ELSE h[k - 1] + Size(items[k])]

LEMMA EndsSteps ==
    ASSUME NEW items, Len(items) \in Nat, \A k \in 1 .. Len(items) : Size(items[k]) \in Nat
    PROVE  /\ Ends(items) \in [0 .. Len(items) -> Nat]
           /\ Ends(items)[0] = 0
           /\ \A k \in 1 .. Len(items) : Ends(items)[k] = Ends(items)[k - 1] + Size(items[k])
<1>1. PICK N \in Nat : N = Len(items)
  OBVIOUS
<1>2. PICK f : f = [k \in 1 .. N |-> [v \in Nat |-> v + Size(items[k])]]
  OBVIOUS
<1>3. Within(f, Nat, N)
  BY <1>1, <1>2 DEF Within
<1>4. PICK h : h \in [0 .. N -> Nat] /\ h[0] = 0 /\ \A k \in 1 .. N : h[k] = f[k][h[k - 1]]
  <2>1. \E h : Steps(h, Nat, 0, N, f)
    BY <1>3, Recursion
  <2> QED
    BY <2>1 DEF Steps
<1>5. \A k \in 1 .. N : k - 1 \in 0 .. N /\ h[k - 1] \in Nat /\ h[k] = h[k - 1] + Size(items[k])
  BY <1>2, <1>4
<1>6. IsEnds(h, items)
  <2>1. h = [k \in 0 .. N |-> IF k = 0 THEN 0 ELSE h[k - 1] + Size(items[k])]
    BY <1>4, <1>5
  <2> QED
    BY <1>1, <2>1 DEF IsEnds
<1>7. Ends(items) = CHOOSE g : IsEnds(g, items)
  BY DEF Ends, IsEnds
<1>8. PICK e : e = Ends(items)
  OBVIOUS
<1>9. IsEnds(e, items)
  BY <1>6, <1>7, <1>8
<1>10. e = [k \in 0 .. N |-> IF k = 0 THEN 0 ELSE e[k - 1] + Size(items[k])]
  BY <1>1, <1>9 DEF IsEnds
<1>11. \A k \in 0 .. N : e[k] = IF k = 0 THEN 0 ELSE e[k - 1] + Size(items[k])
  BY <1>10, Zenon
<1>12. e[0] = 0 /\ \A k \in 1 .. N : e[k] = e[k - 1] + Size(items[k])
  BY <1>11
<1>13. \A k \in 0 .. N : e[k] \in Nat
  <2> DEFINE T == {k \in Nat : e[k] \in Nat}
  <2>1. 0 \in T
    BY <1>12
  <2>2. \A k \in 1 .. N : k - 1 \in T => k \in T
    BY <1>1, <1>12
  <2>3. \A k \in 0 .. N : k \in T
    <3> HIDE DEF T
    <3> QED
      BY <2>1, <2>2, Stepwise
  <2> QED
    BY <2>3
<1>14. e \in [0 .. N -> Nat]
  BY <1>10, <1>13
<1> QED
  BY <1>1, <1>8, <1>12, <1>14

\* The ends of the first items are those of a beginning of the sequence.
LEMMA EndsOfPrefix ==
    ASSUME NEW a, NEW b, NEW N \in Nat, Len(a) \in Nat, Len(b) \in Nat, N <= Len(a), N <= Len(b),
           \A k \in 1 .. Len(a) : Size(a[k]) \in Nat, \A k \in 1 .. Len(b) : Size(b[k]) \in Nat,
           \A k \in 1 .. N : a[k] = b[k]
    PROVE  \A k \in 0 .. N : Ends(a)[k] = Ends(b)[k]
<1>1. PICK e, d : e = Ends(a) /\ d = Ends(b)
  OBVIOUS
<1>2. /\ e[0] = 0 /\ \A k \in 1 .. Len(a) : e[k] = e[k - 1] + Size(a[k])
      /\ d[0] = 0 /\ \A k \in 1 .. Len(b) : d[k] = d[k - 1] + Size(b[k])
  BY <1>1, EndsSteps
<1> DEFINE T == {k \in Nat : e[k] = d[k]}
<1>3. 0 \in T
  BY <1>2
<1>4. \A k \in 1 .. N : k - 1 \in T => k \in T
  BY <1>2
<1>5. \A k \in 0 .. N : k \in T
  <2> HIDE DEF T
  <2> QED
    BY <1>3, <1>4, Stepwise
<1> QED
  BY <1>1, <1>5

\* Every item takes a slot at least.
LEMMA EndsIncrease ==
    ASSUME NEW items, Len(items) \in Nat, \A k \in 1 .. Len(items) : Size(items[k]) \in Nat \ {0}
    PROVE  \A k \in 0 .. Len(items) : \A j \in 0 .. k : j < k => Ends(items)[j] < Ends(items)[k]
<1>1. PICK e : e = Ends(items)
  OBVIOUS
<1>0. PICK N \in Nat : N = Len(items)
  OBVIOUS
<1>2. /\ e \in [0 .. N -> Nat] /\ e[0] = 0
      /\ \A k \in 1 .. N : e[k] = e[k - 1] + Size(items[k]) /\ Size(items[k]) \in Nat \ {0}
  BY <1>0, <1>1, EndsSteps
<1> DEFINE T == {k \in Nat : \A j \in 0 .. k : j < k => e[j] < e[k]}
<1>3. 0 \in T
  OBVIOUS
<1>4. ASSUME NEW k \in 1 .. N, k - 1 \in T PROVE k \in T
  <2>1. e[k - 1] < e[k] /\ e[k - 1] \in Nat /\ e[k] \in Nat
    <3>1. k - 1 \in 0 .. N
      OBVIOUS
    <3>2. e[k - 1] \in Nat /\ e[k] = e[k - 1] + Size(items[k]) /\ Size(items[k]) \in Nat \ {0}
      BY <1>2, <3>1
    <3> QED
      BY <3>2
  <2>2. ASSUME NEW j \in 0 .. k, j < k PROVE e[j] < e[k]
    <3>1. CASE j = k - 1
      BY <2>1, <3>1
    <3>2. CASE j # k - 1
      <4>1. j \in 0 .. k - 1 /\ j < k - 1 /\ j \in 0 .. N
        BY <2>2, <3>2
      <4>2. e[j] < e[k - 1] /\ e[j] \in Nat
        BY <1>2, <1>4, <4>1
      <4> QED
        BY <2>1, <4>2
    <3> QED
      BY <3>1, <3>2
  <2> QED
    BY <2>2
<1>5. \A k \in 0 .. N : k \in T
  <2> HIDE DEF T
  <2> QED
    BY <1>3, <1>4, Stepwise
<1> QED
  BY <1>0, <1>1, <1>5

-----------------------------------------------------------------------------
(* The items of a DATA section.                                            *)

IsUpTo(h, data) == h = [g \in 0 .. Len(data) |-> IF g = 0 THEN << >> ELSE h[g - 1] \o data[g].items]
Typed(data, T) == Len(data) \in Nat /\ \A g \in 1 .. Len(data) : data[g].items \in Seq(T)

LEMMA ItemsSteps ==
    ASSUME NEW data, NEW T, Typed(data, T)
    PROVE  /\ ItemsUpTo(data) \in [0 .. Len(data) -> Seq(T)]
           /\ ItemsUpTo(data)[0] = << >>
           /\ \A g \in 1 .. Len(data) : ItemsUpTo(data)[g] = ItemsUpTo(data)[g - 1] \o data[g].items
<1>1. PICK N : N = Len(data) /\ N \in Nat
  BY DEF Typed
<1>2. PICK f : f = [g \in 1 .. N |-> [v \in Seq(T) |-> v \o data[g].items]]
  OBVIOUS
<1>3. Within(f, Seq(T), N)
  <2> SUFFICES ASSUME NEW g \in 1 .. N PROVE f[g] \in [Seq(T) -> Seq(T)]
    BY DEF Within
  <2>1. data[g].items \in Seq(T)
    BY <1>1 DEF Typed
  <2>2. \A v \in Seq(T) : v \o data[g].items \in Seq(T)
    BY <2>1, ConcatProperties
  <2> QED
    BY <1>2, <2>2
<1>4. PICK h : h \in [0 .. N -> Seq(T)] /\ h[0] = << >> /\ \A g \in 1 .. N : h[g] = f[g][h[g - 1]]
  <2>1. << >> \in Seq(T)
    OBVIOUS
  <2>2. \E h : Steps(h, Seq(T), << >>, N, f)
    BY <1>1, <1>3, <2>1, Recursion
  <2> QED
    BY <2>2 DEF Steps
<1>5. \A g \in 1 .. N : h[g] = h[g - 1] \o data[g].items
  <2> SUFFICES ASSUME NEW g \in 1 .. N PROVE h[g] = h[g - 1] \o data[g].items
    OBVIOUS
  <2>1. g - 1 \in 0 .. N
    BY <1>1
  <2>2. h[g - 1] \in Seq(T)
    BY <1>4, <2>1
  <2> QED
    BY <1>2, <1>4, <2>2
<1>6. IsUpTo(h, data)
  <2>1. h = [g \in 0 .. N |-> IF g = 0 THEN << >> ELSE h[g - 1] \o data[g].items]
    BY <1>1, <1>4, <1>5
  <2> QED
    BY <1>1, <2>1 DEF IsUpTo
<1>7. ItemsUpTo(data) = CHOOSE u : IsUpTo(u, data)
  BY DEF ItemsUpTo, IsUpTo
<1>8. PICK u : u = ItemsUpTo(data)
  OBVIOUS
<1>9. IsUpTo(u, data)
  BY <1>6, <1>7, <1>8
<1>10. u = [g \in 0 .. N |-> IF g = 0 THEN << >> ELSE u[g - 1] \o data[g].items]
  BY <1>1, <1>9 DEF IsUpTo
<1>11. \A g \in 0 .. N : u[g] = IF g = 0 THEN << >> ELSE u[g - 1] \o data[g].items
  BY <1>10, Zenon
<1>12. u[0] = << >> /\ \A g \in 1 .. N : u[g] = u[g - 1] \o data[g].items
  <2>1. 0 \in 0 .. N /\ \A g \in 1 .. N : g \in 0 .. N /\ g # 0
    BY <1>1
  <2> QED
    BY <1>11, <2>1, Zenon
<1>13. \A g \in 0 .. N : u[g] \in Seq(T)
  <2> DEFINE K == {g \in Nat : u[g] \in Seq(T)}
  <2>1. 0 \in K
    <3>1. << >> \in Seq(T) /\ u[0] = << >>
      BY <1>12, EmptySeq
    <3> QED
      BY <3>1
  <2>2. ASSUME NEW g \in 1 .. N, g - 1 \in K PROVE g \in K
    <3>1. data[g].items \in Seq(T) /\ u[g - 1] \in Seq(T)
      BY <1>1, <2>2 DEF Typed
    <3>2. u[g - 1] \o data[g].items \in Seq(T)
      BY <3>1, ConcatProperties
    <3>3. u[g] = u[g - 1] \o data[g].items
      BY <1>12
    <3>4. u[g] \in Seq(T)
      BY <3>2, <3>3, Zenon
    <3> QED
      BY <3>4
  <2>3. \A g \in 0 .. N : g \in K
    <3> HIDE DEF K
    <3> QED
      BY <1>1, <2>1, <2>2, Stepwise
  <2> QED
    BY <2>3
<1>14. u \in [0 .. N -> Seq(T)]
  BY <1>10, <1>13
<1> QED
  BY <1>1, <1>8, <1>12, <1>14

LEMMA ItemsOfPrefix ==
    ASSUME NEW a, NEW b, NEW T, Typed(a, T), Typed(b, T),
           NEW N \in Nat, N <= Len(a), N <= Len(b), \A g \in 1 .. N : a[g].items = b[g].items
    PROVE  \A g \in 0 .. N : ItemsUpTo(a)[g] = ItemsUpTo(b)[g]
<1>1. PICK u, v : u = ItemsUpTo(a) /\ v = ItemsUpTo(b)
  OBVIOUS
<1>2. Len(a) \in Nat /\ Len(b) \in Nat
  BY DEF Typed
<1>3. /\ u[0] = << >> /\ \A g \in 1 .. Len(a) : u[g] = u[g - 1] \o a[g].items
      /\ v[0] = << >> /\ \A g \in 1 .. Len(b) : v[g] = v[g - 1] \o b[g].items
  BY <1>1, ItemsSteps
<1> DEFINE K == {g \in Nat : u[g] = v[g]}
<1>4. 0 \in K
  BY <1>3
<1>5. ASSUME NEW g \in 1 .. N, g - 1 \in K PROVE g \in K
  <2>1. g \in 1 .. Len(a) /\ g \in 1 .. Len(b) /\ u[g - 1] = v[g - 1] /\ a[g].items = b[g].items
    BY <1>2, <1>5
  <2>2. u[g] = u[g - 1] \o a[g].items /\ v[g] = v[g - 1] \o b[g].items
    BY <1>3, <2>1
  <2>3. u[g] = v[g]
    BY <2>1, <2>2, Zenon
  <2> QED
    BY <2>3
<1>6. \A g \in 0 .. N : g \in K
  <2> HIDE DEF K
  <2> QED
    BY <1>4, <1>5, Stepwise
<1> QED
  BY <1>1, <1>6

LEMMA ItemsTyped ==
    ASSUME NEW data, NEW T, Typed(data, T)
    PROVE  Items(data) \in Seq(T)
<1>1. Len(data) \in 0 .. Len(data)
  BY DEF Typed
<1>2. ItemsUpTo(data) \in [0 .. Len(data) -> Seq(T)]
  BY ItemsSteps
<1> QED
  BY <1>1, <1>2 DEF Items

LEMMA ConcatIndex ==
    ASSUME NEW T, NEW s \in Seq(T), NEW t \in Seq(T)
    PROVE  /\ \A k \in DOMAIN s : k \in DOMAIN (s \o t) /\ (s \o t)[k] = s[k]
           /\ \A k \in 1 .. Len(t) : Len(s) + k \in DOMAIN (s \o t) /\ (s \o t)[Len(s) + k] = t[k]
<1>1. PICK c : c = s \o t
  OBVIOUS
<1>2. /\ c \in Seq(T) /\ Len(c) = Len(s) + Len(t)
      /\ \A i \in 1 .. Len(s) + Len(t) : c[i] = IF i <= Len(s) THEN s[i] ELSE t[i - Len(s)]
  BY <1>1, ConcatProperties
<1>3. /\ DOMAIN s = 1 .. Len(s) /\ Len(s) \in Nat /\ Len(t) \in Nat
      /\ DOMAIN c = 1 .. Len(s) + Len(t)
  BY <1>2, LenProperties
<1>4. \A k \in DOMAIN s : k \in DOMAIN c /\ c[k] = s[k]
  BY <1>2, <1>3
<1>5. \A k \in 1 .. Len(t) : Len(s) + k \in DOMAIN c /\ c[Len(s) + k] = t[k]
  BY <1>2, <1>3
<1> QED
  BY <1>1, <1>4, <1>5

\* Every item of a group is one of the section.
LEMMA ItemsHold ==
    ASSUME NEW data, NEW T, Typed(data, T), NEW g \in 1 .. Len(data), NEW j \in DOMAIN data[g].items
    PROVE  \E k \in DOMAIN Items(data) : Items(data)[k] = data[g].items[j]
<1>1. PICK u : u = ItemsUpTo(data)
  OBVIOUS
<1>2. PICK N : N = Len(data) /\ N \in Nat
  BY DEF Typed
<1>3. u \in [0 .. N -> Seq(T)] /\ \A i \in 1 .. N : u[i] = u[i - 1] \o data[i].items
  BY <1>1, <1>2, ItemsSteps
<1> DEFINE Has(s) == \E k \in DOMAIN s : s[k] = data[g].items[j]
           K == {n \in Nat : g <= n => Has(u[n])}
<1>4. 0 \in K
  BY <1>2
<1>5. ASSUME NEW n \in 1 .. N, n - 1 \in K PROVE n \in K
  <2> SUFFICES ASSUME g <= n PROVE Has(u[n])
    OBVIOUS
  <2>1. u[n - 1] \in Seq(T) /\ data[n].items \in Seq(T) /\ u[n] = u[n - 1] \o data[n].items
    <3>1. n - 1 \in 0 .. N
      BY <1>2
    <3> QED
      BY <1>2, <1>3, <3>1 DEF Typed
  <2>2. CASE g = n
    <3>1. PICK s, t : s = u[n - 1] /\ t = data[n].items
      OBVIOUS
    <3>2. s \in Seq(T) /\ t \in Seq(T) /\ u[n] = s \o t /\ j \in 1 .. Len(t)
      BY <2>1, <2>2, <3>1, LenProperties
    <3>3. (s \o t)[Len(s) + j] = t[j] /\ Len(s) + j \in DOMAIN (s \o t)
      BY <3>2, ConcatIndex
    <3> QED
      BY <2>2, <3>1, <3>2, <3>3
  <2>3. CASE g # n
    <3>1. PICK k \in DOMAIN u[n - 1] : u[n - 1][k] = data[g].items[j]
      BY <1>2, <1>5, <2>3
    <3>2. PICK s, t : s = u[n - 1] /\ t = data[n].items
      OBVIOUS
    <3>4. s \in Seq(T) /\ t \in Seq(T) /\ k \in DOMAIN s
      BY <2>1, <3>1, <3>2
    <3>3. k \in DOMAIN (s \o t) /\ (s \o t)[k] = s[k]
      BY <3>4, ConcatIndex, Zenon
    <3> QED
      BY <2>1, <3>1, <3>2, <3>3
  <2> QED
    BY <2>2, <2>3
<1>6. \A n \in 0 .. N : n \in K
  <2> HIDE DEF K
  <2> QED
    BY <1>2, <1>4, <1>5, Stepwise
<1>7. Has(u[N])
  BY <1>2, <1>6
<1> QED
  BY <1>1, <1>2, <1>7 DEF Items

\* A group more, and an item more in the last group.
Groups(T) == Seq([start : Int, items : Seq(T)])

LEMMA GroupsTyped ==
    ASSUME NEW T, NEW data \in Groups(T)
    PROVE  /\ Typed(data, T) /\ Len(data) \in Nat /\ DOMAIN data = 1 .. Len(data)
           /\ \A g \in 1 .. Len(data) : data[g] \in [start : Int, items : Seq(T)]
<1> DEFINE G == [start : Int, items : Seq(T)]
<1>1. data \in Seq(G)
  BY DEF Groups
<1>2. Len(data) \in Nat /\ DOMAIN data = 1 .. Len(data)
  BY <1>1, LenProperties
<1>3. \A g \in 1 .. Len(data) : data[g] \in G
  BY <1>1, ElementOfSeq
<1> QED
  BY <1>2, <1>3 DEF Typed

LEMMA ItemsOfMore ==
    ASSUME NEW T, NEW data \in Groups(T), NEW group \in [start : Int, items : Seq(T)]
    PROVE  Append(data, group) \in Groups(T) /\ Items(Append(data, group)) = Items(data) \o group.items
<1>1. PICK more : more = Append(data, group)
  OBVIOUS
<1>2. /\ more \in Groups(T)
      /\ Len(more) = Len(data) + 1 /\ more[Len(data) + 1] = group
      /\ \A g \in 1 .. Len(data) : more[g] = data[g]
  BY <1>1, AppendProperties DEF Groups
<1>3. Typed(data, T) /\ Typed(more, T)
  BY <1>2, GroupsTyped
<1>4. PICK N \in Nat : N = Len(data)
  BY GroupsTyped
<1>5. ItemsUpTo(more)[N] = ItemsUpTo(data)[N]
  <2>1. N <= Len(data) /\ N <= Len(more) /\ \A g \in 1 .. N : more[g].items = data[g].items
    BY <1>2, <1>4
  <2>2. \A g \in 0 .. N : ItemsUpTo(more)[g] = ItemsUpTo(data)[g]
    BY <1>3, <2>1, ItemsOfPrefix
  <2> QED
    BY <2>2
<1>6. N + 1 \in 1 .. Len(more) /\ (N + 1) - 1 = N
  BY <1>2, <1>4
<1>7. ItemsUpTo(more)[N + 1] = ItemsUpTo(more)[N] \o more[N + 1].items
  BY <1>3, <1>6, ItemsSteps
<1>8. more[N + 1].items = group.items /\ Len(more) = N + 1
  BY <1>2, <1>4
<1> QED
  BY <1>1, <1>2, <1>4, <1>5, <1>7, <1>8 DEF Items

LEMMA ConcatAppend ==
    ASSUME NEW T, NEW s \in Seq(T), NEW x \in T, NEW u \in Seq(T)
    PROVE  Append(u \o s, x) = u \o Append(s, x)
  BY SMT

Longer(more, data, item) == more = [data EXCEPT ![Len(data)].items = Append(@, item)]

LEMMA ItemsOfLonger ==
    ASSUME NEW T, NEW data \in Groups(T), data # << >>, NEW item \in T, NEW new, Longer(new, data, item)
    PROVE  /\ new \in Groups(T) /\ Items(new) = Append(Items(data), item)
           /\ Len(new) = Len(data) /\ \A g \in 1 .. Len(data) - 1 : new[g] = data[g]
           /\ new[Len(data)].start = data[Len(data)].start
<1> DEFINE G == [start : Int, items : Seq(T)]
<1>1. PICK N \in Nat \ {0} : N = Len(data)
  BY GroupsTyped, EmptySeq DEF Groups
<1>2. PICK last : last = data[N] /\ last \in G
  BY <1>1, GroupsTyped
<1>3. PICK longer : longer = [last EXCEPT !.items = Append(@, item)]
  OBVIOUS
<1>4. longer \in G /\ longer.items = Append(last.items, item)
  <2>1. last.items \in Seq(T) /\ Append(last.items, item) \in Seq(T)
    BY <1>2, AppendProperties
  <2> QED
    BY <1>2, <1>3, <2>1
<1>5. PICK more : more = [data EXCEPT ![N] = longer]
  OBVIOUS
<1>6. /\ more \in Groups(T) /\ Len(more) = N /\ more[N] = longer
      /\ \A g \in 1 .. N - 1 : more[g] = data[g]
  <2>1. data \in Seq(G) /\ N \in 1 .. Len(data)
    BY <1>1 DEF Groups
  <2>2. /\ more \in Seq(G) /\ Len(more) = Len(data)
        /\ \A j \in 1 .. Len(data) : more[j] = IF j = N THEN longer ELSE data[j]
    <3> HIDE DEF G
    <3> QED
      BY <1>4, <1>5, <2>1, ExceptSeq
  <2>3. more \in Groups(T)
    BY <2>2, Zenon DEF Groups
  <2>4. \A g \in 1 .. N - 1 : g \in 1 .. Len(data) /\ g # N
    BY <1>1
  <2>5. N \in 1 .. Len(data)
    BY <1>1
  <2> QED
    BY <1>1, <2>2, <2>3, <2>4, <2>5, Zenon
<1>7. Typed(data, T) /\ Typed(more, T)
  BY <1>6, GroupsTyped
<1>8. N - 1 \in Nat /\ N - 1 <= Len(data) /\ N - 1 <= Len(more) /\ N \in 1 .. Len(data) /\ N \in 1 .. Len(more)
  BY <1>1, <1>6
<1>9. ItemsUpTo(more)[N - 1] = ItemsUpTo(data)[N - 1]
  <2>1. \A g \in 0 .. N - 1 : ItemsUpTo(more)[g] = ItemsUpTo(data)[g]
    BY <1>6, <1>7, <1>8, ItemsOfPrefix
  <2> QED
    BY <1>8, <2>1
<1>10. PICK u : u = ItemsUpTo(data)[N - 1]
  OBVIOUS
<1>11. u \in Seq(T) /\ ItemsUpTo(data)[N] = u \o last.items
  <2>1. N - 1 \in 0 .. Len(data)
    BY <1>1
  <2> QED
    BY <1>2, <1>7, <1>8, <1>10, <2>1, ItemsSteps
<1>12. ItemsUpTo(more)[N] = u \o longer.items
  BY <1>6, <1>7, <1>8, <1>9, <1>10, ItemsSteps
<1>13. u \o Append(last.items, item) = Append(u \o last.items, item)
  <2>1. PICK s : s = last.items /\ s \in Seq(T)
    BY <1>2
  <2> QED
    BY <1>11, <2>1, ConcatAppend
<1>14. Items(more) = Append(Items(data), item)
  BY <1>1, <1>4, <1>6, <1>11, <1>12, <1>13 DEF Items
<1>15. more = new
  BY <1>1, <1>2, <1>3, <1>5 DEF Longer
<1>16. more[N].start = data[N].start
  BY <1>2, <1>3, <1>6
<1> QED
  BY <1>1, <1>6, <1>14, <1>15, <1>16

-----------------------------------------------------------------------------
(* What the compiler writes.                                               *)

CodeIndex(i) ==
    /\ i.index = << >>
    /\ \/ i.kind = "I" /\ i.value \in 1 .. 8
       \/ \E w \in Slots : i = Rda(w, << >>)
CodeOperand(op) ==
    \/ op.kind = "I" /\ op.value \in 1 .. 8 /\ op.index = << >>
    \/ op.kind = "lit" /\ op.value \in Nat /\ op.index = << >>
    \/ \E v \in Slots : op = Rda(v, << >>)
    \/ \E v \in Slots : \E i : CodeIndex(i) /\ op = Rda(v, << i >>)
CodeOperands(ops) ==
    /\ Len(ops) \in Nat /\ DOMAIN ops = 1 .. Len(ops)
    /\ ops = [j \in 1 .. Len(ops) |-> ops[j]]
    /\ \A j \in 1 .. Len(ops) : CodeOperand(ops[j])
IsInstruction(instr) ==
    /\ CodeOperands(instr.operands) /\ instr.count \in Nat
    /\ instr.verb = "CJ" => Len(instr.operands) = 2
    /\ instr.verb \in {"CLEAR", "SAVE"} => Len(instr.operands) >= 1

LEMMA RdaFields ==
    ASSUME NEW v, NEW i
    PROVE  /\ Rda(v, i).kind = "rda" /\ Rda(v, i).value = v /\ Rda(v, i).index = i
           /\ IsRda(Rda(v, i))
  BY DEF Rda, IsRda

\* The items of a section the parser hands over, and their slots.
LEMMA DataItems ==
    ASSUME NEW data, IsData(data)
    PROVE  LET items == Items(data)
           IN  /\ Len(items) \in Nat /\ DOMAIN items = 1 .. Len(items)
               /\ \A k \in 1 .. Len(items) : items[k].dim \in Nat /\ Size(items[k]) \in Nat \ {0}
               /\ \A g \in DOMAIN data : /\ IsSequence(data[g].items) /\ data[g].items # << >>
                                         /\ \A j \in DOMAIN data[g].items : data[g].items[j].dim \in Nat
                                         /\ \E k \in DOMAIN items : items[k] = data[g].items[1]
<1> DEFINE T == UNION {{data[g].items[j] : j \in DOMAIN data[g].items} : g \in DOMAIN data}
<1>1. Len(data) \in Nat /\ DOMAIN data = 1 .. Len(data)
  BY SequenceFacts DEF IsData
<1>2. \A g \in DOMAIN data : /\ IsSequence(data[g].items) /\ data[g].items # << >>
                             /\ \A j \in DOMAIN data[g].items : data[g].items[j].dim \in Nat
  BY DEF IsData
<1>3. Typed(data, T)
  <2> SUFFICES ASSUME NEW g \in 1 .. Len(data) PROVE data[g].items \in Seq(T)
    BY <1>1 DEF Typed
  <2> DEFINE R == {data[g].items[j] : j \in DOMAIN data[g].items}
  <2>1. data[g].items \in Seq(R)
    BY <1>1, <1>2 DEF IsSequence
  <2>2. R \subseteq T
    BY <1>1
  <2> HIDE DEF R, T
  <2> QED
    BY <2>1, <2>2, SeqMonotonic
<1>4. \A x \in T : x.dim \in Nat
  BY <1>2
<1>5. PICK items : items = Items(data)
  OBVIOUS
<1>6. items \in Seq(T)
  <2> HIDE DEF T
  <2> QED
    BY <1>3, <1>5, ItemsTyped
<1>7. Len(items) \in Nat /\ DOMAIN items = 1 .. Len(items) /\ \A k \in 1 .. Len(items) : items[k] \in T
  <2> HIDE DEF T
  <2> QED
    BY <1>6, LenProperties, ElementOfSeq
<1>8. \A k \in 1 .. Len(items) : items[k].dim \in Nat
  <2> HIDE DEF T
  <2> QED
    BY <1>4, <1>7
<1>9. \A k \in 1 .. Len(items) : Size(items[k]) \in Nat \ {0}
  BY <1>8 DEF Size
<1>10. ASSUME NEW g \in DOMAIN data PROVE \E k \in DOMAIN items : items[k] = data[g].items[1]
  <2>1. IsSequence(data[g].items) /\ data[g].items # << >>
    BY <1>2
  <2>2. 1 \in DOMAIN data[g].items
    BY <2>1, SequenceFacts, EmptySeq DEF IsSequence
  <2> HIDE DEF T
  <2> QED
    BY <1>1, <1>3, <1>5, <2>2, ItemsHold
<1> QED
  BY <1>2, <1>5, <1>7, <1>8, <1>9, <1>10

\* A variable that is declared has a slot.
LEMMA SlotExists ==
    ASSUME NEW data, IsData(data), NEW name, Declared(data, name) # {}
    PROVE  SlotOf(data, name) \in Slots /\ DimOf(data, name) \in Nat
<1>1. PICK items : items = Items(data)
  OBVIOUS
<1>2. /\ Len(items) \in Nat /\ DOMAIN items = 1 .. Len(items)
      /\ \A k \in 1 .. Len(items) : items[k].dim \in Nat /\ Size(items[k]) \in Nat \ {0}
  BY <1>1, DataItems
<1>3. PICK k : k = CHOOSE d \in Declared(data, name) : TRUE
  OBVIOUS
<1>4. k \in 1 .. Len(items)
  BY <1>1, <1>2, <1>3 DEF Declared
<1>5. PICK e : e = Ends(items)
  OBVIOUS
<1>6. e \in [0 .. Len(items) -> Nat]
  BY <1>2, <1>5, EndsSteps
<1>7. e[k - 1] < e[Len(items)]
  <2>1. Len(items) \in 0 .. Len(items) /\ k - 1 \in 0 .. Len(items) /\ k - 1 < Len(items)
    BY <1>2, <1>4
  <2> QED
    BY <1>2, <1>5, <2>1, EndsIncrease
<1>8. e[Len(items)] <= MAX_RDA_SLOTS
  BY <1>1, <1>5 DEF IsData, SizeOfAll
<1>9. SlotOf(data, name) = e[k - 1] /\ DimOf(data, name) = items[k].dim
  BY <1>1, <1>3, <1>5 DEF SlotOf, DimOf
<1>10. e[k - 1] \in Nat /\ e[Len(items)] \in Nat
  BY <1>2, <1>4, <1>6
<1>11. e[k - 1] \in Slots
  BY <1>7, <1>8, <1>10, SlotsAssumption DEF Slots
<1> QED
  BY <1>2, <1>4, <1>9, <1>11

LEMMA SizeInNat ==
    ASSUME NEW data, IsData(data), NEW op
    PROVE  SizeIn(data, op) \in Nat
<1>1. CASE IsPlainRda(op) /\ Declared(data, op.value) # {}
  BY <1>1, SlotExists DEF SizeIn
<1>2. CASE ~ IsPlainRda(op) \/ Declared(data, op.value) = {}
  BY <1>2 DEF SizeIn, DimOf
<1> QED
  BY <1>1, <1>2

LEMMA ExtentNat ==
    ASSUME NEW data, IsData(data), NEW op, Known(data, op)
    PROVE  Extent(data, op) \in Nat
<1>1. CASE op.kind = "group"
  <2>1. PICK g : g \in DOMAIN data /\ Group(data, op.value) = data[g]
    BY <1>1 DEF Known, GroupsOf, Group
  <2>2. PICK items : items = data[g].items
    OBVIOUS
  <2>3. IsSequence(items) /\ \A j \in DOMAIN items : items[j].dim \in Nat
    BY <2>1, <2>2, DataItems
  <2>4. Len(items) \in Nat /\ \A j \in 1 .. Len(items) : Size(items[j]) \in Nat
    BY <2>3, SequenceFacts DEF Size
  <2>5. SizeOfAll(items) \in Nat
    <3>1. Ends(items) \in [0 .. Len(items) -> Nat] /\ Len(items) \in 0 .. Len(items)
      BY <2>4, EndsSteps
    <3> QED
      BY <3>1 DEF SizeOfAll
  <2> QED
    BY <1>1, <2>1, <2>2, <2>5 DEF Extent
<1>2. CASE op.kind # "group"
  BY <1>2, SizeInNat DEF Extent
<1> QED
  BY <1>1, <1>2

LEMMA OperandCompiled ==
    ASSUME NEW data, IsData(data), NEW op, Known(data, op), IsOperand(data, op)
    PROVE  CodeOperand(Written(data, op))
<1>1. IsRda(op) => Declared(data, op.value) # {}
  BY DEF Known
<1>2. CASE op.kind = "group"
  <2>1. PICK g : g \in DOMAIN data /\ Group(data, op.value) = data[g]
    BY <1>2 DEF Known, GroupsOf, Group
  <2>2. \E k \in DOMAIN Items(data) : Items(data)[k] = data[g].items[1]
    BY <2>1, DataItems
  <2>3. PICK v : v = SlotOf(data, data[g].items[1].slot)
    OBVIOUS
  <2>4. v \in Slots
    BY <2>2, <2>3, SlotExists DEF Declared
  <2>5. Written(data, op) = Rda(v, << >>)
    BY <1>2, <2>1, <2>3 DEF Written
  <2> QED
    BY <2>4, <2>5 DEF CodeOperand
<1>3. CASE op.kind # "group" /\ ~ IsRda(op)
  <2>1. op.index = << >> /\ IsSimple(op)
    BY <1>3 DEF IsOperand
  <2>2. Written(data, op) = op
    BY <1>3 DEF Written
  <2> QED
    BY <1>3, <2>1, <2>2 DEF IsSimple, IsRda, CodeOperand
<1>4. CASE IsRda(op) /\ op.index = << >>
  <2>1. PICK v : v = SlotOf(data, op.value) /\ v \in Slots
    BY <1>1, <1>4, SlotExists
  <2>2. Written(data, op) = Rda(v, << >>)
    BY <1>4, <2>1 DEF Written, Variable, Subscript, IsRda
  <2> QED
    BY <2>1, <2>2 DEF CodeOperand
<1>5. CASE IsRda(op) /\ op.index # << >>
  <2>1. PICK v : v = SlotOf(data, op.value) /\ v \in Slots
    BY <1>1, <1>5, SlotExists
  <2>2. PICK i : i = op.index[1]
    OBVIOUS
  <2>3. /\ op.index = << i >> /\ IsSimple(i) /\ i.index = << >>
        /\ i.kind = "lit" => v + i.value - 1 \in Slots
    BY <1>5, <2>1, <2>2 DEF IsOperand
  <2>4. CASE i.kind = "lit"
    <3>1. Written(data, op) = Rda(v + i.value - 1, << >>)
      BY <1>5, <2>1, <2>2, <2>4 DEF Written, Variable, Subscript, IsRda
    <3> QED
      BY <2>3, <2>4, <3>1 DEF CodeOperand
  <2>5. CASE i.kind # "lit" /\ ~ IsRda(i)
    <3>1. Written(data, op) = Rda(v, << i >>)
      BY <1>5, <2>1, <2>2, <2>5 DEF Written, Variable, Subscript, IsRda
    <3>2. CodeIndex(i)
      BY <2>3, <2>5 DEF IsSimple, CodeIndex, IsRda
    <3> QED
      BY <2>1, <3>1, <3>2 DEF CodeOperand
  <2>6. CASE IsRda(i)
    <3>1. 1 \in DOMAIN op.index
      BY <2>3
    <3>2. Declared(data, i.value) # {}
      BY <2>2, <2>6, <3>1 DEF Known, ToSet
    <3>3. PICK w : w = SlotOf(data, i.value) /\ w \in Slots
      BY <3>2, SlotExists
    <3>4. i.kind # "lit"
      BY <2>6 DEF IsRda
    <3>5. Written(data, op) = Rda(v, << Rda(w, << >>) >>)
      BY <1>5, <2>1, <2>2, <2>6, <3>3, <3>4 DEF Written, Variable, Subscript, IsRda
    <3>6. CodeIndex(Rda(w, << >>))
      BY <3>3, RdaFields DEF CodeIndex
    <3> QED
      BY <2>1, <3>5, <3>6 DEF CodeOperand
  <2> QED
    BY <2>4, <2>5, <2>6 DEF IsRda
<1> QED
  BY <1>2, <1>3, <1>4, <1>5

LEMMA Compiled ==
    ASSUME NEW data \in Data, NEW stmt \in Statements(data), validate_verb(data, stmt)
    PROVE  IsInstruction(gen_verb(data, stmt))
<1>1. IsData(data) /\ IsStatement(data, stmt)
  BY ProgramsAssumption
<1>2. PICK ops : ops = stmt.operands
  OBVIOUS
<1>3. /\ Len(ops) \in Nat /\ DOMAIN ops = 1 .. Len(ops)
      /\ \A j \in 1 .. Len(ops) : IsOperand(data, ops[j]) /\ Known(data, ops[j])
  <2>1. IsSequence(ops)
    BY <1>1, <1>2 DEF IsStatement
  <2> QED
    BY <1>1, <1>2, <2>1, SequenceFacts DEF IsStatement, validate_verb
<1>4. PICK w : w = [j \in DOMAIN ops |-> Written(data, ops[j])]
  OBVIOUS
<1>5. w \in Seq({w[j] : j \in 1 .. Len(ops)})
  BY <1>3, <1>4
<1>6. Len(w) = Len(ops) /\ DOMAIN w = 1 .. Len(ops) /\ w = [j \in 1 .. Len(ops) |-> w[j]]
  BY <1>3, <1>4
<1>7. \A j \in 1 .. Len(ops) : CodeOperand(w[j])
  BY <1>1, <1>3, <1>4, OperandCompiled
<1>8. CodeOperands(w)
  BY <1>3, <1>6, <1>7 DEF CodeOperands
<1> DEFINE whole == stmt.verb = "MOVE" /\ IsPlainRda(ops[1]) /\ ops[2].index = << >> /\ SizeIn(data, ops[1]) > 0
<1>9. PICK instr : instr = gen_verb(data, stmt)
  OBVIOUS
<1>10. /\ instr.operands = w
       /\ instr.verb = IF whole THEN "MOVE_BLOCK" ELSE stmt.verb
       /\ instr.count = CASE whole -> SizeIn(data, ops[1])
                          [] stmt.verb = "CLEAR" -> Extent(data, ops[1])
                          [] stmt.verb = "SAVE" -> Extent(data, ops[2])
                          [] OTHER -> 0
  BY <1>2, <1>4, <1>9 DEF gen_verb
<1>11. /\ stmt.verb \in {"MOVE", "CJ"} => Len(ops) = 2
       /\ stmt.verb = "SAVE" => Len(ops) >= 2
       /\ stmt.verb = "CLEAR" => Len(ops) >= 1
  BY <1>1, <1>2 DEF IsStatement
<1>12. SizeIn(data, ops[1]) \in Nat
  BY <1>1, SizeInNat
<1>13. stmt.verb = "CLEAR" => Extent(data, ops[1]) \in Nat
  BY <1>1, <1>3, <1>11, ExtentNat
<1>14. stmt.verb = "SAVE" => Extent(data, ops[2]) \in Nat
  BY <1>1, <1>3, <1>11, ExtentNat
<1>15. whole => stmt.verb = "MOVE"
  OBVIOUS
<1> HIDE DEF whole
<1>16. instr.count \in Nat
  BY <1>10, <1>12, <1>13, <1>14, <1>15
<1>17. instr.verb = "CJ" => Len(w) = 2
  BY <1>6, <1>10, <1>11
<1>18. instr.verb \in {"CLEAR", "SAVE"} => Len(w) >= 1
  BY <1>3, <1>6, <1>10, <1>11
<1> QED
  BY <1>8, <1>9, <1>10, <1>16, <1>17, <1>18 DEF IsInstruction

-----------------------------------------------------------------------------
(***************************************************************************)
(* What symbol_table_scan and its guesses leave is a table.                *)
(***************************************************************************)
SlotInfo ==
    [used : BOOLEAN, is_array : BOOLEAN, direct_access : BOOLEAN, max_index : Nat,
     bounds_certain : BOOLEAN, index_ireg : -1 .. 8]
RangeInfo == [start : Slots, count : Nat \ {0, 1}]
TableInfo ==
    [slots : [Slots -> SlotInfo], max_slot : -1 .. MAX_RDA_SLOTS - 1,
     ireg_max : [1 .. 8 -> Nat], ranges : Seq(RangeInfo)]

LEMMA Least ==
    ASSUME NEW B, B \subseteq Nat, B # {}
    PROVE  \E m \in B : \A k \in B : m <= k
<1>1. PICK m \in B : \A k \in B : ~ (<< k, m >> \in OpToRel(<, Nat))
  BY NatLessThanWellFounded, WFMin
<1>2. \A k \in B : ~ (k < m)
  BY <1>1 DEF OpToRel
<1> QED
  BY <1>2

LEMMA MaxIn ==
    ASSUME NEW S, NEW a \in Int, NEW b \in Int, S \subseteq a .. b, S # {}
    PROVE  Max(S) \in S
<1> DEFINE B == {k \in Nat : b - k \in S}
<1>1. B \subseteq Nat /\ B # {}
  <2>1. PICK x \in S : TRUE
    OBVIOUS
  <2>2. b - x \in Nat /\ b - (b - x) = x
    BY <2>1
  <2> QED
    BY <2>1, <2>2
<1>2. PICK m \in B : \A k \in B : m <= k
  <2> HIDE DEF B
  <2> QED
    BY <1>1, Least
<1>3. b - m \in S
  BY <1>2
<1>4. ASSUME NEW y \in S PROVE b - m >= y
  <2>1. b - y \in Nat /\ b - (b - y) = y /\ y \in Int
    BY <1>4
  <2>2. m <= b - y
    BY <1>2, <2>1
  <2> QED
    BY <1>2, <2>1, <2>2
<1> QED
  BY <1>3, <1>4 DEF Max

LEMMA HighestOfTwo ==
    ASSUME NEW a \in Nat, NEW b \in Nat
    PROVE  Highest({a, b}) \in Nat
<1>1. {a, b} # {}
  OBVIOUS
<1>2. \E n \in {a, b} : \A m \in {a, b} : m <= n
  OBVIOUS
<1>3. PICK h : h = CHOOSE n \in {a, b} : \A m \in {a, b} : m <= n
  OBVIOUS
<1>4. h \in {a, b}
  BY <1>2, <1>3
<1>5. Highest({a, b}) = h
  BY <1>1, <1>3 DEF Highest
<1> QED
  BY <1>4, <1>5

LEMMA CountFound ==
    ASSUME NEW t \in TableInfo, NEW found, found \subseteq DOMAIN t.ranges, found # {}
    PROVE  FirstCount(t, found) \in Nat \ {0, 1}
<1>1. t.ranges \in Seq(RangeInfo)
  BY DEF TableInfo
<1>2. Len(t.ranges) \in Nat /\ DOMAIN t.ranges = 1 .. Len(t.ranges)
  BY <1>1, LenProperties
<1>3. \E i \in found : \A j \in found : i <= j
  BY <1>2, Least
<1>4. PICK i : i = CHOOSE i1 \in found : \A j \in found : i1 <= j
  OBVIOUS
<1>5. i \in 1 .. Len(t.ranges)
  BY <1>2, <1>3, <1>4
<1>6. t.ranges[i] \in RangeInfo
  BY <1>1, <1>5, ElementOfSeq
<1>7. FirstCount(t, found) = t.ranges[i].count
  BY <1>4 DEF FirstCount
<1> QED
  BY <1>6, <1>7 DEF RangeInfo

-----------------------------------------------------------------------------
(* One instruction.                                                        *)

LEMMA AccessedTyped ==
    ASSUME NEW slot \in SlotInfo, NEW op, op.index = << >> \/ CodeIndex(op.index[1])
    PROVE  Accessed(slot, op) \in SlotInfo
<1>1. CASE op.index = << >>
  BY <1>1 DEF Accessed, SlotInfo
<1>2. CASE op.index # << >>
  <2>1. PICK i : i = op.index[1] /\ CodeIndex(i)
    BY <1>2
  <2>2. i.kind = "rda" \/ (i.kind = "I" /\ i.value \in 1 .. 8)
    BY <2>1, RdaFields DEF CodeIndex
  <2>3. SameReg(slot.index_ireg, i.value) \in -1 .. 8 \/ i.kind # "I"
    BY <2>2 DEF SameReg, SlotInfo
  <2>4. IndexedBy(slot, i) \in SlotInfo
    BY <2>2, <2>3 DEF IndexedBy, SlotInfo
  <2> QED
    BY <1>2, <2>1, <2>4 DEF Accessed, SlotInfo
<1> QED
  BY <1>1, <1>2

\* The operands of an instruction name slots of the RDA, the subscripts too.
LEMMA OperandParts ==
    ASSUME NEW op, CodeOperand(op)
    PROVE  /\ op.index = << >> \/ (op.index = << op.index[1] >> /\ CodeIndex(op.index[1]))
           /\ IsRda(op) => op.value \in Slots
           /\ op.index # << >> /\ IsRda(op.index[1]) => op.index[1].value \in Slots /\ op.index[1].index = << >>
           /\ op.kind = "lit" => op.value \in Nat
           /\ op.kind = "I" => op.value \in 1 .. 8
<1>1. CASE op.kind = "I" /\ op.value \in 1 .. 8 /\ op.index = << >>
  BY <1>1 DEF IsRda
<1>2. CASE op.kind = "lit" /\ op.value \in Nat /\ op.index = << >>
  BY <1>2 DEF IsRda
<1>3. CASE \E v \in Slots : op = Rda(v, << >>)
  BY <1>3, RdaFields
<1>4. CASE \E v \in Slots : \E i : CodeIndex(i) /\ op = Rda(v, << i >>)
  <2>1. PICK v \in Slots : \E i : CodeIndex(i) /\ op = Rda(v, << i >>)
    BY <1>4
  <2>2. PICK i : CodeIndex(i) /\ op = Rda(v, << i >>)
    BY <2>1
  <2>3. op.kind = "rda" /\ op.value = v /\ op.index = << i >> /\ op.index[1] = i
    BY <2>2, RdaFields
  <2>4. IsRda(i) => i.value \in Slots /\ i.index = << >>
    BY <2>2, RdaFields DEF CodeIndex, IsRda
  <2> QED
    BY <2>1, <2>2, <2>3, <2>4
<1> QED
  BY <1>1, <1>2, <1>3, <1>4 DEF CodeOperand

LEMMA OperandScanned ==
    ASSUME NEW slots \in [Slots -> SlotInfo], NEW op, CodeOperand(op)
    PROVE  scan_operand(slots, op) \in [Slots -> SlotInfo]
<1>1. ASSUME NEW s \in [Slots -> SlotInfo], NEW o, IsRda(o) => o.value \in Slots,
             o.index = << >> \/ CodeIndex(o.index[1])
      PROVE  Touch(s, o) \in [Slots -> SlotInfo]
  <2>1. CASE IsRda(o)
    <3>1. s[o.value] \in SlotInfo
      BY <1>1, <2>1
    <3>2. Accessed(s[o.value], o) \in SlotInfo
      BY <1>1, <3>1, AccessedTyped
    <3> QED
      BY <1>1, <2>1, <3>2 DEF Touch
  <2>2. CASE ~ IsRda(o)
    BY <1>1, <2>2 DEF Touch
  <2> QED
    BY <2>1, <2>2
<1>2. Touch(slots, op) \in [Slots -> SlotInfo]
  BY <1>1, OperandParts
<1>3. CASE op.index = << >>
  BY <1>2, <1>3 DEF scan_operand
<1>4. CASE op.index # << >>
  <2>1. PICK i : i = op.index[1] /\ CodeIndex(i) /\ (IsRda(i) => i.value \in Slots)
    BY <1>4, OperandParts
  <2>2. i.index = << >>
    BY <2>1 DEF CodeIndex
  <2>3. Touch(Touch(slots, op), i) \in [Slots -> SlotInfo]
    BY <1>1, <1>2, <2>1, <2>2
  <2> QED
    BY <1>4, <2>1, <2>3 DEF scan_operand
<1> QED
  BY <1>3, <1>4

LEMMA OperandsScanned ==
    ASSUME NEW slots \in [Slots -> SlotInfo], NEW ops, CodeOperands(ops)
    PROVE  scan_operands(slots, ops) \in [Slots -> SlotInfo]
<1> DEFINE S == [Slots -> SlotInfo]
<1>1. PICK N : N = Len(ops) /\ N \in Nat
  BY DEF CodeOperands
<1>2. PICK f : f = [i \in 1 .. N |-> [s \in S |-> scan_operand(s, ops[i])]]
  OBVIOUS
<1>3. Within(f, S, N)
  <2> SUFFICES ASSUME NEW i \in 1 .. N PROVE f[i] \in [S -> S]
    BY DEF Within
  <2>1. CodeOperand(ops[i])
    BY <1>1 DEF CodeOperands
  <2>2. \A s \in S : scan_operand(s, ops[i]) \in S
    BY <2>1, OperandScanned
  <2> HIDE DEF S
  <2> QED
    BY <1>2, <2>2
<1>4. PICK h : h \in [0 .. N -> S] /\ h[0] = slots /\ \A i \in 1 .. N : h[i] = f[i][h[i - 1]]
  <2>1. slots \in S
    OBVIOUS
  <2> HIDE DEF S
  <2>2. \E h : Steps(h, S, slots, N, f)
    BY <1>1, <1>3, <2>1, Recursion
  <2> QED
    BY <2>2 DEF Steps
<1>5. \A i \in 1 .. N : h[i] = scan_operand(h[i - 1], ops[i])
  <2> SUFFICES ASSUME NEW i \in 1 .. N PROVE h[i] = scan_operand(h[i - 1], ops[i])
    OBVIOUS
  <2> HIDE DEF S
  <2>1. i - 1 \in 0 .. N
    BY <1>1
  <2>2. h[i - 1] \in S
    BY <1>4, <2>1
  <2> QED
    BY <1>2, <1>4, <2>2
<1> DEFINE IsAfter(a) == a = [i \in 0 .. Len(ops) |-> IF i = 0 THEN slots ELSE scan_operand(a[i - 1], ops[i])]
<1>6. IsAfter(h)
  <2> HIDE DEF S
  <2>1. h = [i \in 0 .. N |-> IF i = 0 THEN slots ELSE scan_operand(h[i - 1], ops[i])]
    BY <1>1, <1>4, <1>5
  <2> QED
    BY <1>1, <2>1
<1>7. PICK a : a = CHOOSE g : IsAfter(g)
  OBVIOUS
<1>8. scan_operands(slots, ops) = a[Len(ops)]
  BY <1>7 DEF scan_operands
<1>9. IsAfter(a)
  <2> HIDE DEF IsAfter
  <2> QED
    BY <1>6, <1>7
<1>10. \A i \in 0 .. N : a[i] = IF i = 0 THEN slots ELSE scan_operand(a[i - 1], ops[i])
  BY <1>1, <1>9, Zenon
<1>11. a[0] = slots /\ \A i \in 1 .. N : a[i] = scan_operand(a[i - 1], ops[i])
  <2>1. 0 \in 0 .. N /\ \A i \in 1 .. N : i \in 0 .. N /\ i # 0
    BY <1>1
  <2> QED
    BY <1>10, <2>1, Zenon
<1> DEFINE K == {i \in Nat : a[i] \in S}
<1>12. 0 \in K
  BY <1>11
<1>13. ASSUME NEW i \in 1 .. N, i - 1 \in K PROVE i \in K
  <2>1. CodeOperand(ops[i])
    BY <1>1 DEF CodeOperands
  <2>2. scan_operand(a[i - 1], ops[i]) \in S
    BY <1>13, <2>1, OperandScanned
  <2>3. a[i] \in S
    BY <1>11, <2>2, Zenon
  <2> QED
    BY <2>3
<1>14. \A i \in 0 .. N : i \in K
  <2> HIDE DEF K
  <2> QED
    BY <1>1, <1>12, <1>13, Stepwise
<1>15. a[N] \in S
  <2>1. N \in K
    BY <1>1, <1>14
  <2> QED
    BY <2>1
<1> QED
  BY <1>1, <1>8, <1>15

LEMMA MaxSlotTyped ==
    ASSUME NEW m \in -1 .. MAX_RDA_SLOTS - 1, NEW S, S \subseteq Slots
    PROVE  Max({m} \cup S) \in -1 .. MAX_RDA_SLOTS - 1
<1>1. PICK U : U = {m} \cup S
  OBVIOUS
<1>2. U \subseteq -1 .. MAX_RDA_SLOTS - 1 /\ U # {}
  BY <1>1 DEF Slots
<1>3. -1 \in Int /\ MAX_RDA_SLOTS - 1 \in Int
  BY SlotsAssumption
<1>4. Max(U) \in U
  BY <1>2, <1>3, MaxIn
<1> QED
  BY <1>1, <1>2, <1>4

LEMMA MentionedAreSlots ==
    ASSUME NEW ops, CodeOperands(ops)
    PROVE  AllMentioned(ops) \subseteq Slots
<1>1. ASSUME NEW op, CodeOperand(op) PROVE Mentioned(op) \subseteq Slots
  <2> SUFFICES ASSUME NEW o \in {op} \cup ToSet(op.index), IsRda(o) PROVE o.value \in Slots
    BY DEF Mentioned
  <2>1. CASE o = op
    BY <1>1, <2>1, OperandParts
  <2>2. CASE o \in ToSet(op.index)
    <3>1. op.index # << >>
      BY <2>2 DEF ToSet
    <3>2. PICK i : op.index = << i >> /\ i = op.index[1]
      BY <1>1, <3>1, OperandParts
    <3>3. o = op.index[1]
      BY <2>2, <3>2 DEF ToSet
    <3> QED
      BY <1>1, <3>1, <3>3, OperandParts
  <2> QED
    BY <2>1, <2>2
<1>2. \A op \in ToSet(ops) : CodeOperand(op)
  BY DEF ToSet, CodeOperands
<1> QED
  BY <1>1, <1>2 DEF AllMentioned

LEMMA BoundTyped ==
    ASSUME NEW ireg_max \in [1 .. 8 -> Nat], NEW instr, IsInstruction(instr)
    PROVE  LoopBound(ireg_max, instr) \in [1 .. 8 -> Nat]
<1> SUFFICES ASSUME instr.verb = "CJ", RegOf(instr.operands).kind = "I", NumOf(instr.operands).kind = "lit"
             PROVE  LoopBound(ireg_max, instr) \in [1 .. 8 -> Nat]
  BY DEF LoopBound
<1>1. PICK ops : ops = instr.operands
  OBVIOUS
<1>2. CodeOperand(ops[1]) /\ CodeOperand(ops[2])
  BY <1>1, SMTT(30) DEF IsInstruction, CodeOperands
<1>3. PICK reg, num : /\ reg = RegOf(ops) /\ num = NumOf(ops) /\ reg.kind = "I" /\ num.kind = "lit"
                      /\ CodeOperand(reg) /\ CodeOperand(num)
  BY <1>1, <1>2 DEF RegOf, NumOf
<1>4. reg.value \in 1 .. 8 /\ num.value \in Nat
  BY <1>3, OperandParts
<1>5. ireg_max[reg.value] \in Nat
  BY <1>4
<1>6. Highest({ireg_max[reg.value], num.value}) \in Nat
  BY <1>4, <1>5, HighestOfTwo
<1>7. LoopBound(ireg_max, instr) = [ireg_max EXCEPT ![reg.value] = Highest({ireg_max[reg.value], num.value})]
  BY <1>1, <1>3 DEF LoopBound
<1> QED
  BY <1>6, <1>7

LEMMA StartsTyped ==
    ASSUME NEW instr, IsInstruction(instr)
    PROVE  /\ Len(Starts(instr)) \in Nat
           /\ \A i \in 1 .. Len(Starts(instr)) : CodeOperand(Starts(instr)[i])
<1>1. PICK ops : ops = instr.operands
  OBVIOUS
<1>2. /\ Len(ops) \in Nat /\ ops = [j \in 1 .. Len(ops) |-> ops[j]]
      /\ \A j \in 1 .. Len(ops) : CodeOperand(ops[j])
  BY <1>1 DEF IsInstruction, CodeOperands
<1>3. CASE instr.verb \in {"CLEAR", "SAVE"}
  <2>1. Starts(instr) = SubSeq(ops, 1, 1)
    BY <1>1, <1>3, Zenon DEF Starts
  <2>2. 1 \in 1 .. Len(ops)
    BY <1>1, <1>2, <1>3 DEF IsInstruction
  <2>3. PICK s : s = SubSeq(ops, 1, 1)
    OBVIOUS
  <2>4. s = [i \in 1 .. 1 |-> ops[i]]
    BY <1>2, <2>3
  <2>5. Len(s) = 1 /\ s[1] = ops[1]
    BY <2>4
  <2> QED
    BY <1>2, <2>1, <2>2, <2>3, <2>5
<1>4. CASE instr.verb = "MOVE_BLOCK"
  <2>1. instr.verb \notin {"CLEAR", "SAVE"}
    BY <1>4
  <2>2. Starts(instr) = ops
    BY <1>1, <1>4, <2>1 DEF Starts
  <2> QED
    BY <1>2, <2>2
<1>5. CASE instr.verb \notin {"CLEAR", "SAVE", "MOVE_BLOCK"}
  <2>1. Starts(instr) = << >>
    BY <1>5 DEF Starts
  <2> QED
    BY <2>1
<1> QED
  BY <1>3, <1>4, <1>5

LEMMA RangeAdded ==
    ASSUME NEW ranges \in Seq(RangeInfo), NEW op, CodeOperand(op), NEW count \in Nat
    PROVE  AddRangeOf(ranges, op, count) \in Seq(RangeInfo)
<1> SUFFICES ASSUME count > 1, IsPlainRda(op) PROVE AddRange(ranges, op.value, count) \in Seq(RangeInfo)
  BY DEF AddRangeOf
<1>1. op.value \in Slots
  BY OperandParts DEF IsPlainRda
<1>2. PICK new : new = [start |-> op.value, count |-> count]
  OBVIOUS
<1>3. new \in RangeInfo
  BY <1>1, <1>2 DEF RangeInfo
<1>4. Append(ranges, new) \in Seq(RangeInfo)
  BY <1>3, AppendProperties
<1> QED
  BY <1>2, <1>4 DEF AddRange

LEMMA RangesAdded ==
    ASSUME NEW ranges \in Seq(RangeInfo), NEW instr, IsInstruction(instr)
    PROVE  AddRanges(ranges, instr) \in Seq(RangeInfo)
<1> DEFINE S == Seq(RangeInfo)
<1>1. PICK starts : starts = Starts(instr)
  OBVIOUS
<1>2. PICK N : N = Len(starts) /\ N \in Nat
  BY <1>1, StartsTyped
<1>3. PICK count \in Nat : count = instr.count
  BY DEF IsInstruction
<1>4. ASSUME NEW s \in S, NEW i \in 1 .. N PROVE AddRangeOf(s, starts[i], count) \in S
  <2>1. CodeOperand(starts[i])
    BY <1>1, <1>2, StartsTyped
  <2> QED
    BY <2>1, RangeAdded
<1> HIDE DEF S
<1>5. PICK f : f = [i \in 1 .. N |-> [s \in S |-> AddRangeOf(s, starts[i], count)]]
  OBVIOUS
<1>6. Within(f, S, N)
  BY <1>4, <1>5 DEF Within
<1>7. ranges \in S
  BY DEF S
<1>8. PICK h : h \in [0 .. N -> S] /\ h[0] = ranges /\ \A i \in 1 .. N : h[i] = f[i][h[i - 1]]
  <2>1. \E h : Steps(h, S, ranges, N, f)
    BY <1>2, <1>6, <1>7, Recursion
  <2> QED
    BY <2>1 DEF Steps
<1>9. \A i \in 1 .. N : h[i] = AddRangeOf(h[i - 1], starts[i], count)
  <2> SUFFICES ASSUME NEW i \in 1 .. N PROVE h[i] = AddRangeOf(h[i - 1], starts[i], count)
    OBVIOUS
  <2>1. i - 1 \in 0 .. N
    BY <1>2
  <2>2. h[i - 1] \in S
    BY <1>8, <2>1
  <2> QED
    BY <1>5, <1>8, <2>2
<1> DEFINE IsAfter(a) ==
      a = [i \in 0 .. Len(starts) |-> IF i = 0 THEN ranges ELSE AddRangeOf(a[i - 1], starts[i], instr.count)]
<1>10. IsAfter(h)
  <2>1. h = [i \in 0 .. N |-> IF i = 0 THEN ranges ELSE AddRangeOf(h[i - 1], starts[i], count)]
    BY <1>2, <1>8, <1>9
  <2> QED
    BY <1>2, <1>3, <2>1
<1>11. PICK a : a = CHOOSE g : IsAfter(g)
  OBVIOUS
<1>12. AddRanges(ranges, instr) = a[Len(starts)]
  BY <1>1, <1>11 DEF AddRanges
<1>13. IsAfter(a)
  <2> HIDE DEF IsAfter
  <2> QED
    BY <1>10, <1>11
<1>14. \A i \in 0 .. N : a[i] = IF i = 0 THEN ranges ELSE AddRangeOf(a[i - 1], starts[i], count)
  BY <1>2, <1>3, <1>13, Zenon
<1>15. a[0] = ranges /\ \A i \in 1 .. N : a[i] = AddRangeOf(a[i - 1], starts[i], count)
  <2>1. 0 \in 0 .. N /\ \A i \in 1 .. N : i \in 0 .. N /\ i # 0
    BY <1>2
  <2> QED
    BY <1>14, <2>1, Zenon
<1> DEFINE K == {i \in Nat : a[i] \in S}
<1>16. 0 \in K
  BY <1>7, <1>15
<1>17. ASSUME NEW i \in 1 .. N, i - 1 \in K PROVE i \in K
  <2>1. AddRangeOf(a[i - 1], starts[i], count) \in S
    BY <1>4, <1>17
  <2>2. a[i] \in S
    BY <1>15, <2>1, Zenon
  <2> QED
    BY <2>2
<1>18. \A i \in 0 .. N : i \in K
  <2> HIDE DEF K
  <2> QED
    BY <1>2, <1>16, <1>17, Stepwise
<1>19. a[N] \in S
  <2>1. N \in K
    BY <1>2, <1>18
  <2> QED
    BY <2>1
<1> QED
  BY <1>2, <1>12, <1>19 DEF S

LEMMA ScannedTyped ==
    ASSUME NEW t \in TableInfo, NEW instr, IsInstruction(instr)
    PROVE  Scanned(t, instr) \in TableInfo
<1>1. /\ t.slots \in [Slots -> SlotInfo] /\ t.max_slot \in -1 .. MAX_RDA_SLOTS - 1
      /\ t.ireg_max \in [1 .. 8 -> Nat] /\ t.ranges \in Seq(RangeInfo)
  BY DEF TableInfo
<1>2. scan_operands(t.slots, instr.operands) \in [Slots -> SlotInfo]
  BY <1>1, OperandsScanned DEF IsInstruction
<1>3. Max({t.max_slot} \cup AllMentioned(instr.operands)) \in -1 .. MAX_RDA_SLOTS - 1
  BY <1>1, MentionedAreSlots, MaxSlotTyped DEF IsInstruction
<1>4. LoopBound(t.ireg_max, instr) \in [1 .. 8 -> Nat]
  BY <1>1, BoundTyped
<1>5. AddRanges(t.ranges, instr) \in Seq(RangeInfo)
  BY <1>1, RangesAdded
<1> QED
  BY <1>2, <1>3, <1>4, <1>5 DEF Scanned, TableInfo

-----------------------------------------------------------------------------
(* The guesses.                                                            *)

LEMMA TableFields ==
    ASSUME NEW t \in TableInfo
    PROVE  /\ t = [slots |-> t.slots, max_slot |-> t.max_slot, ireg_max |-> t.ireg_max, ranges |-> t.ranges]
           /\ t.slots \in [Slots -> SlotInfo] /\ t.max_slot \in -1 .. MAX_RDA_SLOTS - 1
           /\ t.ireg_max \in [1 .. 8 -> Nat] /\ t.ranges \in Seq(RangeInfo)
  BY DEF TableInfo

LEMMA WithSlots ==
    ASSUME NEW t \in TableInfo, NEW slots \in [Slots -> SlotInfo]
    PROVE  [t EXCEPT !.slots = slots] \in TableInfo
  BY DEF TableInfo

LEMMA GuessedTyped ==
    ASSUME NEW t \in TableInfo
    PROVE  Guessed(t) \in TableInfo
<1>1. ASSUME NEW u \in TableInfo PROVE ArrayKiller(u) \in TableInfo
  <2>1. PICK slots : slots = [s \in Slots |->
            IF s < u.max_slot /\ ~ u.slots[s].bounds_certain /\ u.slots[s + 1].direct_access
            THEN [u.slots[s] EXCEPT !.is_array = FALSE] ELSE u.slots[s]]
    OBVIOUS
  <2>2. u.slots \in [Slots -> SlotInfo]
    BY TableFields
  <2>3. ASSUME NEW s \in Slots PROVE slots[s] \in SlotInfo
    <3>1. u.slots[s] \in SlotInfo
      BY <2>2
    <3>2. [u.slots[s] EXCEPT !.is_array = FALSE] \in SlotInfo
      BY <3>1 DEF SlotInfo
    <3> QED
      BY <2>1, <3>1, <3>2
  <2>4. slots \in [Slots -> SlotInfo]
    BY <2>1, <2>3
  <2>5. ArrayKiller(u) = [u EXCEPT !.slots = slots]
    BY <2>1 DEF ArrayKiller
  <2> QED
    BY <2>4, <2>5, WithSlots
<1>2. ASSUME NEW u \in TableInfo PROVE LoopBounds(u) \in TableInfo
  <2>1. PICK slots : slots = [s \in Slots |-> [u.slots[s] EXCEPT !.max_index = Bound(u, u.slots[s])]]
    OBVIOUS
  <2>2. u.slots \in [Slots -> SlotInfo] /\ u.ireg_max \in [1 .. 8 -> Nat]
    BY TableFields
  <2>3. ASSUME NEW s \in Slots PROVE slots[s] \in SlotInfo
    <3>1. PICK slot \in SlotInfo : slot = u.slots[s]
      BY <2>2
    <3>2. Bound(u, slot) \in Nat
      <4>1. slot.max_index \in Nat /\ slot.index_ireg \in -1 .. 8
        BY DEF SlotInfo
      <4>2. slot.index_ireg > 0 => u.ireg_max[slot.index_ireg] \in Nat
        BY <2>2, <4>1
      <4> QED
        BY <4>1, <4>2 DEF Bound
    <3>3. [slot EXCEPT !.max_index = Bound(u, slot)] \in SlotInfo
      BY <3>2 DEF SlotInfo
    <3> QED
      BY <2>1, <3>1, <3>3
  <2>4. slots \in [Slots -> SlotInfo]
    BY <2>1, <2>3
  <2>5. LoopBounds(u) = [u EXCEPT !.slots = slots]
    BY <2>1 DEF LoopBounds
  <2> QED
    BY <2>4, <2>5, WithSlots
<1>3. ASSUME NEW u \in TableInfo, NEW ends PROVE Extended(u, ends) \in TableInfo
  <2>1. u.max_slot \in -1 .. MAX_RDA_SLOTS - 1
    BY TableFields
  <2>2. Max({u.max_slot} \cup (ends \cap Slots)) \in -1 .. MAX_RDA_SLOTS - 1
    BY <2>1, MaxSlotTyped
  <2> QED
    BY <2>2 DEF Extended, TableInfo
<1> QED
  BY <1>1, <1>2, <1>3 DEF Guessed, ExtendedByArrays, ExtendedByRanges

-----------------------------------------------------------------------------
(***************************************************************************)
(* emit_data_section declares slot after slot, each where the compiler     *)
(* will put it.                                                            *)
(***************************************************************************)
ItemInfo == [slot : Nat, dim : Nat]
Placed(items, n) ==
    /\ SizeOfAll(items) = n
    /\ \A k \in 1 .. Len(items) : items[k].slot = Ends(items)[k - 1]
StartOk(group) == group.start = -1 \/ (group.items # << >> /\ group.items[1].slot = group.start)
Started(data) == \A g \in 1 .. Len(data) : StartOk(data[g])

LEMMA ItemSizes ==
    ASSUME NEW items \in Seq(ItemInfo)
    PROVE  /\ Len(items) \in Nat /\ DOMAIN items = 1 .. Len(items)
           /\ \A k \in 1 .. Len(items) : items[k] \in ItemInfo /\ Size(items[k]) \in Nat
<1>1. Len(items) \in Nat /\ DOMAIN items = 1 .. Len(items)
  BY LenProperties
<1>2. \A k \in 1 .. Len(items) : items[k] \in ItemInfo
  BY ElementOfSeq
<1>3. \A i \in ItemInfo : Size(i) \in Nat
  BY DEF ItemInfo, Size
<1> QED
  BY <1>1, <1>2, <1>3

LEMMA PlacedInNat ==
    ASSUME NEW items \in Seq(ItemInfo), NEW n, Placed(items, n)
    PROVE  n \in Nat
<1>1. Ends(items) \in [0 .. Len(items) -> Nat] /\ Len(items) \in 0 .. Len(items)
  BY ItemSizes, EndsSteps
<1> QED
  BY <1>1 DEF Placed, SizeOfAll

\* Items that go on where the section ends.
LEMMA PlacedMore ==
    ASSUME NEW items \in Seq(ItemInfo), NEW n, Placed(items, n), NEW more \in Seq(ItemInfo),
           NEW ends, ends \in [0 .. Len(more) -> Nat], ends[0] = n,
           \A j \in 1 .. Len(more) : more[j].slot = ends[j - 1] /\ ends[j] = ends[j - 1] + Size(more[j])
    PROVE  items \o more \in Seq(ItemInfo) /\ Placed(items \o more, ends[Len(more)])
<1>1. PICK c : c = items \o more
  OBVIOUS
<1>2. PICK N, M \in Nat : N = Len(items) /\ M = Len(more) /\ N \in Nat
  BY ItemSizes
<1>3. /\ c \in Seq(ItemInfo) /\ Len(c) = N + M
      /\ \A i \in 1 .. N + M : c[i] = IF i <= N THEN items[i] ELSE more[i - N]
  BY <1>1, <1>2, ConcatProperties
<1>4. PICK e, d : e = Ends(items) /\ d = Ends(c)
  OBVIOUS
<1>5. \A k \in 0 .. N : e[k] = d[k]
  <2>1. \A k \in 1 .. N : items[k] = c[k]
    BY <1>2, <1>3
  <2>2. /\ Len(items) \in Nat /\ Len(c) \in Nat /\ N <= Len(items) /\ N <= Len(c)
        /\ \A k \in 1 .. Len(items) : Size(items[k]) \in Nat
        /\ \A k \in 1 .. Len(c) : Size(c[k]) \in Nat
    <3>1. Len(items) \in Nat /\ \A k \in 1 .. Len(items) : Size(items[k]) \in Nat
      BY ItemSizes
    <3>2. Len(c) \in Nat /\ \A k \in 1 .. Len(c) : Size(c[k]) \in Nat
      BY <1>3, ItemSizes
    <3>3. N <= Len(items) /\ N <= Len(c)
      BY <1>2, <1>3
    <3> QED
      BY <3>1, <3>2, <3>3
  <2>3. \A k \in 0 .. N : Ends(items)[k] = Ends(c)[k]
    BY <2>1, <2>2, EndsOfPrefix
  <2> QED
    BY <1>4, <2>3
<1>6. d \in [0 .. N + M -> Nat] /\ \A k \in 1 .. N + M : d[k] = d[k - 1] + Size(c[k])
  BY <1>2, <1>3, <1>4, ItemSizes, EndsSteps, ZenonT(60)
<1>7. e[N] = n /\ \A k \in 1 .. N : items[k].slot = e[k - 1]
  BY <1>2, <1>4 DEF Placed, SizeOfAll
<1> DEFINE K == {j \in Nat : d[N + j] = ends[j]}
<1>8. 0 \in K
  BY <1>2, <1>5, <1>7
<1>9. ASSUME NEW j \in 1 .. M, j - 1 \in K PROVE j \in K
  <2>1. d[N + (j - 1)] = ends[j - 1]
    BY <1>9
  <2>2. N + j \in 1 .. N + M /\ ~ (N + j <= N) /\ (N + j) - N = j /\ (N + j) - 1 = N + (j - 1)
    BY <1>2
  <2>3. c[N + j] = more[j] /\ d[N + j] = d[N + (j - 1)] + Size(c[N + j])
    BY <1>3, <1>6, <2>2
  <2>4. ends[j] = ends[j - 1] + Size(more[j])
    BY <1>2
  <2>5. d[N + j] = ends[j]
    BY <2>1, <2>3, <2>4
  <2> QED
    BY <2>5
<1>10. \A j \in 0 .. M : j \in K
  <2> HIDE DEF K
  <2> QED
    BY <1>2, <1>8, <1>9, Stepwise
<1>11. ASSUME NEW k \in 1 .. N + M PROVE c[k].slot = d[k - 1]
  <2>1. CASE k <= N
    <3>1. c[k] = items[k] /\ k \in 1 .. N /\ k - 1 \in 0 .. N
      BY <1>2, <1>3, <2>1
    <3> QED
      BY <1>5, <1>7, <3>1
  <2>2. CASE ~ (k <= N)
    <3>1. PICK j : j = k - N /\ j \in 1 .. M
      BY <1>2, <2>2
    <3>2. c[k] = more[j] /\ j - 1 \in 0 .. M /\ k - 1 = N + (j - 1)
      BY <1>2, <1>3, <2>2, <3>1
    <3>3. d[N + (j - 1)] = ends[j - 1]
      BY <1>10, <3>2
    <3>4. more[j].slot = ends[j - 1]
      BY <1>2, <3>1
    <3> QED
      BY <3>2, <3>3, <3>4
  <2> QED
    BY <2>1, <2>2
<1>12. d[N + M] = ends[M]
  <2>1. M \in K
    BY <1>2, <1>10
  <2> QED
    BY <2>1
<1> QED
  BY <1>1, <1>2, <1>3, <1>4, <1>11, <1>12 DEF Placed, SizeOfAll

LEMMA PlacedItem ==
    ASSUME NEW items \in Seq(ItemInfo), NEW n, Placed(items, n), NEW item \in ItemInfo, item.slot = n
    PROVE  Append(items, item) \in Seq(ItemInfo) /\ Placed(Append(items, item), n + Size(item))
<1>1. n \in Nat
  BY PlacedInNat
<1>2. Size(item) \in Nat
  BY DEF ItemInfo, Size
<1>3. PICK more : more = << item >>
  OBVIOUS
<1>4. more \in Seq(ItemInfo) /\ Len(more) = 1 /\ more[1] = item
  BY <1>3
<1>5. PICK ends : ends = [k \in 0 .. 1 |-> IF k = 0 THEN n ELSE n + Size(item)]
  OBVIOUS
<1>6. ends \in [0 .. 1 -> Nat] /\ ends[0] = n /\ ends[1] = n + Size(item)
  BY <1>1, <1>2, <1>5
<1>7. \A j \in 1 .. 1 : more[j].slot = ends[j - 1] /\ ends[j] = ends[j - 1] + Size(more[j])
  <2>1. \A j \in 1 .. 1 : j = 1 /\ j - 1 = 0
    OBVIOUS
  <2> QED
    BY <1>4, <1>6, <2>1, Zenon
<1>8. items \o more \in Seq(ItemInfo) /\ Placed(items \o more, ends[1])
  BY <1>4, <1>6, <1>7, PlacedMore
<1>9. items \o more = Append(items, item)
  BY <1>3
<1> QED
  BY <1>6, <1>8, <1>9

LEMMA PlacedStructure ==
    ASSUME NEW items \in Seq(ItemInfo), NEW n, Placed(items, n), NEW count \in Nat \ {0}
    PROVE  LET group == Structure(n, count)
           IN  /\ group \in [start : Int, items : Seq(ItemInfo)] /\ StartOk(group)
               /\ items \o group.items \in Seq(ItemInfo) /\ Placed(items \o group.items, n + count)
<1>1. n \in Nat
  BY PlacedInNat
<1>2. PICK more : more = [j \in 1 .. count |-> [slot |-> n + j - 1, dim |-> 0]]
  OBVIOUS
<1>3. Structure(n, count) = [start |-> n, items |-> more]
  BY <1>2 DEF Structure
<1>4. \A j \in 1 .. count : more[j] = [slot |-> n + j - 1, dim |-> 0] /\ more[j] \in ItemInfo
  BY <1>1, <1>2 DEF ItemInfo
<1>5. more \in Seq(ItemInfo) /\ Len(more) = count
  BY <1>2, <1>4
<1>6. PICK ends : ends = [k \in 0 .. count |-> n + k]
  OBVIOUS
<1>7. ends \in [0 .. count -> Nat] /\ ends[0] = n /\ ends[count] = n + count
  BY <1>1, <1>6
<1>8. ASSUME NEW j \in 1 .. count
      PROVE  more[j].slot = ends[j - 1] /\ ends[j] = ends[j - 1] + Size(more[j])
  <2>1. more[j].slot = n + j - 1 /\ Size(more[j]) = 1
    <3>1. PICK m : m = more[j]
      OBVIOUS
    <3>2. m = [slot |-> n + j - 1, dim |-> 0]
      BY <1>4, <3>1
    <3>3. m.slot = n + j - 1 /\ m.dim = 0
      BY <3>2
    <3> QED
      BY <3>1, <3>3 DEF Size
  <2>2. ends[j - 1] = n + (j - 1) /\ ends[j] = n + j
    BY <1>6
  <2> QED
    BY <1>1, <2>1, <2>2
<1>9. items \o more \in Seq(ItemInfo) /\ Placed(items \o more, n + count)
  <2>1. ends \in [0 .. Len(more) -> Nat] /\ \A j \in 1 .. Len(more) :
             more[j].slot = ends[j - 1] /\ ends[j] = ends[j - 1] + Size(more[j])
    BY <1>5, <1>7, <1>8
  <2>2. items \o more \in Seq(ItemInfo) /\ Placed(items \o more, ends[Len(more)])
    BY <1>5, <1>7, <2>1, PlacedMore
  <2> QED
    BY <1>5, <1>7, <2>2
<1>10. more # << >> /\ more[1].slot = n
  BY <1>1, <1>4, <1>5
<1> QED
  BY <1>1, <1>3, <1>5, <1>9, <1>10 DEF StartOk

LEMMA NoItems == Items(<< >>) = << >> /\ Placed(Items(<< >>), 0)
<1>1. PICK none : none = << >>
  OBVIOUS
<1>2. Len(none) = 0
  BY <1>1
<1>3. Typed(none, ItemInfo)
  BY <1>2 DEF Typed
<1>4. Items(none) = << >>
  BY <1>2, <1>3, ItemsSteps DEF Items
<1>5. Ends(none)[0] = 0
  BY <1>2, EndsSteps
<1> QED
  BY <1>1, <1>2, <1>4, <1>5 DEF Placed, SizeOfAll

LEMMA VariableAdded ==
    ASSUME groups \in Groups(ItemInfo), Started(groups), NEW item \in ItemInfo
    PROVE  /\ AddToVars(item) \in Groups(ItemInfo) /\ Started(AddToVars(item))
           /\ Items(AddToVars(item)) = Append(Items(groups), item)
<1> DEFINE G == [start : Int, items : Seq(ItemInfo)]
<1>1. Len(groups) \in Nat /\ \A g \in 1 .. Len(groups) : groups[g] \in G
  BY GroupsTyped
<1>2. Items(groups) \in Seq(ItemInfo)
  BY GroupsTyped, ItemsTyped
<1>3. CASE InVars
  <2>1. PICK more : Longer(more, groups, item)
    BY DEF Longer
  <2>2. groups # << >> /\ groups[Len(groups)].start = -1
    BY <1>3 DEF InVars
  <2>3. /\ more \in Groups(ItemInfo) /\ Items(more) = Append(Items(groups), item)
        /\ Len(more) = Len(groups) /\ \A g \in 1 .. Len(groups) - 1 : more[g] = groups[g]
        /\ more[Len(groups)].start = groups[Len(groups)].start
    BY <2>1, <2>2, ItemsOfLonger
  <2>5. AddToVars(item) = more
    BY <1>3, <2>1 DEF AddToVars, Longer
  <2>4. Started(more)
    <3> SUFFICES ASSUME NEW g \in 1 .. Len(more) PROVE StartOk(more[g])
      BY DEF Started
    <3>1. CASE g = Len(groups)
      <4>1. more[g].start = -1
        BY <2>2, <2>3, <3>1
      <4> QED
        BY <4>1 DEF StartOk
    <3>2. CASE g # Len(groups)
      <4>1. more[g] = groups[g] /\ g \in 1 .. Len(groups)
        BY <1>1, <2>3, <3>2, SMTT(30)
      <4> QED
        BY <4>1 DEF Started
    <3> QED
      BY <3>1, <3>2
  <2> QED
    BY <2>3, <2>4, <2>5
<1>4. CASE ~ InVars
  <2>1. PICK group : group = Vars(<< item >>)
    OBVIOUS
  <2>2. group = [start |-> -1, items |-> << item >>]
    BY <2>1 DEF Vars
  <2>3. group \in G /\ group.start = -1 /\ group.items = << item >>
    BY <2>2
  <2>4. PICK more : more = Append(groups, group)
    OBVIOUS
  <2>5. more \in Groups(ItemInfo) /\ Items(more) = Items(groups) \o group.items
    BY <2>3, <2>4, ItemsOfMore
  <2>6. Items(groups) \o << item >> = Append(Items(groups), item)
    BY <1>2
  <2>7. Len(more) = Len(groups) + 1 /\ more[Len(groups) + 1] = group /\ \A g \in 1 .. Len(groups) : more[g] = groups[g]
    BY <2>3, <2>4, AppendProperties DEF Groups
  <2>8. Started(more)
    <3> SUFFICES ASSUME NEW g \in 1 .. Len(more) PROVE StartOk(more[g])
      BY DEF Started
    <3>1. CASE g = Len(groups) + 1
      BY <2>3, <2>7, <3>1 DEF StartOk
    <3>2. CASE g # Len(groups) + 1
      <4>1. more[g] = groups[g] /\ g \in 1 .. Len(groups)
        BY <1>1, <2>7, <3>2
      <4> QED
        BY <4>1 DEF Started
    <3> QED
      BY <3>1, <3>2
  <2> QED
    BY <1>4, <2>1, <2>3, <2>4, <2>5, <2>6, <2>8 DEF AddToVars
<1> QED
  BY <1>3, <1>4

LEMMA GroupAdded ==
    ASSUME groups \in Groups(ItemInfo), Started(groups),
           NEW group \in [start : Int, items : Seq(ItemInfo)], StartOk(group)
    PROVE  Started(Append(groups, group))
<1>1. PICK more : more = Append(groups, group)
  OBVIOUS
<1>2. Len(groups) \in Nat
  BY GroupsTyped
<1>3. Len(more) = Len(groups) + 1 /\ more[Len(groups) + 1] = group /\ \A g \in 1 .. Len(groups) : more[g] = groups[g]
  BY <1>1, AppendProperties DEF Groups
<1>4. ASSUME NEW g \in 1 .. Len(more) PROVE StartOk(more[g])
  <2>1. CASE g = Len(groups) + 1
    BY <1>3, <2>1
  <2>2. CASE g # Len(groups) + 1
    <3>1. more[g] = groups[g] /\ g \in 1 .. Len(groups)
      BY <1>2, <1>3, <2>2
    <3> QED
      BY <3>1 DEF Started
  <2> QED
    BY <2>1, <2>2
<1> QED
  BY <1>1, <1>4 DEF Started

\* The size a slot of its own is declared with.
LEMMA DimTyped ==
    ASSUME NEW t \in TableInfo, NEW s \in Slots
    PROVE  Dim(t, s) \in Nat
<1>1. RangeDim(t, s) \in Nat
  <2>1. RangesAt(t, s, FALSE) \subseteq DOMAIN t.ranges
    BY DEF RangesAt
  <2> QED
    BY <2>1, CountFound DEF RangeDim
<1>2. ArrayDim(t, s) \in Nat
  <2>1. t.slots[s] \in SlotInfo
    BY TableFields
  <2> QED
    BY <2>1 DEF ArrayDim, SlotInfo
<1> QED
  BY <1>1, <1>2 DEF Dim

-----------------------------------------------------------------------------
(***************************************************************************)
(* The invariant, and what it says of the program compiled again.          *)
(***************************************************************************)
IsCode(instrs) ==
    /\ Len(instrs) \in Nat /\ DOMAIN instrs = 1 .. Len(instrs)
    /\ \A i \in 1 .. Len(instrs) : IsInstruction(instrs[i])

DataInv ==
    /\ phase \in {"scan", "emit", "done"}
    /\ IsCode(code) /\ scanned \in 0 .. Len(code)
    /\ table \in TableInfo
    /\ groups \in Groups(ItemInfo) /\ Started(groups)
    /\ Placed(Items(groups), next)

LEMMA DataInvInit == DInit => DataInv
<1> SUFFICES ASSUME DInit PROVE DataInv
  OBVIOUS
<1>1. IsCode(code)
  <2>1. PICK data \in Data :
            \E n \in 1 .. MaxLength :
            \E body \in [1 .. n -> {stmt \in Statements(data) : validate_verb(data, stmt)}] :
                code = [i \in 1 .. n |-> gen_verb(data, body[i])]
    BY DEF DInit
  <2>2. PICK n \in 1 .. MaxLength :
            \E body \in [1 .. n -> {stmt \in Statements(data) : validate_verb(data, stmt)}] :
                code = [i \in 1 .. n |-> gen_verb(data, body[i])]
    BY <2>1
  <2>3. PICK body \in [1 .. n -> {stmt \in Statements(data) : validate_verb(data, stmt)}] :
                code = [i \in 1 .. n |-> gen_verb(data, body[i])]
    BY <2>2
  <2>4. \A i \in 1 .. n : IsInstruction(gen_verb(data, body[i]))
    BY <2>3, Compiled
  <2>5. Len(code) = n /\ DOMAIN code = 1 .. n /\ \A i \in 1 .. n : code[i] = gen_verb(data, body[i])
    BY <2>3
  <2> QED
    BY <2>4, <2>5 DEF IsCode
<1>2. table \in TableInfo
  <2>1. Unknown \in SlotInfo
    BY DEF Unknown, SlotInfo
  <2>2. << >> \in Seq(RangeInfo)
    BY EmptySeq
  <2>3. -1 \in -1 .. MAX_RDA_SLOTS - 1
    BY SlotsAssumption
  <2>4. table = Untouched
    BY DEF DInit
  <2>5. [s \in Slots |-> Unknown] \in [Slots -> SlotInfo] /\ [r \in 1 .. 8 |-> 0] \in [1 .. 8 -> Nat]
    BY <2>1
  <2> QED
    BY <2>2, <2>3, <2>4, <2>5 DEF Untouched, TableInfo
<1>3. groups \in Groups(ItemInfo) /\ Started(groups)
  <2>1. groups = << >>
    BY DEF DInit
  <2>2. groups \in Groups(ItemInfo)
    BY <2>1, EmptySeq DEF Groups
  <2>3. Len(groups) = 0
    BY <2>1
  <2> QED
    BY <2>2, <2>3 DEF Started
<1>4. Placed(Items(groups), next)
  BY NoItems DEF DInit
<1>5. scanned \in 0 .. Len(code) /\ phase = "scan"
  BY <1>1 DEF DInit, IsCode
<1> QED
  BY <1>1, <1>2, <1>3, <1>4, <1>5 DEF DataInv

LEMMA NextIsSlot ==
    ASSUME DataInv, next <= table.max_slot
    PROVE  next \in Slots /\ Items(groups) \in Seq(ItemInfo)
<1>1. Items(groups) \in Seq(ItemInfo)
  BY GroupsTyped, ItemsTyped DEF DataInv
<1>2. next \in Nat
  BY <1>1, PlacedInNat DEF DataInv
<1>3. table.max_slot \in -1 .. MAX_RDA_SLOTS - 1
  BY TableFields DEF DataInv
<1> QED
  BY <1>1, <1>2, <1>3, SlotsAssumption DEF Slots

LEMMA DataInvNext == DataInv /\ [DNext]_dvars => DataInv'
<1> SUFFICES ASSUME DataInv, [DNext]_dvars PROVE DataInv'
  OBVIOUS
<1>1. CASE symbol_table_scan
  <2>1. scanned + 1 \in 1 .. Len(code)
    BY <1>1 DEF symbol_table_scan, DataInv, IsCode
  <2>2. IsInstruction(code[scanned + 1])
    BY <2>1 DEF DataInv, IsCode
  <2>3. Scanned(table, code[scanned + 1]) \in TableInfo
    BY <2>2, ScannedTyped DEF DataInv
  <2> QED
    BY <1>1, <2>1, <2>3 DEF symbol_table_scan, DataInv
<1>2. CASE Guess
  <2>1. Guessed(table) \in TableInfo
    BY GuessedTyped DEF DataInv
  <2> QED
    BY <1>2, <2>1 DEF Guess, DataInv
<1>3. CASE EmitStructure
  <2>1. next \in Slots /\ Items(groups) \in Seq(ItemInfo)
    BY <1>3, NextIsSlot DEF EmitStructure
  <2>2. PICK count : count = FirstCount(table, struct_map_lookup(table, next))
    OBVIOUS
  <2>3. count \in Nat \ {0}
    <3>1. struct_map_lookup(table, next) \subseteq DOMAIN table.ranges
      BY DEF struct_map_lookup, RangesAt
    <3> QED
      BY <1>3, <2>2, <3>1, CountFound DEF EmitStructure, DataInv
  <2>4. PICK group : group = Structure(next, count)
    OBVIOUS
  <2>5. /\ group \in [start : Int, items : Seq(ItemInfo)] /\ StartOk(group)
        /\ Placed(Items(groups) \o group.items, next + count)
    BY <2>1, <2>3, <2>4, PlacedStructure DEF DataInv
  <2>6. groups' = Append(groups, group) /\ next' = next + count /\ UNCHANGED << phase, code, scanned, table >>
    BY <1>3, <2>2, <2>4 DEF EmitStructure
  <2>7. Append(groups, group) \in Groups(ItemInfo) /\ Items(Append(groups, group)) = Items(groups) \o group.items
    BY <2>5, ItemsOfMore DEF DataInv
  <2>8. Started(Append(groups, group))
    BY <2>5, GroupAdded DEF DataInv
  <2> QED
    BY <2>5, <2>6, <2>7, <2>8 DEF DataInv
<1>4. CASE EmitVariable
  <2>1. next \in Slots /\ Items(groups) \in Seq(ItemInfo)
    BY <1>4, NextIsSlot DEF EmitVariable
  <2>2. PICK item : item = [slot |-> next, dim |-> Dim(table, next)]
    OBVIOUS
  <2>3. item \in ItemInfo /\ item.slot = next
    <3>1. Dim(table, next) \in Nat
      BY <2>1, DimTyped DEF DataInv
    <3> QED
      BY <2>1, <2>2, <3>1 DEF ItemInfo, Slots
  <2>4. Placed(Append(Items(groups), item), next + Size(item))
    BY <2>1, <2>3, PlacedItem DEF DataInv
  <2>5. /\ AddToVars(item) \in Groups(ItemInfo) /\ Started(AddToVars(item))
        /\ Items(AddToVars(item)) = Append(Items(groups), item)
    BY <2>3, VariableAdded DEF DataInv
  <2>6. groups' = AddToVars(item) /\ next' = next + Size(item) /\ UNCHANGED << phase, code, scanned, table >>
    BY <1>4, <2>2 DEF EmitVariable
  <2> QED
    BY <2>4, <2>5, <2>6 DEF DataInv
<1>5. CASE EmitDone
  BY <1>5 DEF EmitDone, DataInv
<1>6. CASE UNCHANGED dvars
  BY <1>6 DEF dvars, DataInv
<1> QED
  BY <1>1, <1>2, <1>3, <1>4, <1>5, <1>6 DEF DNext

\* What is declared is declared in its slot.
LEMMA SlotIsName ==
    ASSUME DataInv, NEW name, Declared(groups, name) # {}
    PROVE  SlotOf(groups, name) = name
<1>1. PICK k : k = CHOOSE d \in Declared(groups, name) : TRUE
  OBVIOUS
<1>2. Items(groups) \in Seq(ItemInfo)
  BY GroupsTyped, ItemsTyped DEF DataInv
<1>3. k \in 1 .. Len(Items(groups)) /\ Items(groups)[k].slot = name
  BY <1>1, <1>2, ItemSizes DEF Declared
<1>4. SlotOf(groups, name) = Ends(Items(groups))[k - 1]
  BY <1>1 DEF SlotOf
<1> QED
  BY <1>3, <1>4 DEF DataInv, Placed

LEMMA GroupIsName ==
    ASSUME DataInv, NEW name \in Slots, GroupsOf(groups, name) # {}
    PROVE  SlotOf(groups, Group(groups, name).items[1].slot) = name
<1>1. PICK g : g = CHOOSE d \in GroupsOf(groups, name) : TRUE
  OBVIOUS
<1>2. g \in DOMAIN groups /\ groups[g].start = name
  BY <1>1 DEF GroupsOf
<1>3. Typed(groups, ItemInfo) /\ DOMAIN groups = 1 .. Len(groups)
  BY GroupsTyped DEF DataInv
<1>4. StartOk(groups[g])
  BY <1>2, <1>3 DEF DataInv, Started
<1>5. groups[g].items # << >> /\ groups[g].items[1].slot = name
  BY <1>2, <1>4, SlotsAssumption DEF StartOk, Slots
<1>6. 1 \in DOMAIN groups[g].items
  <2>1. groups[g].items \in Seq(ItemInfo)
    BY <1>2, <1>3 DEF Typed
  <2> QED
    BY <1>5, <2>1, EmptySeq, LenProperties
<1>7. \E k \in DOMAIN Items(groups) : Items(groups)[k] = groups[g].items[1]
  BY <1>2, <1>3, <1>6, ItemsHold
<1>8. Declared(groups, name) # {}
  BY <1>5, <1>7 DEF Declared
<1>9. Group(groups, name) = groups[g]
  BY <1>1 DEF Group
<1> QED
  BY <1>5, <1>8, <1>9, SlotIsName

\* An operand of the code that is known by its name is written as it was.
LEMMA OperandKept ==
    ASSUME DataInv, NEW op, CodeOperand(op), Known(groups, op)
    PROVE  Written(groups, op) = op
<1>1. \A o : o = op \/ o \in ToSet(op.index) => (IsRda(o) => Declared(groups, o.value) # {})
  BY DEF Known
<1>2. CASE op.kind = "I" \/ op.kind = "lit"
  BY <1>2 DEF Written, IsRda
<1>3. CASE \E v \in Slots : op = Rda(v, << >>)
  <2>1. PICK v \in Slots : op = Rda(v, << >>)
    BY <1>3
  <2>2. op.kind = "rda" /\ op.value = v /\ op.index = << >> /\ IsRda(op)
    BY <2>1, RdaFields
  <2>3. SlotOf(groups, v) = v
    BY <1>1, <2>2, SlotIsName
  <2>4. Written(groups, op) = Rda(v, << >>)
    BY <2>2, <2>3 DEF Written, Variable
  <2> QED
    BY <2>1, <2>4
<1>4. CASE \E v \in Slots : \E i : CodeIndex(i) /\ op = Rda(v, << i >>)
  <2>1. PICK v \in Slots : \E i : CodeIndex(i) /\ op = Rda(v, << i >>)
    BY <1>4
  <2>2. PICK i : CodeIndex(i) /\ op = Rda(v, << i >>)
    BY <2>1
  <2>3. op.kind = "rda" /\ op.value = v /\ op.index = << i >> /\ IsRda(op)
    BY <2>2, RdaFields
  <2>4. op.index # << >> /\ op.index[1] = i /\ i \in ToSet(op.index)
    BY <2>3 DEF ToSet
  <2>5. SlotOf(groups, v) = v
    BY <1>1, <2>3, SlotIsName
  <2>6. i.kind # "lit"
    BY <2>2, RdaFields DEF CodeIndex
  <2>7. Subscript(groups, i) = i
    <3>1. CASE \E w \in Slots : i = Rda(w, << >>)
      <4>1. PICK w \in Slots : i = Rda(w, << >>)
        BY <3>1
      <4>2. IsRda(i) /\ i.value = w
        BY <4>1, RdaFields
      <4>3. SlotOf(groups, w) = w
        BY <1>1, <2>4, <4>2, SlotIsName
      <4> QED
        BY <4>1, <4>2, <4>3 DEF Subscript
    <3>2. CASE i.kind = "I"
      BY <3>2 DEF Subscript, IsRda
    <3> QED
      BY <2>2, <3>1, <3>2 DEF CodeIndex
  <2>8. Written(groups, op) = Rda(v, << i >>)
    BY <2>3, <2>4, <2>5, <2>6, <2>7 DEF Written, Variable
  <2> QED
    BY <2>2, <2>8
<1> QED
  BY <1>2, <1>3, <1>4 DEF CodeOperand

THEOREM DeclaredInOrder == DSpec => []DataInv
<1> QED
  BY DataInvInit, DataInvNext, PTL DEF DSpec

LEMMA InstructionKept ==
    ASSUME DataInv, NEW instr, IsInstruction(instr),
           validate_verb(groups, emit_verb(table, instr))
    PROVE  gen_verb(groups, emit_verb(table, instr)).operands = instr.operands
<1>1. PICK ops : ops = instr.operands
  OBVIOUS
<1>2. /\ DOMAIN ops = 1 .. Len(ops) /\ ops = [j \in 1 .. Len(ops) |-> ops[j]]
      /\ \A j \in 1 .. Len(ops) : CodeOperand(ops[j])
  BY <1>1 DEF IsInstruction, CodeOperands
<1>3. PICK text : text = emit_verb(table, instr).operands
  OBVIOUS
<1>4. text = [j \in 1 .. Len(ops) |->
                 IF j = 1 /\ ByGroup(table, instr) THEN [ops[1] EXCEPT !.kind = "group"] ELSE ops[j]]
  BY <1>1, <1>2, <1>3 DEF emit_verb
<1>5. \A j \in 1 .. Len(ops) : Known(groups, text[j])
  BY <1>3, <1>4 DEF validate_verb
<1>6. ASSUME NEW j \in 1 .. Len(ops) PROVE Written(groups, text[j]) = ops[j]
  <2>1. CASE j = 1 /\ ByGroup(table, instr)
    <3>1. IsPlainRda(ops[1])
      BY <1>1, <2>1 DEF ByGroup
    <3>2. PICK v \in Slots : ops[1] = Rda(v, << >>)
      <4>1. CodeOperand(ops[1]) /\ ops[1].kind = "rda" /\ ops[1].index = << >>
        BY <1>2, <2>1, <3>1 DEF IsPlainRda, IsRda
      <4>2. \A w, i : ops[1] = Rda(w, << i >>) => ops[1].index # << >>
        BY RdaFields
      <4> QED
        BY <4>1, <4>2 DEF CodeOperand
    <3>3. text[j] = [Rda(v, << >>) EXCEPT !.kind = "group"]
      BY <1>4, <2>1, <3>2
    <3>4. text[j].kind = "group" /\ text[j].value = v /\ text[j].index = << >>
      BY <3>3 DEF Rda
    <3>5. GroupsOf(groups, v) # {}
      BY <1>5, <3>4 DEF Known
    <3>6. SlotOf(groups, Group(groups, v).items[1].slot) = v
      BY <3>5, GroupIsName
    <3> QED
      BY <2>1, <3>2, <3>4, <3>6 DEF Written
  <2>2. CASE ~ (j = 1 /\ ByGroup(table, instr))
    <3>1. text[j] = ops[j]
      BY <1>4, <2>2
    <3> QED
      BY <1>2, <1>5, <3>1, OperandKept
  <2> QED
    BY <2>1, <2>2
<1>7. gen_verb(groups, emit_verb(table, instr)).operands = [j \in DOMAIN text |-> Written(groups, text[j])]
  BY <1>3 DEF gen_verb
<1>8. DOMAIN text = 1 .. Len(ops)
  BY <1>4
<1>9. [j \in DOMAIN text |-> Written(groups, text[j])] = ops
  BY <1>2, <1>6, <1>8
<1> QED
  BY <1>1, <1>7, <1>9

(***************************************************************************)
(* Whatever the program and the guesses: when the compiler takes the       *)
(* listing again (no validate_verb fails), every instruction it writes has *)
(* the operands the instruction had that was decompiled (emit_data_section *)
(* and emit_verb of baseline.c against gen_verb of the code generator).    *)
(***************************************************************************)
THEOREM SlotsAreKept == DSpec => []SameSlots
<1>1. DataInv => SameSlots
  <2> SUFFICES ASSUME DataInv, ~ Refused, NEW i \in DOMAIN code
               PROVE  Again[i].operands = code[i].operands
    BY DEF SameSlots
  <2>1. IsInstruction(code[i])
    BY DEF DataInv, IsCode
  <2>2. Text[i] = emit_verb(table, code[i]) /\ DOMAIN Text = DOMAIN code
    BY DEF Text
  <2>3. validate_verb(groups, Text[i])
    BY <2>2 DEF Refused
  <2>4. Again[i] = gen_verb(groups, Text[i])
    BY <2>2 DEF Again
  <2> QED
    BY <2>1, <2>2, <2>3, <2>4, InstructionKept
<1> QED
  BY <1>1, DeclaredInOrder, PTL
=============================================================================
