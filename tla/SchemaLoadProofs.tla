-------------------------- MODULE SchemaLoadProofs --------------------------
(***************************************************************************)
(* Proofs, for every schema, about the loading of it.  First: no pattern   *)
(* refers to one that is gone, redirections end, and equal patterns are    *)
(* one (IInv).  Then: what is left means what was parsed, and is ready for *)
(* the derivatives (MInv).  Last: what is refused, and only that, contains *)
(* itself (LPhase).                                                        *)
(***************************************************************************)
EXTENDS SchemaLoad, Counting

-----------------------------------------------------------------------------
(* A function applied n times: all the results on the way.                 *)
Keeps(f, S) == \A y \in S : f[y] \in S
Repeated(g, f, x, n) == g[0] = x /\ \A k \in 1 .. n : g[k] = f[g[k - 1]]

LEMMA Iterated ==
  ASSUME NEW S, NEW f, Keeps(f, S), NEW x \in S, NEW n \in Nat
  PROVE  \E g \in Results(S, n) : Iterate(f, x, n) = g[n] /\ Repeated(g, f, x, n)
<1> DEFINE D == [k \in 1 .. n |-> [y \in S |-> f[y]]]
           Its(g) == g = [k \in 0 .. n |-> IF k = 0 THEN x ELSE f[g[k - 1]]]
<1>0. D \in Maps(S, n)
  BY DEF Maps, Keeps
<1>1. \A k \in 1 .. n, y \in S : D[k][y] = f[y]
  OBVIOUS
<1> HIDE DEF D, Its
<1>2a. PICK g \in Results(S, n) : Run(g, D, x, n)
  BY <1>0, Runs
<1>2. g \in [0 .. n -> S] /\ g[0] = x /\ \A k \in 1 .. n : g[k] = D[k][g[k - 1]]
  BY <1>2a DEF Results, Run
<1>3. \A k \in 1 .. n : g[k] = f[g[k - 1]]
  <2> TAKE k \in 1 .. n
  <2>1. g[k - 1] \in S
    BY <1>2
  <2> QED
    BY <1>1, <1>2, <2>1
<1> USE DEF Its
<1>4. Its(g)
  <2>1. ASSUME NEW k \in 0 .. n PROVE g[k] = IF k = 0 THEN x ELSE f[g[k - 1]]
    <3>1. CASE k = 0
      BY <1>2, <3>1
    <3>2. CASE k \in 1 .. n
      BY <1>3, <3>2
    <3> QED
      BY <3>1, <3>2
  <2> QED
    BY <1>2, <2>1
<1> DEFINE it == CHOOSE h : Its(h)
<1>5. Iterate(f, x, n) = it[n]
  BY DEF Iterate
<1> HIDE DEF Its
<1>6. Its(it)
  BY <1>4
<1> HIDE DEF it
<1>7. \A k \in 0 .. n : it[k] = IF k = 0 THEN x ELSE f[it[k - 1]]
  BY <1>6 DEF Its
<1> DEFINE E == {k \in 0 .. n : it[k] = g[k]}
<1>8. 0 .. n \subseteq E
  <2>1. 0 \in E
    BY <1>2, <1>7
  <2>2. ASSUME NEW k \in 0 .. n - 1, k \in E PROVE k + 1 \in E
    <3>1. k + 1 \in 1 .. n /\ k + 1 # 0 /\ (k + 1) - 1 = k
      OBVIOUS
    <3>2. it[k + 1] = f[it[k]] /\ g[k + 1] = f[g[k]]
      BY <1>3, <1>7, <3>1
    <3> QED
      BY <2>2, <3>1, <3>2
  <2> HIDE DEF E
  <2> QED
    BY <2>1, <2>2, UpTo
<1>9. it[n] = g[n]
  BY <1>8
<1> QED
  BY <1>2a, <1>2, <1>3, <1>5, <1>9 DEF Repeated

(* A set that can only grow inside a finite one has stopped growing after  *)
(* as many rounds as that has members, and is then the least one closed.   *)
LEMMA Saturated ==
  ASSUME NEW D, IsFiniteSet(D), NEW f,
         \A A \in SUBSET D : f[A] \in SUBSET D /\ A \subseteq f[A],
         NEW x \in SUBSET D, x # {}
  PROVE  LET r == Iterate(f, x, Cardinality(D)) IN
         /\ r \in SUBSET D /\ x \subseteq r /\ f[r] = r
         /\ \A B \in SUBSET D : x \subseteq B /\ (\A A \in SUBSET B : f[A] \subseteq B) => r \subseteq B
<1> DEFINE n == Cardinality(D)
<1>1. n \in Nat
  BY FS_CardinalityType
<1> HIDE DEF n
<1> DEFINE P == SUBSET D
<1>0. Keeps(f, P)
  BY DEF Keeps
<1>a. x \in P
  OBVIOUS
<1> HIDE DEF P
<1>b. PICK g \in Results(P, n) : Iterate(f, x, n) = g[n] /\ Repeated(g, f, x, n)
  BY <1>0, <1>a, <1>1, Iterated
<1>2. /\ g \in [0 .. n -> P]
      /\ Iterate(f, x, n) = g[n]
      /\ g[0] = x
      /\ \A k \in 1 .. n : g[k] = f[g[k - 1]]
  BY <1>b DEF Results, Repeated
<1> USE DEF P
<1>3. \A k \in 0 .. n - 1 : k + 1 \in 1 .. n /\ k + 1 \in 0 .. n /\ k \in 0 .. n /\ g[k + 1] = f[g[k]]
  <2> TAKE k \in 0 .. n - 1
  <2>1. k + 1 \in 1 .. n /\ (k + 1) - 1 = k
    BY <1>1
  <2>2. g[k + 1] = f[g[(k + 1) - 1]]
    BY <1>2, <2>1
  <2> QED
    BY <1>1, <2>1, <2>2
<1>4. \A k \in 0 .. n : IsFiniteSet(g[k]) /\ Cardinality(g[k]) \in Nat /\ Cardinality(g[k]) <= n
  BY <1>2, FS_Subset, FS_CardinalityType DEF n
<1>5. 0 \in 0 .. n /\ n \in 0 .. n
  BY <1>1
<1> DEFINE K == {k \in 0 .. n : x \subseteq g[k] /\ (f[g[k]] = g[k] \/ Cardinality(g[k]) >= k + 1)}
<1>6. 0 \in K
  <2>1. Cardinality(x) # 0 /\ Cardinality(x) \in Nat
    BY <1>2, <1>4, <1>5, FS_EmptySet
  <2> QED
    BY <1>2, <1>5, <2>1
<1>7. ASSUME NEW k \in 0 .. n - 1, k \in K PROVE k + 1 \in K
  <2>1. k + 1 \in 0 .. n /\ k \in 0 .. n /\ g[k + 1] = f[g[k]] /\ g[k] \in SUBSET D /\ g[k + 1] \in SUBSET D
    BY <1>2, <1>3
  <2>2. g[k] \subseteq g[k + 1] /\ x \subseteq g[k + 1]
    BY <1>7, <2>1
  <2>3. CASE f[g[k]] = g[k]
    BY <2>1, <2>2, <2>3
  <2>4. CASE f[g[k]] # g[k] /\ Cardinality(g[k]) >= k + 1
    <3>1. Cardinality(g[k]) <= Cardinality(g[k + 1]) /\ Cardinality(g[k]) # Cardinality(g[k + 1])
      BY <1>4, <2>1, <2>2, <2>4, FS_Subset
    <3>2. Cardinality(g[k + 1]) >= (k + 1) + 1
      BY <1>4, <2>1, <2>4, <3>1
    <3> QED
      BY <2>1, <2>2, <3>2
  <2> QED
    BY <1>7, <2>3, <2>4
<1>8. n \in K
  <2> HIDE DEF K
  <2> QED
    BY <1>1, <1>5, <1>6, <1>7, UpTo
<1>9. x \subseteq g[n] /\ f[g[n]] = g[n]
  <2>1. Cardinality(g[n]) <= n /\ Cardinality(g[n]) \in Nat
    BY <1>4, <1>5
  <2> QED
    BY <1>1, <1>8, <2>1
<1>10. ASSUME NEW B \in SUBSET D, x \subseteq B, \A A \in SUBSET B : f[A] \subseteq B
       PROVE  g[n] \subseteq B
  <2> DEFINE J == {k \in 0 .. n : g[k] \subseteq B}
  <2>1. 0 \in J
    BY <1>2, <1>5, <1>10
  <2>2. ASSUME NEW k \in 0 .. n - 1, k \in J PROVE k + 1 \in J
    BY <1>3, <1>10, <2>2
  <2>3. n \in J
    <3> HIDE DEF J
    <3> QED
      BY <1>1, <1>5, <2>1, <2>2, UpTo
  <2> QED
    BY <2>3
<1> QED
  BY <1>2, <1>5, <1>9, <1>10 DEF n

(* The members of a finite set of numbers, counted from below.             *)
LEMMA Numbering ==
  ASSUME NEW S \in SUBSET Nat, IsFiniteSet(S), NEW to,
         \A p \in S : to[p] = Cardinality({q \in S : q < p})
  PROVE  /\ \A p \in S : to[p] \in 0 .. Cardinality(S) - 1
         /\ \A p, q \in S : to[p] = to[q] => p = q
         /\ \A n \in 0 .. Cardinality(S) - 1 : \E p \in S : to[p] = n
<1> DEFINE Under(p) == {q \in S : q < p}
           N == Cardinality(S)
<1>1. N \in Nat
  BY FS_CardinalityType
<1>2. ASSUME NEW p \in S
      PROVE  IsFiniteSet(Under(p)) /\ to[p] = Cardinality(Under(p)) /\ to[p] \in 0 .. N - 1
  <2>1. Under(p) \in SUBSET S /\ p \notin Under(p)
    OBVIOUS
  <2>2. IsFiniteSet(Under(p)) /\ Cardinality(Under(p)) <= N /\ Cardinality(Under(p)) # N
    BY <2>1, FS_Subset
  <2>3. Cardinality(Under(p)) \in Nat
    BY <2>2, FS_CardinalityType
  <2>4. to[p] = Cardinality(Under(p))
    OBVIOUS
  <2> HIDE DEF Under, N
  <2> QED
    BY <1>1, <2>2, <2>3, <2>4
<1>3. ASSUME NEW p \in S, NEW q \in S, p < q PROVE to[p] # to[q]
  <2>0. \A r \in S : r \in Nat
    OBVIOUS
  <2>1. \A r \in S : r < p => r < q
    BY <1>3, <2>0
  <2>2. \A r : r \in Under(p) => r \in Under(q)
    BY <2>1
  <2>3. p \in Under(q)
    BY <1>3
  <2>4. p \notin Under(p)
    BY <2>0
  <2> HIDE DEF Under
  <2> QED
    BY <1>2, <2>2, <2>3, <2>4, FS_Subset
<1>4. ASSUME NEW p \in S, NEW q \in S, to[p] = to[q] PROVE p = q
  <2>1. ~(p < q) /\ ~(q < p)
    BY <1>3, <1>4
  <2>2. p \in Nat /\ q \in Nat
    OBVIOUS
  <2> QED
    BY <2>1, <2>2
<1> DEFINE g == [p \in S |-> to[p]]
           R == 0 .. N - 1
<1>5. IsFiniteSet(R) /\ Cardinality(R) = N
  <2>1. 0 \in Int /\ N - 1 \in Int /\ (0 > N - 1 => N = 0) /\ N - 1 - 0 + 1 = N
    BY <1>1
  <2> QED
    BY <1>1, <2>1, FS_Interval
<1>6. g \in Injection(S, R)
  <2>1. g \in [S -> R]
    BY <1>2
  <2>2. \A p, q \in S : g[p] = g[q] => p = q
    BY <1>4
  <2> HIDE DEF g, R
  <2> QED
    BY <2>1, <2>2 DEF Injection, IsInjective
<1>7. g \in Surjection(S, R)
  <2> HIDE DEF g, R
  <2> QED
    BY <1>5, <1>6, FS_Injection DEF N
<1>8. \A n \in R : \E p \in S : g[p] = n
  <2> HIDE DEF g, R
  <2> QED
    BY <1>7 DEF Surjection
<1> QED
  BY <1>2, <1>4, <1>8

-----------------------------------------------------------------------------
(* A store of n patterns being swept.                                      *)
Stores(n) ==
  [pat : [0 .. n - 1 -> Pattern], tab : SUBSET (0 .. n - 1), marked : SUBSET (1 .. n - 1),
   xlat : [1 .. n - 1 -> -1 .. n - 1], changed : BOOLEAN]

(* Of the patterns in use some stay, the others have been redirected.      *)
Used(x) == {p \in DOMAIN x : x[p] # None}
Roots(x) == {p \in DOMAIN x : x[p] = p}
Gone(x) == Used(x) \ Roots(x)

(* A redirection leads to a pattern in use.                                *)
Lands(x) == \A p \in Used(x) : x[p] = 0 \/ x[p] \in Used(x)

(* Redirections can be numbered, in the order in which they were made, so  *)
(* that from each one goes on to a later one.                              *)
Later(x, T) == \A p \in Gone(x) : x[p] \in Gone(x) => T[p] < T[x[p]]

Ordered(x) == \E T \in [Gone(x) -> 1 .. Cardinality(Gone(x))] : Later(x, T)

(* No two registered patterns are equal.                                   *)
Unique(pt, t) == \A p, q \in t : pt[p] = pt[q] => p = q

(* No pattern refers to none, and none in use to one that is not.          *)
Sound(pt, x) ==
  /\ \A p \in DOMAIN pt : pt[p].t # "erased" /\ Kids(pt[p]) \subseteq DOMAIN pt
  /\ \A p \in Used(x) : Kids(pt[p]) \subseteq {0} \cup Used(x)

Sweeping(n, st) ==
  /\ st \in Stores(n)
  /\ st.pat[0] = Empty
  /\ Unique(st.pat, st.tab) /\ 0 \in st.tab
  /\ st.tab \cap Used(st.xlat) \subseteq Roots(st.xlat)
  /\ st.marked = Roots(st.xlat)
  /\ Lands(st.xlat) /\ Ordered(st.xlat)
  /\ Sound(st.pat, st.xlat)

-----------------------------------------------------------------------------
LEMMA Sizes ==
  ASSUME NEW n \in Nat \ {0}, pat \in [0 .. n - 1 -> Pattern]
  PROVE  /\ DOMAIN pat = 0 .. n - 1 /\ Cardinality(DOMAIN pat) = n
         /\ Stored = 1 .. n - 1 /\ Cardinality(Stored) = n - 1
<1>1. DOMAIN pat = 0 .. n - 1
  OBVIOUS
<1>2. Cardinality(0 .. n - 1) = n /\ Cardinality(1 .. n - 1) = n - 1
  BY FS_Interval
<1> QED
  BY <1>1, <1>2 DEF Stored, base_p

LEMMA Lookups ==
  ASSUME NEW pt, NEW t \in SUBSET Nat, NEW p
  PROVE  LET q == ht_get(pt, t, p) IN
         \/ q = None /\ \A r \in t : pt[r] # pt[p]
         \/ q # None /\ q \in t /\ pt[q] = pt[p]
<1> DEFINE equal == {q \in t : pt[q] = pt[p]}
<1>1. None \notin t
  BY DEF None
<1>2. CASE equal = {}
  BY <1>2 DEF ht_get
<1>3. CASE equal # {}
  <2>1. ht_get(pt, t, p) = CHOOSE q \in equal : TRUE
    BY <1>3 DEF ht_get
  <2>2. (CHOOSE q \in equal : TRUE) \in equal
    BY <1>3
  <2> QED
    BY <1>1, <2>1, <2>2
<1> QED
  BY <1>2, <1>3

(* A pattern that stays is redirected to another.                          *)
Redirect(x, p, q) == [x EXCEPT ![p] = q]

Redirects(n, x, p, y) ==
  /\ y \in [1 .. n - 1 -> -1 .. n - 1]
  /\ Used(y) = Used(x) /\ Roots(y) = Roots(x) \ {p}
  /\ Lands(y) /\ Ordered(y)

LEMMA Redirection ==
  ASSUME NEW n \in Nat \ {0}, NEW x \in [1 .. n - 1 -> -1 .. n - 1],
         Lands(x), Ordered(x),
         NEW p \in Roots(x), NEW q \in {0} \cup Roots(x), q # p,
         NEW y, y = Redirect(x, p, q)
  PROVE  Redirects(n, x, p, y)
<1>1. p \in 1 .. n - 1 /\ x[p] = p /\ q \in 0 .. n - 1 /\ q # None
  BY DEF Roots, None
<1>2. y \in [1 .. n - 1 -> -1 .. n - 1]
  BY <1>1 DEF Redirect
<1>3. y[p] = q /\ \A r \in 1 .. n - 1 : r # p => y[r] = x[r]
  BY <1>1 DEF Redirect
<1>4. Used(y) = Used(x)
  BY <1>1, <1>2, <1>3 DEF Used, None
<1>5. Roots(y) = Roots(x) \ {p}
  BY <1>1, <1>2, <1>3 DEF Roots
<1>6. p \in Used(x) /\ (q = 0 \/ q \in Used(x))
  BY <1>1 DEF Used, Roots, None
<1>7. Lands(y)
  <2>1. ASSUME NEW r \in Used(y) PROVE y[r] = 0 \/ y[r] \in Used(y)
    <3>1. r \in 1 .. n - 1 /\ r \in Used(x)
      BY <1>4 DEF Used
    <3> QED
      BY <1>3, <1>4, <1>6, <3>1 DEF Lands
  <2> QED
    BY <2>1 DEF Lands
<1>8. Ordered(y)
  <2> DEFINE G == Gone(x)
             m == Cardinality(G)
  <2>1. p \notin G /\ q \notin G
    BY <1>1 DEF Gone, Roots, Used
  <2>2. Gone(y) = G \cup {p}
    BY <1>4, <1>5, <1>6 DEF Gone
  <2>3. IsFiniteSet(G)
    <3>1. G \in SUBSET (1 .. n - 1)
      BY DEF Gone, Used
    <3> QED
      BY <3>1, FS_Interval, FS_Subset
  <2>4. m \in Nat /\ Cardinality(G \cup {p}) = m + 1
    BY <2>1, <2>3, FS_CardinalityType, FS_AddElement
  <2>5. PICK T \in [G -> 1 .. m] : Later(x, T)
    BY DEF Ordered
  <2> HIDE DEF G, m
  <2>6. T \in [G -> 1 .. m] /\ \A r \in G : x[r] \in G => T[r] < T[x[r]]
    BY <2>5 DEF Later, G
  <2> DEFINE U == [r \in G \cup {p} |-> IF r = p THEN m + 1 ELSE T[r]]
  <2>7. U \in [G \cup {p} -> 1 .. m + 1]
    BY <2>4, <2>6
  <2>8. ASSUME NEW r \in G \cup {p}, y[r] \in G \cup {p} PROVE U[r] < U[y[r]]
    <3>1. r # p
      BY <1>3, <1>1, <2>1, <2>8
    <3>2. r \in G /\ r \in 1 .. n - 1 /\ y[r] = x[r]
      BY <1>3, <3>1 DEF G, Gone, Used
    <3>3. U[r] = T[r] /\ T[r] \in 1 .. m
      BY <2>6, <3>1, <3>2
    <3>4. CASE y[r] = p
      BY <2>4, <3>3, <3>4
    <3>5. CASE y[r] \in G
      BY <2>1, <2>6, <3>2, <3>3, <3>5
    <3> QED
      BY <2>8, <3>4, <3>5
  <2>9. Later(y, U)
    <3> HIDE DEF U
    <3> QED
      BY <2>2, <2>8 DEF Later
  <2> HIDE DEF U
  <2>10. U \in [Gone(y) -> 1 .. Cardinality(Gone(y))]
    BY <2>2, <2>4, <2>7
  <2> QED
    BY <2>9, <2>10 DEF Ordered
<1> QED
  BY <1>2, <1>4, <1>5, <1>7, <1>8 DEF Redirects

-----------------------------------------------------------------------------
(* A pattern that has met its equal is redirected to it, or takes its      *)
(* place in the table; the store stays in order.                           *)
Resolved(st, nx, p, q) ==
  /\ nx.pat = st.pat
  /\ Roots(nx.xlat) \subseteq Roots(st.xlat)
  /\ \/ p \notin Roots(nx.xlat) /\ nx.tab = st.tab /\ nx.changed = TRUE
     \/ /\ q \notin Used(st.xlat) /\ nx.xlat = st.xlat
        /\ nx.tab = (st.tab \ {q}) \cup {p} /\ nx.changed = st.changed

LEMMA Redir ==
  ASSUME NEW n \in Nat \ {0}, NEW st, Sweeping(n, st),
         NEW p \in Roots(st.xlat), p \notin st.tab,
         NEW q \in st.tab, st.pat[q] = st.pat[p],
         NEW nx, nx = redir_p(st, p, q)
  PROVE  /\ Sweeping(n, nx)
         /\ Resolved(st, nx, p, q)
<1> DEFINE x == st.xlat
<1>1. /\ st \in Stores(n) /\ st.pat[0] = Empty
      /\ Unique(st.pat, st.tab) /\ 0 \in st.tab
      /\ st.tab \cap Used(x) \subseteq Roots(x)
      /\ st.marked = Roots(x)
      /\ Lands(x) /\ Ordered(x)
      /\ Sound(st.pat, x)
  BY DEF Sweeping
<1>2. /\ x \in [1 .. n - 1 -> -1 .. n - 1] /\ st.pat \in [0 .. n - 1 -> Pattern]
      /\ st.tab \in SUBSET (0 .. n - 1) /\ st.marked \in SUBSET (1 .. n - 1) /\ st.changed \in BOOLEAN
  BY <1>1 DEF Stores
<1>3. p \in 1 .. n - 1 /\ x[p] = p /\ p \in Used(x) /\ q \in 0 .. n - 1 /\ q # p
  BY <1>2 DEF Roots, Used, None
<1>4. CASE q < base_p \/ x[q] # None
  <2> DEFINE y == [x EXCEPT ![p] = q]
  <2>1. nx = [st EXCEPT !.marked = @ \ {p}, !.xlat = y, !.changed = TRUE]
    BY <1>4 DEF redir_p
  <2>2. /\ nx.pat = st.pat /\ nx.tab = st.tab /\ nx.changed = TRUE
        /\ nx.marked = st.marked \ {p} /\ nx.xlat = y
    BY <1>1, <2>1 DEF Stores
  <2>3. q \in {0} \cup Roots(x)
    <3>1. CASE q < 1
      BY <1>3, <3>1
    <3>2. CASE ~(q < 1)
      <4>1. q \in 1 .. n - 1 /\ x[q] # None
        BY <1>3, <1>4, <3>2 DEF base_p
      <4>2. q \in Used(x)
        BY <1>2, <4>1 DEF Used
      <4> QED
        BY <1>1, <4>2
    <3> QED
      BY <3>1, <3>2
  <2> HIDE DEF y, x
  <2>4. /\ y \in [1 .. n - 1 -> -1 .. n - 1]
        /\ Used(y) = Used(x) /\ Roots(y) = Roots(x) \ {p}
        /\ Lands(y) /\ Ordered(y)
    <3>1. y = Redirect(x, p, q)
      BY DEF y, Redirect
    <3>2. p \in Roots(x)
      BY DEF x
    <3> HIDE DEF y
    <3> QED
      <4>1. x \in [1 .. n - 1 -> -1 .. n - 1] /\ Lands(x) /\ Ordered(x) /\ q # p
        BY <1>1, <1>2, <1>3
      <4> HIDE DEF x
      <4>2. Redirects(n, x, p, y)
        BY <2>3, <3>1, <3>2, <4>1, Redirection
      <4> QED
        BY <4>2 DEF Redirects
  <2>5. nx \in Stores(n)
    <3>1. st.marked \ {p} \in SUBSET (1 .. n - 1)
      BY <1>2
    <3>2. nx = [pat |-> st.pat, tab |-> st.tab, marked |-> st.marked \ {p}, xlat |-> y, changed |-> TRUE]
      BY <1>1, <2>1 DEF Stores
    <3> QED
      BY <1>2, <2>4, <3>1, <3>2 DEF Stores
  <2>6. nx.tab \cap Used(y) \subseteq Roots(y)
    BY <1>1, <2>2, <2>4
  <2>7. Sound(nx.pat, y)
    BY <1>1, <2>2, <2>4 DEF Sound
  <2>8. nx.marked = Roots(y) /\ 0 \in nx.tab /\ Unique(nx.pat, nx.tab)
    BY <1>1, <2>2, <2>4
  <2>9. Sweeping(n, nx)
    BY <2>2, <2>4, <2>5, <2>6, <2>7, <2>8 DEF Sweeping
  <2> QED
    BY <2>2, <2>4, <2>9 DEF x, Resolved
<1>5. CASE ~(q < base_p \/ x[q] # None)
  <2>1. nx = [st EXCEPT !.tab = (@ \ {q}) \cup {p}]
    BY <1>5 DEF redir_p
  <2>2. /\ nx.pat = st.pat /\ nx.tab = (st.tab \ {q}) \cup {p} /\ nx.changed = st.changed
        /\ nx.marked = st.marked /\ nx.xlat = x
    BY <1>1, <2>1 DEF Stores
  <2>3. q \notin Used(x) /\ q # 0
    BY <1>3, <1>5 DEF Used, base_p
  <2> HIDE DEF x
  <2>4. nx \in Stores(n)
    <3>1. (st.tab \ {q}) \cup {p} \in SUBSET (0 .. n - 1)
      BY <1>2, <1>3
    <3>2. nx = [pat |-> st.pat, tab |-> (st.tab \ {q}) \cup {p}, marked |-> st.marked,
                xlat |-> st.xlat, changed |-> st.changed]
      BY <1>1, <2>1 DEF Stores
    <3> QED
      BY <1>2, <3>1, <3>2 DEF Stores, x
  <2>5. Unique(nx.pat, nx.tab)
    <3>1. ASSUME NEW r \in st.tab \ {q} PROVE st.pat[r] # st.pat[p]
      BY <1>1, <3>1 DEF Unique
    <3> QED
      BY <1>1, <2>2, <3>1 DEF Unique
  <2>6. 0 \in nx.tab /\ nx.tab \cap Used(x) \subseteq Roots(x)
    BY <1>1, <2>2, <2>3 DEF x
  <2>7. Sweeping(n, nx)
    BY <1>1, <2>2, <2>4, <2>5, <2>6 DEF Sweeping
  <2> QED
    BY <2>2, <2>3, <2>7 DEF x, Resolved
<1> QED
  BY <1>4, <1>5

-----------------------------------------------------------------------------
(* Every pattern in use has an equal that is registered.                   *)
Represented(st) == \A r \in Roots(st.xlat) : \E s \in st.tab : st.pat[s] = st.pat[r]

(* Before the first redirection the patterns in use are those that stay.   *)
Undisturbed(st) == st.changed = FALSE => Used(st.xlat) = Roots(st.xlat)

Merging(n) == {st \in Stores(n) : Sweeping(n, st) /\ Represented(st) /\ Undisturbed(st)}

(* One visit of the first pass.                                            *)
LEMMA Merged ==
  ASSUME NEW n \in Nat \ {0}, NEW st \in Merging(n), NEW p \in 1 .. n - 1,
         NEW nx, nx = Merge(st, p)
  PROVE  /\ nx \in Merging(n)
         /\ Roots(nx.xlat) \subseteq Roots(st.xlat)
         /\ Roots(st.xlat) \cap st.tab \cap Roots(nx.xlat) \subseteq nx.tab
         /\ p \in Roots(nx.xlat) => p \in nx.tab
<1> DEFINE q == ht_get(st.pat, st.tab, p)
<1>1. Sweeping(n, st) /\ Represented(st) /\ Undisturbed(st) /\ st \in Stores(n)
  BY DEF Merging
<1>2. /\ st.tab \in SUBSET (0 .. n - 1) /\ st.xlat \in [1 .. n - 1 -> -1 .. n - 1]
      /\ Unique(st.pat, st.tab) /\ st.changed \in BOOLEAN
  BY <1>1 DEF Stores, Sweeping
<1>3. st.xlat[p] = p <=> p \in Roots(st.xlat)
  BY <1>2 DEF Roots
<1>4. \/ q = None /\ \A r \in st.tab : st.pat[r] # st.pat[p]
      \/ q # None /\ q \in st.tab /\ st.pat[q] = st.pat[p]
  <2>1. st.tab \in SUBSET Nat
    BY <1>2
  <2> QED
    BY <2>1, Lookups
<1>5. nx = IF st.xlat[p] = p /\ q # p THEN redir_p(st, p, q) ELSE st
  BY DEF Merge
<1> HIDE DEF q
<1>6. CASE p \notin Roots(st.xlat)
  <2>1. nx = st
    BY <1>3, <1>5, <1>6
  <2> QED
    BY <1>6, <2>1
<1>7. CASE p \in Roots(st.xlat)
  <2>1. q \in st.tab /\ st.pat[q] = st.pat[p]
    BY <1>1, <1>4, <1>7 DEF Represented
  <2>2. CASE q = p
    <3>1. nx = st
      BY <1>5, <2>2
    <3> QED
      BY <2>1, <2>2, <3>1
  <2>3. CASE q # p
    <3>1. nx = redir_p(st, p, q) /\ p \notin st.tab
      BY <1>2, <1>3, <1>5, <1>7, <2>1, <2>3 DEF Unique
    <3>2a. Sweeping(n, nx) /\ Resolved(st, nx, p, q)
      <4>1. Sweeping(n, st)
        BY <1>1
      <4>2. p \notin st.tab
        BY <3>1
      <4>3. nx = redir_p(st, p, q)
        BY <3>1
      <4>4. q \in st.tab
        BY <2>1
      <4>5. st.pat[q] = st.pat[p]
        BY <2>1
      <4> QED
        BY <1>7, <4>1, <4>2, <4>3, <4>4, <4>5, Redir
    <3>2. /\ Sweeping(n, nx)
          /\ nx.pat = st.pat
          /\ Roots(nx.xlat) \subseteq Roots(st.xlat)
          /\ \/ p \notin Roots(nx.xlat) /\ nx.tab = st.tab /\ nx.changed = TRUE
             \/ /\ q \notin Used(st.xlat) /\ nx.xlat = st.xlat
                /\ nx.tab = (st.tab \ {q}) \cup {p} /\ nx.changed = st.changed
      BY <3>2a DEF Resolved
    <3>3. nx \in Stores(n)
      BY <3>2 DEF Sweeping
    <3>4. Roots(st.xlat) \subseteq Used(st.xlat)
      BY <1>2 DEF Roots, Used, None
    <3>5. CASE p \notin Roots(nx.xlat) /\ nx.tab = st.tab /\ nx.changed = TRUE
      <4>1. Represented(nx) /\ Undisturbed(nx)
        BY <1>1, <3>2, <3>5 DEF Represented, Undisturbed
      <4> QED
        BY <3>2, <3>3, <3>5, <4>1 DEF Merging
    <3>6. CASE /\ q \notin Used(st.xlat) /\ nx.xlat = st.xlat
               /\ nx.tab = (st.tab \ {q}) \cup {p} /\ nx.changed = st.changed
      <4>1. Represented(nx)
        BY <1>1, <2>1, <3>2, <3>6 DEF Represented
      <4>2. Undisturbed(nx)
        BY <1>1, <3>6 DEF Undisturbed
      <4> QED
        BY <3>2, <3>3, <3>4, <3>6, <4>1, <4>2 DEF Merging
    <3> QED
      BY <3>2, <3>5, <3>6
  <2> QED
    BY <2>2, <2>3
<1> QED
  BY <1>6, <1>7

(* The first pass as a function of the number of visits.                   *)
MergeRun(g, c, m) == g[0] = c /\ \A k \in 1 .. m : g[k] = Merge(g[k - 1], k)

LEMMA MergePass ==
  ASSUME NEW n \in Nat \ {0}, pat \in [0 .. n - 1 -> Pattern],
         NEW S, NEW c \in S, \A z \in S, k \in 1 .. n - 1 : Merge(z, k) \in S
  PROVE  \E g \in Results(S, n - 1) : Pass(Merge, c) = g[n - 1] /\ MergeRun(g, c, n - 1)
<1> DEFINE m == n - 1
           D == [k \in 1 .. m |-> [z \in S |-> Merge(z, k)]]
           Its(g) == g = [p \in 0 .. m |-> IF p = 0 THEN c ELSE CHOOSE w \in {Merge(z, p) : z \in {g[p - 1]}} : TRUE]
<1>1. m \in Nat /\ Cardinality(Stored) = m
  BY Sizes
<1>2. D \in Maps(S, m) /\ \A k \in 1 .. m, z \in S : D[k][z] = Merge(z, k)
  BY DEF Maps
<1> HIDE DEF D, m
<1>3. PICK g \in Results(S, m) : Run(g, D, c, m)
  BY <1>1, <1>2, Runs
<1>4. g \in [0 .. m -> S] /\ g[0] = c /\ \A k \in 1 .. m : g[k] = D[k][g[k - 1]]
  BY <1>3 DEF Results, Run
<1>5. \A k \in 1 .. m : g[k] = Merge(g[k - 1], k)
  <2> TAKE k \in 1 .. m
  <2>1. g[k - 1] \in S
    BY <1>1, <1>4
  <2> QED
    BY <1>2, <1>4, <2>1
<1>6. \A z, k : (CHOOSE w \in {Merge(y, k) : y \in {z}} : TRUE) = Merge(z, k)
  OBVIOUS
<1>7. Its(g)
  <2>1. ASSUME NEW k \in 0 .. m
        PROVE  g[k] = IF k = 0 THEN c ELSE CHOOSE w \in {Merge(z, k) : z \in {g[k - 1]}} : TRUE
    <3>1. CASE k = 0
      BY <1>4, <3>1
    <3>2. CASE k \in 1 .. m
      <4>1. k # 0
        BY <3>2
      <4>2. g[k] = Merge(g[k - 1], k)
        BY <1>5, <3>2
      <4> QED
        BY <1>6, <4>1, <4>2
    <3> QED
      BY <1>1, <3>1, <3>2
  <2> QED
    BY <1>4, <2>1
<1> DEFINE it == CHOOSE h : Its(h)
<1>8. Pass(Merge, c) = it[m]
  BY <1>1 DEF Pass
<1> HIDE DEF Its
<1>9. Its(it)
  BY <1>7
<1> HIDE DEF it
<1>10. \A k \in 0 .. m : it[k] = IF k = 0 THEN c ELSE Merge(it[k - 1], k)
  BY <1>6, <1>9 DEF Its
<1> DEFINE E == {k \in 0 .. m : it[k] = g[k]}
<1>11. 0 .. m \subseteq E
  <2>1. 0 \in E
    BY <1>1, <1>4, <1>10
  <2>2. ASSUME NEW k \in 0 .. m - 1, k \in E PROVE k + 1 \in E
    <3>1. k + 1 \in 1 .. m /\ k + 1 # 0 /\ (k + 1) - 1 = k /\ k + 1 \in 0 .. m
      BY <1>1
    <3>2. it[k + 1] = Merge(it[(k + 1) - 1], k + 1) /\ g[k + 1] = Merge(g[(k + 1) - 1], k + 1)
      BY <1>5, <1>10, <3>1
    <3>3. it[k] = g[k]
      BY <2>2
    <3> QED
      BY <3>1, <3>2, <3>3
  <2> HIDE DEF E
  <2> QED
    BY <1>1, <2>1, <2>2, UpTo
<1>12. it[m] = g[m]
  BY <1>1, <1>11
<1> QED
  BY <1>3, <1>4, <1>5, <1>8, <1>12 DEF m, MergeRun

(* After the first pass every pattern that stays is registered.            *)
LEMMA MergedAll ==
  ASSUME NEW n \in Nat \ {0}, pat \in [0 .. n - 1 -> Pattern], NEW c \in Merging(n)
  PROVE  /\ Pass(Merge, c) \in Merging(n)
         /\ Roots(Pass(Merge, c).xlat) \subseteq Pass(Merge, c).tab
<1> DEFINE m == n - 1
           S == Merging(n)
<1>1. \A z \in S, k \in 1 .. n - 1 : Merge(z, k) \in S
  <2> TAKE z \in S, k \in 1 .. n - 1
  <2>1. PICK nx : nx = Merge(z, k)
    OBVIOUS
  <2>2. nx \in Merging(n)
    BY <2>1, Merged
  <2> QED
    BY <2>1, <2>2
<1> HIDE DEF S, m
<1>2. PICK g \in Results(S, m) : Pass(Merge, c) = g[m] /\ MergeRun(g, c, m)
  <2>1. c \in S
    BY DEF S
  <2> QED
    BY <1>1, <2>1, MergePass DEF m
<1>3. m \in Nat /\ 0 \in 0 .. m /\ m \in 0 .. m
  BY DEF m
<1>4. g \in [0 .. m -> S]
  BY <1>2 DEF Results
<1>4a. g[0] = c /\ \A k \in 1 .. m : g[k] = Merge(g[k - 1], k)
  BY <1>2 DEF MergeRun
<1> DEFINE K == {k \in 0 .. m : \A r \in Roots(g[k].xlat) : r <= k => r \in g[k].tab}
<1>5. \A k \in 0 .. m : Roots(g[k].xlat) \subseteq 1 .. m
  <2> TAKE k \in 0 .. m
  <2>1. g[k] \in Stores(n)
    BY <1>4 DEF S, Merging
  <2> QED
    BY <2>1 DEF Stores, Roots, m
<1>6. 0 \in K
  BY <1>3, <1>5
<1>7. ASSUME NEW k \in 0 .. m - 1, k \in K PROVE k + 1 \in K
  <2>1. k + 1 \in 1 .. m /\ k + 1 \in 0 .. m /\ (k + 1) - 1 = k /\ k + 1 \in 1 .. n - 1 /\ k \in 0 .. m
    BY <1>3 DEF m
  <2>2. g[k + 1] = Merge(g[(k + 1) - 1], k + 1)
    BY <1>4a, <2>1
  <2>3. g[k + 1] = Merge(g[k], k + 1)
    BY <2>1, <2>2
  <2>4. g[k] \in Merging(n)
    BY <1>4, <2>1 DEF S
  <2>5. PICK st : st = g[k]
    OBVIOUS
  <2>6. PICK nx : nx = g[k + 1]
    OBVIOUS
  <2>7. PICK p : p = k + 1
    OBVIOUS
  <2>8. /\ Roots(nx.xlat) \subseteq Roots(st.xlat)
        /\ Roots(st.xlat) \cap st.tab \cap Roots(nx.xlat) \subseteq nx.tab
        /\ p \in Roots(nx.xlat) => p \in nx.tab
    <3>1. st \in Merging(n) /\ p \in 1 .. n - 1 /\ nx = Merge(st, p)
      BY <2>1, <2>3, <2>4, <2>5, <2>6, <2>7
    <3> QED
      BY <3>1, Merged
  <2>9. ASSUME NEW r \in Roots(nx.xlat), r <= k + 1 PROVE r \in nx.tab
    <3>1. r \in Nat
      BY <1>5, <2>1, <2>6
    <3>2. r = p \/ r <= k
      BY <2>1, <2>7, <2>9, <3>1
    <3>3. r <= k => r \in st.tab
      BY <1>7, <2>5, <2>8
    <3> QED
      BY <2>8, <3>2, <3>3
  <2> QED
    BY <2>1, <2>6, <2>9
<1>8. m \in K
  <2> HIDE DEF K
  <2> QED
    BY <1>3, <1>6, <1>7, UpTo
<1>9. Roots(g[m].xlat) \subseteq g[m].tab
  BY <1>3, <1>5, <1>8
<1> QED
  BY <1>2, <1>3, <1>4, <1>9 DEF S

-----------------------------------------------------------------------------
(* Replacing the children of a pattern.                                    *)
Replaced(r, to, s) ==
  /\ s \in Pattern /\ s.t = r.t /\ s.nc = r.nc
  /\ Kids(s) = {to[c] : c \in Kids(r)}
  /\ s = r <=> \A c \in Kids(r) : to[c] = c

LEMMA Moves ==
  ASSUME NEW r \in Pattern, NEW to, \A c \in Kids(r) : to[c] \in Int,
         NEW s, s = Moved(r, to)
  PROVE  Replaced(r, to, s)
<1> DEFINE a == IF r.t \in Binary \cup Unary THEN to[r.p1] ELSE r.p1
           b == IF r.t \in Binary THEN to[r.p2] ELSE r.p2
<1>1. r = [t |-> r.t, nc |-> r.nc, p1 |-> r.p1, p2 |-> r.p2]
      /\ r.t \in Types /\ r.nc \in STRING /\ r.p1 \in Int /\ r.p2 \in Int
  BY DEF Pattern
<1>2. s = [r EXCEPT !.p1 = a, !.p2 = b]
  BY DEF Moved
<1>3. Binary \cap Unary = {}
  BY DEF Binary, Unary
<1>4. Kids(r) = IF r.t \in Binary THEN {r.p1, r.p2} ELSE IF r.t \in Unary THEN {r.p1} ELSE {}
  BY <1>3 DEF Kids
<1>5. a \in Int /\ b \in Int
  <2>1. r.t \in Binary => r.p1 \in Kids(r) /\ r.p2 \in Kids(r)
    BY <1>4
  <2>2. r.t \in Unary => r.p1 \in Kids(r)
    BY <1>3, <1>4
  <2> QED
    BY <1>1, <2>1, <2>2
<1>6. /\ s = [t |-> r.t, nc |-> r.nc, p1 |-> a, p2 |-> b]
      /\ s.t = r.t /\ s.nc = r.nc /\ s.p1 = a /\ s.p2 = b
  <2> HIDE DEF a, b
  <2>1. s = [t |-> r.t, nc |-> r.nc, p1 |-> a, p2 |-> b]
    BY <1>1, <1>2
  <2> QED
    BY <2>1
<1>7. s \in Pattern
  <2> HIDE DEF a, b
  <2> QED
    BY <1>1, <1>5, <1>6 DEF Pattern
<1>8. Kids(s) = IF r.t \in Binary THEN {a, b} ELSE IF r.t \in Unary THEN {a} ELSE {}
  <2> HIDE DEF a, b
  <2> QED
    BY <1>3, <1>6 DEF Kids
<1>9. s = r <=> a = r.p1 /\ b = r.p2
  <2> HIDE DEF a, b
  <2> QED
    BY <1>1, <1>6
<1>10. CASE r.t \in Binary
  <2>1. a = to[r.p1] /\ b = to[r.p2]
    BY <1>10
  <2> HIDE DEF a, b
  <2>2. Kids(r) = {r.p1, r.p2} /\ Kids(s) = {a, b}
    BY <1>4, <1>8, <1>10
  <2> QED
    BY <1>6, <1>7, <1>9, <2>1, <2>2 DEF Replaced
<1>11. CASE r.t \in Unary /\ r.t \notin Binary
  <2>1. a = to[r.p1] /\ b = r.p2
    BY <1>11
  <2> HIDE DEF a, b
  <2>2. Kids(r) = {r.p1} /\ Kids(s) = {a}
    BY <1>4, <1>8, <1>11
  <2> QED
    BY <1>6, <1>7, <1>9, <2>1, <2>2 DEF Replaced
<1>12. CASE r.t \notin Binary \cup Unary
  <2>1. a = r.p1 /\ b = r.p2
    BY <1>12
  <2> HIDE DEF a, b
  <2>2. Kids(r) = {} /\ Kids(s) = {}
    BY <1>4, <1>8, <1>12
  <2> QED
    BY <1>6, <1>7, <1>9, <2>1, <2>2 DEF Replaced
<1> QED
  BY <1>10, <1>11, <1>12

(* Replacing those of p in a store, by what they have been redirected to.  *)
Relinks(st, p, new) ==
  /\ new[p].t = st.pat[p].t
  /\ Kids(new[p]) = {Redirected(st, c) : c \in Kids(st.pat[p])}
  /\ \A r \in DOMAIN st.pat : r # p => new[r] = st.pat[r]
  /\ new = st.pat => \A c \in Kids(st.pat[p]) : Redirected(st, c) = c

LEMMA Relinking ==
  ASSUME NEW n \in Nat \ {0}, NEW st, st.pat \in [0 .. n - 1 -> Pattern], NEW p \in 0 .. n - 1,
         Kids(st.pat[p]) \subseteq Int, \A c \in Kids(st.pat[p]) : Redirected(st, c) \in Int,
         NEW new, new = Relinked(st, p)
  PROVE  new \in [0 .. n - 1 -> Pattern] /\ Relinks(st, p, new)
<1> DEFINE to == [c \in Int |-> Redirected(st, c)]
           r == st.pat[p]
           s == Moved(r, to)
<1>1. r \in Pattern /\ r.p1 \in Int /\ r.p2 \in Int
  BY DEF Pattern
<1>2. \A c \in Int : to[c] = Redirected(st, c)
  OBVIOUS
<1> HIDE DEF to
<1>3. new = [st.pat EXCEPT ![p] = s]
  BY <1>1, <1>2 DEF Relinked, Moved
<1> HIDE DEF s, r
<1>4. Replaced(r, to, s)
  <2>1. \A c \in Kids(r) : to[c] \in Int
    BY <1>2 DEF r
  <2>2. s = Moved(r, to)
    BY DEF s
  <2> QED
    BY <1>1, <2>1, <2>2, Moves
<1>5. new \in [0 .. n - 1 -> Pattern] /\ new[p] = s
  BY <1>3, <1>4 DEF Replaced
<1>6. Kids(s) = {Redirected(st, c) : c \in Kids(r)}
  <2>1. Kids(s) = {to[c] : c \in Kids(r)}
    BY <1>4 DEF Replaced
  <2>2. \A c \in Kids(r) : to[c] = Redirected(st, c)
    BY <1>2 DEF r
  <2> QED
    BY <2>1, <2>2
<1>7. s = r => \A c \in Kids(r) : Redirected(st, c) = c
  BY <1>2, <1>4 DEF Replaced, r
<1> QED
  BY <1>3, <1>4, <1>5, <1>6, <1>7 DEF Relinks, Replaced, r

-----------------------------------------------------------------------------
(* Between the rounds: every pattern that stays is registered.             *)
Settling(n) == {st \in Stores(n) : Sweeping(n, st) /\ Roots(st.xlat) \subseteq st.tab}

(* The children of p stay.                                                 *)
Still(st, p) == \A c \in Kids(st.pat[p]) : Redirected(st, c) = c

(* One visit of a later round, which leaves no trace only if it has        *)
(* nothing to do.                                                          *)
Revisited(st, nx, p) ==
  nx.changed = FALSE => nx = st /\ (p \in Roots(st.xlat) => Still(st, p))

LEMMA Reswept ==
  ASSUME NEW n \in Nat \ {0}, NEW st \in Settling(n), NEW p \in 1 .. n - 1,
         NEW nx, nx = Resweep(st, p)
  PROVE  nx \in Settling(n) /\ Revisited(st, nx, p)
<1> DEFINE x == st.xlat
           tb == st.tab \ {p}
           new == Relinked(st, p)
           q == ht_get(new, tb, p)
           next == [st EXCEPT !.pat = new, !.tab = tb, !.changed = TRUE]
<1>1. /\ st \in Stores(n) /\ Sweeping(n, st) /\ Roots(x) \subseteq st.tab
      /\ st.pat[0] = Empty
      /\ Unique(st.pat, st.tab) /\ 0 \in st.tab
      /\ st.tab \cap Used(x) \subseteq Roots(x)
      /\ st.marked = Roots(x)
      /\ Lands(x) /\ Ordered(x)
      /\ Sound(st.pat, x)
  BY DEF Sweeping, Settling
<1>2. /\ x \in [1 .. n - 1 -> -1 .. n - 1] /\ st.pat \in [0 .. n - 1 -> Pattern]
      /\ st.tab \in SUBSET (0 .. n - 1) /\ st.marked \in SUBSET (1 .. n - 1) /\ st.changed \in BOOLEAN
  BY <1>1 DEF Stores
<1>3. nx = CASE x[p] # p \/ new = st.pat -> st
             [] x[p] = p /\ new # st.pat /\ q = None -> [next EXCEPT !.tab = @ \cup {p}]
             [] OTHER -> redir_p(next, p, q)
  BY DEF Resweep, Lookup
<1>4. x[p] = p <=> p \in Roots(x)
  BY <1>2 DEF Roots
<1>5. \A c \in {0} \cup Used(x) : Redirected(st, c) \in {0} \cup Used(x)
  <2> TAKE c \in {0} \cup Used(x)
  <2>1. CASE c = 0
    BY <2>1 DEF Redirected, base_p
  <2>2. CASE c \in Used(x)
    <3>1. c \in 1 .. n - 1
      BY <1>2, <2>2 DEF Used
    <3> QED
      BY <1>1, <2>2, <3>1 DEF Redirected, base_p, Lands
  <2> QED
    BY <2>1, <2>2
<1>6. Used(x) \subseteq 1 .. n - 1
  BY <1>2 DEF Used
<1> HIDE DEF x
<1>7. CASE p \notin Roots(x)
  <2>1. nx = st
    BY <1>3, <1>4, <1>7
  <2> QED
    BY <1>7, <2>1 DEF Revisited, x
<1>8. CASE p \in Roots(x)
  <2>1. p \in Used(x)
    BY <1>2, <1>4, <1>6, <1>8 DEF Used, None
  <2>2. \A c \in Kids(st.pat[p]) : c \in {0} \cup Used(x)
    BY <1>1, <2>1 DEF Sound
  <2>3. new \in [0 .. n - 1 -> Pattern] /\ Relinks(st, p, new)
    <3>1. Kids(st.pat[p]) \subseteq Int /\ \A c \in Kids(st.pat[p]) : Redirected(st, c) \in Int
      BY <1>5, <1>6, <2>2
    <3>2. p \in 0 .. n - 1
      OBVIOUS
    <3>3. PICK nw : nw = Relinked(st, p)
      OBVIOUS
    <3>4. nw \in [0 .. n - 1 -> Pattern] /\ Relinks(st, p, nw)
      BY <1>2, <3>1, <3>2, <3>3, Relinking
    <3> QED
      BY <3>3, <3>4
  <2> HIDE DEF new
  <2>4. /\ new[p].t = st.pat[p].t
        /\ Kids(new[p]) = {Redirected(st, c) : c \in Kids(st.pat[p])}
        /\ \A r \in 0 .. n - 1 : r # p => new[r] = st.pat[r]
        /\ new = st.pat => Still(st, p)
    BY <1>2, <2>3 DEF Relinks, Still
  <2>5. CASE new = st.pat
    <3>1. nx = st
      BY <1>3, <2>5
    <3> QED
      BY <2>4, <2>5, <3>1 DEF Revisited
  <2>6. CASE new # st.pat
    <3>1. \/ q = None /\ \A r \in tb : new[r] # new[p]
          \/ q # None /\ q \in tb /\ new[q] = new[p]
      <4>1. tb \in SUBSET Nat
        BY <1>2
      <4> HIDE DEF tb
      <4> QED
        BY <4>1, Lookups
    <3>2. Unique(new, tb) /\ 0 \in tb /\ new[0] = Empty
      <4>1. \A a, b \in tb : new[a] = st.pat[a] /\ new[b] = st.pat[b]
        BY <1>2, <2>4
      <4>2. p # 0
        OBVIOUS
      <4> QED
        BY <1>1, <1>2, <2>4, <4>1, <4>2 DEF Unique
    <3>3. Sound(new, x)
      <4>1. ASSUME NEW r \in 0 .. n - 1
            PROVE  /\ new[r].t # "erased" /\ Kids(new[r]) \subseteq 0 .. n - 1
                   /\ r \in Used(x) => Kids(new[r]) \subseteq {0} \cup Used(x)
        <5>1. /\ st.pat[r].t # "erased" /\ Kids(st.pat[r]) \subseteq 0 .. n - 1
              /\ r \in Used(x) => Kids(st.pat[r]) \subseteq {0} \cup Used(x)
          BY <1>1, <1>2 DEF Sound
        <5>2. CASE r # p
          BY <2>4, <5>1, <5>2
        <5>3. CASE r = p
          <6>1. Kids(new[p]) \subseteq {0} \cup Used(x)
            BY <1>5, <2>2, <2>4
          <6>2. {0} \cup Used(x) \subseteq 0 .. n - 1
            BY <1>6
          <6> QED
            BY <2>4, <5>1, <5>3, <6>1, <6>2
        <5> QED
          BY <5>2, <5>3
      <4> QED
        BY <1>6, <2>3, <4>1 DEF Sound
    <3>4. /\ next = [pat |-> new, tab |-> tb, marked |-> st.marked, xlat |-> x, changed |-> TRUE]
          /\ next.pat = new /\ next.tab = tb /\ next.marked = st.marked /\ next.xlat = x /\ next.changed = TRUE
      <4>1. st \in Stores(n) /\ x = st.xlat
        BY <1>1 DEF x
      <4>2. next = [pat |-> new, tab |-> tb, marked |-> st.marked, xlat |-> st.xlat, changed |-> TRUE]
        <5>1. PICK nt : nt = tb
          OBVIOUS
        <5>2. PICK nr : nr = [st EXCEPT !.pat = new, !.tab = nt, !.changed = TRUE]
          OBVIOUS
        <5>3. nr = [pat |-> new, tab |-> nt, marked |-> st.marked, xlat |-> st.xlat, changed |-> TRUE]
          BY <4>1, <5>2 DEF Stores
        <5> QED
          BY <5>1, <5>2, <5>3
      <4> HIDE DEF next
      <4> QED
        BY <4>1, <4>2
    <3>5. Sweeping(n, next)
      <4>1. tb \in SUBSET (0 .. n - 1) /\ tb \cap Used(x) \subseteq Roots(x)
        BY <1>1, <1>2
      <4>2. next \in Stores(n)
        <5> HIDE DEF next, tb
        <5> QED
          BY <1>2, <2>3, <3>4, <4>1 DEF Stores
      <4> HIDE DEF next, tb
      <4> QED
        BY <1>1, <3>2, <3>3, <3>4, <4>1, <4>2 DEF Sweeping
    <3> HIDE DEF next
    <3>6. CASE q = None
      <4>1. nx = [next EXCEPT !.tab = @ \cup {p}]
        BY <1>3, <1>4, <1>8, <2>6, <3>6
      <4>2. tb \cup {p} = st.tab
        BY <1>1, <1>8
      <4>3. /\ nx = [pat |-> new, tab |-> st.tab, marked |-> st.marked, xlat |-> x, changed |-> TRUE]
            /\ nx.pat = new /\ nx.tab = st.tab /\ nx.marked = st.marked /\ nx.xlat = x /\ nx.changed = TRUE
        <5> HIDE DEF tb
        <5> QED
          BY <3>4, <4>1, <4>2
      <4>4. nx \in Stores(n)
        BY <1>2, <2>3, <4>3 DEF Stores
      <4>5. Unique(new, st.tab)
        BY <3>1, <3>2, <3>6, <4>2 DEF Unique
      <4>6. Sweeping(n, nx)
        BY <1>1, <3>2, <3>3, <4>3, <4>4, <4>5 DEF Sweeping
      <4> QED
        BY <1>1, <4>3, <4>4, <4>6 DEF Settling, Revisited
    <3>7. CASE q # None
      <4>1. nx = redir_p(next, p, q)
        BY <1>3, <1>4, <1>8, <2>6, <3>7
      <4> HIDE DEF q
      <4>2. p \in Roots(next.xlat)
        BY <1>8, <3>4
      <4>3. p \notin next.tab
        BY <3>4
      <4>4. q \in next.tab
        BY <3>1, <3>4, <3>7
      <4>5. next.pat[q] = next.pat[p]
        BY <3>1, <3>4, <3>7
      <4>6. Sweeping(n, nx) /\ Resolved(next, nx, p, q)
        BY <3>5, <4>1, <4>2, <4>3, <4>4, <4>5, Redir
      <4>7. nx.changed = TRUE
        BY <3>4, <4>6 DEF Resolved
      <4>8. Roots(nx.xlat) \subseteq nx.tab
        <5>1. \A r \in Roots(x) : r # p => r \in tb
          BY <1>1
        <5>2. Roots(nx.xlat) \subseteq Roots(x)
          BY <3>4, <4>6 DEF Resolved
        <5>3. CASE p \notin Roots(nx.xlat) /\ nx.tab = tb
          BY <5>1, <5>2, <5>3
        <5>4. CASE q \notin Used(x) /\ nx.tab = (tb \ {q}) \cup {p}
          <6>1. Roots(x) \subseteq Used(x)
            <7>1. \A r \in Roots(x) : r \in 1 .. n - 1 /\ x[r] = r
              BY <1>2 DEF Roots
            <7> QED
              BY <1>2, <7>1 DEF Used, None
          <6> QED
            BY <5>1, <5>2, <5>4, <6>1
        <5> QED
          BY <3>4, <4>6, <5>3, <5>4 DEF Resolved
      <4>9. nx \in Stores(n)
        BY <4>6 DEF Sweeping
      <4> QED
        BY <4>6, <4>7, <4>8, <4>9 DEF Settling, Revisited
    <3> QED
      BY <3>6, <3>7
  <2> QED
    BY <2>5, <2>6
<1> QED
  BY <1>7, <1>8

(* A later round as a function of the number of visits.                    *)
ResweepRun(g, c, m) == g[0] = c /\ \A k \in 1 .. m : g[k] = Resweep(g[k - 1], k)

LEMMA ResweepPass ==
  ASSUME NEW n \in Nat \ {0}, pat \in [0 .. n - 1 -> Pattern],
         NEW S, NEW c \in S, \A z \in S, k \in 1 .. n - 1 : Resweep(z, k) \in S
  PROVE  \E g \in Results(S, n - 1) : Pass(Resweep, c) = g[n - 1] /\ ResweepRun(g, c, n - 1)
<1> DEFINE m == n - 1
           D == [k \in 1 .. m |-> [z \in S |-> Resweep(z, k)]]
           Its(g) == g = [p \in 0 .. m |-> IF p = 0 THEN c ELSE CHOOSE w \in {Resweep(z, p) : z \in {g[p - 1]}} : TRUE]
<1>1. m \in Nat /\ Cardinality(Stored) = m
  BY Sizes
<1>2. D \in Maps(S, m) /\ \A k \in 1 .. m, z \in S : D[k][z] = Resweep(z, k)
  BY DEF Maps
<1> HIDE DEF D, m
<1>3. PICK g \in Results(S, m) : Run(g, D, c, m)
  BY <1>1, <1>2, Runs
<1>4. g \in [0 .. m -> S] /\ g[0] = c /\ \A k \in 1 .. m : g[k] = D[k][g[k - 1]]
  BY <1>3 DEF Results, Run
<1>5. \A k \in 1 .. m : g[k] = Resweep(g[k - 1], k)
  <2> TAKE k \in 1 .. m
  <2>1. g[k - 1] \in S
    BY <1>1, <1>4
  <2> QED
    BY <1>2, <1>4, <2>1
<1>6. \A z, k : (CHOOSE w \in {Resweep(y, k) : y \in {z}} : TRUE) = Resweep(z, k)
  OBVIOUS
<1>7. Its(g)
  <2>1. ASSUME NEW k \in 0 .. m
        PROVE  g[k] = IF k = 0 THEN c ELSE CHOOSE w \in {Resweep(z, k) : z \in {g[k - 1]}} : TRUE
    <3>1. CASE k = 0
      BY <1>4, <3>1
    <3>2. CASE k \in 1 .. m
      <4>1. k # 0
        BY <3>2
      <4>2. g[k] = Resweep(g[k - 1], k)
        BY <1>5, <3>2
      <4> QED
        BY <1>6, <4>1, <4>2
    <3> QED
      BY <1>1, <3>1, <3>2
  <2> QED
    BY <1>4, <2>1
<1> DEFINE it == CHOOSE h : Its(h)
<1>8. Pass(Resweep, c) = it[m]
  BY <1>1 DEF Pass
<1> HIDE DEF Its
<1>9. Its(it)
  BY <1>7
<1> HIDE DEF it
<1>10. \A k \in 0 .. m : it[k] = IF k = 0 THEN c ELSE Resweep(it[k - 1], k)
  BY <1>6, <1>9 DEF Its
<1> DEFINE E == {k \in 0 .. m : it[k] = g[k]}
<1>11. 0 .. m \subseteq E
  <2>1. 0 \in E
    BY <1>1, <1>4, <1>10
  <2>2. ASSUME NEW k \in 0 .. m - 1, k \in E PROVE k + 1 \in E
    <3>1. k + 1 \in 1 .. m /\ k + 1 # 0 /\ (k + 1) - 1 = k /\ k + 1 \in 0 .. m
      BY <1>1
    <3>2. it[k + 1] = Resweep(it[(k + 1) - 1], k + 1) /\ g[k + 1] = Resweep(g[(k + 1) - 1], k + 1)
      BY <1>5, <1>10, <3>1
    <3>3. it[k] = g[k]
      BY <2>2
    <3> QED
      BY <3>1, <3>2, <3>3
  <2> HIDE DEF E
  <2> QED
    BY <1>1, <2>1, <2>2, UpTo
<1>12. it[m] = g[m]
  BY <1>1, <1>11
<1> QED
  BY <1>3, <1>4, <1>5, <1>8, <1>12 DEF m, ResweepRun

(* A round of the loop, and what is known when it has changed nothing.      *)
Settled(st) == \A p \in Roots(st.xlat) : Still(st, p)

LEMMA ReswepAll ==
  ASSUME NEW n \in Nat \ {0}, pat \in [0 .. n - 1 -> Pattern], NEW c \in Settling(n),
         NEW r, r = Pass(Resweep, c)
  PROVE  r \in Settling(n) /\ (r.changed = FALSE => Settled(r))
<1> DEFINE m == n - 1
           S == Settling(n)
<1>1. \A z \in S, k \in 1 .. n - 1 : Resweep(z, k) \in S
  <2> TAKE z \in S, k \in 1 .. n - 1
  <2>1. PICK nx : nx = Resweep(z, k)
    OBVIOUS
  <2>2. nx \in Settling(n)
    BY <2>1, Reswept
  <2> QED
    BY <2>1, <2>2
<1> HIDE DEF S, m
<1>2. PICK g \in Results(S, m) : Pass(Resweep, c) = g[m] /\ ResweepRun(g, c, m)
  <2>1. c \in S
    BY DEF S
  <2> QED
    BY <1>1, <2>1, ResweepPass DEF m
<1>3. m \in Nat /\ 0 \in 0 .. m /\ m \in 0 .. m
  BY DEF m
<1>4. g \in [0 .. m -> S]
  BY <1>2 DEF Results
<1>5. g[0] = c /\ \A k \in 1 .. m : g[k] = Resweep(g[k - 1], k)
  BY <1>2 DEF ResweepRun
<1> DEFINE Quiet(st, k) == \A p \in Roots(st.xlat) : p <= k => Still(st, p)
           K == {k \in 0 .. m : g[k].changed = FALSE => Quiet(g[k], k)}
<1>6. \A k \in 0 .. m : Roots(g[k].xlat) \subseteq 1 .. m
  <2> TAKE k \in 0 .. m
  <2>1. g[k] \in Stores(n)
    BY <1>4 DEF S, Settling
  <2> QED
    BY <2>1 DEF Stores, Roots, m
<1>7. 0 \in K
  <2>1. Roots(g[0].xlat) \subseteq 1 .. m
    BY <1>3, <1>6
  <2>2. Quiet(g[0], 0)
    BY <2>1
  <2> QED
    BY <1>3, <2>2
<1>8. ASSUME NEW k \in 0 .. m - 1, k \in K PROVE k + 1 \in K
  <2>1. k + 1 \in 1 .. m /\ k + 1 \in 0 .. m /\ (k + 1) - 1 = k /\ k + 1 \in 1 .. n - 1 /\ k \in 0 .. m
    BY <1>3 DEF m
  <2>2. g[k + 1] = Resweep(g[(k + 1) - 1], k + 1)
    BY <1>5, <2>1
  <2>3. g[k + 1] = Resweep(g[k], k + 1)
    BY <2>1, <2>2
  <2>4. g[k] \in Settling(n)
    BY <1>4, <2>1 DEF S
  <2>5. Revisited(g[k], g[k + 1], k + 1)
    <3>1. PICK st \in Settling(n) : st = g[k]
      BY <2>4
    <3>2. PICK nx : nx = g[k + 1]
      OBVIOUS
    <3>3. PICK p \in 1 .. n - 1 : p = k + 1
      BY <2>1
    <3>4. nx = Resweep(st, p)
      BY <2>3, <3>1, <3>2, <3>3
    <3>5. Revisited(st, nx, p)
      BY <3>4, Reswept
    <3> QED
      BY <3>1, <3>2, <3>3, <3>5
  <2>6. ASSUME g[k + 1].changed = FALSE PROVE Quiet(g[k + 1], k + 1)
    <3>1. g[k + 1] = g[k] /\ (k + 1 \in Roots(g[k].xlat) => Still(g[k], k + 1))
      BY <2>5, <2>6 DEF Revisited
    <3>2. Quiet(g[k], k)
      BY <1>8, <2>6, <3>1
    <3>3. \A p \in Roots(g[k].xlat) : p <= k + 1 => p <= k \/ p = k + 1
      BY <1>6, <2>1
    <3> QED
      BY <3>1, <3>2, <3>3
  <2> QED
    BY <2>1, <2>6
<1>9. m \in K
  <2> HIDE DEF K
  <2> QED
    BY <1>3, <1>7, <1>8, UpTo
<1>10. g[m].changed = FALSE => Settled(g[m])
  BY <1>3, <1>6, <1>9 DEF Settled
<1> QED
  BY <1>2, <1>3, <1>4, <1>10 DEF S

-----------------------------------------------------------------------------
(* Redirections that go on to later ones come to an end.                   *)
AtEnd ==
  LET Follow == [p \in DOMAIN pat \cup {None} |-> IF p < base_p THEN p ELSE xlat[p]]
      Stays(p) == Iterate(Follow, p, Cardinality(Stored))
  IN \A p \in Used(xlat) : Stays(p) = 0 \/ Stays(p) \in Roots(xlat)

LEMMA OrderEnds ==
  ASSUME NEW n \in Nat \ {0}, pat \in [0 .. n - 1 -> Pattern],
         xlat \in [1 .. n - 1 -> -1 .. n - 1], Lands(xlat), Ordered(xlat)
  PROVE  AtEnd
<1> DEFINE Follow == [p \in DOMAIN pat \cup {None} |-> IF p < base_p THEN p ELSE xlat[p]]
           m == n - 1
           P == -1 .. m
           x == xlat
<1>1. m \in Nat /\ Cardinality(Stored) = m /\ DOMAIN pat = 0 .. m
  BY Sizes
<1>2. DOMAIN pat \cup {None} = P
  BY <1>1 DEF None
<1>3. x \in [1 .. m -> P]
  OBVIOUS
<1> HIDE DEF x, m
<1>4. \A p \in P : Follow[p] = IF p < 1 THEN p ELSE x[p]
  BY <1>2 DEF base_p, x
<1> HIDE DEF Follow
<1>5. Keeps(Follow, P)
  <2> SUFFICES ASSUME NEW p \in P PROVE Follow[p] \in P
    BY DEF Keeps
  <2>1. CASE p < 1
    BY <1>4, <2>1
  <2>2. CASE ~(p < 1)
    <3>1. p \in 1 .. m
      BY <1>1, <2>2
    <3> QED
      BY <1>3, <1>4, <2>2, <3>1
  <2> QED
    BY <2>1, <2>2
<1>6. ASSUME NEW p \in Used(x)
      PROVE  LET e == Iterate(Follow, p, m) IN e = 0 \/ e \in Roots(x)
  <2> DEFINE G == Gone(x)
  <2>1. Used(x) \subseteq 1 .. m /\ Roots(x) \subseteq Used(x) /\ G \subseteq 1 .. m
    <3>1. \A r \in Roots(x) : r \in 1 .. m /\ x[r] = r
      BY <1>3 DEF Roots
    <3> QED
      BY <1>3, <3>1 DEF Used, Gone, None
  <2>2. p \in P
    BY <1>1, <2>1
  <2> HIDE DEF P
  <2>3. PICK g \in Results(P, m) : Iterate(Follow, p, m) = g[m] /\ Repeated(g, Follow, p, m)
    BY <1>1, <1>5, <2>2, Iterated
  <2>4. g[0] = p /\ \A k \in 1 .. m : g[k] = Follow[g[k - 1]]
    BY <2>3 DEF Repeated
  <2>5. PICK T \in [G -> 1 .. Cardinality(G)] : Later(x, T)
    BY DEF Ordered, x
  <2>6. T \in [G -> 1 .. Cardinality(G)] /\ \A r \in G : x[r] \in G => T[r] < T[x[r]]
    BY <2>5 DEF Later
  <2>7. Cardinality(G) \in Nat /\ Cardinality(G) <= m
    <3>1. IsFiniteSet(1 .. m) /\ Cardinality(1 .. m) = m
      BY <1>1, FS_Interval
    <3> HIDE DEF G
    <3>2. IsFiniteSet(G) /\ Cardinality(G) <= Cardinality(1 .. m)
      BY <2>1, <3>1, FS_Subset
    <3> QED
      BY <3>1, <3>2, FS_CardinalityType
  <2>8. \A r \in Used(x) : r \in Roots(x) \/ r \in G
    BY DEF Gone
  <2>9. \A r \in G : r \in Used(x) /\ r \notin Roots(x)
    BY DEF Gone
  <2> HIDE DEF G
  <2> DEFINE K == {k \in 0 .. m : \/ g[k] = 0 \/ g[k] \in Roots(x)
                                  \/ g[k] \in G /\ T[g[k]] >= k + 1}
  <2>10. 0 \in K
    <3>1. p \in G => T[p] >= 0 + 1
      BY <2>6, <2>7
    <3> QED
      BY <1>1, <2>4, <2>8, <3>1
  <2>11. ASSUME NEW k \in 0 .. m - 1, k \in K PROVE k + 1 \in K
    <3>1. k + 1 \in 1 .. m /\ k + 1 \in 0 .. m /\ (k + 1) - 1 = k
      BY <1>1
    <3>2. g[k + 1] = Follow[g[(k + 1) - 1]]
      BY <2>4, <3>1
    <3>3. g[k + 1] = Follow[g[k]]
      BY <3>1, <3>2
    <3>4. CASE g[k] = 0
      <4>1. 0 \in P
        BY <1>1 DEF P
      <4>2. g[k + 1] = 0
        BY <1>4, <3>3, <3>4, <4>1
      <4> QED
        BY <3>1, <4>2
    <3>5. \A r \in 1 .. m : Follow[r] = x[r]
      BY <1>1, <1>4 DEF P
    <3>6. CASE g[k] \in Roots(x)
      <4>1. g[k] \in 1 .. m /\ x[g[k]] = g[k]
        BY <1>3, <3>6 DEF Roots
      <4>2. g[k + 1] = g[k]
        BY <3>3, <3>5, <4>1
      <4> QED
        BY <3>1, <3>6, <4>2
    <3>7. CASE g[k] \in G /\ T[g[k]] >= k + 1
      <4>1. g[k] \in 1 .. m /\ g[k] \in Used(x) /\ g[k + 1] = x[g[k]]
        BY <2>1, <2>9, <3>3, <3>5, <3>7
      <4>2. g[k + 1] = 0 \/ g[k + 1] \in Used(x)
        BY <4>1 DEF Lands, x
      <4>3. g[k + 1] \in G => T[g[k + 1]] >= (k + 1) + 1
        <5> SUFFICES ASSUME g[k + 1] \in G PROVE T[g[k + 1]] >= (k + 1) + 1
          OBVIOUS
        <5>1. T[g[k]] < T[g[k + 1]]
          BY <2>6, <3>7, <4>1
        <5>2. T[g[k]] \in Nat /\ T[g[k + 1]] \in Nat
          BY <2>6, <3>7
        <5> QED
          BY <3>7, <5>1, <5>2
      <4> QED
        BY <2>8, <3>1, <4>2, <4>3
    <3> QED
      BY <2>11, <3>4, <3>6, <3>7
  <2>12. m \in K
    <3>1. 0 .. m \subseteq K
      <4> HIDE DEF K
      <4> QED
        BY <1>1, <2>10, <2>11, UpTo
    <3> QED
      BY <1>1, <3>1
  <2>13. g[m] \in G => T[g[m]] <= m
    <3>1. g[m] \in G => T[g[m]] \in 1 .. Cardinality(G)
      BY <2>6
    <3> QED
      BY <1>1, <2>7, <3>1
  <2>14. ~(g[m] \in G /\ T[g[m]] >= m + 1)
    <3> SUFFICES ASSUME g[m] \in G, T[g[m]] >= m + 1 PROVE FALSE
      OBVIOUS
    <3>1. T[g[m]] \in Nat
      BY <2>6, <2>7
    <3> QED
      BY <1>1, <2>13, <3>1
  <2> QED
    BY <2>3, <2>12, <2>14
<1> QED
  BY <1>1, <1>6 DEF AtEnd, Follow, x

-----------------------------------------------------------------------------
(* References to patterns of the store.                                    *)
Referring == \A p \in DOMAIN pat : pat[p].t = "ref" => pat[p].p1 \in DOMAIN pat

(* de finds a pattern of the store, if it ends.                            *)
LEMMA ChainEnds ==
  ASSUME NEW n \in Nat \ {0}, pat \in [0 .. n - 1 -> Pattern], Referring, NEW p0 \in DOMAIN pat
  PROVE  /\ Chain(p0) = None \/ Chain(p0) \in DOMAIN pat
         /\ pat[p0].t # "ref" => Chain(p0) = p0
<1> DEFINE Follow == [p \in DOMAIN pat |-> IF pat[p].t # "ref" \/ p = p0 THEN p ELSE pat[p].p1]
           e == Iterate(Follow, pat[p0].p1, Cardinality(DOMAIN pat))
<1>1. CASE pat[p0].t # "ref"
  BY <1>1 DEF Chain
<1>2. CASE pat[p0].t = "ref"
  <2>1. Keeps(Follow, DOMAIN pat)
    BY DEF Keeps, Referring
  <2>2. Cardinality(DOMAIN pat) \in Nat
    BY Sizes
  <2>3. pat[p0].p1 \in DOMAIN pat
    BY <1>2 DEF Referring
  <2>4. e \in DOMAIN pat
    <3> HIDE DEF Follow
    <3> DEFINE c == Cardinality(DOMAIN pat)
               S == DOMAIN pat
    <3> HIDE DEF c, S
    <3>1. PICK g \in Results(S, c) : Iterate(Follow, pat[p0].p1, c) = g[c] /\ Repeated(g, Follow, pat[p0].p1, c)
      <4>1. PICK x \in S : x = pat[p0].p1
        BY <2>3 DEF S
      <4>2. c \in Nat /\ Keeps(Follow, S)
        BY <2>1, <2>2 DEF c, S
      <4>3. \E g \in Results(S, c) : Iterate(Follow, x, c) = g[c] /\ Repeated(g, Follow, x, c)
        BY <4>1, <4>2, Iterated
      <4> QED
        BY <4>1, <4>3
    <3>2. g \in [0 .. c -> S] /\ c \in 0 .. c
      BY <2>2, <3>1 DEF Results, c
    <3>3. g[c] \in S
      BY <3>2
    <3> QED
      BY <3>1, <3>3 DEF c, S
  <2> HIDE DEF e
  <2>5. Chain(p0) = CASE pat[p0].t # "ref" -> p0
                      [] pat[p0].t = "ref" /\ (pat[e].t # "ref" \/ e = p0) -> e
                      [] OTHER -> None
    BY DEF Chain, e
  <2> QED
    BY <1>2, <2>4, <2>5
<1> QED
  BY <1>1, <1>2

(* One pattern with the references among its children replaced.            *)
Resolves(p, new) ==
  /\ \A r \in DOMAIN pat : new[r].t = pat[r].t /\ (r # p => new[r] = pat[r])
  /\ Kids(new[p]) \subseteq DOMAIN pat
  /\ (\A c \in Kids(pat[p]) : pat[c].t # "ref") => new = pat

LEMMA Dereferences ==
  ASSUME NEW n \in Nat \ {0}, pat \in [0 .. n - 1 -> Pattern], Referring,
         NEW p \in 0 .. n - 1, Kids(pat[p]) \subseteq DOMAIN pat,
         \A c \in Kids(pat[p]) : pat[c].t = "ref" => Ends(c),
         NEW new, new = Dereferenced(p)
  PROVE  new \in [0 .. n - 1 -> Pattern] /\ Resolves(p, new)
<1> DEFINE to == [c \in Int |-> de(c)]
           r == pat[p]
           s == Moved(r, to)
<1>1. r \in Pattern /\ r.p1 \in Int /\ r.p2 \in Int
  BY DEF Pattern
<1>2. \A c \in Int : to[c] = de(c)
  OBVIOUS
<1> HIDE DEF to
<1>3. new = [pat EXCEPT ![p] = s]
  BY <1>1, <1>2 DEF Dereferenced, Moved
<1> HIDE DEF s
<1>4. \A c \in Kids(r) : c \in 0 .. n - 1 /\ to[c] \in 0 .. n - 1 /\ (pat[c].t # "ref" => to[c] = c)
  <2> TAKE c \in Kids(r)
  <2>1. c \in DOMAIN pat /\ c \in Int
    OBVIOUS
  <2>2. Chain(c) = None \/ Chain(c) \in DOMAIN pat
    BY <2>1, ChainEnds
  <2>3. pat[c].t # "ref" => Chain(c) = c
    BY <2>1, ChainEnds
  <2>4. pat[c].t = "ref" => Chain(c) # None
    BY DEF Ends
  <2> HIDE DEF r
  <2> QED
    BY <1>2, <2>1, <2>2, <2>3, <2>4 DEF de
<1> HIDE DEF r
<1>5. Replaced(r, to, s)
  <2>1. s = Moved(r, to)
    BY DEF s
  <2> QED
    BY <1>1, <1>4, <2>1, Moves
<1>6. new \in [0 .. n - 1 -> Pattern] /\ new[p] = s
  BY <1>3, <1>5 DEF Replaced
<1>7. Kids(s) \subseteq DOMAIN pat
  BY <1>4, <1>5 DEF Replaced
<1>8. ASSUME \A c \in Kids(pat[p]) : pat[c].t # "ref" PROVE new = pat
  <2>1. s = r
    BY <1>4, <1>5, <1>8 DEF Replaced, r
  <2> QED
    BY <1>3, <2>1 DEF r
<1>9. \A q \in DOMAIN pat : new[q].t = pat[q].t /\ (q # p => new[q] = pat[q])
  BY <1>3, <1>5, <1>6 DEF Replaced, r
<1> QED
  BY <1>6, <1>7, <1>8, <1>9 DEF Resolves

-----------------------------------------------------------------------------
(* The marks tell which patterns are in the worklist.                      *)
Worklist(st, S) == st.flat \in Seq(S) /\ st.marked = {st.flat[k] : k \in DOMAIN st.flat}

Grows(st, nx) ==
  /\ Len(st.flat) <= Len(nx.flat)
  /\ \A k \in 1 .. Len(st.flat) : nx.flat[k] = st.flat[k]
  /\ st.marked \subseteq nx.marked

LEMMA Flattens ==
  ASSUME NEW S, NEW st, Worklist(st, S), NEW p \in S, NEW nx, nx = flatten(st, p)
  PROVE  Worklist(nx, S) /\ Grows(st, nx) /\ p \in nx.marked
<1>1. st.flat \in Seq(S) /\ st.marked = {st.flat[k] : k \in DOMAIN st.flat}
  BY DEF Worklist
<1>2. Len(st.flat) \in Nat /\ DOMAIN st.flat = 1 .. Len(st.flat)
  BY <1>1
<1>3. CASE p \in st.marked
  <2>1. nx = st
    BY <1>3 DEF flatten
  <2> QED
    BY <1>2, <1>3, <2>1 DEF Grows
<1>4. CASE p \notin st.marked
  <2>1. nx.flat = Append(st.flat, p) /\ nx.marked = st.marked \cup {p}
    BY <1>4 DEF flatten
  <2>2. /\ nx.flat \in Seq(S) /\ Len(nx.flat) = Len(st.flat) + 1
        /\ nx.flat[Len(st.flat) + 1] = p
        /\ \A k \in 1 .. Len(st.flat) : nx.flat[k] = st.flat[k]
        /\ DOMAIN nx.flat = 1 .. Len(st.flat) + 1
    BY <1>1, <1>2, <2>1
  <2>3. nx.marked = {nx.flat[k] : k \in DOMAIN nx.flat}
    <3>1. ASSUME NEW q \in nx.marked PROVE \E k \in DOMAIN nx.flat : q = nx.flat[k]
      <4>1. CASE q = p
        <5>1. Len(st.flat) + 1 \in DOMAIN nx.flat
          BY <1>2, <2>2
        <5> QED
          BY <2>2, <4>1, <5>1
      <4>2. CASE q \in st.marked
        <5>1. PICK k \in 1 .. Len(st.flat) : q = st.flat[k]
          BY <1>1, <1>2, <4>2
        <5>2. k \in DOMAIN nx.flat /\ nx.flat[k] = q
          BY <1>2, <2>2, <5>1
        <5> QED
          BY <5>2
      <4> QED
        BY <2>1, <4>1, <4>2
    <3>2. ASSUME NEW k \in DOMAIN nx.flat PROVE nx.flat[k] \in nx.marked
      <4>1. k \in 1 .. Len(st.flat) \/ k = Len(st.flat) + 1
        BY <1>2, <2>2
      <4>2. k \in 1 .. Len(st.flat) => st.flat[k] \in st.marked
        BY <1>1, <1>2
      <4> QED
        BY <2>1, <2>2, <4>1, <4>2
    <3> QED
      BY <3>1, <3>2
  <2> QED
    BY <1>2, <2>1, <2>2, <2>3 DEF Worklist, Grows
<1> QED
  BY <1>3, <1>4

LEMMA FlattensAll ==
  ASSUME NEW S, NEW st, st = [flat |-> flat, marked |-> marked], Worklist(st, S),
         NEW r, Kids(r) \subseteq S, NEW nx, nx = Flattened(r)
  PROVE  Worklist(nx, S) /\ Grows(st, nx) /\ Kids(r) \subseteq nx.marked
<1> DEFINE st1 == IF r.t \in Binary \cup Unary THEN flatten(st, r.p1) ELSE st
<1>1. nx = IF r.t \in Binary THEN flatten(st1, r.p2) ELSE st1
  BY DEF Flattened
<1>2. Kids(r) = IF r.t \in Binary THEN {r.p1, r.p2} ELSE IF r.t \in Unary THEN {r.p1} ELSE {}
  BY DEF Kids, Binary, Unary
<1>3. /\ Worklist(st1, S) /\ Grows(st, st1)
      /\ r.t \in Binary \cup Unary => r.p1 \in st1.marked
  <2>1. CASE r.t \in Binary \cup Unary
    <3>1. r.p1 \in S
      BY <1>2, <2>1
    <3>2. PICK x : x = flatten(st, r.p1)
      OBVIOUS
    <3>3. Worklist(x, S) /\ Grows(st, x) /\ r.p1 \in x.marked
      BY <3>1, <3>2, Flattens
    <3> QED
      BY <2>1, <3>2, <3>3
  <2>2. CASE r.t \notin Binary \cup Unary
    <3>1. Grows(st, st)
      <4>1. Len(st.flat) \in Nat
        BY DEF Worklist
      <4> QED
        BY <4>1 DEF Grows
    <3> QED
      BY <2>2, <3>1
  <2> QED
    BY <2>1, <2>2
<1> HIDE DEF st1
<1>4. CASE r.t \in Binary
  <2>1. nx = flatten(st1, r.p2) /\ r.p2 \in S /\ Kids(r) = {r.p1, r.p2}
    BY <1>1, <1>2, <1>4
  <2>2. Worklist(nx, S) /\ Grows(st1, nx) /\ r.p2 \in nx.marked
    BY <1>3, <2>1, Flattens
  <2>3. Grows(st, nx)
    <3>1. Len(st.flat) \in Nat /\ Len(st1.flat) \in Nat /\ Len(nx.flat) \in Nat
      BY <1>3, <2>2 DEF Worklist
    <3> QED
      BY <1>3, <2>2, <3>1 DEF Grows
  <2> QED
    BY <1>3, <1>4, <2>1, <2>2, <2>3 DEF Grows
<1>5. CASE r.t \notin Binary
  <2>1. nx = st1 /\ Kids(r) \subseteq {r.p1} /\ (r.t \notin Unary => Kids(r) = {})
    BY <1>1, <1>2, <1>5
  <2> QED
    BY <1>3, <2>1
<1> QED
  BY <1>4, <1>5

-----------------------------------------------------------------------------
(* The invariant.  The store at all times: TypeOK, and numbered from 0.    *)
Size == Cardinality(DOMAIN pat)
InStore == Size \in Nat \ {0} /\ pat \in [0 .. Size - 1 -> Pattern]

(* Before any are merged, patterns without references are registered, or   *)
(* their equals are.                                                       *)
Registered ==
  \A p \in DOMAIN pat : pat[p].t # "ref" /\ (\A c \in Kids(pat[p]) : pat[c].t # "ref") =>
    \E s \in tab : pat[s] = pat[p]

Unswept ==
  /\ pat[0] = Empty /\ 0 \in tab /\ Unique(pat, tab)
  /\ \A p \in DOMAIN pat : pat[p].t # "erased"
  /\ Referring /\ Registered
  /\ start \in DOMAIN pat
  /\ flat \in Seq(DOMAIN pat)

(* While references are replaced, the children of the patterns that have   *)
(* been looked at are in the worklist.                                     *)
Flattening ==
  /\ Worklist([flat |-> flat, marked |-> marked], DOMAIN pat)
  /\ \A k \in 1 .. i : Kids(pat[flat[k]]) \subseteq marked

(* Then those of all that are in it.                                       *)
Flat == flat # <<>> /\ \A p \in InFlat : Kids(pat[p]) \subseteq InFlat

NoRefs == \A p \in InFlat : pat[p].t # "ref"

(* Without references, the marked patterns lead to marked patterns.        *)
Whole ==
  /\ marked \subseteq Stored
  /\ \A p \in marked :
       /\ pat[p].t # "ref"
       /\ \A c \in Kids(pat[p]) : pat[c].t # "ref" /\ (c = 0 \/ c \in marked)

(* During and after the sweep.                                             *)
Swept_p == Store(xlat, changed) \in Settling(Size)

(* After it those left, which alone are registered, lead to each other.    *)
Left ==
  /\ tab = {p \in DOMAIN pat : pat[p].t # "erased"}
  /\ 0 \in tab /\ Unique(pat, tab)
  /\ \A p \in tab : Kids(pat[p]) \subseteq tab

Phase ==
  /\ pc \in {"deref", "loops", "traits", "mark_p", "sweep_p"} => Unswept
  /\ pc = "deref" => Flattening
  /\ pc \in {"loops", "traits", "mark_p"} => Flat
  /\ pc \in {"traits", "mark_p"} => start \in InFlat
  /\ pc = "mark_p" => NoRefs
  /\ pc = "sweep_p" => Whole
  /\ pc \in {"sweep_p_loop", "unmark_p"} => Swept_p
  /\ (pc = "sweep_p_loop" /\ changed = FALSE) \/ pc = "unmark_p" => Settled(Store(xlat, changed))
  /\ pc = "compress_p" => Left
  /\ pc = "loaded" => tab = DOMAIN pat /\ Unique(pat, tab)

IInv == TypeOK /\ InStore /\ Phase

-----------------------------------------------------------------------------
(* The nullable patterns are patterns of the store.                        *)
LEMMA NullableOnes ==
  ASSUME NEW n \in Nat, NEW pt \in [0 .. n - 1 -> Pattern],
         NEW ps \in SUBSET DOMAIN pt, NEW n0 \in SUBSET DOMAIN pt
  PROVE  nullables(pt, ps, n0) \subseteq DOMAIN pt
<1> DEFINE Round_ == [m \in SUBSET DOMAIN pt |-> m \cup {p \in ps : NullableBy(pt, p, m)}]
           S == SUBSET DOMAIN pt
           c == Cardinality(ps)
<1>1. c \in Nat
  <2>1. IsFiniteSet(DOMAIN pt)
    BY FS_Interval
  <2> QED
    BY <2>1, FS_Subset, FS_CardinalityType
<1>2. Keeps(Round_, S)
  BY DEF Keeps
<1>3. nullables(pt, ps, n0) = Iterate(Round_, n0, c)
  BY DEF nullables
<1>4. n0 \in S
  OBVIOUS
<1> HIDE DEF Round_, S, c
<1>5. PICK g \in Results(S, c) : Iterate(Round_, n0, c) = g[c] /\ Repeated(g, Round_, n0, c)
  BY <1>1, <1>2, <1>4, Iterated
<1>6. g[c] \in S
  BY <1>1, <1>5 DEF Results
<1> QED
  BY <1>3, <1>5, <1>6 DEF S

(* The patterns that start leads to are the least set closed under Kids.   *)
Reached(r) ==
  /\ r \subseteq DOMAIN pat /\ start \in r
  /\ \A p \in r : Kids(pat[p]) \subseteq r
  /\ \A B \in SUBSET DOMAIN pat : start \in B /\ (\A p \in B : Kids(pat[p]) \subseteq B) => r \subseteq B

LEMMA ReachedOnes ==
  ASSUME InStore, \A p \in DOMAIN pat : Kids(pat[p]) \subseteq DOMAIN pat, start \in DOMAIN pat,
         NEW r, r = Reach(pat, start)
  PROVE  Reached(r)
<1> DEFINE D == DOMAIN pat
           Further == [ps \in SUBSET DOMAIN pat |-> ps \cup UNION {Kids(pat[p]) : p \in ps}]
           x == {start}
<1>1. IsFiniteSet(D)
  BY FS_Interval DEF InStore
<1>2. \A A \in SUBSET D : Further[A] \in SUBSET D /\ A \subseteq Further[A]
  OBVIOUS
<1>3. x \in SUBSET D /\ x # {}
  OBVIOUS
<1>4. r = Iterate(Further, x, Cardinality(D))
  BY DEF Reach
<1>5. \A A \in SUBSET D : Further[A] = A \cup UNION {Kids(pat[p]) : p \in A}
  OBVIOUS
<1> HIDE DEF Further, D, x
<1>6. /\ r \in SUBSET D /\ x \subseteq r /\ Further[r] = r
      /\ \A B \in SUBSET D : x \subseteq B /\ (\A A \in SUBSET B : Further[A] \subseteq B) => r \subseteq B
  BY <1>1, <1>2, <1>3, <1>4, Saturated
<1>7. ASSUME NEW B \in SUBSET D, start \in B, \A p \in B : Kids(pat[p]) \subseteq B
      PROVE  r \subseteq B
  <2>1. ASSUME NEW A \in SUBSET B PROVE Further[A] \subseteq B
    <3>1. Further[A] = A \cup UNION {Kids(pat[p]) : p \in A}
      BY <1>5
    <3>2. \A p \in A : Kids(pat[p]) \subseteq B
      BY <1>7
    <3> QED
      BY <3>1, <3>2
  <2>2. x \subseteq B
    BY <1>7 DEF x
  <2> QED
    BY <1>6, <2>1, <2>2
<1>8. ASSUME NEW p \in r PROVE Kids(pat[p]) \subseteq r
  BY <1>5, <1>6, <1>8
<1>9. start \in r /\ r \subseteq DOMAIN pat
  BY <1>6 DEF x, D
<1> QED
  BY <1>7, <1>8, <1>9 DEF Reached, D

LEMMA EmptyLeaf == Empty.t = "empty" /\ Kids(Empty) = {}
<1>1. Empty.t = "empty"
  BY DEF Empty
<1> QED
  BY <1>1 DEF Kids, Binary, Unary

LEMMA Initially ==
  ASSUME Init
  PROVE  IInv
<1>1. /\ schema \in Schemas /\ pc = "deref" /\ pat = schema.pat /\ start = schema.start
      /\ tab = Patterns(schema) /\ nul = nullables(schema.pat, Patterns(schema), {})
      /\ marked = {} /\ flat = <<>> /\ i = 0 /\ errors = FALSE /\ changed = FALSE
  BY DEF Init
<1>2. /\ IsFiniteSet(DOMAIN pat)
      /\ pat \in [0 .. Size - 1 -> Pattern]
      /\ pat[0] = Empty
      /\ start \in DOMAIN pat
      /\ \A p \in DOMAIN pat :
           /\ pat[p].t = "ref" => pat[p].p1 \in DOMAIN pat
           /\ pat[p].t # "ref" =>
                /\ pat[p].t # "erased"
                /\ \A c \in Kids(pat[p]) : c \in DOMAIN pat /\ (pat[c].t = "ref" \/ c < p)
                /\ \A q \in DOMAIN pat : pat[q] = pat[p] => q = p
  BY <1>1, SchemaAssumption DEF IsSchema, Size
<1>3. InStore
  <2>1. Size \in Nat
    BY <1>2, FS_CardinalityType DEF Size
  <2>2. start \in 0 .. Size - 1
    BY <1>2
  <2>3. Size # 0
    BY <2>1, <2>2
  <2> QED
    BY <1>2, <2>1, <2>3 DEF InStore
<1>4. tab = {p \in DOMAIN pat : pat[p].t # "ref"}
  BY <1>1 DEF Patterns
<1>5. 0 \in DOMAIN pat /\ DOMAIN pat = 0 .. Size - 1
  BY <1>3 DEF InStore
<1>6. Unswept
  <2>1. 0 \in tab
    <3>1. pat[0].t # "ref"
      BY <1>2, EmptyLeaf
    <3> QED
      BY <1>4, <1>5, <3>1
  <2>2. Unique(pat, tab)
    BY <1>2, <1>4 DEF Unique
  <2>3. \A p \in DOMAIN pat : pat[p].t # "erased"
    BY <1>2
  <2>4. Referring
    BY <1>2 DEF Referring
  <2>5. Registered
    BY <1>4 DEF Registered
  <2> QED
    BY <1>1, <1>2, <2>1, <2>2, <2>3, <2>4, <2>5 DEF Unswept
<1>7. Flattening
  <2>1. \A k \in 1 .. i : FALSE
    BY <1>1
  <2>2. Worklist([flat |-> flat, marked |-> marked], DOMAIN pat)
    BY <1>1 DEF Worklist
  <2> QED
    BY <2>1, <2>2 DEF Flattening
<1>8. Phase
  BY <1>1, <1>6, <1>7 DEF Phase
<1>9. TypeOK
  <2>1. nul \subseteq DOMAIN pat
    <3>1. tab \in SUBSET DOMAIN pat /\ {} \in SUBSET DOMAIN pat
      BY <1>4
    <3>2. nul = nullables(pat, tab, {})
      BY <1>1
    <3>3. Size \in Nat /\ pat \in [0 .. Size - 1 -> Pattern]
      BY <1>3 DEF InStore
    <3> QED
      BY <3>1, <3>2, <3>3, NullableOnes
  <2>2. \A p \in DOMAIN pat : Kids(pat[p]) \subseteq DOMAIN pat
    <3> TAKE p \in DOMAIN pat
    <3>1. CASE pat[p].t = "ref"
      BY <3>1 DEF Kids, Binary, Unary
    <3>2. CASE pat[p].t # "ref"
      BY <1>2, <3>2
    <3> QED
      BY <3>1, <3>2
  <2>3. i \in 0 .. Len(flat)
    BY <1>1
  <2> QED
    BY <1>1, <1>4, <2>1, <2>2, <2>3 DEF TypeOK
<1> QED
  BY <1>3, <1>8, <1>9 DEF IInv

-----------------------------------------------------------------------------
(* The steps of deref.                                                     *)
LEMMA StoreKept ==
  ASSUME IInv, UNCHANGED pat
  PROVE  InStore' /\ Size' = Size /\ Stored' = Stored /\ DOMAIN pat' = DOMAIN pat
BY DEF IInv, InStore, Size, Stored

LEMMA UnsweptKept ==
  ASSUME Unswept, UNCHANGED <<pat, tab>>, start' \in DOMAIN pat, flat' \in Seq(DOMAIN pat)
  PROVE  Unswept'
BY DEF Unswept, Unique, Referring, Registered

LEMMA Step_deref_start ==
  ASSUME IInv, deref_start
  PROVE  IInv'
<1>1. /\ pc = "deref" /\ flat = <<>>
      /\ UNCHANGED <<pat, tab, nul, i, errors, changed, start, xlat>>
  BY DEF deref_start
<1>2. InStore' /\ Size' = Size /\ Stored' = Stored /\ DOMAIN pat' = DOMAIN pat
  BY <1>1, StoreKept
<1>3. Unswept /\ Flattening /\ TypeOK /\ InStore
  BY <1>1 DEF IInv, Phase
<1>4. i = 0
  BY <1>1, <1>3 DEF TypeOK
<1>5. CASE ~Ends(start)
  <2>1. pc' = "spinning" /\ flat' = flat
    BY <1>5 DEF deref_start, GoRound, Goto
  <2>2. TypeOK' /\ Phase'
    BY <1>1, <1>3, <2>1 DEF TypeOK, Phase
  <2> QED
    BY <1>2, <2>2 DEF IInv
<1>6. CASE Ends(start)
  <2>1. flat' = <<de(start)>> /\ marked' = {de(start)} /\ pc' = "deref"
    BY <1>1, <1>6 DEF deref_start
  <2>2. de(start) \in DOMAIN pat
    <3>1. Referring /\ start \in DOMAIN pat
      BY <1>3 DEF Unswept
    <3>2. Chain(start) = None \/ Chain(start) \in DOMAIN pat
      BY <1>3, <3>1, ChainEnds DEF InStore
    <3> QED
      BY <1>6, <3>2 DEF Ends, de
  <2> DEFINE d == de(start)
  <2> HIDE DEF d
  <2>3. flat' = <<d>> /\ marked' = {d} /\ d \in DOMAIN pat
    BY <2>1, <2>2 DEF d
  <2>4. flat' \in Seq(DOMAIN pat) /\ DOMAIN flat' = {1} /\ flat'[1] = d /\ Len(flat') = 1
    BY <2>3
  <2>5. Unswept'
    <3>1. start' \in DOMAIN pat
      BY <1>1, <1>3 DEF Unswept
    <3> QED
      BY <1>1, <1>3, <2>4, <3>1, UnsweptKept
  <2>6. Flattening'
    <3>1. marked' = {flat'[k] : k \in DOMAIN flat'}
      BY <2>3, <2>4
    <3>2. Worklist([flat |-> flat', marked |-> marked'], DOMAIN pat)
      BY <2>4, <3>1 DEF Worklist
    <3> QED
      BY <1>1, <1>2, <1>4, <3>2 DEF Flattening
  <2>7. TypeOK'
    BY <1>1, <1>3, <1>4, <2>4 DEF TypeOK
  <2>8. Phase'
    BY <2>1, <2>5, <2>6 DEF Phase
  <2> QED
    BY <1>2, <2>7, <2>8 DEF IInv
<1> QED
  BY <1>5, <1>6

LEMMA Step_deref_node ==
  ASSUME IInv, deref_node
  PROVE  IInv'
<1> DEFINE p == flat[i + 1]
           refs == {c \in Kids(pat[p]) : pat[c].t = "ref"}
           new == Dereferenced(p)
<1>1. /\ pc = "deref" /\ i < Len(flat)
      /\ UNCHANGED <<nul, errors, changed, start, xlat>>
  BY DEF deref_node
<1>2. Unswept /\ Flattening /\ TypeOK /\ InStore
  BY <1>1 DEF IInv, Phase
<1>3. flat \in Seq(DOMAIN pat) /\ i \in 0 .. Len(flat) /\ i + 1 \in 1 .. Len(flat) /\ Len(flat) \in Nat
  BY <1>1, <1>2 DEF Unswept, TypeOK
<1>4. p \in DOMAIN pat
  BY <1>3
<1>5. CASE \E c \in refs : ~Ends(c)
  <2>1. pc' = "spinning" /\ UNCHANGED <<pat, tab, flat, marked, i>>
    BY <1>5 DEF deref_node, GoRound, Goto
  <2>2. InStore'
    BY <2>1, StoreKept
  <2>3. TypeOK' /\ Phase'
    BY <1>1, <1>2, <2>1 DEF TypeOK, Phase
  <2> QED
    BY <2>2, <2>3 DEF IInv
<1>6. CASE ~\E c \in refs : ~Ends(c)
  <2>1. /\ pat' = new
        /\ tab' = IF refs = {} THEN tab
                  ELSE IF ht_get(new, tab \ {p}, p) = None THEN tab \cup {p} ELSE tab \ {p}
        /\ flat' = Flattened(new[p]).flat /\ marked' = Flattened(new[p]).marked
        /\ i' = i + 1 /\ pc' = "deref"
    BY <1>1, <1>6 DEF deref_node
  <2>2. new \in [0 .. Size - 1 -> Pattern] /\ Resolves(p, new)
    <3>1. PICK n \in Nat \ {0} : n = Size
      BY <1>2 DEF InStore
    <3>2. pat \in [0 .. n - 1 -> Pattern] /\ p \in 0 .. n - 1 /\ Referring
      BY <1>2, <1>4, <3>1 DEF InStore, Unswept
    <3>3. Kids(pat[p]) \subseteq DOMAIN pat
      BY <1>2, <1>4 DEF TypeOK
    <3>4. \A c \in Kids(pat[p]) : pat[c].t = "ref" => Ends(c)
      BY <1>6
    <3>5. PICK nw : nw = Dereferenced(p)
      OBVIOUS
    <3> HIDE DEF p, new, refs
    <3>6. nw \in [0 .. n - 1 -> Pattern] /\ Resolves(p, nw)
      BY <3>2, <3>3, <3>4, <3>5, Dereferences
    <3> QED
      BY <3>1, <3>5, <3>6 DEF new
  <2> HIDE DEF new, p
  <2>3. /\ DOMAIN new = DOMAIN pat
        /\ \A r \in DOMAIN pat : new[r].t = pat[r].t /\ (r # p => new[r] = pat[r])
        /\ Kids(new[p]) \subseteq DOMAIN pat
        /\ refs = {} => new = pat
    BY <1>2, <2>2 DEF Resolves, InStore
  <2>4. InStore' /\ Size' = Size /\ DOMAIN pat' = DOMAIN pat
    BY <1>2, <2>1, <2>2, <2>3 DEF InStore, Size
  <2>5. /\ Worklist([flat |-> flat', marked |-> marked'], DOMAIN pat)
        /\ Kids(new[p]) \subseteq marked'
        /\ marked \subseteq marked' /\ Len(flat) <= Len(flat')
        /\ \A k \in 1 .. Len(flat) : flat'[k] = flat[k]
    <3>1. PICK st : st = [flat |-> flat, marked |-> marked]
      OBVIOUS
    <3>2. PICK nx : nx = Flattened(new[p])
      OBVIOUS
    <3>3. PICK S : S = DOMAIN pat
      OBVIOUS
    <3>4. PICK r : r = new[p]
      OBVIOUS
    <3>5. Worklist(st, S) /\ Kids(r) \subseteq S /\ nx = Flattened(r)
      BY <1>2, <2>3, <3>1, <3>2, <3>3, <3>4 DEF Flattening
    <3>6. Worklist(nx, S) /\ Grows(st, nx) /\ Kids(r) \subseteq nx.marked
      BY <3>1, <3>5, FlattensAll
    <3>7. st.flat = flat /\ st.marked = marked /\ flat' = nx.flat /\ marked' = nx.marked
      BY <2>1, <3>1, <3>2
    <3>8. Worklist([flat |-> flat', marked |-> marked'], S)
      BY <3>6, <3>7 DEF Worklist
    <3> QED
      BY <3>3, <3>4, <3>6, <3>7, <3>8 DEF Grows
  <2>6. flat' \in Seq(DOMAIN pat) /\ Len(flat') \in Nat /\ i' \in 0 .. Len(flat')
    <3>1. flat' \in Seq(DOMAIN pat)
      BY <2>5 DEF Worklist
    <3>2. Len(flat') \in Nat
      BY <3>1
    <3> QED
      BY <1>3, <2>1, <2>5, <3>1, <3>2
  <2>7. Flattening'
    <3>1. ASSUME NEW k \in 1 .. i + 1 PROVE Kids(new[flat'[k]]) \subseteq marked'
      <4>1. k \in 1 .. Len(flat) /\ flat'[k] = flat[k] /\ flat[k] \in DOMAIN pat
        BY <1>3, <2>5
      <4>2. CASE flat[k] = p
        BY <2>5, <4>1, <4>2
      <4>3. CASE flat[k] # p
        <5>1. k \in 1 .. i
          BY <1>3, <4>3 DEF p
        <5>2. Kids(pat[flat[k]]) \subseteq marked
          BY <1>2, <5>1 DEF Flattening
        <5>3. new[flat[k]] = pat[flat[k]]
          BY <2>3, <4>1, <4>3
        <5> QED
          BY <2>5, <4>1, <5>2, <5>3
      <4> QED
        BY <4>2, <4>3
    <3> QED
      BY <2>1, <2>4, <2>5, <3>1 DEF Flattening
  <2>8. ASSUME refs # {}
        PROVE  /\ tab' \subseteq DOMAIN pat /\ 0 \in tab' /\ tab \ {p} \subseteq tab'
               /\ Unique(new, tab')
               /\ \E s \in tab' : new[s] = new[p]
    <3>1. tab \subseteq DOMAIN pat /\ 0 \in tab /\ Unique(pat, tab)
      BY <1>2 DEF Unswept, TypeOK
    <3>2. p # 0
      <4>1. Kids(pat[0]) = {}
        BY <1>2, EmptyLeaf DEF Unswept
      <4> QED
        BY <2>8, <4>1
    <3> DEFINE q == ht_get(new, tab \ {p}, p)
    <3>3. tab \ {p} \in SUBSET Nat
      <4>1. DOMAIN pat = 0 .. Size - 1
        BY <1>2 DEF InStore
      <4> QED
        BY <3>1, <4>1
    <3>4. \/ q = None /\ \A r \in tab \ {p} : new[r] # new[p]
          \/ q # None /\ q \in tab \ {p} /\ new[q] = new[p]
      <4> DEFINE t == tab \ {p}
      <4> HIDE DEF t
      <4>1. t \in SUBSET Nat
        BY <3>3 DEF t
      <4>2. LET q1 == ht_get(new, t, p) IN
            \/ q1 = None /\ \A r \in t : new[r] # new[p]
            \/ q1 # None /\ q1 \in t /\ new[q1] = new[p]
        BY <4>1, Lookups
      <4> QED
        BY <4>2 DEF t
    <3>5. tab' = IF q = None THEN tab \cup {p} ELSE tab \ {p}
      BY <2>1, <2>8
    <3> HIDE DEF q, refs
    <3>6. \A r \in tab \ {p} : new[r] = pat[r]
      BY <2>3, <3>1
    <3>7. Unique(new, tab \ {p})
      BY <3>1, <3>6 DEF Unique
    <3>8. CASE q = None
      <4>1. tab' = tab \cup {p} /\ \A r \in tab \ {p} : new[r] # new[p]
        BY <3>4, <3>5, <3>8
      <4>2. Unique(new, tab')
        BY <3>7, <4>1 DEF Unique
      <4> QED
        BY <1>4, <3>1, <4>1, <4>2 DEF p
    <3>9. CASE q # None
      <4>1. tab' = tab \ {p} /\ q \in tab' /\ new[q] = new[p]
        BY <3>4, <3>5, <3>9
      <4> QED
        BY <3>1, <3>2, <3>7, <4>1
    <3> QED
      BY <3>8, <3>9
  <2>9. tab' \subseteq DOMAIN pat /\ 0 \in tab' /\ Unique(new, tab')
    <3>1. CASE refs = {}
      <4>1. tab' = tab /\ new = pat
        BY <2>1, <2>3, <3>1
      <4> QED
        BY <1>2, <4>1 DEF Unswept, TypeOK
    <3> QED
      BY <2>8, <3>1
  <2>10. Registered'
    <3>1. CASE refs = {}
      <4>1. tab' = tab /\ pat' = pat
        BY <2>1, <2>3, <3>1
      <4> QED
        BY <1>2, <4>1 DEF Unswept, Registered
    <3>2. CASE refs # {}
      <4> SUFFICES ASSUME NEW r \in DOMAIN pat, new[r].t # "ref",
                          \A c \in Kids(new[r]) : new[c].t # "ref"
                   PROVE  \E s \in tab' : new[s] = new[r]
        BY <2>1, <2>4 DEF Registered
      <4>1. CASE r = p
        BY <2>8, <3>2, <4>1
      <4>2. CASE r # p
        <5>1. new[r] = pat[r]
          BY <2>3, <4>2
        <5>2. \A c \in Kids(pat[r]) : c \in DOMAIN pat /\ pat[c].t # "ref"
          BY <1>2, <2>3, <5>1 DEF TypeOK
        <5>3. PICK s \in tab : pat[s] = pat[r]
          BY <1>2, <5>1, <5>2 DEF Unswept, Registered
        <5>4. s # p
          BY <3>2, <5>2, <5>3
        <5>5. s \in tab' /\ new[s] = pat[s]
          BY <1>2, <2>3, <2>8, <3>2, <5>4 DEF TypeOK
        <5> QED
          BY <5>1, <5>3, <5>5
      <4> QED
        BY <4>1, <4>2
    <3> QED
      BY <3>1, <3>2
  <2>11. pat'[0] = Empty
    <3>1. pat[0] = Empty /\ 0 \in DOMAIN pat
      BY <1>2 DEF Unswept, TypeOK
    <3>2. CASE p = 0
      <4>1. Kids(pat[p]) = {}
        BY <3>1, <3>2, EmptyLeaf
      <4> QED
        BY <2>1, <2>3, <3>1, <4>1
    <3>3. CASE p # 0
      BY <2>1, <2>3, <3>1, <3>3
    <3> QED
      BY <3>2, <3>3
  <2>12. Referring'
    <3> SUFFICES ASSUME NEW r \in DOMAIN pat, new[r].t = "ref" PROVE new[r].p1 \in DOMAIN pat
      BY <2>1, <2>4 DEF Referring
    <3>1. pat[r].t = "ref"
      BY <2>3
    <3>2. r = p => new[r] = pat[r]
      <4> SUFFICES ASSUME r = p PROVE new[r] = pat[r]
        OBVIOUS
      <4>1. Kids(pat[p]) = {}
        BY <3>1 DEF Kids, Binary, Unary
      <4> QED
        BY <2>3, <4>1
    <3> QED
      BY <1>2, <2>3, <3>1, <3>2 DEF Unswept, Referring
  <2>13. Unswept'
    BY <1>1, <1>2, <2>1, <2>3, <2>4, <2>6, <2>9, <2>10, <2>11, <2>12 DEF Unswept
  <2>14. TypeOK'
    <3>1. \A r \in DOMAIN pat : Kids(new[r]) \subseteq DOMAIN pat
      BY <1>2, <2>3 DEF TypeOK
    <3> QED
      BY <1>1, <1>2, <2>1, <2>4, <2>6, <2>9, <3>1 DEF TypeOK
  <2>15. Phase'
    BY <2>1, <2>7, <2>13 DEF Phase
  <2> QED
    BY <2>4, <2>14, <2>15 DEF IInv
<1> QED
  BY <1>5, <1>6

LEMMA Step_deref_done ==
  ASSUME IInv, deref_done
  PROVE  IInv'
<1>1. /\ pc = "deref" /\ flat # <<>> /\ i = Len(flat) /\ pc' = "loops"
      /\ UNCHANGED <<pat, tab, nul, flat, i, errors, changed, start>>
  BY DEF deref_done, Goto
<1>2. Unswept /\ Flattening /\ TypeOK /\ InStore
  BY <1>1 DEF IInv, Phase
<1>3. InStore' /\ DOMAIN pat' = DOMAIN pat
  BY <1>1, StoreKept
<1>4. Unswept'
  BY <1>1, <1>2 DEF Unswept, Unique, Referring, Registered
<1>5. Flat
  <2>1. flat \in Seq(DOMAIN pat) /\ DOMAIN flat = 1 .. i
    BY <1>1, <1>2 DEF Unswept
  <2>2. marked = InFlat
    BY <1>2 DEF Flattening, Worklist, InFlat
  <2>3. \A p \in InFlat : Kids(pat[p]) \subseteq marked
    BY <1>2, <2>1 DEF Flattening, InFlat
  <2> QED
    BY <1>1, <2>2, <2>3 DEF Flat
<1>6. Flat'
  BY <1>1, <1>5 DEF Flat, InFlat
<1>7. TypeOK'
  BY <1>1, <1>2 DEF TypeOK
<1>8. Phase'
  BY <1>1, <1>4, <1>6 DEF Phase
<1> QED
  BY <1>3, <1>7, <1>8 DEF IInv

LEMMA Step_de_spin ==
  ASSUME IInv, de_spin
  PROVE  IInv'
<1>1. pc = "spinning" /\ UNCHANGED <<pc, pat, tab, nul, flat, i, errors, changed>>
  BY DEF de_spin
<1>2. InStore'
  BY <1>1, StoreKept
<1>3. TypeOK' /\ Phase'
  BY <1>1 DEF IInv, TypeOK, Phase
<1> QED
  BY <1>2, <1>3 DEF IInv

-----------------------------------------------------------------------------
(* The steps of the rest of rnd_fixup.                                     *)
LEMMA FlatOnes ==
  ASSUME Unswept, Flat
  PROVE  InFlat \subseteq DOMAIN pat /\ flat[1] \in InFlat /\ flat \in Seq(DOMAIN pat)
<1>1. flat \in Seq(DOMAIN pat) /\ flat # <<>>
  BY DEF Unswept, Flat
<1>2. 1 \in DOMAIN flat
  BY <1>1
<1> QED
  BY <1>1, <1>2 DEF InFlat

LEMMA Step_loops ==
  ASSUME IInv, loops
  PROVE  IInv'
<1> DEFINE found == \E p \in Suspects : loop(p)
<1>0. found \in BOOLEAN
  BY Zenon
<1> HIDE DEF found
<1>1. /\ pc = "loops" /\ errors' \in BOOLEAN
      /\ pc' = "rejected" \/ (pc' = "traits" /\ start' = flat[1])
      /\ UNCHANGED <<pat, tab, nul, flat, i, changed>>
  <2>1. /\ pc = "loops" /\ errors' = found
        /\ pc' = IF found THEN "rejected" ELSE "traits"
        /\ start' = IF found THEN 0 ELSE flat[1]
        /\ UNCHANGED <<pat, tab, nul, flat, i, changed>>
    BY DEF loops, Goto, found
  <2> QED
    BY <1>0, <2>1
<1>2. Unswept /\ Flat /\ TypeOK
  BY <1>1 DEF IInv, Phase
<1>3. InStore'
  BY <1>1, StoreKept
<1>4. TypeOK'
  BY <1>1, <1>2 DEF TypeOK
<1>5. CASE pc' = "rejected"
  <2>1. Phase'
    BY <1>5 DEF Phase
  <2> QED
    BY <1>3, <1>4, <2>1 DEF IInv
<1>6. CASE pc' = "traits" /\ start' = flat[1]
  <2>1. start' \in InFlat /\ start' \in DOMAIN pat /\ flat' \in Seq(DOMAIN pat)
    BY <1>1, <1>2, <1>6, FlatOnes
  <2>2. Unswept'
    BY <1>1, <1>2, <2>1, UnsweptKept
  <2>3. Flat' /\ InFlat' = InFlat
    BY <1>1, <1>2 DEF Flat, InFlat
  <2>4. Phase'
    BY <1>6, <2>1, <2>2, <2>3 DEF Phase
  <2> QED
    BY <1>3, <1>4, <2>4 DEF IInv
<1> QED
  BY <1>1, <1>5, <1>6

LEMMA Step_traits ==
  ASSUME IInv, traits
  PROVE  IInv'
<1>1. pc = "traits" /\ UNCHANGED <<pat, tab, flat, i, errors, changed, start>>
  BY DEF traits
<1>2. Unswept /\ Flat /\ TypeOK /\ InStore /\ start \in InFlat
  BY <1>1 DEF IInv, Phase
<1>3. InStore' /\ DOMAIN pat' = DOMAIN pat
  BY <1>1, StoreKept
<1>4. CASE \E p \in InFlat : pat[p].t = "ref"
  <2>1. pc' = "aborted" /\ nul' = nul
    BY <1>4 DEF traits, Goto
  <2>2. TypeOK' /\ Phase'
    BY <1>1, <1>2, <2>1 DEF TypeOK, Phase
  <2> QED
    BY <1>3, <2>2 DEF IInv
<1>5. CASE ~\E p \in InFlat : pat[p].t = "ref"
  <2>1. pc' = "mark_p" /\ nul' = nullables(pat, InFlat, nul)
    BY <1>5 DEF traits, Goto
  <2>2. nul' \subseteq DOMAIN pat
    <3>1. Size \in Nat /\ pat \in [0 .. Size - 1 -> Pattern]
      BY <1>2 DEF InStore
    <3>2. InFlat \in SUBSET DOMAIN pat /\ nul \in SUBSET DOMAIN pat
      BY <1>2, FlatOnes DEF TypeOK
    <3> QED
      BY <2>1, <3>1, <3>2, NullableOnes
  <2>3. TypeOK'
    BY <1>1, <1>2, <2>2 DEF TypeOK
  <2>4. start' \in DOMAIN pat /\ flat' \in Seq(DOMAIN pat)
    BY <1>1, <1>2 DEF Unswept
  <2>5. Unswept'
    BY <1>1, <1>2, <2>4, UnsweptKept
  <2>6. Flat' /\ NoRefs' /\ start' \in InFlat'
    <3>1. pat' = pat /\ flat' = flat /\ start' = start
      BY <1>1
    <3>2. InFlat' = InFlat
      BY <3>1 DEF InFlat
    <3>3. Flat /\ NoRefs /\ start \in InFlat
      BY <1>2, <1>5 DEF NoRefs
    <3> QED
      BY <3>1, <3>2, <3>3 DEF Flat, NoRefs
  <2>7. Phase'
    BY <2>1, <2>5, <2>6 DEF Phase
  <2> QED
    BY <1>3, <2>3, <2>7 DEF IInv
<1> QED
  BY <1>4, <1>5

-----------------------------------------------------------------------------
(* The steps of rn_compress_last.                                          *)
LEMMA Step_mark_p ==
  ASSUME IInv, mark_p
  PROVE  IInv'
<1>1. /\ pc = "mark_p" /\ marked' = Reach(pat, start) \cap Stored /\ pc' = "sweep_p"
      /\ UNCHANGED <<pat, tab, nul, flat, i, errors, changed, start>>
  BY DEF mark_p, Goto
<1>2. Unswept /\ Flat /\ TypeOK /\ InStore /\ start \in InFlat /\ NoRefs
  BY <1>1 DEF IInv, Phase
<1>3. InStore' /\ Stored' = Stored /\ DOMAIN pat' = DOMAIN pat
  BY <1>1, StoreKept
<1>4. PICK r : r = Reach(pat, start)
  OBVIOUS
<1>5. Reached(r)
  <2>1. start \in DOMAIN pat
    BY <1>2 DEF Unswept
  <2>2. \A p \in DOMAIN pat : Kids(pat[p]) \subseteq DOMAIN pat
    BY <1>2 DEF TypeOK
  <2> QED
    BY <1>2, <1>4, <2>1, <2>2, ReachedOnes
<1>6. r \subseteq InFlat
  <2>1. InFlat \in SUBSET DOMAIN pat
    BY <1>2, FlatOnes
  <2>2. \A p \in InFlat : Kids(pat[p]) \subseteq InFlat
    BY <1>2 DEF Flat
  <2> QED
    BY <1>2, <1>5, <2>1, <2>2 DEF Reached
<1>7. Stored = 1 .. Size - 1 /\ DOMAIN pat = 0 .. Size - 1
  BY <1>2, Sizes DEF InStore
<1>8. ASSUME NEW p \in r
      PROVE  pat[p].t # "ref" /\ \A c \in Kids(pat[p]) : c \in r /\ pat[c].t # "ref" /\ (c = 0 \/ c \in r \cap Stored)
  <2>1. pat[p].t # "ref" /\ Kids(pat[p]) \subseteq r
    BY <1>2, <1>5, <1>6 DEF Reached, NoRefs
  <2>2. \A c \in r : pat[c].t # "ref" /\ c \in 0 .. Size - 1
    BY <1>2, <1>5, <1>6, <1>7 DEF Reached, NoRefs
  <2>3. \A c \in 0 .. Size - 1 : c = 0 \/ c \in Stored
    BY <1>2, <1>7 DEF InStore
  <2> QED
    BY <2>1, <2>2, <2>3
<1>9. Whole'
  BY <1>1, <1>3, <1>4, <1>8 DEF Whole
<1>10. Unswept'
  <2>1. start' \in DOMAIN pat /\ flat' \in Seq(DOMAIN pat)
    BY <1>1, <1>2 DEF Unswept
  <2> QED
    BY <1>1, <1>2, <2>1, UnsweptKept
<1>11. TypeOK'
  BY <1>1, <1>2 DEF TypeOK
<1>12. Phase'
  BY <1>1, <1>9, <1>10 DEF Phase
<1> QED
  BY <1>3, <1>11, <1>12 DEF IInv

(* What a pass leaves is the next state.                                   *)
LEMMA PassKept ==
  ASSUME IInv, NEW r \in Settling(Size), Swept(r), r.changed = FALSE => Settled(r),
         pc' = "sweep_p_loop"
  PROVE  IInv'
<1>1. TypeOK /\ InStore
  BY DEF IInv
<1>2. /\ pat' = r.pat /\ tab' = r.tab /\ marked' = r.marked /\ xlat' = r.xlat /\ changed' = r.changed
      /\ UNCHANGED <<nul, flat, i, errors, start>>
  BY DEF Swept
<1>3. r \in Stores(Size) /\ Sweeping(Size, r)
  BY DEF Settling
<1>4. /\ r.pat \in [0 .. Size - 1 -> Pattern] /\ r.tab \in SUBSET (0 .. Size - 1) /\ r.changed \in BOOLEAN
      /\ r = [pat |-> r.pat, tab |-> r.tab, marked |-> r.marked, xlat |-> r.xlat, changed |-> r.changed]
  BY <1>3 DEF Stores
<1>5. DOMAIN pat' = DOMAIN pat /\ DOMAIN pat = 0 .. Size - 1 /\ Size' = Size /\ InStore'
  BY <1>1, <1>2, <1>4 DEF InStore, Size
<1>6. Store(xlat, changed)' = r
  BY <1>2, <1>4 DEF Store
<1>7. TypeOK'
  <2>1. \A p \in 0 .. Size - 1 : Kids(r.pat[p]) \subseteq 0 .. Size - 1
    BY <1>3, <1>4 DEF Sweeping, Sound
  <2> QED
    BY <1>1, <1>2, <1>4, <1>5, <2>1 DEF TypeOK
<1>8. Swept_p' /\ (changed' = FALSE => Settled(Store(xlat, changed))')
  BY <1>2, <1>5, <1>6 DEF Swept_p, Settled, Still, Redirected
<1>9. Phase'
  BY <1>8 DEF Phase
<1> QED
  BY <1>5, <1>7, <1>9 DEF IInv

(* The store at the outset of the sweep.                                   *)
LEMMA Sweepable ==
  ASSUME IInv, pc = "sweep_p", NEW n \in Nat \ {0}, n = Size,
         NEW x, x = [p \in Stored |-> IF p \in marked THEN p ELSE None],
         NEW c, c = Store(x, FALSE)
  PROVE  /\ c \in Merging(n) /\ Used(x) = marked /\ Roots(x) = marked
         /\ \A p \in marked : x[p] = p
<1>2. Unswept /\ Whole /\ TypeOK /\ InStore
  BY DEF IInv, Phase
<1>4. /\ pat \in [0 .. n - 1 -> Pattern] /\ DOMAIN pat = 0 .. n - 1 /\ Stored = 1 .. n - 1
  BY <1>2, Sizes DEF InStore
<1>5. marked \subseteq 1 .. n - 1
  BY <1>2, <1>4 DEF Whole
<1>6. /\ x \in [1 .. n - 1 -> -1 .. n - 1]
      /\ \A p \in 1 .. n - 1 : x[p] = IF p \in marked THEN p ELSE None
  BY <1>4 DEF None
<1>7. /\ c = [pat |-> pat, tab |-> tab, marked |-> marked, xlat |-> x, changed |-> FALSE]
      /\ c.pat = pat /\ c.tab = tab /\ c.marked = marked /\ c.xlat = x /\ c.changed = FALSE
  BY DEF Store
<1>8. Used(x) = marked /\ Roots(x) = marked
  <2>1. \A p \in 1 .. n - 1 : (x[p] # None <=> p \in marked) /\ (x[p] = p <=> p \in marked)
    BY <1>6 DEF None
  <2>2. DOMAIN x = 1 .. n - 1
    BY <1>6
  <2>3. Used(x) = marked
    BY <1>5, <2>1, <2>2 DEF Used
  <2>4. Roots(x) = marked
    BY <1>5, <2>1, <2>2 DEF Roots
  <2> QED
    BY <2>3, <2>4
<1>9. Lands(x) /\ Ordered(x)
  <2>1. Lands(x)
    BY <1>5, <1>6, <1>8 DEF Lands
  <2>2. Gone(x) = {}
    BY <1>8 DEF Gone
  <2> DEFINE T == [p \in {} |-> 1]
  <2>3. T \in [{} -> 1 .. Cardinality({})]
    OBVIOUS
  <2>4. Later(x, T)
    BY <2>2 DEF Later
  <2> HIDE DEF T
  <2> QED
    BY <2>1, <2>2, <2>3, <2>4 DEF Ordered
<1>10. Sound(pat, x)
  <2>1. \A p \in marked : Kids(pat[p]) \subseteq {0} \cup marked
    BY <1>2 DEF Whole
  <2> QED
    BY <1>2, <1>8, <2>1 DEF Sound, Unswept, TypeOK
<1>11. c \in Stores(n)
  <2>1. tab \in SUBSET (0 .. n - 1) /\ marked \in SUBSET (1 .. n - 1)
    BY <1>2, <1>4, <1>5 DEF TypeOK
  <2> QED
    BY <1>4, <1>6, <1>7, <2>1 DEF Stores
<1>12. Sweeping(n, c)
  BY <1>2, <1>7, <1>8, <1>9, <1>10, <1>11 DEF Sweeping, Unswept
<1>13. Represented(c)
  <2>1. ASSUME NEW r \in marked PROVE \E s \in tab : pat[s] = pat[r]
    <3>1. r \in DOMAIN pat /\ pat[r].t # "ref" /\ \A d \in Kids(pat[r]) : pat[d].t # "ref"
      BY <1>2, <1>4, <1>5 DEF Whole
    <3> QED
      BY <1>2, <3>1 DEF Unswept, Registered
  <2> QED
    BY <1>7, <1>8, <2>1 DEF Represented
<1>14. c \in Merging(n)
  BY <1>7, <1>8, <1>11, <1>12, <1>13 DEF Merging, Undisturbed
<1> QED
  BY <1>5, <1>6, <1>8, <1>14

LEMMA Step_sweep_p_init ==
  ASSUME IInv, sweep_p_init
  PROVE  IInv'
<1> DEFINE x == [p \in Stored |-> IF p \in marked THEN p ELSE None]
           c == Store(x, FALSE)
<1>1. pc = "sweep_p" /\ Swept(Pass(Merge, c)) /\ pc' = "sweep_p_loop"
  BY DEF sweep_p_init, Goto
<1>2. PICK n \in Nat \ {0} : n = Size
  BY DEF IInv, InStore
<1>3. pat \in [0 .. n - 1 -> Pattern]
  BY <1>2 DEF IInv, InStore
<1>14. c \in Merging(n)
  <2>1. PICK y : y = x
    OBVIOUS
  <2>2. PICK d : d = c
    OBVIOUS
  <2>3. d \in Merging(n)
    BY <1>1, <1>2, <2>1, <2>2, Sweepable
  <2> QED
    BY <2>2, <2>3
<1> HIDE DEF x, c
<1>15. PICK r : r = Pass(Merge, c)
  OBVIOUS
<1>16. r \in Merging(n) /\ Roots(r.xlat) \subseteq r.tab
  <2>1. /\ Pass(Merge, c) \in Merging(n)
        /\ Roots(Pass(Merge, c).xlat) \subseteq Pass(Merge, c).tab
    BY <1>3, <1>14, MergedAll
  <2> QED
    BY <1>15, <2>1
<1>17. r \in Settling(n)
  BY <1>16 DEF Merging, Settling
<1>18. r.changed = FALSE => Settled(r)
  <2> SUFFICES ASSUME r.changed = FALSE, NEW p \in Roots(r.xlat), NEW k \in Kids(r.pat[p])
               PROVE  Redirected(r, k) = k
    BY DEF Settled, Still
  <2>1. Used(r.xlat) = Roots(r.xlat) /\ Sound(r.pat, r.xlat) /\ r.xlat \in [1 .. n - 1 -> -1 .. n - 1]
    BY <1>16 DEF Merging, Undisturbed, Sweeping, Stores
  <2>2. k = 0 \/ k \in Roots(r.xlat)
    BY <2>1 DEF Sound
  <2>3. CASE k = 0
    BY <2>3 DEF Redirected, base_p
  <2>4. CASE k \in Roots(r.xlat)
    <3>1. k \in 1 .. n - 1 /\ r.xlat[k] = k
      BY <2>1, <2>4 DEF Roots
    <3> QED
      BY <3>1 DEF Redirected, base_p
  <2> QED
    BY <2>2, <2>3, <2>4
<1>19. r \in Settling(Size) /\ Swept(r)
  BY <1>1, <1>2, <1>15, <1>17
<1> QED
  BY <1>1, <1>18, <1>19, PassKept

LEMMA Step_sweep_p_round ==
  ASSUME IInv, sweep_p_round
  PROVE  IInv'
<1> DEFINE c == Store(xlat, FALSE)
<1>1. pc = "sweep_p_loop" /\ Swept(Pass(Resweep, c)) /\ pc' = "sweep_p_loop"
  BY DEF sweep_p_round, Round
<1>2. Swept_p /\ InStore
  BY <1>1 DEF IInv, Phase
<1>3. PICK n \in Nat \ {0} : n = Size
  BY <1>2 DEF InStore
<1>4. pat \in [0 .. n - 1 -> Pattern]
  BY <1>2, <1>3 DEF InStore
<1>5. PICK st : st = Store(xlat, changed)
  OBVIOUS
<1>6. /\ st.pat = pat /\ st.tab = tab /\ st.marked = marked /\ st.xlat = xlat
      /\ c = [pat |-> pat, tab |-> tab, marked |-> marked, xlat |-> xlat, changed |-> FALSE]
      /\ c.pat = pat /\ c.tab = tab /\ c.marked = marked /\ c.xlat = xlat
  BY <1>5 DEF Store
<1>7. st \in Stores(n) /\ Sweeping(n, st) /\ Roots(st.xlat) \subseteq st.tab
  BY <1>2, <1>3, <1>5 DEF Swept_p, Settling
<1> HIDE DEF c
<1>8. c \in Stores(n)
  BY <1>6, <1>7 DEF Stores
<1>9. c \in Settling(n)
  BY <1>6, <1>7, <1>8 DEF Settling, Sweeping
<1>10. PICK r : r = Pass(Resweep, c)
  OBVIOUS
<1>11. r \in Settling(n) /\ (r.changed = FALSE => Settled(r))
  BY <1>4, <1>9, <1>10, ReswepAll
<1>12. r \in Settling(Size) /\ Swept(r) /\ (r.changed = FALSE => Settled(r))
  BY <1>1, <1>3, <1>10, <1>11
<1> QED
  BY <1>1, <1>12, PassKept

LEMMA Step_sweep_p_done ==
  ASSUME IInv, sweep_p_done
  PROVE  IInv'
<1>1. /\ pc = "sweep_p_loop" /\ ~changed /\ pc' = "unmark_p"
      /\ UNCHANGED <<pat, tab, nul, marked, flat, i, errors, xlat, changed>>
  BY DEF sweep_p_done, Goto
<1>2. TypeOK /\ Swept_p /\ changed = FALSE
  BY <1>1 DEF IInv, Phase, TypeOK
<1>3. Settled(Store(xlat, changed))
  BY <1>1, <1>2 DEF IInv, Phase
<1>4. InStore' /\ Size' = Size
  BY <1>1, StoreKept
<1>5. Store(xlat, changed)' = Store(xlat, changed)
  BY <1>1 DEF Store
<1>6. Swept_p' /\ Settled(Store(xlat, changed))'
  BY <1>2, <1>3, <1>4, <1>5 DEF Swept_p, Settled, Still, Redirected
<1>7. TypeOK'
  BY <1>1, <1>2 DEF TypeOK
<1>8. Phase'
  BY <1>1, <1>6 DEF Phase
<1> QED
  BY <1>4, <1>7, <1>8 DEF IInv

LEMMA Step_unmark_p ==
  ASSUME IInv, unmark_p
  PROVE  IInv'
<1> DEFINE new == [p \in DOMAIN pat |-> IF p \in Stored \ marked THEN Erased ELSE pat[p]]
<1>1. /\ pc = "unmark_p" /\ pat' = new /\ tab' = tab \ (Stored \ marked) /\ pc' = "compress_p"
      /\ UNCHANGED <<nul, flat, i, errors, changed>>
  BY DEF unmark_p, Goto
<1>2. TypeOK /\ InStore /\ Swept_p /\ Settled(Store(xlat, changed))
  BY <1>1 DEF IInv, Phase
<1>3. PICK st : st = Store(xlat, changed)
  OBVIOUS
<1>4. st.pat = pat /\ st.tab = tab /\ st.marked = marked /\ st.xlat = xlat
  BY <1>3 DEF Store
<1>5. PICK n \in Nat \ {0} : n = Size
  BY <1>2 DEF InStore
<1>6. /\ DOMAIN pat = 0 .. n - 1 /\ Stored = 1 .. n - 1 /\ pat \in [0 .. n - 1 -> Pattern]
  BY <1>2, <1>5, Sizes DEF InStore
<1>7. /\ st \in Stores(n) /\ Sweeping(n, st) /\ Roots(xlat) \subseteq tab /\ Settled(st)
  BY <1>2, <1>3, <1>4, <1>5 DEF Swept_p, Settling
<1>8. /\ xlat \in [1 .. n - 1 -> -1 .. n - 1]
      /\ pat[0] = Empty /\ Unique(pat, tab) /\ 0 \in tab /\ marked = Roots(xlat)
      /\ tab \subseteq 0 .. n - 1 /\ marked \subseteq 1 .. n - 1
      /\ Sound(pat, xlat)
  BY <1>4, <1>7 DEF Stores, Sweeping
<1>9. /\ new \in [0 .. n - 1 -> Pattern]
      /\ \A p \in 0 .. n - 1 : new[p] = IF p \in Stored \ marked THEN Erased ELSE pat[p]
  <2>1. Erased \in Pattern
    <3>1. "erased" \in Types
      BY DEF Types
    <3>2. "" \in STRING
      <4>1. Empty \in Pattern /\ Empty.nc = ""
        BY <1>6, <1>8 DEF Empty
      <4>2. Empty.nc \in STRING
        BY <4>1 DEF Pattern
      <4> QED
        BY <4>1, <4>2
    <3>3. PICK a : a = "erased"
      OBVIOUS
    <3>4. PICK b : b = ""
      OBVIOUS
    <3>5. PICK e : e = [t |-> a, nc |-> b, p1 |-> 0, p2 |-> 0]
      OBVIOUS
    <3>6. a \in Types /\ b \in STRING
      BY <3>1, <3>2, <3>3, <3>4
    <3>7. e \in Pattern
      BY <3>5, <3>6 DEF Pattern
    <3>8. e = Erased
      BY <3>3, <3>4, <3>5 DEF Erased
    <3> QED
      BY <3>7, <3>8
  <2> QED
    BY <1>6, <2>1
<1> HIDE DEF new
<1>10. DOMAIN pat' = DOMAIN pat /\ Size' = Size /\ InStore'
  BY <1>1, <1>2, <1>5, <1>6, <1>9 DEF InStore, Size
<1>11. tab' = {0} \cup marked
  <2>1. ASSUME NEW p \in tab' PROVE p \in {0} \cup marked
    <3>1. p \in 0 .. n - 1 /\ p \notin Stored \ marked
      BY <1>1, <1>8
    <3>2. p = 0 \/ p \in Stored
      BY <1>6, <3>1
    <3> QED
      BY <3>1, <3>2
  <2>2. 0 \in tab' /\ marked \subseteq tab'
    BY <1>1, <1>6, <1>7, <1>8
  <2> QED
    BY <2>1, <2>2
<1>12. \A p \in {0} \cup marked : p \in 0 .. n - 1 /\ new[p] = pat[p] /\ new[p].t # "erased"
  <2> TAKE p \in {0} \cup marked
  <2>1. p \in 0 .. n - 1 /\ p \notin Stored \ marked
    BY <1>6, <1>8
  <2>2. new[p] = pat[p]
    BY <1>9, <2>1
  <2> QED
    BY <1>6, <1>8, <2>1, <2>2 DEF Sound
<1>13. Erased.t = "erased" /\ Kids(Erased) = {}
  <2>1. Erased.t = "erased"
    BY DEF Erased
  <2> QED
    BY <2>1 DEF Kids, Binary, Unary
<1>14. \A p \in 0 .. n - 1 : new[p].t # "erased" <=> p \in {0} \cup marked
  <2> TAKE p \in 0 .. n - 1
  <2>1. CASE p \in {0} \cup marked
    BY <1>12, <2>1
  <2>2. CASE p \notin {0} \cup marked
    <3>1. p \in Stored \ marked
      BY <1>6, <2>2
    <3>2. new[p] = Erased
      BY <1>9, <3>1
    <3> QED
      BY <1>13, <2>2, <3>2
  <2> QED
    BY <2>1, <2>2
<1>15. Unique(new, {0} \cup marked)
  BY <1>7, <1>8, <1>12 DEF Unique
<1>16. ASSUME NEW p \in {0} \cup marked PROVE Kids(new[p]) \subseteq {0} \cup marked
  <2>1. CASE p = 0
    BY <1>8, <1>12, <2>1, EmptyLeaf
  <2>2. CASE p \in marked
    <3> SUFFICES ASSUME NEW k \in Kids(pat[p]) PROVE k \in {0} \cup marked
      BY <1>12
    <3>1. Redirected(st, k) = k
      BY <1>4, <1>7, <1>8, <2>2 DEF Settled, Still
    <3>2. k \in 0 .. n - 1
      BY <1>6, <1>8, <2>2 DEF Sound
    <3>3. CASE k = 0
      BY <3>3
    <3>4. CASE k \in 1 .. n - 1
      <4>1. xlat[k] = k
        BY <1>4, <3>1, <3>4 DEF Redirected, base_p
      <4> QED
        BY <1>8, <3>4, <4>1 DEF Roots
    <3> QED
      BY <3>2, <3>3, <3>4
  <2> QED
    BY <2>1, <2>2
<1>17. Left'
  <2>1. {0} \cup marked = {p \in 0 .. n - 1 : new[p].t # "erased"}
    BY <1>12, <1>14
  <2> QED
    BY <1>1, <1>6, <1>10, <1>11, <1>15, <1>16, <2>1 DEF Left
<1>18. TypeOK'
  <2>1. \A p \in 0 .. n - 1 : Kids(new[p]) \subseteq 0 .. n - 1
    <3> TAKE p \in 0 .. n - 1
    <3>1. CASE new[p] = Erased
      BY <1>13, <3>1
    <3>2. CASE new[p] = pat[p]
      BY <1>6, <1>8, <3>2 DEF Sound
    <3> QED
      BY <1>9, <3>1, <3>2
  <2> QED
    BY <1>1, <1>2, <1>6, <1>10, <2>1 DEF TypeOK
<1>19. Phase'
  BY <1>1, <1>17 DEF Phase
<1> QED
  BY <1>10, <1>18, <1>19 DEF IInv

(* Different patterns are moved to different ones.                         *)
LEMMA MovesApart ==
  ASSUME NEW r1 \in Pattern, NEW r2 \in Pattern, NEW to,
         \A c, d \in Kids(r1) \cup Kids(r2) : to[c] = to[d] => c = d,
         Moved(r1, to) = Moved(r2, to)
  PROVE  r1 = r2
<1> DEFINE A(r) == IF r.t \in Binary \cup Unary THEN to[r.p1] ELSE r.p1
           B(r) == IF r.t \in Binary THEN to[r.p2] ELSE r.p2
<1>1. \A r \in Pattern : r = [t |-> r.t, nc |-> r.nc, p1 |-> r.p1, p2 |-> r.p2]
  BY DEF Pattern
<1>2. ASSUME NEW r \in Pattern, NEW s, s = Moved(r, to)
      PROVE  s.t = r.t /\ s.nc = r.nc /\ s.p1 = A(r) /\ s.p2 = B(r)
  <2>1. PICK a : a = A(r)
    OBVIOUS
  <2>2. PICK b : b = B(r)
    OBVIOUS
  <2>3. s = [r EXCEPT !.p1 = a, !.p2 = b]
    BY <1>2, <2>1, <2>2 DEF Moved
  <2> HIDE DEF A, B
  <2>4. r = [t |-> r.t, nc |-> r.nc, p1 |-> r.p1, p2 |-> r.p2]
    BY <1>1
  <2>5. s = [t |-> r.t, nc |-> r.nc, p1 |-> a, p2 |-> b]
    BY <2>3, <2>4
  <2> QED
    BY <2>1, <2>2, <2>5
<1>3. ASSUME NEW r \in Pattern
      PROVE  Kids(r) = IF r.t \in Binary THEN {r.p1, r.p2} ELSE IF r.t \in Unary THEN {r.p1} ELSE {}
  BY DEF Kids, Binary, Unary
<1>4. PICK s : s = Moved(r1, to)
  OBVIOUS
<1>5. r1.t = r2.t /\ r1.nc = r2.nc /\ A(r1) = A(r2) /\ B(r1) = B(r2)
  <2>1. s = Moved(r2, to)
    BY <1>4
  <2> HIDE DEF A, B
  <2>2. s.t = r1.t /\ s.nc = r1.nc /\ s.p1 = A(r1) /\ s.p2 = B(r1)
    BY <1>2, <1>4
  <2>3. s.t = r2.t /\ s.nc = r2.nc /\ s.p1 = A(r2) /\ s.p2 = B(r2)
    BY <1>2, <2>1
  <2> QED
    BY <2>2, <2>3
<1>6. r1.p1 = r2.p1
  <2>1. CASE r1.t \in Binary \cup Unary
    <3>1. to[r1.p1] = to[r2.p1]
      BY <1>5, <2>1
    <3>2. r1.p1 \in Kids(r1) /\ r2.p1 \in Kids(r2)
      BY <1>3, <1>5, <2>1
    <3> QED
      BY <3>1, <3>2
  <2>2. CASE r1.t \notin Binary \cup Unary
    BY <1>5, <2>2
  <2> QED
    BY <2>1, <2>2
<1>7. r1.p2 = r2.p2
  <2>1. CASE r1.t \in Binary
    <3>1. to[r1.p2] = to[r2.p2]
      BY <1>5, <2>1
    <3>2. r1.p2 \in Kids(r1) /\ r2.p2 \in Kids(r2)
      BY <1>3, <1>5, <2>1
    <3> QED
      BY <3>1, <3>2
  <2>2. CASE r1.t \notin Binary
    BY <1>5, <2>2
  <2> QED
    BY <2>1, <2>2
<1> QED
  BY <1>1, <1>5, <1>6, <1>7

(* How compress_p moves the m patterns left to the beginning of the store. *)
Compresses(to, from, m) ==
  /\ m \in Nat \ {0} /\ to[0] = 0
  /\ \A p \in DOMAIN pat : p # 0 /\ p \notin tab => to[p] = None
  /\ \A p \in tab : to[p] \in 0 .. m - 1 /\ from[to[p]] = p
  /\ \A q \in 0 .. m - 1 : from[q] \in tab /\ to[from[q]] = q
  /\ pat' = [q \in 0 .. m - 1 |-> Moved(pat[from[q]], to)]
  /\ tab' = {to[p] : p \in tab}
  /\ nul' = {q \in 0 .. m - 1 : from[q] \in nul}
  /\ start' = to[start]

LEMMA Compressed ==
  ASSUME IInv, compress_p
  PROVE  \E to, from, m : Compresses(to, from, m)
<1> DEFINE left == {p \in DOMAIN pat : pat[p].t # "erased"}
           to == [p \in DOMAIN pat |->
                    CASE p < base_p -> p
                      [] p >= base_p /\ p \notin left -> None
                      [] OTHER -> Cardinality({q \in left : q < p})]
           from(q) == CHOOSE p \in left : to[p] = q
           m == Cardinality(left)
           N == 0 .. m - 1
           back == [q \in N |-> from(q)]
<1>1. /\ pc = "compress_p"
      /\ pat' = [q \in N |-> Moved(pat[from(q)], to)]
      /\ tab' = (tab \ left) \cup {to[p] : p \in left}
      /\ nul' = {q \in N : from(q) \in nul}
      /\ start' = to[start]
  BY DEF compress_p
<1>2. TypeOK /\ InStore /\ Left
  BY <1>1 DEF IInv, Phase
<1>3. DOMAIN pat = 0 .. Size - 1 /\ Size \in Nat /\ IsFiniteSet(DOMAIN pat)
  BY <1>2, FS_Interval DEF InStore
<1>4. left = tab /\ 0 \in left /\ left \subseteq DOMAIN pat
  BY <1>2 DEF Left
<1>5. \A p \in left : to[p] = Cardinality({q \in left : q < p})
  <2> TAKE p \in left
  <2>1. CASE p = 0
    <3>1. {q \in left : q < p} = {}
      BY <1>3, <1>4, <2>1
    <3>2. to[p] = 0
      BY <1>4, <2>1 DEF base_p
    <3> QED
      BY <3>1, <3>2, FS_EmptySet
  <2>2. CASE p # 0
    <3>1. ~(p < base_p)
      BY <1>3, <1>4, <2>2 DEF base_p
    <3> QED
      BY <1>4, <3>1
  <2> QED
    BY <2>1, <2>2
<1>6. to[0] = 0 /\ \A p \in DOMAIN pat : p # 0 /\ p \notin left => to[p] = None
  <2>1. to[0] = 0
    BY <1>4 DEF base_p
  <2>2. ASSUME NEW p \in DOMAIN pat, p # 0, p \notin left PROVE to[p] = None
    <3>1. ~(p < base_p) /\ p >= base_p
      BY <1>3, <2>2 DEF base_p
    <3> QED
      BY <2>2, <3>1
  <2> QED
    BY <2>1, <2>2
<1> HIDE DEF to, left
<1>7. left \in SUBSET Nat /\ IsFiniteSet(left) /\ m \in Nat
  BY <1>3, <1>4, FS_Subset, FS_CardinalityType
<1>8. /\ \A p \in left : to[p] \in N
      /\ \A p, q \in left : to[p] = to[q] => p = q
      /\ \A q \in N : \E p \in left : to[p] = q
  BY <1>5, <1>7, Numbering
<1>9. ASSUME NEW q \in N PROVE from(q) \in left /\ to[from(q)] = q
  BY <1>8
<1>10. m # 0
  BY <1>4, <1>7, FS_EmptySet
<1> HIDE DEF m, from
<1>11. \A q \in N : back[q] = from(q)
  OBVIOUS
<1>12. pat' = [q \in N |-> Moved(pat[back[q]], to)]
  BY <1>1, <1>11
<1>13. nul' = {q \in N : back[q] \in nul}
  BY <1>1, <1>11
<1>14. tab' = {to[p] : p \in tab}
  BY <1>1, <1>4
<1> HIDE DEF back
<1>15. \A p \in left : back[to[p]] = p
  BY <1>8, <1>9, <1>11
<1>16. \A q \in N : back[q] \in left /\ to[back[q]] = q
  BY <1>9, <1>11
<1>17. Compresses(to, back, m)
  BY <1>1, <1>4, <1>6, <1>7, <1>8, <1>10, <1>12, <1>13, <1>14, <1>15, <1>16 DEF Compresses
<1> QED
  BY <1>17

LEMMA Step_compress_p ==
  ASSUME IInv, compress_p
  PROVE  IInv'
<1>1. /\ pc = "compress_p" /\ pc' = "loaded"
      /\ UNCHANGED <<flat, i, errors, changed>>
  BY DEF compress_p, Goto
<1>2. TypeOK /\ InStore /\ Left
  BY <1>1 DEF IInv, Phase
<1>3. DOMAIN pat = 0 .. Size - 1
  BY <1>2 DEF InStore
<1>4. /\ Unique(pat, tab) /\ \A p \in tab : Kids(pat[p]) \subseteq tab
      /\ tab \subseteq DOMAIN pat
  BY <1>2 DEF Left
<1>5. PICK to, from, m : Compresses(to, from, m)
  BY Compressed
<1> DEFINE N == 0 .. m - 1
<1>6. m \in Nat \ {0}
  BY <1>5 DEF Compresses
<1>7. /\ \A p \in tab : to[p] \in N
      /\ \A p, q \in tab : to[p] = to[q] => p = q
      /\ \A q \in N : \E p \in tab : to[p] = q
      /\ tab' = {to[p] : p \in tab} /\ nul' \subseteq N
  BY <1>5 DEF Compresses
<1>8. ASSUME NEW q \in N PROVE from[q] \in tab /\ to[from[q]] = q
  BY <1>5 DEF Compresses
<1>9. pat' = [q \in N |-> Moved(pat[from[q]], to)]
  BY <1>5 DEF Compresses
<1>10. \A q \in N : pat'[q] = Moved(pat[from[q]], to)
  BY <1>9
<1>11. \A p \in tab : pat[p] \in Pattern
  BY <1>2, <1>3, <1>4 DEF InStore
<1>12. ASSUME NEW q \in N PROVE pat'[q] \in Pattern /\ Kids(pat'[q]) \subseteq N
  <2>1. PICK r \in Pattern : r = pat[from[q]]
    BY <1>8, <1>11
  <2>2. Kids(r) \subseteq tab
    BY <1>4, <1>8, <2>1
  <2>3. PICK s : s = pat'[q]
    OBVIOUS
  <2>4. Replaced(r, to, s)
    <3>1. \A c \in Kids(r) : to[c] \in Int
      <4>1. \A c \in N : c \in Int
        BY <1>6
      <4> QED
        BY <1>7, <2>2, <4>1
    <3>2. s = Moved(r, to)
      BY <1>10, <2>1, <2>3
    <3> QED
      BY <3>1, <3>2, Moves
  <2>5. s \in Pattern /\ Kids(s) = {to[c] : c \in Kids(r)}
    BY <2>4 DEF Replaced
  <2>6. \A c \in Kids(r) : to[c] \in N
    BY <1>7, <2>2
  <2>7. Kids(s) \subseteq N
    BY <2>5, <2>6
  <2> QED
    BY <2>3, <2>5, <2>7
<1>13. DOMAIN pat' = N /\ Size' = m
  <2>1. DOMAIN pat' = N
    BY <1>9
  <2>2. Cardinality(N) = m
    BY <1>6, FS_Interval
  <2> QED
    BY <2>1, <2>2 DEF Size
<1>14. InStore'
  <2>1. pat' \in [N -> Pattern]
    <3> DEFINE f(q) == Moved(pat[from[q]], to)
    <3>1. \A q \in N : f(q) \in Pattern
      BY <1>10, <1>12
    <3>2. pat' = [q \in N |-> f(q)]
      BY <1>9
    <3> HIDE DEF f
    <3> QED
      BY <3>1, <3>2
  <2> QED
    BY <1>6, <1>13, <2>1 DEF InStore
<1>15. tab' = N
  <2>1. tab' = {to[p] : p \in tab}
    BY <1>7
  <2>2. ASSUME NEW q \in N PROVE q \in tab'
    <3>1. PICK p \in tab : to[p] = q
      BY <1>7
    <3> QED
      BY <2>1, <3>1
  <2>3. ASSUME NEW q \in tab' PROVE q \in N
    BY <1>7, <2>1
  <2> QED
    BY <2>2, <2>3
<1>16. ASSUME NEW q1 \in N, NEW q2 \in N, pat'[q1] = pat'[q2] PROVE q1 = q2
  <2>1. PICK r1 \in Pattern : r1 = pat[from[q1]]
    BY <1>8, <1>11
  <2>2. PICK r2 \in Pattern : r2 = pat[from[q2]]
    BY <1>8, <1>11
  <2>3. Kids(r1) \subseteq tab /\ Kids(r2) \subseteq tab
    BY <1>4, <1>8, <2>1, <2>2
  <2>4. Moved(r1, to) = Moved(r2, to)
    BY <1>10, <1>16, <2>1, <2>2
  <2>5. \A c, d \in Kids(r1) \cup Kids(r2) : to[c] = to[d] => c = d
    BY <1>7, <2>3
  <2>6. r1 = r2
    BY <2>4, <2>5, MovesApart
  <2>7. from[q1] = from[q2]
    BY <1>4, <1>8, <2>1, <2>2, <2>6 DEF Unique
  <2> QED
    BY <1>8, <2>7
<1>17. TypeOK'
  <2>1. tab' \subseteq N /\ nul' \subseteq N
    BY <1>7, <1>15
  <2> QED
    BY <1>1, <1>2, <1>12, <1>13, <2>1 DEF TypeOK
<1>18. Phase'
  <2>1. Unique(pat', tab')
    BY <1>15, <1>16 DEF Unique
  <2> QED
    BY <1>1, <1>13, <1>15, <2>1 DEF Phase
<1> QED
  BY <1>14, <1>17, <1>18 DEF IInv

-----------------------------------------------------------------------------
(* The invariant holds, of every schema.                                   *)
LEMMA Stutter ==
  ASSUME IInv, UNCHANGED vars
  PROVE  IInv'
<1>1. UNCHANGED <<pc, pat, tab, nul, marked, flat, i, errors, xlat, changed, start>>
  BY DEF vars
<1>2. TypeOK' /\ InStore' /\ Size' = Size /\ Stored' = Stored
  BY <1>1 DEF IInv, TypeOK, InStore, Size, Stored
<1>3. (Store(xlat, changed))' = Store(xlat, changed) /\ InFlat' = InFlat
  BY <1>1 DEF Store, InFlat
<1>4. Unswept' = Unswept
  BY <1>1 DEF Unswept, Unique, Referring, Registered
<1>5. Flattening' = Flattening
  BY <1>1 DEF Flattening
<1>6. Flat' = Flat /\ NoRefs' = NoRefs
  BY <1>1, <1>3 DEF Flat, NoRefs
<1>7. Whole' = Whole
  BY <1>1, <1>2 DEF Whole
<1>8. Swept_p' = Swept_p
  BY <1>2, <1>3 DEF Swept_p
<1>9. Settled(Store(xlat, changed))' = Settled(Store(xlat, changed))
  BY <1>3 DEF Settled, Still, Redirected
<1>10. Left' = Left
  BY <1>1 DEF Left, Unique
<1>11. Phase'
  BY <1>1, <1>3, <1>4, <1>5, <1>6, <1>7, <1>8, <1>9, <1>10 DEF IInv, Phase
<1> QED
  BY <1>2, <1>11 DEF IInv

THEOREM Invariance == Spec => []IInv
<1>1. Init => IInv
  BY Initially
<1>2. IInv /\ [Next]_vars => IInv'
  <2> SUFFICES ASSUME IInv, [Next]_vars PROVE IInv'
    OBVIOUS
  <2>1. CASE deref_start
    BY <2>1, Step_deref_start
  <2>2. CASE deref_node
    BY <2>2, Step_deref_node
  <2>3. CASE deref_done
    BY <2>3, Step_deref_done
  <2>4. CASE de_spin
    BY <2>4, Step_de_spin
  <2>5. CASE loops
    BY <2>5, Step_loops
  <2>6. CASE traits
    BY <2>6, Step_traits
  <2>7. CASE mark_p
    BY <2>7, Step_mark_p
  <2>8. CASE sweep_p_init
    BY <2>8, Step_sweep_p_init
  <2>9. CASE sweep_p_round
    BY <2>9, Step_sweep_p_round
  <2>10. CASE sweep_p_done
    BY <2>10, Step_sweep_p_done
  <2>11. CASE unmark_p
    BY <2>11, Step_unmark_p
  <2>12. CASE compress_p
    BY <2>12, Step_compress_p
  <2>13. CASE UNCHANGED vars
    BY <2>13, Stutter
  <2> QED
    BY <2>1, <2>2, <2>3, <2>4, <2>5, <2>6, <2>7, <2>8, <2>9, <2>10, <2>11, <2>12, <2>13 DEF Next
<1> QED
  BY <1>1, <1>2, PTL DEF Spec

(* No pattern refers to one that is not in the store, at any time while a  *)
(* schema is loaded (rnd_fixup, rn_compress_last).                         *)
THEOREM TypesKept == Spec => []TypeOK
<1>1. IInv => TypeOK
  BY DEF IInv
<1> QED
  BY <1>1, Invariance, PTL

(* Whatever the order in which equal patterns are merged, from every       *)
(* pattern in use the redirections lead to one that stays (sweep_p).       *)
THEOREM RedirectionsDone == Spec => []RedirectionsEnd
<1>1. IInv => RedirectionsEnd
  <2> SUFFICES ASSUME IInv, pc = "sweep_p_loop" PROVE RedirectionsEnd
    BY DEF RedirectionsEnd
  <2>1. InStore /\ Swept_p
    BY DEF IInv, Phase
  <2>2. PICK n \in Nat \ {0} : n = Size
    BY <2>1 DEF InStore
  <2>3. pat \in [0 .. n - 1 -> Pattern] /\ Stored = 1 .. n - 1
    BY <2>1, <2>2, Sizes DEF InStore
  <2>4. PICK st : st = Store(xlat, changed)
    OBVIOUS
  <2>5. st.xlat = xlat /\ st.marked = marked
    BY <2>4 DEF Store
  <2>6. Sweeping(n, st) /\ st \in Stores(n)
    BY <2>1, <2>2, <2>4 DEF Swept_p, Settling
  <2>7. xlat \in [1 .. n - 1 -> -1 .. n - 1] /\ Lands(xlat) /\ Ordered(xlat) /\ marked = Roots(xlat)
    BY <2>5, <2>6 DEF Sweeping, Stores
  <2>8. AtEnd
    BY <2>3, <2>7, OrderEnds
  <2>9. \A p \in Stored : xlat[p] # None => p \in Used(xlat)
    BY <2>3, <2>7 DEF Used
  <2>10. \A p \in Roots(xlat) : p \in marked /\ xlat[p] = p
    BY <2>7 DEF Roots
  <2>11. 0 \in 0 .. base_p - 1
    BY DEF base_p
  <2> QED
    BY <2>8, <2>9, <2>10, <2>11 DEF AtEnd, RedirectionsEnd
<1> QED
  BY <1>1, Invariance, PTL

(* When a schema has been loaded equal patterns are one, which comparing   *)
(* patterns by their indices relies on (rn_compress_last).                 *)
THEOREM EqualsMerged == Spec => []Minimal
<1>1. IInv => Minimal
  BY DEF IInv, Phase, Minimal, Unique
<1> QED
  BY <1>1, Invariance, PTL

-----------------------------------------------------------------------------
(* What each pattern of the schema, as parsed, stands for: itself, or what *)
(* a chain of references ends in.  Ideal is the schema in which children   *)
(* are what they stand for.                                                *)
Sense == [p \in DOMAIN schema.pat |-> Meant(p)]
Ideal == [p \in DOMAIN schema.pat |-> Moved(schema.pat[p], Sense)]

(* Patterns of one kind, whose children f does not tell apart.             *)
Alike(a, b, f) ==
  /\ a.t = b.t /\ a.nc = b.nc
  /\ a.t \in Binary \cup Unary => f[a.p1] = f[b.p1]
  /\ a.t \in Binary => f[a.p2] = f[b.p2]

(* Patterns of one kind with the same children.                            *)
AsMeant(a, b) ==
  /\ a.t = b.t /\ a.nc = b.nc
  /\ a.t \in Binary \cup Unary => a.p1 = b.p1
  /\ a.t \in Binary => a.p2 = b.p2

(* A pattern whose children are what T takes those of the other to.        *)
Mirrors(a, b, T) ==
  /\ a.t = b.t /\ a.nc = b.nc
  /\ b.t \in Binary \cup Unary => a.p1 = T[b.p1]
  /\ b.t \in Binary => a.p2 = T[b.p2]

(* The store before it is swept: references are still what they were, and  *)
(* the other patterns mean the same.                                       *)
AsParsed ==
  /\ DOMAIN pat = DOMAIN schema.pat
  /\ \A p \in DOMAIN pat :
       /\ Alike(schema.pat[p], pat[p], Sense)
       /\ pat[p].t = "ref" => pat[p].p1 = schema.pat[p].p1

-----------------------------------------------------------------------------
(* Of two runs of a function from one place, the shorter is the beginning  *)
(* of the longer.                                                          *)
LEMMA SameRun ==
  ASSUME NEW f, NEW x, NEW n \in Nat, NEW m \in Nat, n <= m, NEW g, NEW h,
         Repeated(g, f, x, n), Repeated(h, f, x, m)
  PROVE  g[n] = h[n]
<1> DEFINE K == {k \in 0 .. n : g[k] = h[k]}
<1>1. 0 \in K
  BY DEF Repeated
<1>2. ASSUME NEW k \in 0 .. n - 1, k \in K PROVE k + 1 \in K
  <2>1. k + 1 \in 1 .. n /\ k + 1 \in 1 .. m /\ (k + 1) - 1 = k /\ k + 1 \in 0 .. n
    OBVIOUS
  <2>2. g[k + 1] = f[g[(k + 1) - 1]] /\ h[k + 1] = f[h[(k + 1) - 1]]
    BY <2>1 DEF Repeated
  <2> QED
    BY <1>2, <2>1, <2>2
<1>3. n \in K
  <2> HIDE DEF K
  <2> QED
    BY <1>1, <1>2, UpTo
<1> QED
  BY <1>3

(* A run through a finite set that comes to rest does so within as many    *)
(* steps as the set has members.                                           *)
LEMMA ComesToRest ==
  ASSUME NEW D, IsFiniteSet(D), NEW n, n = Cardinality(D), NEW f, NEW x,
         NEW g \in [0 .. n + 1 -> D], Repeated(g, f, x, n + 1), f[g[n + 1]] = g[n + 1]
  PROVE  g[n] = g[n + 1]
<1>1. n \in Nat
  BY FS_CardinalityType
<1>2. \A k \in 0 .. n : k + 1 \in 0 .. n + 1 /\ g[k + 1] = f[g[k]]
  <2> TAKE k \in 0 .. n
  <2>1. k + 1 \in 1 .. n + 1 /\ (k + 1) - 1 = k
    BY <1>1
  <2>2. g[k + 1] = f[g[(k + 1) - 1]]
    BY <2>1 DEF Repeated
  <2> QED
    BY <1>1, <2>1, <2>2
<1> DEFINE e == g[n + 1]
           h == [k \in 0 .. n |-> g[k]]
<1>3. h \in [0 .. n -> D]
  BY <1>1
<1>4. PICK a \in 0 .. n, b \in 0 .. n : a # b /\ g[a] = g[b]
  <2>1. IsFiniteSet(0 .. n) /\ Cardinality(0 .. n) = n + 1
    BY <1>1, FS_Interval
  <2>2. Cardinality(D) < Cardinality(0 .. n)
    BY <1>1, <2>1
  <2> HIDE DEF h
  <2> DEFINE Z == 0 .. n
  <2> HIDE DEF Z
  <2>3. \E u, v \in 0 .. n : u # v /\ h[u] = h[v]
    <3>1. h \in [Z -> D] /\ IsFiniteSet(Z) /\ Cardinality(D) < Cardinality(Z)
      BY <1>3, <2>1, <2>2 DEF Z
    <3>2. \E u, v \in Z : u # v /\ h[u] = h[v]
      BY <3>1, FS_PigeonHole
    <3> QED
      BY <3>2 DEF Z
  <2> QED
    BY <2>3 DEF h
<1>5. PICK u \in 0 .. n, v \in 0 .. n : u < v /\ g[u] = g[v]
  <2>1. a < b \/ b < a
    BY <1>1, <1>4
  <2> QED
    BY <1>4, <2>1
<1> DEFINE w == v - u
           l == (n + 1) - v
           J == {j \in 0 .. l : g[u + j] = g[v + j]}
<1>6. w \in 1 .. n /\ l \in Nat /\ u + l = (n + 1) - w /\ v + l = n + 1
  BY <1>1, <1>5
<1> HIDE DEF w, l
<1>7. 0 \in J
  BY <1>1, <1>5, <1>6
<1>8. ASSUME NEW j \in 0 .. l - 1, j \in J PROVE j + 1 \in J
  <2>1. /\ u + j \in 0 .. n /\ v + j \in 0 .. n /\ j + 1 \in 0 .. l
        /\ u + (j + 1) = (u + j) + 1 /\ v + (j + 1) = (v + j) + 1
    BY <1>1, <1>5, <1>6
  <2>2. g[(u + j) + 1] = f[g[u + j]] /\ g[(v + j) + 1] = f[g[v + j]]
    BY <1>2, <2>1
  <2> QED
    BY <1>8, <2>1, <2>2
<1>9. g[(n + 1) - w] = e
  <2>1. l \in J
    <3>1. l \in Nat /\ l \in 0 .. l
      BY <1>6
    <3> HIDE DEF J
    <3>2. 0 .. l \subseteq J
      BY <1>7, <1>8, <3>1, UpTo
    <3> QED
      BY <3>1, <3>2
  <2> QED
    BY <1>6, <2>1
<1> HIDE DEF e
<1>9a. f[e] = e
  BY DEF e
<1> DEFINE I == {j \in 0 .. w - 1 : g[((n + 1) - w) + j] = e}
<1>10. 0 \in I
  <2>1. 0 \in 0 .. w - 1 /\ ((n + 1) - w) + 0 = (n + 1) - w
    BY <1>1, <1>6
  <2> QED
    BY <1>9, <2>1
<1>11. ASSUME NEW j \in 0 .. (w - 1) - 1, j \in I PROVE j + 1 \in I
  <2>0. n \in Nat /\ w \in Int /\ j \in Nat /\ j + 1 < w /\ w <= n + 1
    BY <1>1, <1>6
  <2>1. /\ ((n + 1) - w) + j \in 0 .. n /\ j + 1 \in 0 .. w - 1
        /\ ((n + 1) - w) + (j + 1) = (((n + 1) - w) + j) + 1
    BY <2>0
  <2>2. g[(((n + 1) - w) + j) + 1] = f[g[((n + 1) - w) + j]]
    BY <1>2, <2>1
  <2> QED
    BY <1>9a, <1>11, <2>1, <2>2
<1>12. w - 1 \in I
  <2>1. PICK m \in Nat : m = w - 1
    BY <1>6
  <2>2. m \in 0 .. m
    OBVIOUS
  <2> HIDE DEF I
  <2>3. \A j \in 0 .. m - 1 : j \in I => j + 1 \in I
    BY <1>11, <2>1
  <2>4. 0 .. m \subseteq I
    BY <1>10, <2>3, UpTo
  <2> QED
    BY <2>1, <2>2, <2>4
<1>13. ((n + 1) - w) + (w - 1) = n
  BY <1>1, <1>6
<1> QED
  BY <1>12, <1>13 DEF e

-----------------------------------------------------------------------------
(* One reference back.                                                     *)
Past == [q \in DOMAIN schema.pat |-> IF schema.pat[q].t = "ref" THEN schema.pat[q].p1 ELSE q]

LEMMA Parsed ==
  ASSUME schema \in Schemas
  PROVE  /\ IsFiniteSet(DOMAIN schema.pat) /\ Cardinality(DOMAIN schema.pat) \in Nat
         /\ schema.pat \in [0 .. Cardinality(DOMAIN schema.pat) - 1 -> Pattern]
         /\ Past \in [DOMAIN schema.pat -> DOMAIN schema.pat] /\ Keeps(Past, DOMAIN schema.pat)
         /\ schema.start \in DOMAIN schema.pat /\ schema.pat[0] = Empty
         /\ \A p \in DOMAIN schema.pat : Kids(schema.pat[p]) \subseteq DOMAIN schema.pat
<1>1. IsSchema(schema)
  BY SchemaAssumption
<1>2. IsFiniteSet(DOMAIN schema.pat) /\ Cardinality(DOMAIN schema.pat) \in Nat
  BY <1>1, FS_CardinalityType DEF IsSchema
<1>3. Past \in [DOMAIN schema.pat -> DOMAIN schema.pat] /\ Keeps(Past, DOMAIN schema.pat)
  BY <1>1 DEF IsSchema, Past, Keeps
<1>4. \A p \in DOMAIN schema.pat : Kids(schema.pat[p]) \subseteq DOMAIN schema.pat
  <2> TAKE p \in DOMAIN schema.pat
  <2>1. CASE schema.pat[p].t = "ref"
    BY <2>1 DEF Kids, Binary, Unary
  <2>2. CASE schema.pat[p].t # "ref"
    BY <1>1, <2>2 DEF IsSchema
  <2> QED
    BY <2>1, <2>2
<1> QED
  BY <1>1, <1>2, <1>3, <1>4 DEF IsSchema

(* What a pattern stands for is found by going back as often as one likes, *)
(* once it is none that is a reference.                                    *)
LEMMA SenseOnes ==
  ASSUME schema \in Schemas
  PROVE  /\ Sense \in [DOMAIN schema.pat -> DOMAIN schema.pat]
         /\ \A p \in DOMAIN schema.pat : schema.pat[p].t # "ref" => Sense[p] = p
<1> DEFINE D == DOMAIN schema.pat
           n == Cardinality(DOMAIN schema.pat)
<1>1. /\ n \in Nat /\ Keeps(Past, D)
      /\ \A p \in D : schema.pat[p].t # "ref" => Past[p] = p
  BY Parsed DEF Past
<1>2. \A p \in D : Sense[p] = Iterate(Past, p, n)
  BY DEF Sense, Meant, Past
<1> HIDE DEF n, D
<1>3. ASSUME NEW S, Keeps(Past, S), NEW p \in S, p \in D PROVE Sense[p] \in S
  <2>1. PICK g \in Results(S, n) : Iterate(Past, p, n) = g[n] /\ Repeated(g, Past, p, n)
    BY <1>1, <1>3, Iterated
  <2>2. g[n] \in S
    BY <1>1, <2>1 DEF Results
  <2> QED
    BY <1>2, <1>3, <2>1, <2>2
<1>4. ASSUME NEW p \in D PROVE Sense[p] \in D
  BY <1>1, <1>3
<1>5. ASSUME NEW p \in D, schema.pat[p].t # "ref" PROVE Sense[p] = p
  <2>1. Keeps(Past, {p})
    BY <1>1, <1>5 DEF Keeps
  <2>2. Sense[p] \in {p}
    BY <1>3, <2>1
  <2> QED
    BY <2>2
<1>6. Sense \in [D -> D]
  BY <1>4 DEF Sense, D
<1> QED
  BY <1>5, <1>6 DEF D

(* de does not change what a pattern stands for, if it ends.               *)
LEMMA ChainMeans ==
  ASSUME schema \in Schemas, AsParsed, NEW c \in DOMAIN pat, Ends(c)
  PROVE  Chain(c) \in DOMAIN pat /\ Sense[Chain(c)] = Sense[c]
<1> DEFINE D == DOMAIN pat
           n == Cardinality(D)
           Follow == [p \in D |-> IF pat[p].t # "ref" \/ p = c THEN p ELSE pat[p].p1]
           e == Iterate(Follow, pat[c].p1, n)
<1>1. /\ D = DOMAIN schema.pat /\ IsFiniteSet(D) /\ n \in Nat
      /\ Past \in [D -> D] /\ Keeps(Past, D)
      /\ Sense \in [D -> D] /\ \A p \in D : schema.pat[p].t # "ref" => Sense[p] = p
  BY Parsed, SenseOnes DEF AsParsed
<1>2. \A p \in D : Past[p] = IF pat[p].t = "ref" THEN pat[p].p1 ELSE p
  BY DEF Past, AsParsed, Alike
<1>3. \A p \in D : Follow[p] = IF p = c THEN c ELSE Past[p]
  BY <1>2
<1>4. CASE pat[c].t # "ref"
  BY <1>4 DEF Chain
<1>5. CASE pat[c].t = "ref"
  <2>1. Past[c] \in D /\ pat[c].p1 = Past[c]
    BY <1>1, <1>2, <1>5
  <2>2. Chain(c) = CASE pat[c].t # "ref" -> c
                     [] pat[c].t = "ref" /\ (pat[e].t # "ref" \/ e = c) -> e
                     [] OTHER -> None
    BY DEF Chain
  <2> HIDE DEF e
  <2>3. Chain(c) = e /\ (pat[e].t # "ref" \/ e = c)
    BY <1>5, <2>2 DEF Ends
  <2>4. Keeps(Follow, D)
    <3> HIDE DEF Follow
    <3>1. \A p \in D : Past[p] \in D
      BY <1>1
    <3> QED
      BY <1>3, <3>1 DEF Keeps
  <2> HIDE DEF Follow, n, D
  <2>5. PICK x \in D : x = Past[c]
    BY <2>1
  <2>6. PICK d \in Results(D, n) : Iterate(Follow, x, n) = d[n] /\ Repeated(d, Follow, x, n)
    BY <1>1, <2>4, Iterated
  <2>7. n + 1 \in Nat
    BY <1>1
  <2>8. PICK g \in Results(D, n + 1) : Iterate(Past, c, n + 1) = g[n + 1] /\ Repeated(g, Past, c, n + 1)
    BY <1>1, <2>7, Iterated DEF D
  <2>9. PICK s \in Results(D, n) : Iterate(Past, c, n) = s[n] /\ Repeated(s, Past, c, n)
    BY <1>1, Iterated DEF D
  <2>10. s[n] = g[n]
    BY <1>1, <2>7, <2>8, <2>9, SameRun
  <2>11. Sense[c] = g[n]
    <3>1. Sense[c] = Iterate(Past, c, n)
      BY <1>1 DEF Sense, Meant, Past, D, n
    <3> QED
      BY <2>9, <2>10, <3>1
  <2>12. e = d[n]
    BY <2>1, <2>5, <2>6 DEF e
  <2>13. d \in [0 .. n -> D] /\ g \in [0 .. n + 1 -> D] /\ n \in 0 .. n /\ n \in 0 .. n + 1 /\ n + 1 \in 0 .. n + 1
    BY <1>1, <2>6, <2>8 DEF Results
  <2> DEFINE K == {k \in 0 .. n : d[k] = g[k + 1] \/ d[k] = c}
  <2>14. 0 \in K
    <3>1. 1 \in 1 .. n + 1 /\ 0 + 1 = 1 /\ 1 - 1 = 0 /\ 0 \in 0 .. n
      BY <1>1
    <3>2. g[1] = Past[g[1 - 1]] /\ g[0] = c /\ d[0] = x
      BY <2>6, <2>8, <3>1 DEF Repeated
    <3> QED
      BY <2>5, <3>1, <3>2
  <2>15. ASSUME NEW k \in 0 .. n - 1, k \in K PROVE k + 1 \in K
    <3>1. /\ k + 1 \in 1 .. n /\ (k + 1) - 1 = k /\ k + 1 \in 0 .. n /\ k \in 0 .. n
          /\ (k + 1) + 1 \in 1 .. n + 1 /\ ((k + 1) + 1) - 1 = k + 1
      BY <1>1
    <3>2. d[k + 1] = Follow[d[(k + 1) - 1]] /\ g[(k + 1) + 1] = Past[g[((k + 1) + 1) - 1]]
      BY <2>6, <2>8, <3>1 DEF Repeated
    <3>3. d[k + 1] = Follow[d[k]] /\ g[(k + 1) + 1] = Past[g[k + 1]]
      BY <3>1, <3>2
    <3>4. d[k + 1] = IF d[k] = c THEN c ELSE Past[d[k]]
      BY <1>3, <2>13, <3>1, <3>3
    <3> QED
      BY <2>15, <3>1, <3>3, <3>4
  <2>16. n \in K
    <3> HIDE DEF K
    <3> QED
      BY <1>1, <2>13, <2>14, <2>15, UpTo
  <2>17. CASE e = c
    BY <1>1, <2>3, <2>17 DEF D
  <2>18. CASE e # c
    <3>1. e = g[n + 1] /\ e \in D
      BY <2>12, <2>13, <2>16, <2>18
    <3>2. pat[e].t # "ref"
      BY <2>3, <2>18
    <3>3. Past[e] = e /\ Sense[e] = e
      BY <1>1, <1>2, <3>1, <3>2 DEF AsParsed, Alike, D
    <3>4. g[n] = g[n + 1]
      <4>1. Past[g[n + 1]] = g[n + 1]
        BY <3>1, <3>3
      <4>2. n = Cardinality(D)
        BY DEF n
      <4> QED
        BY <1>1, <2>8, <2>13, <4>1, <4>2, ComesToRest
    <3> QED
      BY <2>3, <2>11, <3>1, <3>3, <3>4 DEF D
  <2> QED
    BY <2>17, <2>18
<1> QED
  BY <1>4, <1>5

-----------------------------------------------------------------------------
(* The invariant.  Of the patterns U that the start pattern, as parsed,    *)
(* leads to: they lead to each other, and to no fewer.                     *)
Generated(U) ==
  /\ Sense[schema.start] \in U
  /\ \A p \in U : Kids(Ideal[p]) \subseteq U
  /\ \A A \in SUBSET U :
       Sense[schema.start] \in A /\ (\A p \in A : Kids(Ideal[p]) \subseteq A) => U \ {0} \subseteq A

(* The flags n of the patterns F are those that nullable patterns have.    *)
FlagsOf(F, n) ==
  /\ \A p \in F : NullableBy(Ideal, p, n) => p \in n
  /\ \A A \in SUBSET F : (\A p \in F : NullableBy(Ideal, p, A) => p \in A) => n \cap F \subseteq A

(* R takes every pattern in use to the one that stays for it, which is of  *)
(* the kind of the pattern as parsed, with children that stay for the same.*)
Represents(pt, x, R) ==
  /\ R \in [{0} \cup Used(x) -> {0} \cup Roots(x)]
  /\ \A p \in {0} \cup Roots(x) : R[p] = p
  /\ \A p \in Used(x) : R[x[p]] = R[p]
  /\ \A p \in {0} \cup Used(x) : Alike(Ideal[p], pt[R[p]], R)

(* The pattern that stays for s stays for the start pattern.               *)
Standing(pt, x, s) == \E R : Represents(pt, x, R) /\ R[s] = R[Sense[schema.start]]

(* The start pattern as parsed and the present one are one.                *)
Begun == start = schema.start /\ (flat # <<>> => Sense[flat[1]] = Sense[schema.start])

InUse(U) == 0 \in U /\ U \subseteq DOMAIN schema.pat /\ Generated(U) /\ FlagsOf(U, nul)

Unmerged(U) ==
  /\ start = Sense[schema.start]
  /\ \A p \in U : Alike(Ideal[p], pat[p], [c \in U |-> c])

Merged_p == start \in {0} \cup Used(xlat) /\ Standing(pat, xlat, start)

(* After it: T takes every pattern in use to the one left for it, fl being *)
(* the flags they had before.                                              *)
Carries(U, T, fl) ==
  /\ 0 \in U /\ U \subseteq DOMAIN schema.pat /\ Generated(U) /\ FlagsOf(U, fl)
  /\ T \in [U -> DOMAIN pat] /\ T[0] = 0 /\ T[Sense[schema.start]] = start
  /\ nul \subseteq DOMAIN pat
  /\ \A q \in DOMAIN pat : \E p \in U : T[p] = q /\ (q \in nul <=> p \in fl)
  /\ \A p \in U : Mirrors(pat[T[p]], Ideal[p], T)

Carried == \E U, T, fl : Carries(U, T, fl)

MPhase ==
  /\ pc \in {"deref", "loops", "traits", "mark_p"} => AsParsed
  /\ pc \in {"deref", "loops"} => Begun
  /\ pc \in {"deref", "loops", "traits"} => nul = nullables(schema.pat, Patterns(schema), {})
  /\ pc \in {"traits", "mark_p"} => Sense[start] = Sense[schema.start]
  /\ pc = "mark_p" => FlagsOf({0} \cup InFlat, nul)
  /\ pc = "sweep_p" => InUse({0} \cup marked) /\ Unmerged({0} \cup marked)
  /\ pc \in {"sweep_p_loop", "unmark_p", "compress_p"} => InUse({0} \cup Used(xlat)) /\ Merged_p
  /\ pc = "compress_p" => tab = {0} \cup Roots(xlat) /\ Used(xlat) \subseteq DOMAIN pat
  /\ pc = "loaded" => (start # None => Carried)

MInv == schema \in Schemas /\ MPhase

-----------------------------------------------------------------------------
(* Only the store changes, not what it was made from.                      *)
LEMMA SchemaSame ==
  ASSUME UNCHANGED schema
  PROVE  Sense' = Sense /\ Ideal' = Ideal /\ Past' = Past
<1>1. Sense' = Sense
  BY DEF Sense, Meant
<1> QED
  BY <1>1 DEF Ideal, Past

(* What becomes of the children of a pattern.                              *)
LEMMA MovedFields ==
  ASSUME NEW r \in Pattern, NEW to, NEW s, s = Moved(r, to)
  PROVE  /\ s.t = r.t /\ s.nc = r.nc
         /\ r.t \in Binary \cup Unary => s.p1 = to[r.p1]
         /\ r.t \in Binary => s.p2 = to[r.p2]
<1>1. PICK a : a = IF r.t \in Binary \cup Unary THEN to[r.p1] ELSE r.p1
  OBVIOUS
<1>2. PICK b : b = IF r.t \in Binary THEN to[r.p2] ELSE r.p2
  OBVIOUS
<1>3. s = [r EXCEPT !.p1 = a, !.p2 = b]
  BY <1>1, <1>2 DEF Moved
<1>4. r = [t |-> r.t, nc |-> r.nc, p1 |-> r.p1, p2 |-> r.p2]
  BY DEF Pattern
<1>5. s = [t |-> r.t, nc |-> r.nc, p1 |-> a, p2 |-> b]
  BY <1>3, <1>4
<1> QED
  BY <1>1, <1>2, <1>5

LEMMA KidsOf ==
  ASSUME NEW r
  PROVE  /\ r.t \in Binary => Kids(r) = {r.p1, r.p2}
         /\ r.t \in Unary => Kids(r) = {r.p1}
         /\ r.t \notin Binary \cup Unary => Kids(r) = {}
BY DEF Kids, Binary, Unary

(* The children of a pattern of the schema that are not references are     *)
(* patterns of the schema, as is what the others stand for.                *)
LEMMA IdealOnes ==
  ASSUME schema \in Schemas, NEW p \in DOMAIN schema.pat
  PROVE  /\ DOMAIN Ideal = DOMAIN schema.pat
         /\ Ideal[p].t = schema.pat[p].t /\ Ideal[p].nc = schema.pat[p].nc
         /\ schema.pat[p].t \in Binary \cup Unary => Ideal[p].p1 = Sense[schema.pat[p].p1]
         /\ schema.pat[p].t \in Binary => Ideal[p].p2 = Sense[schema.pat[p].p2]
         /\ Kids(Ideal[p]) \subseteq DOMAIN schema.pat
<1>1. schema.pat[p] \in Pattern /\ Kids(schema.pat[p]) \subseteq DOMAIN schema.pat
  BY Parsed
<1>2. Ideal[p] = Moved(schema.pat[p], Sense) /\ DOMAIN Ideal = DOMAIN schema.pat
  BY DEF Ideal
<1>3. PICK r \in Pattern : r = schema.pat[p]
  BY <1>1
<1>4. PICK s : s = Ideal[p]
  OBVIOUS
<1>5. s = Moved(r, Sense)
  BY <1>2, <1>3, <1>4
<1>6. /\ s.t = r.t /\ s.nc = r.nc
      /\ r.t \in Binary \cup Unary => s.p1 = Sense[r.p1]
      /\ r.t \in Binary => s.p2 = Sense[r.p2]
  BY <1>5, MovedFields
<1>7. Kids(s) \subseteq DOMAIN schema.pat
  <2>1. \A c \in Kids(r) : Sense[c] \in DOMAIN schema.pat
    BY <1>1, <1>3, SenseOnes
  <2>2. Kids(s) \subseteq {Sense[c] : c \in Kids(r)}
    <3>1. CASE r.t \in Binary
      BY <1>6, <3>1, KidsOf
    <3>2. CASE r.t \in Unary
      BY <1>6, <3>2, KidsOf
    <3>3. CASE r.t \notin Binary \cup Unary
      BY <1>6, <3>3, KidsOf
    <3> QED
      BY <3>1, <3>2, <3>3
  <2> QED
    BY <2>1, <2>2
<1> QED
  BY <1>2, <1>3, <1>4, <1>6, <1>7

-----------------------------------------------------------------------------
(* The steps of deref.                                                     *)
LEMMA Begins ==
  ASSUME Init
  PROVE  MInv
<1>1. /\ schema \in Schemas /\ pc = "deref" /\ pat = schema.pat /\ start = schema.start
      /\ nul = nullables(schema.pat, Patterns(schema), {}) /\ flat = <<>>
  BY DEF Init
<1>2. AsParsed
  BY <1>1 DEF AsParsed, Alike
<1>3. Begun
  BY <1>1 DEF Begun
<1> QED
  BY <1>1, <1>2, <1>3 DEF MInv, MPhase

LEMMA AsParsedKept ==
  ASSUME AsParsed, UNCHANGED <<schema, pat>>
  PROVE  AsParsed'
BY SchemaSame DEF AsParsed, Alike

LEMMA M_deref_start ==
  ASSUME IInv, MInv, deref_start
  PROVE  MInv'
<1>1. /\ pc = "deref" /\ flat = <<>>
      /\ UNCHANGED <<schema, pat, tab, nul, i, errors, changed, start, xlat>>
  BY DEF deref_start
<1>2. /\ schema \in Schemas /\ AsParsed /\ Begun
      /\ nul = nullables(schema.pat, Patterns(schema), {})
  BY <1>1 DEF MInv, MPhase
<1>3. AsParsed' /\ Sense' = Sense
  BY <1>1, <1>2, AsParsedKept, SchemaSame
<1>4. Begun'
  <2>1. CASE ~Ends(start)
    <3>1. flat' = flat
      BY <2>1 DEF deref_start
    <3> QED
      BY <1>1, <1>2, <1>3, <3>1 DEF Begun
  <2>2. CASE Ends(start)
    <3>1. flat' = <<de(start)>>
      BY <2>2 DEF deref_start
    <3>2. start \in DOMAIN pat
      BY <1>1 DEF IInv, Phase, Unswept
    <3>3. Sense[Chain(start)] = Sense[start]
      BY <1>2, <2>2, <3>2, ChainMeans
    <3>4. flat'[1] = Chain(start)
      BY <3>1 DEF de
    <3> QED
      BY <1>1, <1>2, <1>3, <3>3, <3>4 DEF Begun
  <2> QED
    BY <2>1, <2>2
<1>5. nul' = nullables(schema'.pat, Patterns(schema'), {})
  BY <1>1, <1>2
<1>6. pc' \in {"deref", "spinning"}
  BY <1>1 DEF deref_start, GoRound, Goto
<1> QED
  BY <1>1, <1>2, <1>3, <1>4, <1>5, <1>6 DEF MInv, MPhase

LEMMA M_deref_done ==
  ASSUME IInv, MInv, deref_done
  PROVE  MInv'
<1>1. /\ pc = "deref" /\ pc' = "loops"
      /\ UNCHANGED <<schema, pat, nul, flat, start>>
  BY DEF deref_done, Goto
<1>2. /\ schema \in Schemas /\ AsParsed /\ Begun
      /\ nul = nullables(schema.pat, Patterns(schema), {})
  BY <1>1 DEF MInv, MPhase
<1>3. AsParsed' /\ Sense' = Sense
  BY <1>1, <1>2, AsParsedKept, SchemaSame
<1>4. Begun'
  BY <1>1, <1>2, <1>3 DEF Begun
<1>5. nul' = nullables(schema'.pat, Patterns(schema'), {})
  BY <1>1, <1>2
<1> QED
  BY <1>1, <1>2, <1>3, <1>4, <1>5 DEF MInv, MPhase

LEMMA M_de_spin ==
  ASSUME IInv, MInv, de_spin
  PROVE  MInv'
BY DEF MInv, MPhase, de_spin

LEMMA M_loops ==
  ASSUME IInv, MInv, loops
  PROVE  MInv'
<1>1. /\ pc = "loops"
      /\ UNCHANGED <<schema, pat, nul, flat>>
  BY DEF loops
<1>2. /\ schema \in Schemas /\ AsParsed /\ Begun
      /\ nul = nullables(schema.pat, Patterns(schema), {})
      /\ flat # <<>>
  BY <1>1 DEF IInv, Phase, Flat, MInv, MPhase
<1>3. AsParsed' /\ Sense' = Sense
  BY <1>1, <1>2, AsParsedKept, SchemaSame
<1>4. \/ pc' = "rejected"
      \/ pc' = "traits" /\ start' = flat[1]
  BY DEF loops, Goto
<1>5. nul' = nullables(schema'.pat, Patterns(schema'), {})
  BY <1>1, <1>2
<1>6. pc' = "traits" => Sense'[start'] = Sense'[schema'.start]
  BY <1>1, <1>2, <1>3, <1>4 DEF Begun
<1> QED
  BY <1>1, <1>2, <1>3, <1>4, <1>5, <1>6 DEF MInv, MPhase

(* A reference replaced by what de finds stands for the same.              *)
LEMMA DereferencedAlike ==
  ASSUME schema \in Schemas, InStore, AsParsed, NEW p \in DOMAIN pat,
         Kids(pat[p]) \subseteq DOMAIN pat, \A c \in Kids(pat[p]) : Ends(c),
         NEW new, new = Dereferenced(p)
  PROVE  /\ DOMAIN new = DOMAIN pat
         /\ \A r \in DOMAIN pat :
              /\ Alike(schema.pat[r], new[r], Sense)
              /\ new[r].t = "ref" => new[r].p1 = schema.pat[r].p1
<1>1. PICK r \in Pattern : r = pat[p]
  BY DEF InStore
<1>2. PICK to : to = [c \in Int |-> de(c)]
  OBVIOUS
<1>3. PICK s : s = Moved(r, to)
  OBVIOUS
<1>4. /\ s.t = r.t /\ s.nc = r.nc
      /\ r.t \in Binary \cup Unary => s.p1 = to[r.p1]
      /\ r.t \in Binary => s.p2 = to[r.p2]
  BY <1>3, MovedFields
<1>5. new = [pat EXCEPT ![p] = s]
  <2>1. r.p1 \in Int /\ r.p2 \in Int
    BY DEF Pattern
  <2>2. to[r.p1] = de(r.p1) /\ to[r.p2] = de(r.p2)
    BY <1>2, <2>1
  <2> QED
    BY <1>1, <1>3, <2>2 DEF Dereferenced, Moved
<1>6. ASSUME NEW c \in Kids(r) PROVE Sense[to[c]] = Sense[c]
  <2>1. c \in DOMAIN pat /\ Ends(c)
    BY <1>1, <1>6
  <2>2. c \in Int
    BY <2>1 DEF InStore
  <2>3. to[c] = Chain(c)
    BY <1>2, <2>2 DEF de
  <2> QED
    BY <2>1, <2>3, ChainMeans
<1>7. DOMAIN new = DOMAIN pat /\ new[p] = s /\ \A q \in DOMAIN pat : q # p => new[q] = pat[q]
  BY <1>5
<1>8. Alike(schema.pat[p], s, Sense) /\ (s.t = "ref" => s.p1 = schema.pat[p].p1)
  <2>1. Alike(schema.pat[p], r, Sense) /\ (r.t = "ref" => r.p1 = schema.pat[p].p1)
    BY <1>1 DEF AsParsed
  <2>2. CASE r.t \in Binary
    <3>1. Sense[s.p1] = Sense[r.p1] /\ Sense[s.p2] = Sense[r.p2]
      BY <1>4, <1>6, <2>2, KidsOf
    <3>2. r.t # "ref"
      BY <2>2 DEF Binary
    <3> QED
      BY <1>4, <2>1, <3>1, <3>2 DEF Alike
  <2>3. CASE r.t \in Unary
    <3>1. Sense[s.p1] = Sense[r.p1]
      BY <1>4, <1>6, <2>3, KidsOf
    <3>2. r.t # "ref" /\ r.t \notin Binary
      BY <2>3 DEF Binary, Unary
    <3> QED
      BY <1>4, <2>1, <3>1, <3>2 DEF Alike
  <2>4. CASE r.t \notin Binary \cup Unary
    <3>1. s = r
      <4>1. s = [r EXCEPT !.p1 = r.p1, !.p2 = r.p2]
        BY <1>3, <2>4 DEF Moved
      <4>2. r = [t |-> r.t, nc |-> r.nc, p1 |-> r.p1, p2 |-> r.p2]
        BY DEF Pattern
      <4> QED
        BY <4>1, <4>2
    <3> QED
      BY <2>1, <3>1
  <2> QED
    BY <2>2, <2>3, <2>4
<1> QED
  BY <1>7, <1>8 DEF AsParsed

LEMMA M_deref_node ==
  ASSUME IInv, MInv, deref_node
  PROVE  MInv'
<1> DEFINE p == flat[i + 1]
           refs == {c \in Kids(pat[p]) : pat[c].t = "ref"}
           new == Dereferenced(p)
<1>1. /\ pc = "deref" /\ i < Len(flat)
      /\ UNCHANGED <<schema, nul, errors, changed, start, xlat>>
  BY DEF deref_node
<1>2. Unswept /\ Flattening /\ TypeOK /\ InStore
  BY <1>1 DEF IInv, Phase
<1>3. flat \in Seq(DOMAIN pat) /\ i \in 0 .. Len(flat) /\ i + 1 \in 1 .. Len(flat) /\ Len(flat) \in Nat
  BY <1>1, <1>2 DEF Unswept, TypeOK
<1>4. p \in DOMAIN pat /\ flat # <<>> /\ 1 \in 1 .. Len(flat)
  BY <1>3
<1>5. /\ schema \in Schemas /\ AsParsed /\ Begun
      /\ nul = nullables(schema.pat, Patterns(schema), {})
  BY <1>1 DEF MInv, MPhase
<1>6. Sense' = Sense
  BY <1>1, SchemaSame
<1>7. nul' = nullables(schema'.pat, Patterns(schema'), {})
  BY <1>1, <1>5
<1>8. CASE \E c \in refs : ~Ends(c)
  <2>1. pc' = "spinning"
    BY <1>8 DEF deref_node, GoRound, Goto
  <2> QED
    BY <1>1, <1>5, <2>1 DEF MInv, MPhase
<1>9. CASE ~\E c \in refs : ~Ends(c)
  <2>1. pat' = new /\ flat' = Flattened(new[p]).flat /\ pc' = "deref"
    BY <1>1, <1>9 DEF deref_node
  <2>2. Kids(pat[p]) \subseteq DOMAIN pat
    BY <1>2, <1>4 DEF TypeOK
  <2>3. \A c \in Kids(pat[p]) : Ends(c)
    <3> TAKE c \in Kids(pat[p])
    <3>1. CASE pat[c].t = "ref"
      BY <1>9, <3>1
    <3>2. CASE pat[c].t # "ref"
      <4>1. Chain(c) = c
        BY <3>2 DEF Chain
      <4>2. c # None
        BY <1>2, <2>2 DEF InStore, None
      <4> QED
        BY <4>1, <4>2 DEF Ends
    <3> QED
      BY <3>1, <3>2
  <2> HIDE DEF p, new
  <2>4. /\ DOMAIN new = DOMAIN pat
        /\ \A r \in DOMAIN pat :
             /\ Alike(schema.pat[r], new[r], Sense)
             /\ new[r].t = "ref" => new[r].p1 = schema.pat[r].p1
    <3>1. new = Dereferenced(p)
      BY DEF new
    <3> QED
      BY <1>2, <1>4, <1>5, <2>2, <2>3, <3>1, DereferencedAlike
  <2>5. AsParsed'
    BY <1>1, <1>5, <1>6, <2>1, <2>4 DEF AsParsed, Alike
  <2>6. flat'[1] = flat[1] /\ flat' # <<>>
    <3>1. PICK st : st = [flat |-> flat, marked |-> marked]
      OBVIOUS
    <3>2. PICK nx : nx = Flattened(new[p])
      OBVIOUS
    <3>3. PICK S : S = DOMAIN pat
      OBVIOUS
    <3>4. PICK r : r = new[p]
      OBVIOUS
    <3>5. Kids(r) \subseteq S
      <4>1. p \in DOMAIN pat' /\ pat'[p] = r
        BY <1>4, <2>1, <2>4, <3>4
      <4>2. TypeOK' /\ DOMAIN pat' = S
        BY <2>1, <2>4, <3>3, Step_deref_node DEF IInv
      <4> QED
        BY <4>1, <4>2 DEF TypeOK
    <3>6. Worklist(st, S) /\ nx = Flattened(r)
      BY <1>2, <3>1, <3>2, <3>3, <3>4 DEF Flattening
    <3>7. Worklist(nx, S) /\ Grows(st, nx)
      BY <3>1, <3>5, <3>6, FlattensAll
    <3>8. st.flat = flat /\ flat' = nx.flat
      BY <2>1, <3>1, <3>2
    <3>9. Len(flat) <= Len(flat') /\ flat'[1] = flat[1] /\ flat' \in Seq(S)
      BY <1>4, <3>7, <3>8 DEF Grows, Worklist
    <3>10. flat' # <<>>
      BY <1>3, <1>4, <3>9
    <3> QED
      BY <3>9, <3>10
  <2>7. Begun'
    BY <1>1, <1>4, <1>5, <1>6, <2>6 DEF Begun
  <2> QED
    BY <1>1, <1>5, <1>7, <2>1, <2>5, <2>7 DEF MInv, MPhase
<1> QED
  BY <1>8, <1>9

-----------------------------------------------------------------------------
(* A set to which only members of ps can be added has all it can get after *)
(* as many rounds as ps has members, and is then the least one closed.     *)
LEMMA Grown ==
  ASSUME NEW D, IsFiniteSet(D), NEW ps \in SUBSET D, NEW f,
         \A A \in SUBSET D : f[A] \in SUBSET D /\ A \subseteq f[A] /\ f[A] \subseteq A \cup ps,
         NEW x \in SUBSET D, NEW r, r = Iterate(f, x, Cardinality(ps))
  PROVE  /\ r \in SUBSET D /\ x \subseteq r /\ f[r] = r
         /\ \A B \in SUBSET D : x \subseteq B /\ (\A A \in SUBSET B : f[A] \subseteq B) => r \subseteq B
<1> DEFINE n == Cardinality(ps)
           P == SUBSET D
<1>1. IsFiniteSet(ps) /\ n \in Nat
  BY FS_Subset, FS_CardinalityType
<1>2. Keeps(f, P) /\ x \in P
  BY DEF Keeps
<1> HIDE DEF n, P
<1>3. PICK g \in Results(P, n) : Iterate(f, x, n) = g[n] /\ Repeated(g, f, x, n)
  BY <1>1, <1>2, Iterated
<1>4. g \in [0 .. n -> P] /\ g[0] = x /\ r = g[n] /\ 0 \in 0 .. n /\ n \in 0 .. n
  BY <1>1, <1>3 DEF Results, Repeated, n
<1>5. \A k \in 0 .. n - 1 : k + 1 \in 0 .. n /\ k \in 0 .. n /\ g[k + 1] = f[g[k]]
  <2> TAKE k \in 0 .. n - 1
  <2>1. k + 1 \in 1 .. n /\ (k + 1) - 1 = k
    BY <1>1
  <2>2. g[k + 1] = f[g[(k + 1) - 1]]
    BY <1>3, <2>1 DEF Repeated
  <2> QED
    BY <1>1, <2>1, <2>2
<1>6. \A A : IsFiniteSet(A \cap ps) /\ Cardinality(A \cap ps) \in Nat
  <2> TAKE A
  <2>1. A \cap ps \in SUBSET ps
    OBVIOUS
  <2> QED
    BY <1>1, <2>1, FS_Subset, FS_CardinalityType
<1> DEFINE K == {k \in 0 .. n : x \subseteq g[k] /\ (f[g[k]] = g[k] \/ Cardinality(g[k] \cap ps) >= k)}
<1>7. 0 \in K
  <2>1. Cardinality(g[0] \cap ps) >= 0
    BY <1>6
  <2> QED
    BY <1>4, <2>1
<1>8. ASSUME NEW k \in 0 .. n - 1, k \in K PROVE k + 1 \in K
  <2>1. k + 1 \in 0 .. n /\ k \in 0 .. n /\ g[k + 1] = f[g[k]] /\ g[k] \in SUBSET D /\ g[k + 1] \in SUBSET D
    BY <1>4, <1>5 DEF P
  <2>2. g[k] \subseteq g[k + 1] /\ g[k + 1] \subseteq g[k] \cup ps /\ x \subseteq g[k + 1]
    BY <1>8, <2>1
  <2>3. CASE f[g[k]] = g[k]
    BY <2>1, <2>2, <2>3
  <2>4. CASE f[g[k]] # g[k] /\ Cardinality(g[k] \cap ps) >= k
    <3>1. PICK a : a \in g[k + 1] /\ a \notin g[k]
      BY <2>1, <2>2, <2>4
    <3>2. PICK A : A = g[k] \cap ps
      OBVIOUS
    <3>3. PICK B : B = g[k + 1] \cap ps
      OBVIOUS
    <3>4. A \in SUBSET B /\ a \in B /\ a \notin A
      BY <2>2, <3>1, <3>2, <3>3
    <3>5. IsFiniteSet(B) /\ Cardinality(A) \in Nat /\ Cardinality(B) \in Nat
      BY <1>6, <3>2, <3>3
    <3>6. Cardinality(A) <= Cardinality(B) /\ Cardinality(A) # Cardinality(B)
      BY <3>4, <3>5, FS_Subset
    <3>7. Cardinality(B) >= k + 1
      BY <2>4, <3>2, <3>5, <3>6
    <3> QED
      BY <2>1, <2>2, <3>3, <3>7
  <2> QED
    BY <1>8, <2>3, <2>4
<1>9. n \in K
  <2> HIDE DEF K
  <2> QED
    BY <1>1, <1>4, <1>7, <1>8, UpTo
<1>10. x \subseteq g[n] /\ f[g[n]] = g[n]
  <2>1. CASE f[g[n]] # g[n] /\ Cardinality(g[n] \cap ps) >= n
    <3>1. PICK B : B = g[n] \cap ps
      OBVIOUS
    <3>2. B \in SUBSET ps /\ Cardinality(B) \in Nat /\ Cardinality(B) >= Cardinality(ps)
      BY <1>6, <2>1, <3>1 DEF n
    <3>3. Cardinality(B) <= Cardinality(ps) /\ Cardinality(ps) \in Nat
      BY <1>1, <3>2, FS_Subset DEF n
    <3>4. Cardinality(B) = Cardinality(ps)
      BY <3>2, <3>3
    <3>5. B = ps
      BY <1>1, <3>2, <3>4, FS_Subset
    <3>6. g[n] \in SUBSET D
      BY <1>4 DEF P
    <3>7. g[n] \subseteq f[g[n]] /\ f[g[n]] \subseteq g[n] \cup ps
      BY <3>6
    <3>8. ps \subseteq g[n]
      BY <3>1, <3>5
    <3> QED
      BY <2>1, <3>7, <3>8
  <2> QED
    BY <1>9, <2>1
<1>11. ASSUME NEW B \in SUBSET D, x \subseteq B, \A A \in SUBSET B : f[A] \subseteq B
       PROVE  g[n] \subseteq B
  <2> DEFINE J == {k \in 0 .. n : g[k] \subseteq B}
  <2>1. 0 \in J
    BY <1>4, <1>11
  <2>2. ASSUME NEW k \in 0 .. n - 1, k \in J PROVE k + 1 \in J
    BY <1>5, <1>11, <2>2
  <2>3. n \in J
    <3> HIDE DEF J
    <3> QED
      BY <1>1, <1>4, <2>1, <2>2, UpTo
  <2> QED
    BY <2>3
<1> QED
  BY <1>4, <1>10, <1>11 DEF P

(* More nullable patterns make no fewer others nullable.                   *)
LEMMA NullableMore ==
  ASSUME NEW pt, NEW p, NEW A, NEW B, A \subseteq B, NullableBy(pt, p, A)
  PROVE  NullableBy(pt, p, B)
BY DEF NullableBy

(* What nullables computes: the least set that holds n0 and the patterns   *)
(* of ps that its members make nullable.                                   *)
LeastNullable(pt, ps, n0, r) ==
  /\ r \subseteq DOMAIN pt /\ n0 \subseteq r
  /\ \A p \in ps : NullableBy(pt, p, r) => p \in r
  /\ \A B \in SUBSET DOMAIN pt :
       n0 \subseteq B /\ (\A p \in ps : NullableBy(pt, p, B) => p \in B) => r \subseteq B

LEMMA NullablesLeast ==
  ASSUME NEW pt, IsFiniteSet(DOMAIN pt), NEW ps \in SUBSET DOMAIN pt, NEW n0 \in SUBSET DOMAIN pt,
         NEW r, r = nullables(pt, ps, n0)
  PROVE  LeastNullable(pt, ps, n0, r)
<1> DEFINE f == [n \in SUBSET DOMAIN pt |-> n \cup {p \in ps : NullableBy(pt, p, n)}]
           D == DOMAIN pt
<1>1. r = Iterate(f, n0, Cardinality(ps))
  BY DEF nullables
<1>2. \A A \in SUBSET D : f[A] = A \cup {p \in ps : NullableBy(pt, p, A)}
  OBVIOUS
<1> HIDE DEF f, D
<1>3. IsFiniteSet(D) /\ ps \in SUBSET D /\ n0 \in SUBSET D
  BY DEF D
<1>4. \A A \in SUBSET D : f[A] \in SUBSET D /\ A \subseteq f[A] /\ f[A] \subseteq A \cup ps
  BY <1>2, <1>3
<1>5. /\ r \in SUBSET D /\ n0 \subseteq r /\ f[r] = r
      /\ \A B \in SUBSET D : n0 \subseteq B /\ (\A A \in SUBSET B : f[A] \subseteq B) => r \subseteq B
  BY <1>1, <1>3, <1>4, Grown
<1>6. ASSUME NEW B \in SUBSET D, n0 \subseteq B, \A p \in ps : NullableBy(pt, p, B) => p \in B
      PROVE  r \subseteq B
  <2>1. ASSUME NEW A \in SUBSET B PROVE f[A] \subseteq B
    <3>1. \A p \in ps : NullableBy(pt, p, A) => p \in B
      BY <1>6, NullableMore
    <3>2. f[A] = A \cup {p \in ps : NullableBy(pt, p, A)}
      BY <1>2
    <3> QED
      BY <3>1, <3>2
  <2> QED
    BY <1>5, <1>6, <2>1
<1>7. ASSUME NEW p \in ps, NullableBy(pt, p, r) PROVE p \in r
  BY <1>2, <1>5, <1>7
<1> QED
  BY <1>5, <1>6, <1>7 DEF LeastNullable, D

-----------------------------------------------------------------------------
(* A pattern without references left among its children is as it is meant. *)
LEMMA MeantOnes ==
  ASSUME schema \in Schemas, AsParsed, NEW p \in DOMAIN pat,
         Kids(pat[p]) \subseteq DOMAIN pat, \A c \in Kids(pat[p]) : pat[c].t # "ref"
  PROVE  /\ AsMeant(Ideal[p], pat[p]) /\ Kids(Ideal[p]) = Kids(pat[p])
         /\ \A A : NullableBy(Ideal, p, A) <=> NullableBy(pat, p, A)
<1>1. p \in DOMAIN schema.pat /\ Alike(schema.pat[p], pat[p], Sense)
  BY DEF AsParsed
<1>2. \A c \in Kids(pat[p]) : Sense[c] = c
  <2> TAKE c \in Kids(pat[p])
  <2>1. c \in DOMAIN schema.pat /\ schema.pat[c].t # "ref"
    BY DEF AsParsed, Alike
  <2> QED
    BY <2>1, SenseOnes
<1>3. PICK a : a = Ideal[p]
  OBVIOUS
<1>4. PICK b : b = pat[p]
  OBVIOUS
<1>5. PICK s : s = schema.pat[p]
  OBVIOUS
<1>6. /\ a.t = s.t /\ a.nc = s.nc
      /\ s.t \in Binary \cup Unary => a.p1 = Sense[s.p1]
      /\ s.t \in Binary => a.p2 = Sense[s.p2]
  BY <1>1, <1>3, <1>5, IdealOnes
<1>7. /\ s.t = b.t /\ s.nc = b.nc
      /\ s.t \in Binary \cup Unary => Sense[s.p1] = Sense[b.p1]
      /\ s.t \in Binary => Sense[s.p2] = Sense[b.p2]
  BY <1>1, <1>4, <1>5 DEF Alike
<1>8. \A c \in Kids(b) : Sense[c] = c
  BY <1>2, <1>4
<1>9. /\ b.t \in Binary \cup Unary => Sense[b.p1] = b.p1
      /\ b.t \in Binary => Sense[b.p2] = b.p2
  BY <1>8, KidsOf
<1>10. AsMeant(a, b)
  BY <1>6, <1>7, <1>9 DEF AsMeant
<1>11. Kids(a) = Kids(b)
  <2>1. CASE b.t \in Binary
    BY <1>10, <2>1, KidsOf DEF AsMeant
  <2>2. CASE b.t \in Unary
    BY <1>10, <2>2, KidsOf DEF AsMeant
  <2>3. CASE b.t \notin Binary \cup Unary
    BY <1>10, <2>3, KidsOf DEF AsMeant
  <2> QED
    BY <2>1, <2>2, <2>3
<1>12. ASSUME NEW A PROVE NullableBy(Ideal, p, A) <=> NullableBy(pat, p, A)
  <2>1. b.t = "choice" \/ b.t = "group" => b.t \in Binary
    BY DEF Binary
  <2> QED
    BY <1>3, <1>4, <1>10, <2>1 DEF AsMeant, NullableBy
<1> QED
  BY <1>3, <1>4, <1>10, <1>11, <1>12

(* Nothing to do with the children of a pattern that has none.             *)
LEMMA EmptyOnes ==
  ASSUME schema \in Schemas
  PROVE  /\ 0 \in DOMAIN schema.pat /\ Kids(Ideal[0]) = {} /\ Ideal[0].t = "empty"
         /\ \A A : NullableBy(Ideal, 0, A)
<1>1. 0 \in DOMAIN schema.pat /\ schema.pat[0].t = "empty"
  <2>1. schema.start \in 0 .. Cardinality(DOMAIN schema.pat) - 1 /\ Cardinality(DOMAIN schema.pat) \in Nat
    BY Parsed
  <2>2. 0 \in 0 .. Cardinality(DOMAIN schema.pat) - 1
    BY <2>1
  <2> QED
    BY <2>2, Parsed, EmptyLeaf
<1>2. Ideal[0].t = "empty"
  BY <1>1, IdealOnes
<1>3. Kids(Ideal[0]) = {}
  BY <1>2 DEF Kids, Binary, Unary
<1> QED
  BY <1>1, <1>2, <1>3 DEF NullableBy

(* The flags that the constructors set were right, as far as they went,    *)
(* and traits completes them.                                              *)
LEMMA Flags ==
  ASSUME schema \in Schemas, InStore, AsParsed, InFlat \subseteq DOMAIN pat, NoRefs,
         \A p \in InFlat : Kids(pat[p]) \subseteq InFlat,
         NEW n0, n0 = nullables(schema.pat, Patterns(schema), {}),
         NEW n1, n1 = nullables(pat, InFlat, n0),
         NEW F, F = {0} \cup InFlat
  PROVE  FlagsOf(F, n1)
<1> DEFINE D == DOMAIN schema.pat
<1>1. /\ D = DOMAIN pat /\ IsFiniteSet(D) /\ 0 \in D /\ F \in SUBSET D
  BY Parsed, EmptyOnes DEF AsParsed
<1>2. LeastNullable(schema.pat, Patterns(schema), {}, n0)
  <2>1. Patterns(schema) \in SUBSET D
    BY DEF Patterns
  <2> QED
    BY <1>1, <2>1, NullablesLeast
<1>3. n0 \in SUBSET DOMAIN pat
  BY <1>1, <1>2 DEF LeastNullable
<1>4. LeastNullable(pat, InFlat, n0, n1)
  BY <1>1, <1>3, NullablesLeast
<1>5. ASSUME NEW p \in InFlat
      PROVE  Kids(Ideal[p]) = Kids(pat[p]) /\ \A A : NullableBy(Ideal, p, A) <=> NullableBy(pat, p, A)
  <2>1. p \in DOMAIN pat /\ Kids(pat[p]) \subseteq DOMAIN pat /\ \A c \in Kids(pat[p]) : pat[c].t # "ref"
    BY DEF NoRefs
  <2> QED
    BY <2>1, MeantOnes
<1>6. 0 \in n0
  <2>1. 0 \in Patterns(schema) /\ NullableBy(schema.pat, 0, n0)
    <3>1. schema.pat[0].t = "empty"
      BY Parsed, EmptyLeaf
    <3> QED
      BY <1>1, <3>1 DEF Patterns, NullableBy
  <2> QED
    BY <1>2, <2>1 DEF LeastNullable
<1>7. ASSUME NEW p \in F, NullableBy(Ideal, p, n1) PROVE p \in n1
  BY <1>4, <1>5, <1>6, <1>7 DEF LeastNullable
<1>8. ASSUME NEW A \in SUBSET F, \A p \in F : NullableBy(Ideal, p, A) => p \in A
      PROVE  n1 \cap F \subseteq A
  <2> DEFINE B == {p \in Patterns(schema) : p \in F => p \in A}
             C == {p \in DOMAIN pat : p \in F => p \in A}
  <2>1. ASSUME NEW p \in Patterns(schema), p \in F, NullableBy(schema.pat, p, B) PROVE p \in A
    <3>1. CASE p = 0
      BY <1>8, <2>1, <3>1, EmptyOnes
    <3>2. CASE p \in InFlat
      <4>1. p \in D
        BY <1>1, <2>1
      <4>2. /\ Ideal[p].t = schema.pat[p].t
            /\ schema.pat[p].t \in Binary \cup Unary => Ideal[p].p1 = Sense[schema.pat[p].p1]
            /\ schema.pat[p].t \in Binary => Ideal[p].p2 = Sense[schema.pat[p].p2]
        BY <4>1, IdealOnes
      <4>3. \A c \in B : Sense[c] = c /\ c \in Patterns(schema)
        BY SenseOnes DEF Patterns
      <4>4. \A c \in B : c \in Kids(Ideal[p]) => c \in A
        BY <1>5, <3>2
      <4>5. schema.pat[p].t = "choice" \/ schema.pat[p].t = "group" => schema.pat[p].t \in Binary
        BY DEF Binary
      <4>6. schema.pat[p].t \in Binary => Kids(Ideal[p]) = {Ideal[p].p1, Ideal[p].p2}
        BY <4>2, KidsOf
      <4> HIDE DEF B
      <4>7. schema.pat[p].t \in Binary =>
              /\ schema.pat[p].p1 \in B => Ideal[p].p1 \in A
              /\ schema.pat[p].p2 \in B => Ideal[p].p2 \in A
        BY <4>2, <4>3, <4>4, <4>6
      <4>8. NullableBy(Ideal, p, A)
        BY <2>1, <4>2, <4>5, <4>7 DEF NullableBy
      <4> QED
        BY <1>8, <2>1, <4>8
    <3> QED
      BY <2>1, <3>1, <3>2
  <2>2. n0 \subseteq B
    <3>1. B \in SUBSET D /\ \A p \in Patterns(schema) : NullableBy(schema.pat, p, B) => p \in B
      BY <2>1 DEF Patterns
    <3> HIDE DEF B
    <3> QED
      BY <1>2, <3>1 DEF LeastNullable
  <2>3. ASSUME NEW p \in InFlat, NullableBy(pat, p, C) PROVE p \in A
    <3>1. NullableBy(Ideal, p, C)
      BY <1>5, <2>3
    <3>2. p \in D /\ Kids(Ideal[p]) \subseteq F
      BY <1>1, <1>5
    <3>3. Ideal[p].t \in Binary => Kids(Ideal[p]) = {Ideal[p].p1, Ideal[p].p2}
      BY KidsOf
    <3>4. Ideal[p].t = "choice" \/ Ideal[p].t = "group" => Ideal[p].t \in Binary
      BY DEF Binary
    <3>5. Ideal[p].t \in Binary =>
            /\ Ideal[p].p1 \in C => Ideal[p].p1 \in A
            /\ Ideal[p].p2 \in C => Ideal[p].p2 \in A
      BY <3>2, <3>3
    <3> HIDE DEF C
    <3>6. NullableBy(Ideal, p, A)
      BY <3>1, <3>4, <3>5 DEF NullableBy
    <3> QED
      BY <1>8, <3>6
  <2>4. n1 \subseteq C
    <3>1. C \in SUBSET DOMAIN pat /\ n0 \subseteq C
      BY <1>3, <2>2
    <3>2. \A p \in InFlat : NullableBy(pat, p, C) => p \in C
      BY <2>3
    <3> HIDE DEF C
    <3> QED
      BY <1>4, <3>1, <3>2 DEF LeastNullable
  <2> QED
    BY <2>4
<1> QED
  BY <1>7, <1>8 DEF FlagsOf

LEMMA M_traits ==
  ASSUME IInv, MInv, traits
  PROVE  MInv'
<1>1. pc = "traits" /\ UNCHANGED <<schema, pat, flat, start>>
  BY DEF traits
<1>2. /\ schema \in Schemas /\ AsParsed /\ Sense[start] = Sense[schema.start]
      /\ nul = nullables(schema.pat, Patterns(schema), {})
  BY <1>1 DEF MInv, MPhase
<1>3. Unswept /\ Flat /\ InStore
  BY <1>1 DEF IInv, Phase
<1>4. AsParsed' /\ Sense' = Sense /\ Ideal' = Ideal
  BY <1>1, <1>2, AsParsedKept, SchemaSame
<1>5. CASE \E p \in InFlat : pat[p].t = "ref"
  <2>1. pc' = "aborted"
    BY <1>5 DEF traits, Goto
  <2> QED
    BY <1>1, <1>2, <2>1 DEF MInv, MPhase
<1>6. CASE ~\E p \in InFlat : pat[p].t = "ref"
  <2>1. pc' = "mark_p" /\ nul' = nullables(pat, InFlat, nul)
    BY <1>6 DEF traits, Goto
  <2>2. InFlat \subseteq DOMAIN pat /\ NoRefs /\ \A p \in InFlat : Kids(pat[p]) \subseteq InFlat
    BY <1>3, <1>6, FlatOnes DEF NoRefs, Flat
  <2>3a. PICK n0 : n0 = nul
    OBVIOUS
  <2>3. PICK n1 : n1 = nullables(pat, InFlat, n0)
    OBVIOUS
  <2>4. PICK F : F = {0} \cup InFlat
    OBVIOUS
  <2>5. FlagsOf(F, n1)
    <3>1. n0 = nullables(schema.pat, Patterns(schema), {})
      BY <1>2, <2>3a
    <3> QED
      BY <1>2, <1>3, <2>2, <2>3, <2>4, <3>1, Flags
  <2>6. InFlat' = InFlat
    BY <1>1 DEF InFlat
  <2>7. FlagsOf({0} \cup InFlat, nul)'
    BY <1>4, <2>1, <2>3a, <2>3, <2>4, <2>5, <2>6 DEF FlagsOf, NullableBy
  <2> QED
    BY <1>1, <1>2, <1>4, <2>1, <2>7 DEF MInv, MPhase
<1> QED
  BY <1>5, <1>6

-----------------------------------------------------------------------------
(* The steps up to the sweep.  Whether a pattern is nullable depends on    *)
(* its children.                                                           *)
LEMMA NullableOf ==
  ASSUME NEW pt, NEW p, NEW A, NEW B, NullableBy(pt, p, A),
         \A c \in Kids(pt[p]) : c \in A => c \in B
  PROVE  NullableBy(pt, p, B)
<1>1. pt[p].t = "choice" \/ pt[p].t = "group" => Kids(pt[p]) = {pt[p].p1, pt[p].p2}
  BY KidsOf DEF Binary
<1> QED
  BY <1>1 DEF NullableBy

LEMMA FlagsRestricted ==
  ASSUME NEW F, NEW U \in SUBSET F, NEW n, FlagsOf(F, n), \A p \in U : Kids(Ideal[p]) \subseteq U
  PROVE  FlagsOf(U, n)
<1>1. /\ \A p \in F : NullableBy(Ideal, p, n) => p \in n
      /\ \A A \in SUBSET F : (\A p \in F : NullableBy(Ideal, p, A) => p \in A) => n \cap F \subseteq A
  BY DEF FlagsOf
<1>2. ASSUME NEW A \in SUBSET U, \A p \in U : NullableBy(Ideal, p, A) => p \in A
      PROVE  n \cap U \subseteq A
  <2>1. PICK B : B = A \cup (F \ U)
    OBVIOUS
  <2>2. ASSUME NEW p \in F, NullableBy(Ideal, p, B) PROVE p \in B
    <3>1. CASE p \in U
      <4>1. \A c \in Kids(Ideal[p]) : c \in B => c \in A
        BY <2>1, <3>1
      <4>2. NullableBy(Ideal, p, A)
        BY <2>2, <4>1, NullableOf
      <4> QED
        BY <1>2, <2>1, <3>1, <4>2
    <3>2. CASE p \notin U
      BY <2>1, <3>2
    <3> QED
      BY <3>1, <3>2
  <2>3. B \in SUBSET F
    BY <2>1
  <2>4. n \cap F \subseteq B
    BY <1>1, <2>2, <2>3
  <2> QED
    BY <2>1, <2>4
<1> QED
  BY <1>1, <1>2 DEF FlagsOf

LEMMA InUseKept ==
  ASSUME UNCHANGED <<schema, nul>>, NEW U, InUse(U)
  PROVE  InUse(U)'
<1>1. Sense' = Sense /\ Ideal' = Ideal
  BY SchemaSame
<1>2. \A p, A : NullableBy(Ideal, p, A)' <=> NullableBy(Ideal, p, A)
  BY <1>1 DEF NullableBy
<1>3. FlagsOf(U, nul)'
  BY <1>1, <1>2 DEF InUse, FlagsOf
<1>4. Generated(U)'
  BY <1>1 DEF InUse, Generated
<1> QED
  BY <1>3, <1>4 DEF InUse

LEMMA M_mark_p ==
  ASSUME IInv, MInv, mark_p
  PROVE  MInv'
<1>1. /\ pc = "mark_p" /\ marked' = Reach(pat, start) \cap Stored /\ pc' = "sweep_p"
      /\ UNCHANGED <<schema, pat, nul, start>>
  BY DEF mark_p, Goto
<1>2. Unswept /\ Flat /\ TypeOK /\ InStore /\ start \in InFlat /\ NoRefs
  BY <1>1 DEF IInv, Phase
<1>3. /\ schema \in Schemas /\ AsParsed /\ Sense[start] = Sense[schema.start]
      /\ FlagsOf({0} \cup InFlat, nul)
  BY <1>1 DEF MInv, MPhase
<1>4. PICK r : r = Reach(pat, start)
  OBVIOUS
<1>5. Reached(r)
  <2>1. start \in DOMAIN pat
    BY <1>2 DEF Unswept
  <2>2. \A p \in DOMAIN pat : Kids(pat[p]) \subseteq DOMAIN pat
    BY <1>2 DEF TypeOK
  <2> QED
    BY <1>2, <1>4, <2>1, <2>2, ReachedOnes
<1>6. /\ r \subseteq DOMAIN pat /\ start \in r
      /\ \A p \in r : Kids(pat[p]) \subseteq r
      /\ \A B \in SUBSET DOMAIN pat : start \in B /\ (\A p \in B : Kids(pat[p]) \subseteq B) => r \subseteq B
  BY <1>5 DEF Reached
<1>7. InFlat \in SUBSET DOMAIN pat /\ r \subseteq InFlat
  <2>1. InFlat \in SUBSET DOMAIN pat
    BY <1>2, FlatOnes
  <2>2. \A p \in InFlat : Kids(pat[p]) \subseteq InFlat
    BY <1>2 DEF Flat
  <2> QED
    BY <1>2, <1>6, <2>1, <2>2
<1>8. Stored = 1 .. Size - 1 /\ DOMAIN pat = 0 .. Size - 1 /\ Size \in Nat \ {0}
  BY <1>2, Sizes DEF InStore
<1>9. PICK U : U = {0} \cup marked'
  OBVIOUS
<1>10. U = {0} \cup r
  <2>1. \A p \in r : p = 0 \/ p \in Stored
    BY <1>6, <1>8
  <2> QED
    BY <1>1, <1>4, <1>9, <2>1
<1>11. U \subseteq DOMAIN pat /\ DOMAIN pat = DOMAIN schema.pat /\ pat[0] = Empty
  BY <1>2, <1>3, <1>6, <1>8, <1>10 DEF AsParsed, Unswept
<1>12. \A p \in U : Kids(pat[p]) \subseteq r
  BY <1>6, <1>10, <1>11, EmptyLeaf
<1>13. ASSUME NEW p \in U PROVE AsMeant(Ideal[p], pat[p]) /\ Kids(Ideal[p]) = Kids(pat[p])
  <2>1. p \in DOMAIN pat /\ Kids(pat[p]) \subseteq DOMAIN pat
    BY <1>6, <1>11, <1>12
  <2>2. \A c \in Kids(pat[p]) : pat[c].t # "ref"
    BY <1>2, <1>7, <1>12 DEF NoRefs
  <2> QED
    BY <1>3, <2>1, <2>2, MeantOnes
<1>14. start = Sense[schema.start]
  <2>1. start \in DOMAIN schema.pat /\ schema.pat[start].t # "ref"
    BY <1>2, <1>3, <1>6, <1>11 DEF NoRefs, AsParsed, Alike
  <2> QED
    BY <1>3, <2>1, SenseOnes
<1>15. Generated(U)
  <2>1. ASSUME NEW A \in SUBSET U, start \in A, \A p \in A : Kids(Ideal[p]) \subseteq A
        PROVE  U \ {0} \subseteq A
    <3>1. \A p \in A : Kids(pat[p]) \subseteq A
      BY <1>13, <2>1
    <3>2. A \in SUBSET DOMAIN pat
      BY <1>11
    <3>3. r \subseteq A
      BY <1>6, <2>1, <3>1, <3>2
    <3> QED
      BY <1>10, <3>3
  <2>2. start \in U /\ \A p \in U : Kids(Ideal[p]) \subseteq U
    BY <1>6, <1>10, <1>12, <1>13
  <2> QED
    BY <1>14, <2>1, <2>2 DEF Generated
<1>16. FlagsOf(U, nul)
  <2>1. PICK F : F = {0} \cup InFlat
    OBVIOUS
  <2>2. U \in SUBSET F /\ FlagsOf(F, nul)
    BY <1>3, <1>7, <1>10, <2>1
  <2>3. \A p \in U : Kids(Ideal[p]) \subseteq U
    BY <1>15 DEF Generated
  <2> QED
    BY <2>2, <2>3, FlagsRestricted
<1>17. InUse(U)
  BY <1>9, <1>11, <1>15, <1>16 DEF InUse
<1>18. Unmerged(U)
  <2>1. PICK id : id = [c \in U |-> c]
    OBVIOUS
  <2>2. \A p \in U : Alike(Ideal[p], pat[p], id)
    BY <1>13 DEF AsMeant, Alike
  <2> QED
    BY <1>14, <2>1, <2>2 DEF Unmerged
<1>19. Sense' = Sense /\ Ideal' = Ideal
  BY <1>1, SchemaSame
<1>20. InUse({0} \cup marked)' /\ Unmerged({0} \cup marked)'
  <2>1. InUse(U)'
    BY <1>1, <1>17, InUseKept
  <2>2. Unmerged(U)'
    BY <1>1, <1>18, <1>19 DEF Unmerged, Alike
  <2>3. U = ({0} \cup marked)'
    BY <1>9
  <2> QED
    BY <2>1, <2>2, <2>3 DEF InUse, Unmerged, Generated, FlagsOf
<1> QED
  BY <1>1, <1>3, <1>20 DEF MInv, MPhase

-----------------------------------------------------------------------------
(* The sweep.  A pattern that is redirected to an equal one is not missed.             *)
LEMMA RedirectStands ==
  ASSUME NEW n \in Nat \ {0}, NEW x \in [1 .. n - 1 -> -1 .. n - 1],
         Lands(x), Ordered(x),
         NEW p \in Roots(x), NEW q \in {0} \cup Roots(x), q # p,
         NEW y, y = Redirect(x, p, q),
         NEW pt, pt[q] = pt[p], \A r \in {0} \cup Used(x) : Kids(pt[r]) \subseteq {0} \cup Used(x),
         InUse({0} \cup Used(x)), NEW s \in {0} \cup Used(x), Standing(pt, x, s)
  PROVE  Used(y) = Used(x) /\ Standing(pt, y, s)
<1>1. Redirects(n, x, p, y)
  BY Redirection
<1>2. Used(y) = Used(x) /\ Roots(y) = Roots(x) \ {p}
  BY <1>1 DEF Redirects
<1>3. PICK U : U = {0} \cup Used(x)
  OBVIOUS
<1>4. /\ Sense[schema.start] \in U /\ s \in U /\ 0 \in U
      /\ \A r \in U : Kids(Ideal[r]) \subseteq U
  BY <1>3 DEF InUse, Generated
<1>5. PICK R : Represents(pt, x, R) /\ R[s] = R[Sense[schema.start]]
  BY DEF Standing
<1>6. /\ R \in [U -> {0} \cup Roots(x)]
      /\ \A r \in {0} \cup Roots(x) : R[r] = r
      /\ \A r \in Used(x) : R[x[r]] = R[r]
      /\ \A r \in U : Alike(Ideal[r], pt[R[r]], R)
  BY <1>3, <1>5 DEF Represents
<1>7. /\ p \in 1 .. n - 1 /\ x[p] = p /\ p \in Used(x) /\ p # 0
      /\ y[p] = q /\ \A r \in 1 .. n - 1 : r # p => y[r] = x[r]
  BY DEF Roots, Used, Redirect, None
<1>8. \A r \in Used(x) : r \in 1 .. n - 1 /\ x[r] \in U
  BY <1>3 DEF Used, Lands
<1>8a. \A r \in {0} \cup Roots(x) : r \in U
  <2>1. \A r \in Roots(x) : r \in 1 .. n - 1 /\ x[r] = r
    BY DEF Roots
  <2>2. \A r \in Roots(x) : r \in Used(x)
    BY <2>1 DEF Used, None
  <2> QED
    BY <1>3, <2>2
<1> DEFINE h(r) == IF r = p THEN q ELSE r
           R2 == [r \in U |-> h(R[r])]
<1>9. \A r \in U : R2[r] = h(R[r])
  OBVIOUS
<1>10. R2 \in [U -> {0} \cup Roots(y)]
  <2>1. ASSUME NEW r \in U PROVE h(R[r]) \in {0} \cup Roots(y)
    BY <1>2, <1>6
  <2> QED
    BY <2>1
<1> HIDE DEF R2
<1>11. \A r \in {0} \cup Roots(y) : R2[r] = r
  BY <1>2, <1>6, <1>7, <1>8a, <1>9
<1>12. ASSUME NEW r \in Used(y) PROVE R2[y[r]] = R2[r]
  <2>1. r \in Used(x) /\ r \in U /\ r \in 1 .. n - 1
    BY <1>2, <1>3, <1>8, <1>12
  <2>2. CASE r = p
    <3>1. R[p] = p /\ R[q] = q /\ q \in U
      BY <1>6, <1>8a
    <3>2. R2[p] = q /\ R2[q] = q
      BY <1>9, <2>1, <2>2, <3>1
    <3> QED
      BY <1>7, <2>2, <3>2
  <2>3. CASE r # p
    <3>1. y[r] = x[r] /\ R[x[r]] = R[r] /\ x[r] \in U
      BY <1>6, <1>7, <1>8, <2>1, <2>3
    <3> QED
      BY <1>9, <2>1, <3>1
  <2> QED
    BY <2>2, <2>3
<1>13. ASSUME NEW r \in U PROVE Alike(Ideal[r], pt[R2[r]], R2)
  <2>1. PICK a : a = Ideal[r]
    OBVIOUS
  <2>2. PICK b : b = pt[R[r]]
    OBVIOUS
  <2>3. Alike(a, b, R) /\ Kids(a) \subseteq U
    BY <1>4, <1>6, <2>1, <2>2
  <2>4. pt[R2[r]] = b
    BY <1>9, <2>2
  <2>5. Kids(b) \subseteq U
    <3>1. R[r] \in U
      BY <1>6, <1>8a
    <3> QED
      BY <1>3, <2>2, <3>1
  <2>6. /\ a.t = b.t /\ a.nc = b.nc
        /\ a.t \in Binary \cup Unary => R[a.p1] = R[b.p1] /\ a.p1 \in U /\ b.p1 \in U
        /\ a.t \in Binary => R[a.p2] = R[b.p2] /\ a.p2 \in U /\ b.p2 \in U
    BY <2>3, <2>5, KidsOf DEF Alike
  <2>7. \A c, d \in U : R[c] = R[d] => R2[c] = R2[d]
    BY <1>9
  <2>8. Alike(a, b, R2)
    BY <2>6, <2>7 DEF Alike
  <2> QED
    BY <2>1, <2>4, <2>8
<1>14. Represents(pt, y, R2)
  BY <1>2, <1>3, <1>10, <1>11, <1>12, <1>13 DEF Represents
<1>15. R2[s] = R2[Sense[schema.start]]
  BY <1>4, <1>5, <1>9
<1> QED
  BY <1>2, <1>14, <1>15 DEF Standing

(* The patterns of a store that are in use lead to each other.             *)
LEMMA UsedKids ==
  ASSUME NEW pt, NEW x, pt[0] = Empty, Sound(pt, x)
  PROVE  \A r \in {0} \cup Used(x) : Kids(pt[r]) \subseteq {0} \cup Used(x)
BY EmptyLeaf DEF Sound

(* What is known of every store during the sweep, U being the patterns in  *)
(* use.                                                                    *)
Stands(st, U, s) == U = {0} \cup Used(st.xlat) /\ Standing(st.pat, st.xlat, s)

LEMMA RedirStands ==
  ASSUME NEW n \in Nat \ {0}, NEW st, Sweeping(n, st),
         NEW p \in Roots(st.xlat), NEW q \in st.tab, q # p, st.pat[q] = st.pat[p],
         NEW nx, nx = redir_p(st, p, q),
         NEW U, InUse(U), NEW s \in U, Stands(st, U, s)
  PROVE  Stands(nx, U, s)
<1> DEFINE x == st.xlat
<1>1. /\ st \in Stores(n) /\ st.pat[0] = Empty /\ st.tab \cap Used(x) \subseteq Roots(x)
      /\ Lands(x) /\ Ordered(x) /\ Sound(st.pat, x)
      /\ x \in [1 .. n - 1 -> -1 .. n - 1] /\ st.tab \in SUBSET (0 .. n - 1)
  BY DEF Sweeping, Stores
<1>2. U = {0} \cup Used(x) /\ Standing(st.pat, x, s)
  BY DEF Stands
<1>3. CASE q < base_p \/ x[q] # None
  <2> DEFINE y == [x EXCEPT ![p] = q]
  <2>1. nx = [st EXCEPT !.marked = @ \ {p}, !.xlat = y, !.changed = TRUE]
    BY <1>3 DEF redir_p
  <2>2. nx.pat = st.pat /\ nx.xlat = y
    BY <1>1, <2>1 DEF Stores
  <2>3. q \in {0} \cup Roots(x)
    <3>1. CASE q < 1
      BY <1>1, <3>1
    <3>2. CASE ~(q < 1)
      <4>1. q \in 1 .. n - 1 /\ x[q] # None
        BY <1>1, <1>3, <3>2 DEF base_p
      <4>2. q \in Used(x)
        BY <1>1, <4>1 DEF Used
      <4> QED
        BY <1>1, <4>2
    <3> QED
      BY <3>1, <3>2
  <2>4. y = Redirect(x, p, q) /\ p \in Roots(x)
    BY DEF Redirect
  <2> HIDE DEF x, y
  <2>5. PICK pt : pt = st.pat
    OBVIOUS
  <2>6. /\ pt[q] = pt[p] /\ Standing(pt, x, s) /\ InUse({0} \cup Used(x)) /\ s \in {0} \cup Used(x)
        /\ \A r \in {0} \cup Used(x) : Kids(pt[r]) \subseteq {0} \cup Used(x)
    BY <1>1, <1>2, <2>5, UsedKids DEF x
  <2>7. Used(y) = Used(x) /\ Standing(pt, y, s)
    BY <1>1, <2>3, <2>4, <2>6, RedirectStands
  <2> QED
    BY <1>2, <2>2, <2>5, <2>7 DEF Stands
<1>4. CASE ~(q < base_p \/ x[q] # None)
  <2>1. nx = [st EXCEPT !.tab = (@ \ {q}) \cup {p}]
    BY <1>4 DEF redir_p
  <2>2. nx.pat = st.pat /\ nx.xlat = x
    BY <1>1, <2>1 DEF Stores
  <2> QED
    BY <1>2, <2>2 DEF Stands
<1> QED
  BY <1>3, <1>4

LEMMA MergeStands ==
  ASSUME NEW n \in Nat \ {0}, NEW st \in Merging(n), NEW p \in 1 .. n - 1,
         NEW nx, nx = Merge(st, p),
         NEW U, InUse(U), NEW s \in U, Stands(st, U, s)
  PROVE  Stands(nx, U, s)
<1> DEFINE q == ht_get(st.pat, st.tab, p)
<1>1. Sweeping(n, st) /\ Represented(st) /\ st \in Stores(n)
  BY DEF Merging
<1>2. /\ st.tab \in SUBSET (0 .. n - 1) /\ st.xlat \in [1 .. n - 1 -> -1 .. n - 1]
  BY <1>1 DEF Stores
<1>3. nx = IF st.xlat[p] = p /\ q # p THEN redir_p(st, p, q) ELSE st
  BY DEF Merge
<1>4. CASE ~(st.xlat[p] = p /\ q # p)
  BY <1>3, <1>4
<1>5. CASE st.xlat[p] = p /\ q # p
  <2>1. p \in Roots(st.xlat)
    BY <1>2, <1>5 DEF Roots
  <2>2. q \in st.tab /\ st.pat[q] = st.pat[p]
    <3>1. st.tab \in SUBSET Nat
      BY <1>2
    <3>2. \/ q = None /\ \A r \in st.tab : st.pat[r] # st.pat[p]
          \/ q # None /\ q \in st.tab /\ st.pat[q] = st.pat[p]
      BY <3>1, Lookups
    <3> HIDE DEF q
    <3> QED
      BY <1>1, <2>1, <3>2 DEF Represented
  <2>3. nx = redir_p(st, p, q) /\ q # p
    BY <1>3, <1>5
  <2> HIDE DEF q
  <2> QED
    BY <1>1, <2>1, <2>2, <2>3, RedirStands
<1> QED
  BY <1>4, <1>5

(* A child that has been redirected is replaced by one that stays for the  *)
(* same.                                                                   *)
LEMMA RelinkStands ==
  ASSUME NEW n \in Nat \ {0}, NEW st, Sweeping(n, st), NEW p \in Roots(st.xlat),
         NEW new, new = Relinked(st, p),
         NEW s, Standing(st.pat, st.xlat, s)
  PROVE  Standing(new, st.xlat, s)
<1> DEFINE x == st.xlat
<1>1. /\ st \in Stores(n) /\ Lands(x) /\ Sound(st.pat, x)
      /\ x \in [1 .. n - 1 -> -1 .. n - 1] /\ st.pat \in [0 .. n - 1 -> Pattern]
  BY DEF Sweeping, Stores
<1>2. PICK R : Represents(st.pat, x, R) /\ R[s] = R[Sense[schema.start]]
  BY DEF Standing
<1>3. /\ R \in [{0} \cup Used(x) -> {0} \cup Roots(x)]
      /\ \A r \in {0} \cup Roots(x) : R[r] = r
      /\ \A r \in Used(x) : R[x[r]] = R[r]
      /\ \A r \in {0} \cup Used(x) : Alike(Ideal[r], st.pat[R[r]], R)
  BY <1>2 DEF Represents
<1>4. p \in 1 .. n - 1 /\ p \in Used(x)
  BY <1>1 DEF Roots, Used, None
<1>5. PICK r \in Pattern : r = st.pat[p]
  BY <1>1, <1>4
<1>6. PICK to : to = [c \in Int |-> Redirected(st, c)]
  OBVIOUS
<1>7. PICK t : t = Moved(r, to)
  OBVIOUS
<1>8. new = [st.pat EXCEPT ![p] = t]
  <2>1. r.p1 \in Int /\ r.p2 \in Int
    BY DEF Pattern
  <2>2. to[r.p1] = Redirected(st, r.p1) /\ to[r.p2] = Redirected(st, r.p2)
    BY <1>6, <2>1
  <2> QED
    BY <1>5, <1>7, <2>2 DEF Relinked, Moved
<1>9. /\ t.t = r.t /\ t.nc = r.nc
      /\ r.t \in Binary \cup Unary => t.p1 = to[r.p1]
      /\ r.t \in Binary => t.p2 = to[r.p2]
  BY <1>7, MovedFields
<1>10. \A c \in Kids(r) : R[to[c]] = R[c]
  <2> TAKE c \in Kids(r)
  <2>1. c \in {0} \cup Used(x)
    BY <1>1, <1>4, <1>5 DEF Sound
  <2>2. CASE c = 0
    <3>1. to[c] = c
      BY <1>6, <2>2 DEF Redirected, base_p
    <3> QED
      BY <3>1
  <2>3. CASE c \in Used(x)
    <3>1. c \in 1 .. n - 1
      BY <1>1, <2>3 DEF Used
    <3>2. to[c] = x[c]
      BY <1>6, <3>1 DEF Redirected, base_p
    <3> QED
      BY <1>3, <2>3, <3>2
  <2> QED
    BY <2>1, <2>2, <2>3
<1>11. Alike(r, t, R)
  BY <1>9, <1>10, KidsOf DEF Alike
<1>12. ASSUME NEW a \in {0} \cup Used(x) PROVE Alike(Ideal[a], new[R[a]], R)
  <2>1. Alike(Ideal[a], st.pat[R[a]], R)
    BY <1>3
  <2>2. CASE R[a] = p
    <3>1. new[R[a]] = t /\ Alike(Ideal[a], r, R)
      BY <1>1, <1>4, <1>5, <1>8, <2>1, <2>2
    <3> QED
      BY <1>11, <3>1 DEF Alike
  <2>3. CASE R[a] # p
    <3>1. new[R[a]] = st.pat[R[a]]
      <4>1. \A b \in {0} \cup Roots(x) : b \in 0 .. n - 1
        BY <1>1 DEF Roots
      <4>2. R[a] \in 0 .. n - 1
        BY <1>3, <4>1
      <4> QED
        BY <1>1, <1>8, <2>3, <4>2
    <3> QED
      BY <2>1, <3>1
  <2> QED
    BY <2>2, <2>3
<1>13. Represents(new, x, R)
  BY <1>3, <1>12 DEF Represents
<1> QED
  BY <1>2, <1>13 DEF Standing

(* A store in which the children of p, which stays, have been replaced.    *)
Replacing(st, new, tb) == [st EXCEPT !.pat = new, !.tab = tb, !.changed = TRUE]

LEMMA RelinkSweeps ==
  ASSUME NEW n \in Nat \ {0}, NEW st \in Settling(n), NEW p \in Roots(st.xlat),
         NEW new, new = Relinked(st, p),
         NEW tb, tb = st.tab \ {p},
         NEW next, next = Replacing(st, new, tb)
  PROVE  /\ Sweeping(n, next)
         /\ next.pat = new /\ next.tab = tb /\ next.xlat = st.xlat
<1> DEFINE x == st.xlat
<1>1. /\ st \in Stores(n) /\ Sweeping(n, st) /\ Roots(x) \subseteq st.tab
      /\ st.pat[0] = Empty
      /\ Unique(st.pat, st.tab) /\ 0 \in st.tab
      /\ st.tab \cap Used(x) \subseteq Roots(x)
      /\ st.marked = Roots(x)
      /\ Lands(x) /\ Ordered(x)
      /\ Sound(st.pat, x)
  BY DEF Sweeping, Settling
<1>2. /\ x \in [1 .. n - 1 -> -1 .. n - 1] /\ st.pat \in [0 .. n - 1 -> Pattern]
      /\ st.tab \in SUBSET (0 .. n - 1) /\ st.marked \in SUBSET (1 .. n - 1) /\ st.changed \in BOOLEAN
  BY <1>1 DEF Stores
<1>3. p \in 1 .. n - 1 /\ p \in Used(x) /\ Used(x) \subseteq 1 .. n - 1
  BY <1>2 DEF Roots, Used, None
<1>4. \A c \in {0} \cup Used(x) : Redirected(st, c) \in {0} \cup Used(x)
  <2> TAKE c \in {0} \cup Used(x)
  <2>1. CASE c = 0
    BY <2>1 DEF Redirected, base_p
  <2>2. CASE c \in Used(x)
    <3>1. c \in 1 .. n - 1
      BY <1>3, <2>2
    <3> QED
      BY <1>1, <2>2, <3>1 DEF Redirected, base_p, Lands
  <2> QED
    BY <2>1, <2>2
<1> HIDE DEF x
<1>5. \A c \in Kids(st.pat[p]) : c \in {0} \cup Used(x)
  BY <1>1, <1>3 DEF Sound
<1>6. new \in [0 .. n - 1 -> Pattern] /\ Relinks(st, p, new)
  <2>1. Kids(st.pat[p]) \subseteq Int /\ \A c \in Kids(st.pat[p]) : Redirected(st, c) \in Int
    BY <1>3, <1>4, <1>5
  <2>2. p \in 0 .. n - 1
    BY <1>3
  <2> QED
    BY <1>2, <2>1, <2>2, Relinking
<1>7. /\ new[p].t = st.pat[p].t
      /\ Kids(new[p]) = {Redirected(st, c) : c \in Kids(st.pat[p])}
      /\ \A r \in 0 .. n - 1 : r # p => new[r] = st.pat[r]
  BY <1>2, <1>6 DEF Relinks
<1>8. Unique(new, tb) /\ 0 \in tb /\ new[0] = Empty
  <2>1. \A a, b \in tb : new[a] = st.pat[a] /\ new[b] = st.pat[b]
    BY <1>2, <1>7
  <2>2. p # 0
    BY <1>3
  <2> QED
    BY <1>1, <1>2, <1>7, <2>1, <2>2 DEF Unique
<1>9. Sound(new, x)
  <2>1. ASSUME NEW r \in 0 .. n - 1
        PROVE  /\ new[r].t # "erased" /\ Kids(new[r]) \subseteq 0 .. n - 1
               /\ r \in Used(x) => Kids(new[r]) \subseteq {0} \cup Used(x)
    <3>1. /\ st.pat[r].t # "erased" /\ Kids(st.pat[r]) \subseteq 0 .. n - 1
          /\ r \in Used(x) => Kids(st.pat[r]) \subseteq {0} \cup Used(x)
      BY <1>1, <1>2 DEF Sound
    <3>2. CASE r # p
      BY <1>7, <3>1, <3>2
    <3>3. CASE r = p
      <4>1. Kids(new[p]) \subseteq {0} \cup Used(x)
        BY <1>4, <1>5, <1>7
      <4>2. {0} \cup Used(x) \subseteq 0 .. n - 1
        BY <1>3
      <4> QED
        BY <1>7, <3>1, <3>3, <4>1, <4>2
    <3> QED
      BY <3>2, <3>3
  <2> QED
    BY <1>3, <1>6, <2>1 DEF Sound
<1>10. /\ next = [pat |-> new, tab |-> tb, marked |-> st.marked, xlat |-> x, changed |-> TRUE]
       /\ next.pat = new /\ next.tab = tb /\ next.marked = st.marked /\ next.xlat = x /\ next.changed = TRUE
  <2>1. next = [pat |-> new, tab |-> tb, marked |-> st.marked, xlat |-> st.xlat, changed |-> TRUE]
    BY <1>1 DEF Stores, Replacing
  <2>2. /\ next.pat = new /\ next.tab = tb /\ next.marked = st.marked
        /\ next.xlat = st.xlat /\ next.changed = TRUE
    BY <2>1
  <2>3. x = st.xlat
    BY DEF x
  <2> QED
    BY <2>1, <2>2, <2>3
<1>11. tb \in SUBSET (0 .. n - 1) /\ tb \cap Used(x) \subseteq Roots(x)
  BY <1>1, <1>2
<1>12. next \in Stores(n)
  BY <1>2, <1>6, <1>10, <1>11 DEF Stores, x
<1> QED
  BY <1>1, <1>8, <1>9, <1>10, <1>11, <1>12 DEF Sweeping, x

LEMMA ResweepStands ==
  ASSUME NEW n \in Nat \ {0}, NEW st \in Settling(n), NEW p \in 1 .. n - 1,
         NEW nx, nx = Resweep(st, p),
         NEW U, InUse(U), NEW s \in U, Stands(st, U, s)
  PROVE  Stands(nx, U, s)
<1>1. PICK x : x = st.xlat
  OBVIOUS
<1>2. PICK tb : tb = st.tab \ {p}
  OBVIOUS
<1>3. PICK new : new = Relinked(st, p)
  OBVIOUS
<1>4. PICK q : q = ht_get(new, tb, p)
  OBVIOUS
<1>5. PICK next : next = Replacing(st, new, tb)
  OBVIOUS
<1>6. nx = CASE x[p] # p \/ new = st.pat -> st
             [] x[p] = p /\ new # st.pat /\ q = None -> [next EXCEPT !.tab = @ \cup {p}]
             [] OTHER -> redir_p(next, p, q)
  BY <1>1, <1>2, <1>3, <1>4, <1>5 DEF Resweep, Lookup, Replacing
<1>7. CASE x[p] # p \/ new = st.pat
  BY <1>6, <1>7
<1>8. CASE x[p] = p /\ new # st.pat
  <2>1. st \in Stores(n) /\ Sweeping(n, st)
    BY DEF Settling
  <2>2. p \in Roots(st.xlat) /\ st.tab \in SUBSET (0 .. n - 1)
    BY <1>1, <1>8, <2>1 DEF Stores, Roots
  <2>3. /\ Sweeping(n, next)
        /\ next.pat = new /\ next.tab = tb /\ next.xlat = st.xlat
    <3>1. p \in Roots(st.xlat)
      BY <2>2
    <3> QED
      BY <1>2, <1>3, <1>5, <3>1, RelinkSweeps
  <2>4. U = {0} \cup Used(st.xlat) /\ Standing(st.pat, st.xlat, s)
    BY DEF Stands
  <2>5. Standing(new, st.xlat, s)
    BY <1>3, <2>1, <2>2, <2>4, RelinkStands
  <2>6. Stands(next, U, s)
    BY <2>3, <2>4, <2>5 DEF Stands
  <2>7. CASE q = None
    <3>1. nx = [next EXCEPT !.tab = @ \cup {p}]
      BY <1>6, <1>8, <2>7
    <3>2. next \in Stores(n)
      BY <2>3 DEF Sweeping
    <3>3. nx.pat = next.pat /\ nx.xlat = next.xlat
      BY <3>1, <3>2 DEF Stores
    <3> QED
      BY <2>6, <3>3 DEF Stands
  <2>8. CASE q # None
    <3>1. nx = redir_p(next, p, q)
      BY <1>6, <1>8, <2>8
    <3>2. q \in tb /\ new[q] = new[p]
      <4>1. tb \in SUBSET Nat
        BY <1>2, <2>2
      <4> QED
        BY <1>4, <2>8, <4>1, Lookups
    <3>3. q \in next.tab /\ q # p /\ next.pat[q] = next.pat[p] /\ p \in Roots(next.xlat)
      BY <1>2, <2>2, <2>3, <3>2
    <3> QED
      BY <2>3, <2>6, <3>1, <3>3, RedirStands
  <2> QED
    BY <2>7, <2>8
<1> QED
  BY <1>7, <1>8

(* Nor do whole rounds.                                                    *)
LEMMA MergedStand ==
  ASSUME NEW n \in Nat \ {0}, pat \in [0 .. n - 1 -> Pattern], NEW c \in Merging(n),
         NEW U, InUse(U), NEW s \in U, Stands(c, U, s),
         NEW r, r = Pass(Merge, c)
  PROVE  r \in Merging(n) /\ Stands(r, U, s)
<1> DEFINE S == {st \in Merging(n) : Stands(st, U, s)}
<1>1. ASSUME NEW z \in S, NEW k \in 1 .. n - 1 PROVE Merge(z, k) \in S
  <2>1. PICK nx : nx = Merge(z, k)
    OBVIOUS
  <2>2. PICK st \in Merging(n) : st = z /\ Stands(st, U, s)
    OBVIOUS
  <2>3. nx = Merge(st, k)
    BY <2>1, <2>2
  <2>4. nx \in Merging(n)
    BY <2>3, Merged
  <2>5. Stands(nx, U, s)
    BY <2>2, <2>3, MergeStands
  <2> QED
    BY <2>1, <2>4, <2>5
<1>2. c \in S
  OBVIOUS
<1>3. \A z \in S : z \in Merging(n) /\ Stands(z, U, s)
  OBVIOUS
<1> HIDE DEF S
<1>4. PICK g \in Results(S, n - 1) : Pass(Merge, c) = g[n - 1] /\ MergeRun(g, c, n - 1)
  BY <1>1, <1>2, MergePass
<1>5. g[n - 1] \in S
  BY <1>4 DEF Results
<1> QED
  BY <1>3, <1>4, <1>5

LEMMA ResweptStand ==
  ASSUME NEW n \in Nat \ {0}, pat \in [0 .. n - 1 -> Pattern], NEW c \in Settling(n),
         NEW U, InUse(U), NEW s \in U, Stands(c, U, s),
         NEW r, r = Pass(Resweep, c)
  PROVE  Stands(r, U, s)
<1> DEFINE S == {st \in Settling(n) : Stands(st, U, s)}
<1>1. ASSUME NEW z \in S, NEW k \in 1 .. n - 1 PROVE Resweep(z, k) \in S
  <2>1. PICK nx : nx = Resweep(z, k)
    OBVIOUS
  <2>2. PICK st \in Settling(n) : st = z /\ Stands(st, U, s)
    OBVIOUS
  <2>3. nx = Resweep(st, k)
    BY <2>1, <2>2
  <2>4. nx \in Settling(n)
    BY <2>3, Reswept
  <2>5. Stands(nx, U, s)
    BY <2>2, <2>3, ResweepStands
  <2> QED
    BY <2>1, <2>4, <2>5
<1>2. c \in S
  OBVIOUS
<1>3. \A z \in S : Stands(z, U, s)
  OBVIOUS
<1> HIDE DEF S
<1>4. PICK g \in Results(S, n - 1) : Pass(Resweep, c) = g[n - 1] /\ ResweepRun(g, c, n - 1)
  BY <1>1, <1>2, ResweepPass
<1>5. g[n - 1] \in S
  BY <1>4 DEF Results
<1> QED
  BY <1>3, <1>4, <1>5

(* What a step leaves is still a store of the schema's patterns.           *)
LEMMA StandKept ==
  ASSUME schema \in Schemas, UNCHANGED <<schema, nul>>,
         NEW x, x = xlat', NEW pt, pt = pat', NEW s, s = start',
         NEW U, InUse(U), U = {0} \cup Used(x), s \in U, Standing(pt, x, s),
         pc' \in {"sweep_p_loop", "unmark_p", "compress_p"},
         pc' = "compress_p" => tab' = {0} \cup Roots(x) /\ Used(x) \subseteq DOMAIN pt
  PROVE  MInv'
<1>1. Sense' = Sense /\ Ideal' = Ideal
  BY SchemaSame
<1>2. Merged_p'
  <2>1. PICK R : Represents(pt, x, R) /\ R[s] = R[Sense[schema.start]]
    BY DEF Standing
  <2>2. R[start'] = R[Sense'[schema'.start]]
    BY <1>1, <2>1
  <2>3. Represents(pat, xlat, R)'
    BY <1>1, <2>1 DEF Represents, Alike, Used, Roots
  <2>4. start' \in {0} \cup Used(xlat')
    OBVIOUS
  <2> QED
    BY <2>2, <2>3, <2>4 DEF Merged_p, Standing, Used
<1>3. InUse(U)'
  BY InUseKept
<1>4. InUse({0} \cup Used(xlat))'
  BY <1>3 DEF InUse, Generated, FlagsOf, Used
<1>5. pc' = "compress_p" => tab' = {0} \cup Roots(xlat') /\ Used(xlat') \subseteq DOMAIN pat'
  OBVIOUS
<1>6. pc' = "compress_p" => (tab = {0} \cup Roots(xlat) /\ Used(xlat) \subseteq DOMAIN pat)'
  BY <1>5 DEF Roots, Used
<1> QED
  BY <1>2, <1>4, <1>6 DEF MInv, MPhase

LEMMA RoundKept ==
  ASSUME schema \in Schemas, NEW r, Swept(r), pc' = "sweep_p_loop",
         NEW U, InUse(U), start \in U, Stands(r, U, start)
  PROVE  MInv'
<1>1. pat' = r.pat /\ xlat' = r.xlat /\ UNCHANGED <<schema, nul, start>>
  BY DEF Swept
<1>2. PICK x : x = xlat'
  OBVIOUS
<1>3. PICK pt : pt = pat'
  OBVIOUS
<1>4. PICK s : s = start'
  OBVIOUS
<1>5. U = {0} \cup Used(x) /\ Standing(pt, x, s) /\ s \in U
  BY <1>1, <1>2, <1>3, <1>4 DEF Stands
<1>6. /\ pc' \in {"sweep_p_loop", "unmark_p", "compress_p"}
      /\ pc' = "compress_p" => tab' = {0} \cup Roots(x) /\ Used(x) \subseteq DOMAIN pt
  OBVIOUS
<1> QED
  BY <1>1, <1>2, <1>3, <1>4, <1>5, <1>6, StandKept

LEMMA M_sweep_p_init ==
  ASSUME IInv, MInv, sweep_p_init
  PROVE  MInv'
<1> DEFINE x == [p \in Stored |-> IF p \in marked THEN p ELSE None]
           c == Store(x, FALSE)
<1>1. pc = "sweep_p" /\ Swept(Pass(Merge, c)) /\ pc' = "sweep_p_loop"
  BY DEF sweep_p_init, Goto
<1>2. Unswept /\ Whole /\ TypeOK /\ InStore
  BY <1>1 DEF IInv, Phase
<1>3. PICK n \in Nat \ {0} : n = Size
  BY <1>2 DEF InStore
<1>4. pat \in [0 .. n - 1 -> Pattern]
  BY <1>2, <1>3 DEF InStore
<1>5. PICK U : U = {0} \cup marked
  OBVIOUS
<1>6. schema \in Schemas /\ InUse(U) /\ Unmerged(U)
  BY <1>1, <1>5 DEF MInv, MPhase
<1>7. c.pat = pat /\ c.xlat = x
  BY DEF Store
<1>8. c \in Merging(n) /\ Used(x) = marked /\ Roots(x) = marked /\ \A p \in marked : x[p] = p
  <2>1. PICK y : y = x
    OBVIOUS
  <2>2. PICK d : d = c
    OBVIOUS
  <2>3. d \in Merging(n) /\ Used(y) = marked /\ Roots(y) = marked /\ \A p \in marked : y[p] = p
    BY <1>1, <1>3, <2>1, <2>2, Sweepable
  <2> QED
    BY <2>1, <2>2, <2>3
<1> HIDE DEF x, c
<1>9. Standing(pat, x, start)
  <2> DEFINE R == [p \in U |-> p]
  <2>1. R \in [U -> U] /\ \A p \in U : R[p] = p
    OBVIOUS
  <2>2. \A p \in U : Alike(Ideal[p], pat[p], R)
    BY <1>6 DEF Unmerged
  <2>3. start = Sense[schema.start]
    BY <1>6 DEF Unmerged
  <2> HIDE DEF R
  <2>4. Represents(pat, x, R)
    <3>1. \A p \in U : Alike(Ideal[p], pat[R[p]], R)
      BY <2>1, <2>2
    <3>2. \A p \in marked : p \in U /\ R[x[p]] = R[p]
      BY <1>5, <1>8, <2>1
    <3> QED
      BY <1>5, <1>8, <2>1, <3>1, <3>2 DEF Represents
  <2> QED
    BY <2>3, <2>4 DEF Standing
<1>10. start \in U
  BY <1>6 DEF InUse, Generated, Unmerged
<1>11. Stands(c, U, start)
  BY <1>5, <1>7, <1>8, <1>9 DEF Stands
<1>12. PICK r : r = Pass(Merge, c)
  OBVIOUS
<1>13. Stands(r, U, start)
  BY <1>4, <1>6, <1>8, <1>10, <1>11, <1>12, MergedStand
<1>14. Swept(r)
  BY <1>1, <1>12
<1> QED
  BY <1>1, <1>6, <1>10, <1>13, <1>14, RoundKept

LEMMA M_sweep_p_round ==
  ASSUME IInv, MInv, sweep_p_round
  PROVE  MInv'
<1> DEFINE c == Store(xlat, FALSE)
<1>1. pc = "sweep_p_loop" /\ Swept(Pass(Resweep, c)) /\ pc' = "sweep_p_loop"
  BY DEF sweep_p_round, Round
<1>2. Swept_p /\ InStore
  BY <1>1 DEF IInv, Phase
<1>3. PICK n \in Nat \ {0} : n = Size
  BY <1>2 DEF InStore
<1>4. pat \in [0 .. n - 1 -> Pattern]
  BY <1>2, <1>3 DEF InStore
<1>5. PICK st : st = Store(xlat, changed)
  OBVIOUS
<1>6. /\ st.pat = pat /\ st.tab = tab /\ st.marked = marked /\ st.xlat = xlat
      /\ c = [pat |-> pat, tab |-> tab, marked |-> marked, xlat |-> xlat, changed |-> FALSE]
      /\ c.pat = pat /\ c.tab = tab /\ c.marked = marked /\ c.xlat = xlat
  BY <1>5 DEF Store
<1>7. st \in Stores(n) /\ Sweeping(n, st) /\ Roots(st.xlat) \subseteq st.tab
  BY <1>2, <1>3, <1>5 DEF Swept_p, Settling
<1> HIDE DEF c
<1>8. c \in Stores(n)
  BY <1>6, <1>7 DEF Stores
<1>9. c \in Settling(n)
  BY <1>6, <1>7, <1>8 DEF Settling, Sweeping
<1>10. PICK U : U = {0} \cup Used(xlat)
  OBVIOUS
<1>11. schema \in Schemas /\ InUse(U) /\ Merged_p
  BY <1>1, <1>10 DEF MInv, MPhase
<1>12. Stands(c, U, start) /\ start \in U
  BY <1>6, <1>10, <1>11 DEF Merged_p, Stands
<1>13. PICK r : r = Pass(Resweep, c)
  OBVIOUS
<1>14. Stands(r, U, start)
  BY <1>4, <1>9, <1>11, <1>12, <1>13, ResweptStand
<1>15. Swept(r)
  BY <1>1, <1>13
<1> QED
  BY <1>1, <1>11, <1>12, <1>14, <1>15, RoundKept

LEMMA M_sweep_p_done ==
  ASSUME IInv, MInv, sweep_p_done
  PROVE  MInv'
<1>1. /\ pc = "sweep_p_loop" /\ pc' = "unmark_p"
      /\ start' = Redirected([xlat |-> xlat], start)
      /\ UNCHANGED <<schema, pat, nul, xlat>>
  BY DEF sweep_p_done, Goto
<1>2. Swept_p /\ InStore
  BY <1>1 DEF IInv, Phase
<1>3. PICK x : x = xlat
  OBVIOUS
<1>4. PICK pt : pt = pat
  OBVIOUS
<1>5. PICK s : s = start'
  OBVIOUS
<1>6. PICK U : U = {0} \cup Used(x)
  OBVIOUS
<1>7. schema \in Schemas /\ InUse(U) /\ start \in U /\ Standing(pt, x, start)
  BY <1>1, <1>3, <1>4, <1>6 DEF MInv, MPhase, Merged_p
<1>8. PICK n \in Nat \ {0} : n = Size
  BY <1>2 DEF InStore
<1>9. x \in [1 .. n - 1 -> -1 .. n - 1] /\ Lands(x)
  <2>1. PICK st : st = Store(xlat, changed)
    OBVIOUS
  <2>2. st.xlat = x
    BY <1>3, <2>1 DEF Store
  <2>3. Sweeping(n, st) /\ st \in Stores(n)
    BY <1>2, <1>8, <2>1 DEF Swept_p, Settling
  <2> QED
    BY <2>2, <2>3 DEF Sweeping, Stores
<1>10. s \in U /\ Standing(pt, x, s)
  <2>1. CASE start = 0
    <3>1. s = 0
      BY <1>1, <1>5, <2>1 DEF Redirected, base_p
    <3> QED
      BY <1>7, <2>1, <3>1
  <2>2. CASE start \in Used(x)
    <3>1. start \in 1 .. n - 1
      BY <1>9, <2>2 DEF Used
    <3>2. s = x[start]
      BY <1>1, <1>3, <1>5, <3>1 DEF Redirected, base_p
    <3>3. s \in U
      BY <1>6, <1>9, <2>2, <3>2 DEF Lands
    <3>4. PICK R : Represents(pt, x, R) /\ R[start] = R[Sense[schema.start]]
      BY <1>7 DEF Standing
    <3>5. R[s] = R[start]
      BY <2>2, <3>2, <3>4 DEF Represents
    <3> QED
      BY <3>3, <3>4, <3>5 DEF Standing
  <2> QED
    BY <1>6, <1>7, <2>1, <2>2
<1>11. /\ pc' \in {"sweep_p_loop", "unmark_p", "compress_p"}
       /\ pc' = "compress_p" => tab' = {0} \cup Roots(x) /\ Used(x) \subseteq DOMAIN pt
  BY <1>1
<1>12. x = xlat' /\ pt = pat' /\ UNCHANGED <<schema, nul>>
  BY <1>1, <1>3, <1>4
<1> QED
  BY <1>5, <1>6, <1>7, <1>10, <1>11, <1>12, StandKept

LEMMA M_unmark_p ==
  ASSUME IInv, MInv, unmark_p
  PROVE  MInv'
<1>1. /\ pc = "unmark_p" /\ pc' = "compress_p"
      /\ pat' = [p \in DOMAIN pat |-> IF p \in Stored \ marked THEN Erased ELSE pat[p]]
      /\ UNCHANGED <<schema, nul, xlat, start>>
  BY DEF unmark_p, Goto
<1>2. Swept_p /\ InStore
  BY <1>1 DEF IInv, Phase
<1>3. PICK x : x = xlat
  OBVIOUS
<1>4. PICK pt : pt = pat'
  OBVIOUS
<1>5. PICK U : U = {0} \cup Used(x)
  OBVIOUS
<1>6. schema \in Schemas /\ InUse(U) /\ start \in U /\ Standing(pat, x, start)
  BY <1>1, <1>3, <1>5 DEF MInv, MPhase, Merged_p
<1>7. PICK n \in Nat \ {0} : n = Size
  BY <1>2 DEF InStore
<1>8. /\ x \in [1 .. n - 1 -> -1 .. n - 1] /\ marked = Roots(x)
      /\ DOMAIN pat = 0 .. n - 1 /\ Stored = 1 .. n - 1
  <2>1. PICK st : st = Store(xlat, changed)
    OBVIOUS
  <2>2. st.xlat = x /\ st.marked = marked
    BY <1>3, <2>1 DEF Store
  <2>3. Sweeping(n, st) /\ st \in Stores(n)
    BY <1>2, <1>7, <2>1 DEF Swept_p, Settling
  <2>4. DOMAIN pat = 0 .. n - 1 /\ Stored = 1 .. n - 1
    BY <1>2, <1>7, Sizes DEF InStore
  <2> QED
    BY <2>2, <2>3, <2>4 DEF Sweeping, Stores
<1>9. Standing(pt, x, start)
  <2>1. PICK R : Represents(pat, x, R) /\ R[start] = R[Sense[schema.start]]
    BY <1>6 DEF Standing
  <2>2. \A p \in {0} \cup Roots(x) : p \in DOMAIN pat /\ p \notin Stored \ marked
    BY <1>8 DEF Roots
  <2>3. \A p \in {0} \cup Roots(x) : pt[p] = pat[p]
    BY <1>1, <1>4, <2>2
  <2>4. \A p \in {0} \cup Used(x) : pt[R[p]] = pat[R[p]]
    BY <2>1, <2>3 DEF Represents
  <2>5. Represents(pt, x, R)
    BY <2>1, <2>4 DEF Represents
  <2> QED
    BY <2>1, <2>5 DEF Standing
<1>10. tab' = {0} \cup Roots(x) /\ Used(x) \subseteq DOMAIN pt
  <2>1. tab' = {p \in DOMAIN pat' : pat'[p].t # "erased"}
    BY <1>1, Step_unmark_p DEF IInv, Phase, Left
  <2>2. DOMAIN pat' = 0 .. n - 1
    BY <1>1, <1>8
  <2>3. ASSUME NEW p \in 0 .. n - 1 PROVE pat'[p].t # "erased" <=> p \in {0} \cup Roots(x)
    <3>1. CASE p \in {0} \cup Roots(x)
      <4>1. pat'[p] = pat[p]
        BY <1>1, <1>8, <3>1
      <4>2. pat[p].t # "erased"
        BY <1>2, <1>7, <1>8 DEF Swept_p, Settling, Sweeping, Sound, Store
      <4> QED
        BY <3>1, <4>1, <4>2
    <3>2. CASE p \notin {0} \cup Roots(x)
      <4>1. pat'[p] = Erased
        BY <1>1, <1>8, <3>2
      <4>2. Erased.t = "erased"
        BY DEF Erased
      <4> QED
        BY <3>2, <4>1, <4>2
    <3> QED
      BY <3>1, <3>2
  <2>4. {0} \cup Roots(x) \subseteq 0 .. n - 1 /\ Used(x) \subseteq 0 .. n - 1
    BY <1>8 DEF Roots, Used
  <2> QED
    BY <1>4, <2>1, <2>2, <2>3, <2>4
<1>11. pc' \in {"sweep_p_loop", "unmark_p", "compress_p"}
  BY <1>1
<1>12. PICK s : s = start'
  OBVIOUS
<1>13. s \in U /\ Standing(pt, x, s)
  BY <1>1, <1>6, <1>9, <1>12
<1>14. x = xlat' /\ pt = pat' /\ UNCHANGED <<schema, nul>>
  BY <1>1, <1>3, <1>4
<1> QED
  BY <1>5, <1>6, <1>10, <1>11, <1>12, <1>13, <1>14, StandKept

(* Moving the patterns that are left.                                      *)
LEMMA M_compress_p ==
  ASSUME IInv, MInv, compress_p
  PROVE  MInv'
<1>1. pc = "compress_p" /\ pc' = "loaded" /\ UNCHANGED schema
  BY DEF compress_p, Goto
<1>2. PICK to, from, m : Compresses(to, from, m)
  BY Compressed
<1>3. PICK pt : pt = pat'
  OBVIOUS
<1>4. PICK U : U = {0} \cup Used(xlat)
  OBVIOUS
<1>5. /\ schema \in Schemas /\ InUse(U) /\ start \in U /\ Standing(pat, xlat, start)
      /\ tab = {0} \cup Roots(xlat) /\ Used(xlat) \subseteq DOMAIN pat
  BY <1>1, <1>4 DEF MInv, MPhase, Merged_p
<1>6. /\ 0 \in U /\ U \subseteq DOMAIN schema.pat /\ Generated(U) /\ FlagsOf(U, nul)
  BY <1>5 DEF InUse
<1>7. Sense[schema.start] \in U /\ \A p \in U : Kids(Ideal[p]) \subseteq U
  BY <1>6 DEF Generated
<1>8. /\ InStore /\ tab \subseteq DOMAIN pat /\ 0 \in tab
      /\ \A p \in tab : Kids(pat[p]) \subseteq tab
  BY <1>1 DEF IInv, Phase, Left
<1>9. tab \subseteq U
  <2>1. \A p \in Roots(xlat) : p \in DOMAIN xlat /\ xlat[p] = p /\ p \in Int
    BY <1>5, <1>8 DEF Roots, InStore
  <2>2. \A p \in Roots(xlat) : p \in DOMAIN pat /\ p # None
    BY <1>5, <1>8 DEF InStore, None
  <2> QED
    BY <1>4, <1>5, <2>1, <2>2 DEF Used
<1>10. PICK R : Represents(pat, xlat, R) /\ R[start] = R[Sense[schema.start]]
  BY <1>5 DEF Standing
<1>11. /\ R \in [U -> tab] /\ \A p \in tab : R[p] = p
       /\ \A p \in U : Alike(Ideal[p], pat[R[p]], R)
  BY <1>4, <1>5, <1>10 DEF Represents
<1> DEFINE N == 0 .. m - 1
<1>12. /\ m \in Nat \ {0} /\ to[0] = 0
       /\ \A p \in DOMAIN pat : p # 0 /\ p \notin tab => to[p] = None
       /\ \A p \in tab : to[p] \in N /\ from[to[p]] = p
       /\ \A q \in N : from[q] \in tab /\ to[from[q]] = q
       /\ pt = [q \in N |-> Moved(pat[from[q]], to)]
       /\ nul' = {q \in N : from[q] \in nul}
       /\ start' = to[start]
  BY <1>2, <1>3 DEF Compresses
<1> DEFINE T == [p \in U |-> to[R[p]]]
<1>13. DOMAIN pt = N /\ \A q \in N : pt[q] = Moved(pat[from[q]], to)
  BY <1>12
<1>14. T \in [U -> N] /\ \A p \in U : T[p] = to[R[p]]
  <2>1. \A p \in U : to[R[p]] \in N
    BY <1>11, <1>12
  <2> QED
    BY <2>1
<1> HIDE DEF T, N
<1>15. T[0] = 0 /\ \A q \in N : from[q] \in U /\ T[from[q]] = q
  BY <1>6, <1>8, <1>9, <1>11, <1>12, <1>14
<1>16. ASSUME NEW p \in U PROVE Mirrors(pt[T[p]], Ideal[p], T)
  <2>1. R[p] \in tab /\ T[p] \in N /\ from[T[p]] = R[p]
    BY <1>11, <1>12, <1>14
  <2>2. PICK b \in Pattern : b = pat[R[p]]
    BY <1>8, <2>1 DEF InStore
  <2>3. PICK a : a = Ideal[p]
    OBVIOUS
  <2>4. PICK s : s = pt[T[p]]
    OBVIOUS
  <2>5. s = Moved(b, to)
    BY <1>13, <2>1, <2>2, <2>4
  <2>6. /\ s.t = b.t /\ s.nc = b.nc
        /\ b.t \in Binary \cup Unary => s.p1 = to[b.p1]
        /\ b.t \in Binary => s.p2 = to[b.p2]
    BY <2>5, MovedFields
  <2>7. /\ a.t = b.t /\ a.nc = b.nc
        /\ a.t \in Binary \cup Unary => R[a.p1] = R[b.p1]
        /\ a.t \in Binary => R[a.p2] = R[b.p2]
    BY <1>11, <2>2, <2>3 DEF Alike
  <2>8. Kids(b) \subseteq tab /\ Kids(a) \subseteq U
    BY <1>7, <1>8, <2>1, <2>2, <2>3
  <2>9. a.t \in Binary \cup Unary => s.p1 = T[a.p1]
    <3> SUFFICES ASSUME a.t \in Binary \cup Unary PROVE s.p1 = T[a.p1]
      OBVIOUS
    <3>1. b.p1 \in tab /\ a.p1 \in U
      BY <2>7, <2>8, KidsOf
    <3>2. R[a.p1] = b.p1
      BY <1>11, <2>7, <3>1
    <3> QED
      BY <1>14, <2>6, <2>7, <3>1, <3>2
  <2>10. a.t \in Binary => s.p2 = T[a.p2]
    <3> SUFFICES ASSUME a.t \in Binary PROVE s.p2 = T[a.p2]
      OBVIOUS
    <3>1. b.p2 \in tab /\ a.p2 \in U
      BY <2>7, <2>8, KidsOf
    <3>2. R[a.p2] = b.p2
      BY <1>11, <2>7, <3>1
    <3> QED
      BY <1>14, <2>6, <2>7, <3>1, <3>2
  <2>11. Mirrors(s, a, T)
    BY <2>6, <2>7, <2>9, <2>10 DEF Mirrors
  <2> QED
    BY <2>3, <2>4, <2>11
<1>17. ASSUME start' # None PROVE T[Sense[schema.start]] = start'
  <2>1. start \in DOMAIN pat
    BY <1>4, <1>5, <1>8
  <2>2. start \in tab
    BY <1>8, <1>12, <1>17, <2>1
  <2>3. R[start] = start
    BY <1>11, <2>2
  <2> QED
    <3>1. PICK u \in U : u = Sense[schema.start]
      BY <1>7
    <3>2. T[u] = to[R[u]] /\ R[u] = start
      BY <1>10, <1>14, <2>3, <3>1
    <3>3. start' = to[start]
      BY <1>12
    <3> QED
      BY <3>1, <3>2, <3>3
<1>18. PICK fl : fl = nul
  OBVIOUS
<1>19. Sense' = Sense /\ Ideal' = Ideal
  BY <1>1, SchemaSame
<1>20. ASSUME start' # None PROVE Carried'
  <2>1. FlagsOf(U, fl)' /\ Generated(U)'
    <3>1. \A p, A : NullableBy(Ideal, p, A)' <=> NullableBy(Ideal, p, A)
      BY <1>19 DEF NullableBy
    <3>2. FlagsOf(U, fl)'
      BY <1>6, <1>18, <1>19, <3>1 DEF FlagsOf
    <3>3. Generated(U)'
      BY <1>1, <1>6, <1>19 DEF Generated
    <3> QED
      BY <3>2, <3>3
  <2>2. /\ 0 \in U /\ U \subseteq DOMAIN schema'.pat
        /\ T \in [U -> DOMAIN pat'] /\ T[0] = 0 /\ T[Sense'[schema'.start]] = start'
    BY <1>1, <1>3, <1>6, <1>13, <1>14, <1>15, <1>17, <1>19, <1>20
  <2>3. nul' \subseteq DOMAIN pat'
    BY <1>3, <1>12, <1>13
  <2>4. \A q \in DOMAIN pat' : \E p \in U : T[p] = q /\ (q \in nul' <=> p \in fl)
    BY <1>3, <1>12, <1>13, <1>15, <1>18
  <2>5. \A p \in U : Mirrors(pat'[T[p]], Ideal'[p], T)
    BY <1>3, <1>16, <1>19
  <2>6. Carries(U, T, fl)'
    BY <2>1, <2>2, <2>3, <2>4, <2>5 DEF Carries, Mirrors
  <2> QED
    BY <2>6 DEF Carried
<1> QED
  BY <1>1, <1>5, <1>20 DEF MInv, MPhase

-----------------------------------------------------------------------------
(* What has been loaded.  T takes children to children.                    *)
LEMMA CarriedKids ==
  ASSUME NEW U, NEW T, NEW fl, Carries(U, T, fl), NEW p \in U
  PROVE  Kids(pat[T[p]]) = {T[c] : c \in Kids(Ideal[p])} /\ Kids(Ideal[p]) \subseteq U
<1>1. PICK a : a = pat[T[p]]
  OBVIOUS
<1>2. PICK b : b = Ideal[p]
  OBVIOUS
<1>3. /\ a.t = b.t
      /\ b.t \in Binary \cup Unary => a.p1 = T[b.p1]
      /\ b.t \in Binary => a.p2 = T[b.p2]
  BY <1>1, <1>2 DEF Carries, Mirrors
<1>4. Kids(a) = {T[c] : c \in Kids(b)}
  <2>1. CASE b.t \in Binary
    <3>1. Kids(b) = {b.p1, b.p2} /\ Kids(a) = {a.p1, a.p2}
      BY <1>3, <2>1, KidsOf
    <3>2. a.p1 = T[b.p1] /\ a.p2 = T[b.p2]
      BY <1>3, <2>1
    <3> QED
      BY <3>1, <3>2
  <2>2. CASE b.t \in Unary
    BY <1>3, <2>2, KidsOf
  <2>3. CASE b.t \notin Binary \cup Unary
    BY <1>3, <2>3, KidsOf
  <2> QED
    BY <2>1, <2>2, <2>3
<1>5. Kids(b) \subseteq U
  BY <1>2 DEF Carries, Generated
<1> QED
  BY <1>1, <1>2, <1>4, <1>5

LEMMA MeansTheSame ==
  ASSUME schema \in Schemas, InStore, Carried
  PROVE  SameSchema
<1> SUFFICES ASSUME pc = "loaded" PROVE SameSchema
  BY DEF SameSchema
<1>1. PICK U, T, fl : Carries(U, T, fl)
  BY DEF Carried
<1>2. /\ U \subseteq DOMAIN schema.pat /\ Generated(U)
      /\ T \in [U -> DOMAIN pat] /\ T[Sense[schema.start]] = start
      /\ \A p \in U : Mirrors(pat[T[p]], Ideal[p], T)
  BY <1>1 DEF Carries
<1>3. Sense[schema.start] \in U /\ \A p \in U : Kids(Ideal[p]) \subseteq U
  BY <1>2 DEF Generated
<1> DEFINE B == {<<p, T[p]>> : p \in U}
           Q == (DOMAIN schema.pat) \X Int
           Further == [E \in SUBSET ((DOMAIN schema.pat) \X Int) |-> E \cup UNION {Beside(e) : e \in E}]
           n == Cardinality(DOMAIN schema.pat) + Cardinality(DOMAIN pat)
           x == {<<Meant(schema.start), start>>}
<1>4. ASSUME NEW p \in U
      PROVE  OneKind(<<p, T[p]>>) /\ Beside(<<p, T[p]>>) \subseteq B
  <2>1. p \in DOMAIN schema.pat /\ T[p] \in DOMAIN pat
    BY <1>2
  <2>2. PICK a : a = schema.pat[p]
    OBVIOUS
  <2>3. PICK d : d = Ideal[p]
    OBVIOUS
  <2>4. PICK q : q = pat[T[p]]
    OBVIOUS
  <2>5. /\ d.t = a.t /\ d.nc = a.nc
        /\ a.t \in Binary \cup Unary => d.p1 = Sense[a.p1]
        /\ a.t \in Binary => d.p2 = Sense[a.p2]
    BY <2>1, <2>2, <2>3, IdealOnes
  <2>6. /\ q.t = d.t /\ q.nc = d.nc
        /\ d.t \in Binary \cup Unary => q.p1 = T[d.p1]
        /\ d.t \in Binary => q.p2 = T[d.p2]
    BY <1>2, <2>3, <2>4 DEF Mirrors
  <2>7. Kids(d) \subseteq U /\ Kids(a) \subseteq DOMAIN schema.pat
    BY <1>3, <2>1, <2>2, <2>3, Parsed
  <2>8. PICK e : e = <<p, T[p]>>
    OBVIOUS
  <2>9. e[1] = p /\ e[2] = T[p]
    BY <2>8
  <2>10. OneKind(e)
    BY <2>1, <2>2, <2>4, <2>5, <2>6, <2>9 DEF OneKind
  <2>11. Beside(e) = CASE a.t \in Binary -> {<<Meant(a.p1), q.p1>>, <<Meant(a.p2), q.p2>>}
                       [] a.t \in Unary -> {<<Meant(a.p1), q.p1>>}
                       [] OTHER -> {}
    BY <2>2, <2>4, <2>9, <2>10 DEF Beside
  <2>12. a.t \in Binary \cup Unary => <<Meant(a.p1), q.p1>> \in B
    <3> SUFFICES ASSUME a.t \in Binary \cup Unary PROVE <<Meant(a.p1), q.p1>> \in B
      OBVIOUS
    <3>1. a.p1 \in DOMAIN schema.pat /\ d.p1 \in U
      BY <2>5, <2>7, KidsOf
    <3>2. Meant(a.p1) = d.p1
      BY <2>5, <3>1 DEF Sense
    <3>3. q.p1 = T[d.p1]
      BY <2>5, <2>6
    <3> QED
      BY <3>1, <3>2, <3>3
  <2>13. a.t \in Binary => <<Meant(a.p2), q.p2>> \in B
    <3> SUFFICES ASSUME a.t \in Binary PROVE <<Meant(a.p2), q.p2>> \in B
      OBVIOUS
    <3>1. a.p2 \in DOMAIN schema.pat /\ d.p2 \in U
      BY <2>5, <2>7, KidsOf
    <3>2. Meant(a.p2) = d.p2
      BY <2>5, <3>1 DEF Sense
    <3>3. q.p2 = T[d.p2]
      BY <2>5, <2>6
    <3> QED
      BY <3>1, <3>2, <3>3
  <2> HIDE DEF B
  <2>14. Beside(e) \subseteq B
    <3>1. CASE a.t \in Binary
      BY <2>11, <2>12, <2>13, <3>1
    <3>2. CASE a.t \in Unary
      <4>1. a.t \notin Binary
        BY <3>2 DEF Binary, Unary
      <4> QED
        BY <2>11, <2>12, <3>2, <4>1
    <3>3. CASE a.t \notin Binary \cup Unary
      BY <2>11, <3>3
    <3> QED
      BY <3>1, <3>2, <3>3
  <2> QED
    BY <2>8, <2>10, <2>14
<1>5. B \subseteq Q
  <2>1. \A p \in U : p \in DOMAIN schema.pat /\ T[p] \in Int
    BY <1>2 DEF InStore
  <2> QED
    BY <2>1
<1>6. \A e \in B : OneKind(e) /\ Beside(e) \subseteq B
  BY <1>4
<1>7. n \in Nat
  <2>1. Cardinality(DOMAIN pat) \in Nat
    BY DEF InStore, Size
  <2> QED
    BY <2>1, Parsed
<1>8. x \in SUBSET B
  <2>1. Meant(schema.start) = Sense[schema.start]
    BY Parsed DEF Sense
  <2> QED
    BY <1>2, <1>3, <2>1
<1>9. \A E \in SUBSET Q : Further[E] = E \cup UNION {Beside(e) : e \in E}
  OBVIOUS
<1>10. SameSchema <=> \A e \in Iterate(Further, x, n) : OneKind(e)
  BY DEF SameSchema
<1> HIDE DEF Further, Q, n, x, B
<1>11. Keeps(Further, SUBSET B)
  <2> SUFFICES ASSUME NEW E \in SUBSET B PROVE Further[E] \in SUBSET B
    BY DEF Keeps
  <2>1. Further[E] = E \cup UNION {Beside(e) : e \in E}
    BY <1>5, <1>9
  <2>2. \A e \in E : Beside(e) \subseteq B
    BY <1>6
  <2> QED
    BY <2>1, <2>2
<1>12. PICK P : P = SUBSET B
  OBVIOUS
<1>13. PICK g \in Results(P, n) : Iterate(Further, x, n) = g[n] /\ Repeated(g, Further, x, n)
  BY <1>7, <1>8, <1>11, <1>12, Iterated
<1>14. g[n] \in SUBSET B
  BY <1>7, <1>12, <1>13 DEF Results
<1> QED
  BY <1>6, <1>10, <1>13, <1>14

(* What makes a pattern nullable makes the other nullable.                 *)
LEMMA NullableThere ==
  ASSUME NEW pt, NEW T, NEW p, NEW A, NEW L, Mirrors(pt[T[p]], Ideal[p], T),
         \A c \in Kids(Ideal[p]) : c \in A => T[c] \in L,
         NullableBy(Ideal, p, A)
  PROVE  NullableBy(pt, T[p], L)
<1>1. PICK a : a = pt[T[p]]
  OBVIOUS
<1>2. PICK b : b = Ideal[p]
  OBVIOUS
<1>3. /\ a.t = b.t
      /\ b.t \in Binary => a.p1 = T[b.p1] /\ a.p2 = T[b.p2]
  BY <1>1, <1>2 DEF Mirrors
<1>4. b.t = "choice" \/ b.t = "group" => b.t \in Binary
  BY DEF Binary
<1>5. b.t \in Binary => (b.p1 \in A => T[b.p1] \in L) /\ (b.p2 \in A => T[b.p2] \in L)
  BY <1>2, KidsOf
<1> QED
  BY <1>1, <1>2, <1>3, <1>4, <1>5 DEF NullableBy

LEMMA NullableBack ==
  ASSUME NEW pt, NEW T, NEW p, NEW fl, NEW C, Mirrors(pt[T[p]], Ideal[p], T),
         \A c \in Kids(Ideal[p]) : T[c] \in C => c \in fl,
         NullableBy(pt, T[p], C)
  PROVE  NullableBy(Ideal, p, fl)
<1>1. PICK a : a = pt[T[p]]
  OBVIOUS
<1>2. PICK b : b = Ideal[p]
  OBVIOUS
<1>3. /\ a.t = b.t
      /\ b.t \in Binary => a.p1 = T[b.p1] /\ a.p2 = T[b.p2]
  BY <1>1, <1>2 DEF Mirrors
<1>4. b.t = "choice" \/ b.t = "group" => b.t \in Binary
  BY DEF Binary
<1>5. b.t \in Binary => (T[b.p1] \in C => b.p1 \in fl) /\ (T[b.p2] \in C => b.p2 \in fl)
  BY <1>2, KidsOf
<1> QED
  BY <1>1, <1>2, <1>3, <1>4, <1>5 DEF NullableBy

LEMMA ReadyToUse ==
  ASSUME IInv, Carried
  PROVE  StoreReady
<1> SUFFICES ASSUME pc = "loaded" PROVE StoreReady
  BY DEF StoreReady, IInv, Phase, Minimal, Unique
<1>1. PICK U, T, fl : Carries(U, T, fl)
  BY DEF Carried
<1>2. /\ InStore /\ Minimal /\ \A p \in DOMAIN pat : Kids(pat[p]) \subseteq DOMAIN pat
  BY DEF IInv, Phase, Minimal, Unique, TypeOK
<1>3. /\ 0 \in U /\ Generated(U) /\ FlagsOf(U, fl)
      /\ T \in [U -> DOMAIN pat] /\ T[0] = 0 /\ T[Sense[schema.start]] = start
      /\ nul \subseteq DOMAIN pat
      /\ \A q \in DOMAIN pat : \E p \in U : T[p] = q /\ (q \in nul <=> p \in fl)
      /\ \A p \in U : Mirrors(pat[T[p]], Ideal[p], T)
  BY <1>1 DEF Carries
<1>4. \A p \in U : Kids(pat[T[p]]) = {T[c] : c \in Kids(Ideal[p])} /\ Kids(Ideal[p]) \subseteq U
  BY <1>1, CarriedKids
<1>5. Sense[schema.start] \in U /\ start \in DOMAIN pat
  BY <1>3 DEF Generated
<1>6. DOMAIN pat \ {0} \subseteq Reach(pat, start)
  <2>1. PICK r : r = Reach(pat, start)
    OBVIOUS
  <2>2. Reached(r)
    BY <1>2, <1>5, <2>1, ReachedOnes
  <2>3. start \in r /\ \A p \in r : Kids(pat[p]) \subseteq r
    BY <2>2 DEF Reached
  <2>4. PICK A : A = {p \in U : T[p] \in r}
    OBVIOUS
  <2>5. Sense[schema.start] \in A
    BY <1>3, <1>5, <2>3, <2>4
  <2>6. \A p \in A : Kids(Ideal[p]) \subseteq A
    BY <1>4, <2>3, <2>4
  <2>7. U \ {0} \subseteq A
    BY <1>3, <2>4, <2>5, <2>6 DEF Generated
  <2>8. ASSUME NEW q \in DOMAIN pat, q # 0 PROVE q \in r
    BY <1>3, <2>4, <2>7, <2>8
  <2> QED
    BY <2>1, <2>8
<1>7. PICK L : L = nullables(pat, DOMAIN pat, {})
  OBVIOUS
<1>8. LeastNullable(pat, DOMAIN pat, {}, L)
  <2>1. IsFiniteSet(DOMAIN pat)
    BY <1>2, FS_Interval DEF InStore
  <2>2. PICK pt : pt = pat
    OBVIOUS
  <2>3. PICK D : D = DOMAIN pt
    OBVIOUS
  <2>4. LeastNullable(pt, D, {}, L)
    BY <1>7, <2>1, <2>2, <2>3, NullablesLeast
  <2> QED
    BY <2>2, <2>3, <2>4
<1>9. /\ L \subseteq DOMAIN pat
      /\ \A q \in DOMAIN pat : NullableBy(pat, q, L) => q \in L
      /\ \A B \in SUBSET DOMAIN pat :
           (\A q \in DOMAIN pat : NullableBy(pat, q, B) => q \in B) => L \subseteq B
  BY <1>8 DEF LeastNullable
<1>10. nul \subseteq L
  <2>1. PICK A : A = {p \in U : T[p] \in L}
    OBVIOUS
  <2>2. ASSUME NEW p \in U, NullableBy(Ideal, p, A) PROVE p \in A
    <3>1. \A c \in Kids(Ideal[p]) : c \in A => T[c] \in L
      BY <2>1
    <3>2. NullableBy(pat, T[p], L)
      BY <1>3, <2>2, <3>1, NullableThere
    <3> QED
      BY <1>3, <1>9, <2>1, <3>2
  <2>3. fl \cap U \subseteq A
    BY <1>3, <2>1, <2>2 DEF FlagsOf
  <2> QED
    BY <1>3, <2>1, <2>3
<1>11. L \subseteq nul
  <2>1. PICK C : C = {q \in DOMAIN pat : \A p \in U : T[p] = q => p \in fl}
    OBVIOUS
  <2>2. ASSUME NEW q \in DOMAIN pat, NullableBy(pat, q, C) PROVE q \in C
    <3>1. ASSUME NEW p \in U, T[p] = q PROVE p \in fl
      <4>1. \A c \in Kids(Ideal[p]) : T[c] \in C => c \in fl
        BY <1>4, <2>1
      <4>2. NullableBy(Ideal, p, fl)
        BY <1>3, <2>2, <3>1, <4>1, NullableBack
      <4> QED
        BY <1>3, <4>2 DEF FlagsOf
    <3> QED
      BY <2>1, <3>1
  <2>3. L \subseteq C
    BY <1>9, <2>1, <2>2
  <2>4. C \subseteq nul
    BY <1>3, <2>1
  <2> QED
    BY <2>3, <2>4
<1>12. nul = nullables(pat, DOMAIN pat, {})
  BY <1>7, <1>10, <1>11
<1> QED
  BY <1>2, <1>5, <1>6, <1>12 DEF StoreReady

-----------------------------------------------------------------------------
(* Both invariants hold, of every schema.                                  *)
LEMMA M_Stutter ==
  ASSUME MInv, UNCHANGED vars
  PROVE  MInv'
<1>1. UNCHANGED <<schema, pc, pat, tab, nul, flat, xlat, start>>
  BY DEF vars
<1>2. Sense' = Sense /\ Ideal' = Ideal /\ InFlat' = InFlat
  BY <1>1, SchemaSame DEF InFlat
<1>3. \A p, A : NullableBy(Ideal, p, A)' <=> NullableBy(Ideal, p, A)
  BY <1>2 DEF NullableBy
<1>4. AsParsed => AsParsed'
  BY <1>1, AsParsedKept
<1>5. Begun' = Begun
  BY <1>1, <1>2 DEF Begun
<1>6. FlagsOf({0} \cup InFlat, nul)' = FlagsOf({0} \cup InFlat, nul)
  BY <1>1, <1>2, <1>3 DEF FlagsOf
<1>7. /\ InUse({0} \cup marked)' = InUse({0} \cup marked)
      /\ InUse({0} \cup Used(xlat))' = InUse({0} \cup Used(xlat))
  BY <1>1, <1>2, <1>3 DEF InUse, Generated, FlagsOf, Used, vars
<1>8. Unmerged({0} \cup marked)' = Unmerged({0} \cup marked)
  BY <1>1, <1>2 DEF Unmerged, Alike, vars
<1>9. Merged_p' = Merged_p
  BY <1>1, <1>2 DEF Merged_p, Standing, Represents, Alike, Used, Roots
<1>10. Carried' = Carried
  BY <1>1, <1>2, <1>3 DEF Carried, Carries, Generated, FlagsOf, Mirrors
<1>11. (nul = nullables(schema.pat, Patterns(schema), {}))' = (nul = nullables(schema.pat, Patterns(schema), {}))
  BY <1>1
<1>12. (tab = {0} \cup Roots(xlat) /\ Used(xlat) \subseteq DOMAIN pat)' = (tab = {0} \cup Roots(xlat) /\ Used(xlat) \subseteq DOMAIN pat)
  BY <1>1 DEF Roots, Used
<1> QED
  BY <1>1, <1>2, <1>4, <1>5, <1>6, <1>7, <1>8, <1>9, <1>10, <1>11, <1>12 DEF MInv, MPhase

LEMMA MeaningKept == Spec => []MInv
<1>1. Init => MInv
  BY Begins
<1>2. IInv /\ MInv /\ [Next]_vars => MInv'
  <2> SUFFICES ASSUME IInv, MInv, [Next]_vars PROVE MInv'
    OBVIOUS
  <2>1. CASE deref_start
    BY <2>1, M_deref_start
  <2>2. CASE deref_node
    BY <2>2, M_deref_node
  <2>3. CASE deref_done
    BY <2>3, M_deref_done
  <2>4. CASE de_spin
    BY <2>4, M_de_spin
  <2>5. CASE loops
    BY <2>5, M_loops
  <2>6. CASE traits
    BY <2>6, M_traits
  <2>7. CASE mark_p
    BY <2>7, M_mark_p
  <2>8. CASE sweep_p_init
    BY <2>8, M_sweep_p_init
  <2>9. CASE sweep_p_round
    BY <2>9, M_sweep_p_round
  <2>10. CASE sweep_p_done
    BY <2>10, M_sweep_p_done
  <2>11. CASE unmark_p
    BY <2>11, M_unmark_p
  <2>12. CASE compress_p
    BY <2>12, M_compress_p
  <2>13. CASE UNCHANGED vars
    BY <2>13, M_Stutter
  <2> QED
    BY <2>1, <2>2, <2>3, <2>4, <2>5, <2>6, <2>7, <2>8, <2>9, <2>10, <2>11, <2>12, <2>13 DEF Next
<1> QED
  BY <1>1, <1>2, Invariance, PTL DEF Spec

(* Loading a schema does not change what it means: if the start pattern    *)
(* has not been lost (it is when compress_p finds it redirected twice),    *)
(* the store that rnd_fixup and rn_compress_last leave is, from the start  *)
(* on and to any depth, the schema as parsed.                              *)
THEOREM SchemaKept == Spec => [](start # None => SameSchema)
<1>1. IInv /\ MInv => (start # None => SameSchema)
  <2> SUFFICES ASSUME IInv, MInv, start # None PROVE SameSchema
    OBVIOUS
  <2>1. CASE pc = "loaded"
    BY <2>1, MeansTheSame DEF IInv, MInv, MPhase
  <2>2. CASE pc # "loaded"
    BY <2>2 DEF SameSchema
  <2> QED
    BY <2>1, <2>2
<1> QED
  BY <1>1, Invariance, MeaningKept, PTL

(* And the store is then ready for the derivatives: equal patterns are     *)
(* one, all are reached from the start, none refers to one that is gone,   *)
(* and the nullable flags are those of the patterns.                       *)
THEOREM StoreMadeReady == Spec => [](start # None => StoreReady)
<1>1. IInv /\ MInv => (start # None => StoreReady)
  <2> SUFFICES ASSUME IInv, MInv, start # None PROVE StoreReady
    OBVIOUS
  <2>1. CASE pc = "loaded"
    BY <2>1, ReadyToUse DEF MInv, MPhase
  <2>2. CASE pc # "loaded"
    BY <2>2 DEF StoreReady, Minimal
  <2> QED
    BY <2>1, <2>2
<1> QED
  BY <1>1, Invariance, MeaningKept, PTL

-----------------------------------------------------------------------------
(* Refusal of patterns that contain themselves.  Pattern x is one that the *)
(* chain of references from c goes through.                                *)
Lies(x, c) == \A A \in SUBSET DOMAIN schema.pat : c \in A /\ Keeps(Past, A) => x \in A

LEMMA LiesOn ==
  ASSUME NEW x, NEW y, NEW z, Lies(x, y), Lies(y, z)
  PROVE  Lies(x, z)
BY DEF Lies

(* What de finds lies on the chain, and if it is a reference, on a circle. *)
LEMMA ChainLies ==
  ASSUME schema \in Schemas, AsParsed, NEW c \in DOMAIN pat, Ends(c), NEW e, e = Chain(c)
  PROVE  Lies(e, c) /\ (pat[e].t = "ref" => Lies(e, Past[e]))
<1> DEFINE D == DOMAIN pat
           n == Cardinality(D)
           Follow == [p \in D |-> IF pat[p].t # "ref" \/ p = c THEN p ELSE pat[p].p1]
           d == Iterate(Follow, pat[c].p1, n)
<1>1. D = DOMAIN schema.pat /\ n \in Nat /\ Past \in [D -> D]
  BY Parsed DEF AsParsed
<1>2. \A p \in D : Past[p] = IF pat[p].t = "ref" THEN pat[p].p1 ELSE p
  BY DEF Past, AsParsed, Alike
<1>3. \A p \in D : Follow[p] = IF p = c THEN c ELSE Past[p]
  BY <1>2
<1>4. CASE pat[c].t # "ref"
  <2>1. e = c
    BY <1>4 DEF Chain
  <2> QED
    BY <1>4, <2>1 DEF Lies
<1>5. CASE pat[c].t = "ref"
  <2>1. Past[c] \in D /\ pat[c].p1 = Past[c]
    BY <1>1, <1>2, <1>5
  <2>2. Chain(c) = CASE pat[c].t # "ref" -> c
                     [] pat[c].t = "ref" /\ (pat[d].t # "ref" \/ d = c) -> d
                     [] OTHER -> None
    BY DEF Chain
  <2> HIDE DEF d
  <2>3. e = d /\ (pat[d].t # "ref" \/ d = c)
    BY <1>5, <2>2 DEF Ends
  <2> HIDE DEF Follow, n, D
  <2>4. ASSUME NEW A \in SUBSET D, Past[c] \in A, Keeps(Past, A)
        PROVE  d \in A
    <3>1. Keeps(Follow, A)
      BY <1>3, <2>4 DEF Keeps
    <3>2. PICK x \in A : x = Past[c]
      BY <2>4
    <3>3. PICK g \in Results(A, n) : Iterate(Follow, x, n) = g[n] /\ Repeated(g, Follow, x, n)
      BY <1>1, <3>1, Iterated
    <3>4. g[n] \in A
      BY <1>1, <3>3 DEF Results
    <3> QED
      BY <2>1, <3>2, <3>3, <3>4 DEF d
  <2>5. Lies(d, Past[c])
    BY <1>1, <2>4 DEF Lies
  <2>6. Lies(d, c)
    BY <2>5 DEF Lies, Keeps
  <2> QED
    BY <2>3, <2>5, <2>6
<1> QED
  BY <1>4, <1>5

(* What a pattern stands for lies on its chain.                            *)
LEMMA SenseLies ==
  ASSUME schema \in Schemas, NEW p \in DOMAIN schema.pat
  PROVE  Lies(Sense[p], p)
<1> DEFINE D == DOMAIN schema.pat
           n == Cardinality(DOMAIN schema.pat)
<1>1. n \in Nat
  BY Parsed
<1>2. Sense[p] = Iterate(Past, p, n)
  BY DEF Sense, Meant, Past
<1> HIDE DEF n
<1>3. ASSUME NEW A \in SUBSET D, p \in A, Keeps(Past, A) PROVE Sense[p] \in A
  <2>1. PICK g \in Results(A, n) : Iterate(Past, p, n) = g[n] /\ Repeated(g, Past, p, n)
    BY <1>1, <1>3, Iterated
  <2>2. g[n] \in A
    BY <1>1, <2>1 DEF Results
  <2> QED
    BY <1>2, <2>1, <2>2
<1> QED
  BY <1>3 DEF Lies

(* If a chain ends in a pattern that is no reference, all on it stand for  *)
(* that one, and none is met twice.                                        *)
Founded(p) == schema.pat[Sense[p]].t # "ref"

LEMMA PastMeans ==
  ASSUME schema \in Schemas, NEW p \in DOMAIN schema.pat, Founded(p)
  PROVE  Past[p] \in DOMAIN schema.pat /\ Sense[Past[p]] = Sense[p]
<1> DEFINE D == DOMAIN schema.pat
           n == Cardinality(DOMAIN schema.pat)
<1>1. n \in Nat /\ Keeps(Past, D) /\ Past \in [D -> D]
  BY Parsed
<1>2. \A q \in D : Sense[q] = Iterate(Past, q, n)
  BY DEF Sense, Meant, Past
<1>3. Sense[p] \in D /\ Past[p] \in D
  BY <1>1, SenseOnes
<1>4. Past[Sense[p]] = Sense[p]
  BY <1>3 DEF Past, Founded
<1> HIDE DEF n, D
<1>5. PICK g \in Results(D, n) : Iterate(Past, p, n) = g[n] /\ Repeated(g, Past, p, n)
  BY <1>1, Iterated DEF D
<1>6. PICK q \in D : q = Past[p]
  BY <1>3
<1>7. PICK h \in Results(D, n) : Iterate(Past, q, n) = h[n] /\ Repeated(h, Past, q, n)
  BY <1>1, Iterated
<1> DEFINE K == {k \in 0 .. n : h[k] = Past[g[k]]}
<1>8. 0 \in K
  BY <1>1, <1>5, <1>6, <1>7 DEF Repeated
<1>9. ASSUME NEW k \in 0 .. n - 1, k \in K PROVE k + 1 \in K
  <2>1. k + 1 \in 1 .. n /\ (k + 1) - 1 = k /\ k + 1 \in 0 .. n
    BY <1>1
  <2>2. h[k + 1] = Past[h[(k + 1) - 1]] /\ g[k + 1] = Past[g[(k + 1) - 1]]
    BY <1>5, <1>7, <2>1 DEF Repeated
  <2> QED
    BY <1>9, <2>1, <2>2
<1>10. n \in K
  <2> HIDE DEF K
  <2> QED
    BY <1>1, <1>8, <1>9, UpTo
<1>11. h[n] = Past[g[n]] /\ Sense[p] = g[n] /\ Sense[q] = h[n]
  BY <1>2, <1>5, <1>7, <1>10 DEF D
<1> QED
  BY <1>3, <1>4, <1>6, <1>11 DEF D

LEMMA NoWayBack ==
  ASSUME schema \in Schemas, NEW p \in DOMAIN schema.pat, Founded(p), Lies(p, Past[p])
  PROVE  schema.pat[p].t # "ref"
<1> DEFINE D == DOMAIN schema.pat
           Q == {x \in D : Lies(p, x)}
<1>1. Past \in [D -> D] /\ Sense[p] \in D
  BY Parsed, SenseOnes
<1>2. Keeps(Past, Q)
  <2> SUFFICES ASSUME NEW x \in Q PROVE Past[x] \in Q
    BY DEF Keeps
  <2>1. CASE x = p
    BY <1>1, <2>1
  <2>2. CASE x # p
    <3>1. ASSUME NEW A \in SUBSET D, Past[x] \in A, Keeps(Past, A) PROVE p \in A
      <4>1. Keeps(Past, A \cup {x})
        BY <3>1 DEF Keeps
      <4>2. p \in A \cup {x}
        BY <4>1 DEF Lies
      <4> QED
        BY <2>2, <4>2
    <3>2. Past[x] \in D
      BY <1>1
    <3> QED
      BY <3>1, <3>2 DEF Lies
  <2> QED
    BY <2>1, <2>2
<1>3. p \in Q
  BY DEF Lies
<1>4. Sense[p] \in Q
  <2> HIDE DEF Q
  <2>1. Q \in SUBSET D
    BY DEF Q
  <2> QED
    BY <1>2, <1>3, <2>1, SenseLies DEF Lies
<1>5. Keeps(Past, {Sense[p]})
  BY <1>1 DEF Keeps, Past, Founded
<1>6. p \in {Sense[p]}
  <2>1. Lies(p, Sense[p])
    BY <1>4
  <2>2. {Sense[p]} \in SUBSET D /\ Sense[p] \in {Sense[p]}
    BY <1>1
  <2> QED
    BY <1>5, <2>1, <2>2 DEF Lies
<1> QED
  BY <1>6 DEF Founded

-----------------------------------------------------------------------------
(* The patterns that a descent passes: the least set that is closed under  *)
(* taking a step further.                                                  *)
LEMMA DownOnes ==
  ASSUME schema \in Schemas, NEW p \in DOMAIN schema.pat
  PROVE  /\ Down(schema, p) \subseteq DOMAIN schema.pat
         /\ schema.pat[p].t = "ref" => Down(schema, p) = {Past[p]}
         /\ schema.pat[p].t # "ref" => Down(schema, p) = Kids(schema.pat[p]) /\ Past[p] = p
<1>1. Past[p] \in DOMAIN schema.pat /\ Kids(schema.pat[p]) \subseteq DOMAIN schema.pat
  BY Parsed
<1>2. Past[p] = IF schema.pat[p].t = "ref" THEN schema.pat[p].p1 ELSE p
  BY DEF Past
<1> QED
  BY <1>1, <1>2 DEF Down

LEMMA OpenedOnes ==
  ASSUME schema \in Schemas, NEW from \in SUBSET DOMAIN schema.pat, NEW open, NEW r,
         r = Opened(schema, from, open)
  PROVE  /\ r \subseteq DOMAIN schema.pat
         /\ from # {} => from \subseteq r /\ \A p \in r \cap open : Down(schema, p) \subseteq r
         /\ \A A \in SUBSET DOMAIN schema.pat :
              from \subseteq A /\ (\A p \in A \cap open : Down(schema, p) \subseteq A) => r \subseteq A
<1> DEFINE D == DOMAIN schema.pat
           n == Cardinality(DOMAIN schema.pat)
           f == [ps \in SUBSET DOMAIN schema.pat |->
                   ps \cup UNION {Down(schema, p) : p \in ps \cap open}]
<1>1. r = Iterate(f, from, n)
  BY DEF Opened
<1>2. \A A \in SUBSET D : f[A] = A \cup UNION {Down(schema, p) : p \in A \cap open}
  OBVIOUS
<1>3. IsFiniteSet(D) /\ n \in Nat /\ n = Cardinality(D)
  BY Parsed
<1> HIDE DEF f, n, D
<1>4. ASSUME NEW A \in SUBSET D, from \subseteq A,
             \A p \in A \cap open : Down(schema, p) \subseteq A
      PROVE  r \subseteq A
  <2>1. Keeps(f, SUBSET A)
    <3> SUFFICES ASSUME NEW B \in SUBSET A PROVE f[B] \in SUBSET A
      BY DEF Keeps
    <3>1. f[B] = B \cup UNION {Down(schema, p) : p \in B \cap open}
      BY <1>2
    <3> QED
      BY <1>4, <3>1
  <2>2. PICK S : S = SUBSET A
    OBVIOUS
  <2>3. from \in S /\ Keeps(f, S)
    BY <1>4, <2>1, <2>2
  <2>4. PICK g \in Results(S, n) : Iterate(f, from, n) = g[n] /\ Repeated(g, f, from, n)
    BY <1>3, <2>3, Iterated
  <2>5. g[n] \in S
    BY <1>3, <2>4 DEF Results
  <2> QED
    BY <1>1, <2>2, <2>4, <2>5
<1>5. \A p \in D : Down(schema, p) \subseteq D
  BY DownOnes DEF D
<1>6. r \subseteq D
  BY <1>4, <1>5 DEF D
<1>7. ASSUME from # {} PROVE from \subseteq r /\ f[r] = r
  <2>1. \A A \in SUBSET D : f[A] \in SUBSET D /\ A \subseteq f[A]
    BY <1>2, <1>5
  <2>2. from \in SUBSET D
    BY DEF D
  <2> QED
    BY <1>1, <1>3, <1>7, <2>1, <2>2, Saturated
<1>8. ASSUME from # {}, NEW p \in r \cap open PROVE Down(schema, p) \subseteq r
  <2>1. f[r] = r \cup UNION {Down(schema, q) : q \in r \cap open}
    BY <1>2, <1>6
  <2> QED
    BY <1>7, <1>8, <2>1
<1> QED
  BY <1>4, <1>6, <1>7, <1>8 DEF D

LEMMA DescentOnes ==
  ASSUME InStore, \A p \in DOMAIN pat : Kids(pat[p]) \subseteq DOMAIN pat,
         NEW ps \in SUBSET DOMAIN pat, ps # {}, NEW r, r = Descent(ps)
  PROVE  /\ r \subseteq DOMAIN pat /\ ps \subseteq r
         /\ \A p \in r : pat[p].t \in Binary => Kids(pat[p]) \subseteq r
         /\ \A A \in SUBSET DOMAIN pat :
              ps \subseteq A /\ (\A p \in A : pat[p].t \in Binary => Kids(pat[p]) \subseteq A) => r \subseteq A
<1> DEFINE D == DOMAIN pat
           f == Below
<1>1. r = Iterate(f, ps, Cardinality(D))
  BY DEF Descent
<1>2. \A A \in SUBSET D : f[A] = A \cup UNION {Kids(pat[p]) : p \in {q \in A : pat[q].t \in Binary}}
  BY DEF Below
<1>3. IsFiniteSet(D)
  BY FS_Interval DEF InStore
<1> HIDE DEF f, D
<1>4. \A A \in SUBSET D : f[A] \in SUBSET D /\ A \subseteq f[A]
  <2> TAKE A \in SUBSET D
  <2>1. \A p \in A : Kids(pat[p]) \subseteq D
    BY DEF D
  <2> QED
    BY <1>2, <2>1
<1>5. ps \in SUBSET D
  BY DEF D
<1>6. /\ r \in SUBSET D /\ ps \subseteq r /\ f[r] = r
      /\ \A B \in SUBSET D : ps \subseteq B /\ (\A A \in SUBSET B : f[A] \subseteq B) => r \subseteq B
  BY <1>1, <1>3, <1>4, <1>5, Saturated
<1>7. ASSUME NEW A \in SUBSET D, ps \subseteq A,
             \A p \in A : pat[p].t \in Binary => Kids(pat[p]) \subseteq A
      PROVE  r \subseteq A
  <2>1. ASSUME NEW B \in SUBSET A PROVE f[B] \subseteq A
    <3>1. f[B] = B \cup UNION {Kids(pat[p]) : p \in {q \in B : pat[q].t \in Binary}}
      BY <1>2
    <3> QED
      BY <1>7, <3>1
  <2> QED
    BY <1>6, <1>7, <2>1
<1>8. ASSUME NEW p \in r, pat[p].t \in Binary PROVE Kids(pat[p]) \subseteq r
  <2>1. f[r] = r \cup UNION {Kids(pat[q]) : q \in {s \in r : pat[s].t \in Binary}}
    BY <1>2, <1>6
  <2>2. p \in {s \in r : pat[s].t \in Binary}
    BY <1>8
  <2>3. Kids(pat[p]) \subseteq f[r]
    BY <2>1, <2>2
  <2> QED
    BY <1>6, <2>3
<1> QED
  BY <1>6, <1>7, <1>8 DEF D

-----------------------------------------------------------------------------
(* No pattern is twice in the worklist, and nothing gets there but the     *)
(* start pattern and children.                                             *)
Apart(s) == \A j, k \in DOMAIN s : s[j] = s[k] => j = k

LEMMA FlattensOne ==
  ASSUME NEW S, NEW st, Worklist(st, S), Apart(st.flat), NEW p \in S, NEW nx, nx = flatten(st, p)
  PROVE  Apart(nx.flat) /\ nx.marked = st.marked \cup {p}
<1>1. st.flat \in Seq(S) /\ st.marked = {st.flat[k] : k \in DOMAIN st.flat}
  BY DEF Worklist
<1>2. Len(st.flat) \in Nat /\ DOMAIN st.flat = 1 .. Len(st.flat)
  BY <1>1
<1>3. CASE p \in st.marked
  BY <1>3 DEF flatten
<1>4. CASE p \notin st.marked
  <2>1. nx.flat = Append(st.flat, p) /\ nx.marked = st.marked \cup {p}
    BY <1>4 DEF flatten
  <2>2. /\ nx.flat[Len(st.flat) + 1] = p
        /\ \A k \in 1 .. Len(st.flat) : nx.flat[k] = st.flat[k] /\ nx.flat[k] # p
        /\ DOMAIN nx.flat = 1 .. Len(st.flat) + 1
    BY <1>1, <1>2, <1>4, <2>1
  <2>3. ASSUME NEW j \in DOMAIN nx.flat, NEW k \in DOMAIN nx.flat, nx.flat[j] = nx.flat[k]
        PROVE  j = k
    <3>1. \A m \in DOMAIN nx.flat : m \in 1 .. Len(st.flat) \/ m = Len(st.flat) + 1
      BY <1>2, <2>2
    <3>2. CASE j \in 1 .. Len(st.flat) /\ k \in 1 .. Len(st.flat)
      BY <1>2, <2>2, <2>3, <3>2 DEF Apart
    <3> QED
      BY <2>2, <2>3, <3>1, <3>2
  <2> QED
    BY <2>1, <2>3 DEF Apart
<1> QED
  BY <1>3, <1>4

LEMMA FlattensKids ==
  ASSUME NEW S, NEW st, st = [flat |-> flat, marked |-> marked], Worklist(st, S), Apart(st.flat),
         NEW r, Kids(r) \subseteq S, NEW nx, nx = Flattened(r)
  PROVE  Apart(nx.flat) /\ nx.marked = st.marked \cup Kids(r)
<1> DEFINE st1 == IF r.t \in Binary \cup Unary THEN flatten(st, r.p1) ELSE st
<1>1. nx = IF r.t \in Binary THEN flatten(st1, r.p2) ELSE st1
  BY DEF Flattened
<1>2. CASE r.t \in Binary
  <2>1. Kids(r) = {r.p1, r.p2} /\ r.p1 \in S /\ r.p2 \in S
    BY <1>2, KidsOf
  <2>2. PICK x : x = flatten(st, r.p1)
    OBVIOUS
  <2>3. Worklist(x, S) /\ Apart(x.flat) /\ x.marked = st.marked \cup {r.p1}
    BY <2>1, <2>2, Flattens, FlattensOne
  <2>4. nx = flatten(x, r.p2)
    BY <1>1, <1>2, <2>2
  <2>5. Apart(nx.flat) /\ nx.marked = x.marked \cup {r.p2}
    BY <2>1, <2>3, <2>4, FlattensOne
  <2> QED
    BY <2>1, <2>3, <2>5
<1>3. CASE r.t \in Unary
  <2>1. Kids(r) = {r.p1} /\ r.p1 \in S /\ r.t \notin Binary
    BY <1>3, KidsOf DEF Binary, Unary
  <2>2. nx = flatten(st, r.p1)
    BY <1>1, <1>3, <2>1
  <2> QED
    BY <2>1, <2>2, FlattensOne
<1>4. CASE r.t \notin Binary \cup Unary
  <2>1. nx = st /\ Kids(r) = {}
    BY <1>1, <1>4, KidsOf
  <2> QED
    BY <2>1
<1> QED
  BY <1>2, <1>3, <1>4

-----------------------------------------------------------------------------
(* The invariant.  While the worklist is made: a child in the store lies   *)
(* on the chain from that in the schema; a reference in the worklist is on *)
(* a circle; and what is in the worklist is in use, and is there because   *)
(* the patterns before lead to it.                                         *)
Onwards ==
  \A p \in DOMAIN pat :
    /\ pat[p].t \in Binary \cup Unary => Lies(pat[p].p1, schema.pat[p].p1)
    /\ pat[p].t \in Binary => Lies(pat[p].p2, schema.pat[p].p2)

Circling == \A p \in InFlat : pat[p].t = "ref" => Lies(p, Past[p])

NeedsAll(A) == schema.start \in A /\ \A q \in A : Down(schema, q) \subseteq A
OnlyUsed == \A A \in SUBSET DOMAIN schema.pat : NeedsAll(A) => InFlat \subseteq A

Leads ==
  \A A \in SUBSET DOMAIN pat :
    flat # <<>> /\ flat[1] \in A /\ (\A k \in 1 .. i : flat[k] \in A => Kids(pat[flat[k]]) \subseteq A)
      => InFlat \subseteq A

Listing == Onwards /\ Circling /\ OnlyUsed /\ Leads /\ Apart(flat)

(* The content of a start element, which loops does not look at, is free   *)
(* of patterns that contain themselves.                                    *)
StartUnfolds ==
  LET s == Sense[schema.start] IN
  schema.pat[s].t = "element" => Unfolding(schema, Opened(schema, Down(schema, s), Inside(schema)))

LPhase ==
  /\ pc \in {"deref", "loops"} => Listing
  /\ pc = "rejected" => ~Unfolds(schema)
  /\ pc = "traits" => (NoRefs /\ StartUnfolds => Unfolds(schema))
  /\ pc \in {"mark_p", "sweep_p", "sweep_p_loop", "unmark_p", "compress_p", "loaded"} =>
       (StartUnfolds => Unfolds(schema))

-----------------------------------------------------------------------------
(* The steps of deref.                                                     *)
LEMMA StartSame ==
  ASSUME UNCHANGED schema
  PROVE  /\ Past' = Past /\ (StartUnfolds' <=> StartUnfolds) /\ (Unfolds(schema)' <=> Unfolds(schema))
BY SchemaSame DEF StartUnfolds

LEMMA L_Init ==
  ASSUME Init
  PROVE  LPhase
<1>1. pc = "deref" /\ pat = schema.pat /\ flat = <<>>
  BY DEF Init
<1>2. InFlat = {} /\ DOMAIN flat = {}
  BY <1>1 DEF InFlat
<1>3. Onwards
  BY <1>1 DEF Onwards, Lies
<1>4. Circling /\ OnlyUsed /\ Leads /\ Apart(flat)
  BY <1>2 DEF Circling, OnlyUsed, Leads, Apart
<1> QED
  BY <1>1, <1>3, <1>4 DEF LPhase, Listing

LEMMA L_deref_start ==
  ASSUME IInv, MInv, LPhase, deref_start
  PROVE  LPhase'
<1>1. /\ pc = "deref" /\ flat = <<>>
      /\ UNCHANGED <<schema, pat, i, start>>
  BY DEF deref_start
<1>2. /\ schema \in Schemas /\ AsParsed /\ start = schema.start /\ Listing
      /\ start \in DOMAIN pat /\ i = 0 /\ DOMAIN pat = DOMAIN schema.pat
  BY <1>1 DEF MInv, MPhase, Begun, LPhase, AsParsed, IInv, Phase, Unswept, TypeOK
<1>3. Past' = Past
  BY <1>1, StartSame
<1>4. CASE ~Ends(start)
  <2>1. pc' = "spinning"
    BY <1>4 DEF deref_start, GoRound, Goto
  <2> QED
    BY <2>1 DEF LPhase
<1>5. CASE Ends(start)
  <2>1. PICK d : d = Chain(start)
    OBVIOUS
  <2>2. flat' = <<d>> /\ pc' = "deref"
    BY <1>1, <1>5, <2>1 DEF deref_start, de
  <2>3. flat'[1] = d /\ DOMAIN flat' = {1} /\ InFlat' = {d}
    BY <2>2 DEF InFlat
  <2>4. Lies(d, start) /\ (pat[d].t = "ref" => Lies(d, Past[d]))
    BY <1>2, <1>5, <2>1, ChainLies
  <2>5. Onwards'
    BY <1>1, <1>2, <1>3 DEF Listing, Onwards, Lies
  <2>6. Circling'
    BY <1>1, <1>3, <2>3, <2>4 DEF Circling, Lies
  <2>7. OnlyUsed
    BY <1>2 DEF Listing
  <2>8. ASSUME NEW A \in SUBSET DOMAIN schema.pat, NeedsAll(A) PROVE d \in A
    <3>1. Keeps(Past, A)
      BY <1>2, <2>8, DownOnes DEF NeedsAll, Keeps
    <3> QED
      BY <1>2, <2>4, <2>8, <3>1 DEF NeedsAll, Lies
  <2>9. OnlyUsed'
    BY <1>1, <2>3, <2>8 DEF OnlyUsed, NeedsAll
  <2>10. Leads' /\ Apart(flat)'
    BY <2>3 DEF Leads, Apart
  <2> QED
    BY <2>2, <2>5, <2>6, <2>9, <2>10 DEF LPhase, Listing
<1> QED
  BY <1>4, <1>5

LEMMA DereferencedOnes ==
  ASSUME InStore, NEW p \in DOMAIN pat, NEW new, new = Dereferenced(p)
  PROVE  /\ DOMAIN new = DOMAIN pat /\ new[p].t = pat[p].t
         /\ \A r \in DOMAIN pat : r # p => new[r] = pat[r]
         /\ pat[p].t \in Binary \cup Unary => new[p].p1 = Chain(pat[p].p1)
         /\ pat[p].t \in Binary => new[p].p2 = Chain(pat[p].p2)
<1>1. PICK r \in Pattern : r = pat[p]
  BY DEF InStore
<1>2. PICK to : to = [c \in Int |-> de(c)]
  OBVIOUS
<1>3. PICK s : s = Moved(r, to)
  OBVIOUS
<1>4. /\ s.t = r.t
      /\ r.t \in Binary \cup Unary => s.p1 = to[r.p1]
      /\ r.t \in Binary => s.p2 = to[r.p2]
  BY <1>3, MovedFields
<1>5. r.p1 \in Int /\ r.p2 \in Int
  BY DEF Pattern
<1>6. to[r.p1] = Chain(r.p1) /\ to[r.p2] = Chain(r.p2)
  BY <1>2, <1>5 DEF de
<1>7. new = [pat EXCEPT ![p] = s]
  BY <1>1, <1>3, <1>6 DEF Dereferenced, Moved, de
<1> QED
  BY <1>1, <1>4, <1>6, <1>7

LEMMA DereferencedLies ==
  ASSUME schema \in Schemas, InStore, AsParsed, Onwards, NEW p \in DOMAIN pat,
         Kids(pat[p]) \subseteq DOMAIN pat, \A c \in Kids(pat[p]) : Ends(c),
         NEW new, new = Dereferenced(p)
  PROVE  /\ \A r \in DOMAIN pat :
              /\ new[r].t \in Binary \cup Unary => Lies(new[r].p1, schema.pat[r].p1)
              /\ new[r].t \in Binary => Lies(new[r].p2, schema.pat[r].p2)
         /\ \A c \in Kids(new[p]) : pat[c].t = "ref" => Lies(c, Past[c])
<1>1. PICK a : a = pat[p]
  OBVIOUS
<1>2. PICK b : b = new[p]
  OBVIOUS
<1>3. /\ b.t = a.t
      /\ a.t \in Binary \cup Unary => b.p1 = Chain(a.p1)
      /\ a.t \in Binary => b.p2 = Chain(a.p2)
      /\ \A r \in DOMAIN pat : r # p => new[r] = pat[r]
  BY <1>1, <1>2, DereferencedOnes
<1>4. \A c \in Kids(a) : Lies(Chain(c), c) /\ (pat[Chain(c)].t = "ref" => Lies(Chain(c), Past[Chain(c)]))
  BY <1>1, ChainLies
<1>5. /\ a.t \in Binary \cup Unary => Lies(a.p1, schema.pat[p].p1)
      /\ a.t \in Binary => Lies(a.p2, schema.pat[p].p2)
  BY <1>1 DEF Onwards
<1>6. a.t \in Binary \cup Unary => a.p1 \in Kids(a)
  BY KidsOf
<1>7. a.t \in Binary => a.p2 \in Kids(a)
  BY KidsOf
<1>8. b.t \in Binary \cup Unary => Lies(b.p1, schema.pat[p].p1)
  BY <1>3, <1>4, <1>5, <1>6, LiesOn
<1>9. b.t \in Binary => Lies(b.p2, schema.pat[p].p2)
  BY <1>3, <1>4, <1>5, <1>7, LiesOn
<1>10. ASSUME NEW r \in DOMAIN pat
       PROVE  /\ new[r].t \in Binary \cup Unary => Lies(new[r].p1, schema.pat[r].p1)
              /\ new[r].t \in Binary => Lies(new[r].p2, schema.pat[r].p2)
  <2>1. CASE r = p
    BY <1>2, <1>8, <1>9, <2>1
  <2>2. CASE r # p
    BY <1>3, <2>2 DEF Onwards
  <2> QED
    BY <2>1, <2>2
<1>11. ASSUME NEW c \in Kids(b), pat[c].t = "ref" PROVE Lies(c, Past[c])
  <2>1. CASE b.t \in Binary
    <3>1. c = b.p1 \/ c = b.p2
      BY <1>11, <2>1, KidsOf
    <3> QED
      BY <1>3, <1>4, <1>6, <1>7, <1>11, <2>1, <3>1
  <2>2. CASE b.t \in Unary
    <3>1. c = b.p1
      BY <1>11, <2>2, KidsOf
    <3> QED
      BY <1>3, <1>4, <1>6, <1>11, <2>2, <3>1
  <2>3. CASE b.t \notin Binary \cup Unary
    BY <1>11, <2>3, KidsOf
  <2> QED
    BY <2>1, <2>2, <2>3
<1> QED
  BY <1>2, <1>10, <1>11

(* The children lie on the chains from those in the schema.                *)
LEMMA KidsLie ==
  ASSUME NEW A \in SUBSET DOMAIN schema.pat, Keeps(Past, A), NEW p, NEW b, b.t = schema.pat[p].t,
         b.t \in Binary \cup Unary => Lies(b.p1, schema.pat[p].p1) /\ Kids(schema.pat[p]) \subseteq A,
         b.t \in Binary => Lies(b.p2, schema.pat[p].p2)
  PROVE  Kids(b) \subseteq A
<1>1. PICK a : a = schema.pat[p]
  OBVIOUS
<1>2. CASE b.t \in Binary
  <2>1. a.p1 \in A /\ a.p2 \in A
    BY <1>1, <1>2, KidsOf
  <2>2. b.p1 \in A /\ b.p2 \in A
    BY <1>1, <1>2, <2>1 DEF Lies
  <2> QED
    BY <1>2, <2>2, KidsOf
<1>3. CASE b.t \in Unary
  <2>1. a.p1 \in A
    BY <1>1, <1>3, KidsOf
  <2>2. b.p1 \in A
    BY <1>1, <1>3, <2>1 DEF Lies
  <2> QED
    BY <1>3, <2>2, KidsOf
<1>4. CASE b.t \notin Binary \cup Unary
  BY <1>4, KidsOf
<1> QED
  BY <1>2, <1>3, <1>4

(* A set that needs all that its members lead to has their children.       *)
LEMMA UsedKidsToo ==
  ASSUME schema \in Schemas, NEW A \in SUBSET DOMAIN schema.pat, NEW p \in A,
         \A q \in A : Down(schema, q) \subseteq A, NEW b, b.t = schema.pat[p].t,
         b.t \in Binary \cup Unary => Lies(b.p1, schema.pat[p].p1),
         b.t \in Binary => Lies(b.p2, schema.pat[p].p2)
  PROVE  Kids(b) \subseteq A
<1>1. Keeps(Past, A)
  BY DownOnes DEF Keeps
<1>2. b.t \in Binary \cup Unary => Kids(schema.pat[p]) \subseteq A
  <2>1. b.t \in Binary \cup Unary => b.t # "ref"
    BY DEF Binary, Unary
  <2> QED
    BY <2>1, DownOnes
<1> QED
  BY <1>1, <1>2, KidsLie

LEMMA L_deref_node ==
  ASSUME IInv, MInv, LPhase, deref_node
  PROVE  LPhase'
<1> DEFINE p == flat[i + 1]
           refs == {c \in Kids(pat[p]) : pat[c].t = "ref"}
           new == Dereferenced(p)
<1>1. /\ pc = "deref" /\ i < Len(flat)
      /\ UNCHANGED <<schema, start>>
  BY DEF deref_node
<1>2. /\ Unswept /\ Flattening /\ TypeOK /\ InStore
      /\ schema \in Schemas /\ AsParsed /\ Listing
      /\ DOMAIN pat = DOMAIN schema.pat
  BY <1>1 DEF IInv, Phase, MInv, MPhase, LPhase, AsParsed
<1>3. /\ flat \in Seq(DOMAIN pat) /\ i \in 0 .. Len(flat) /\ i + 1 \in 1 .. Len(flat)
      /\ Len(flat) \in Nat /\ DOMAIN flat = 1 .. Len(flat)
  BY <1>1, <1>2 DEF Unswept, TypeOK
<1>4. p \in DOMAIN pat /\ p \in InFlat
  BY <1>3 DEF InFlat
<1>5. Past' = Past
  BY <1>1, StartSame
<1>6. CASE \E c \in refs : ~Ends(c)
  <2>1. pc' = "spinning"
    BY <1>6 DEF deref_node, GoRound, Goto
  <2> QED
    BY <2>1 DEF LPhase
<1>7. CASE ~\E c \in refs : ~Ends(c)
  <2>1. /\ pat' = new /\ flat' = Flattened(new[p]).flat /\ marked' = Flattened(new[p]).marked
        /\ i' = i + 1 /\ pc' = "deref"
    BY <1>1, <1>7 DEF deref_node
  <2>2. Kids(pat[p]) \subseteq DOMAIN pat
    BY <1>2, <1>4 DEF TypeOK
  <2>3. \A c \in Kids(pat[p]) : Ends(c)
    <3> TAKE c \in Kids(pat[p])
    <3>1. CASE pat[c].t = "ref"
      BY <1>7, <3>1
    <3>2. CASE pat[c].t # "ref"
      <4>1. Chain(c) = c
        BY <3>2 DEF Chain
      <4>2. c # None
        BY <1>2, <2>2 DEF InStore, None
      <4> QED
        BY <4>1, <4>2 DEF Ends
    <3> QED
      BY <3>1, <3>2
  <2>4. new = Dereferenced(p)
    OBVIOUS
  <2> HIDE DEF p, new, refs
  <2>5. PICK b : b = new[p]
    OBVIOUS
  <2>6. /\ DOMAIN new = DOMAIN pat /\ b.t = pat[p].t
        /\ \A q \in DOMAIN pat : q # p => new[q] = pat[q]
    BY <1>2, <1>4, <2>4, <2>5, DereferencedOnes
  <2>7. /\ \A r \in DOMAIN pat :
             /\ new[r].t \in Binary \cup Unary => Lies(new[r].p1, schema.pat[r].p1)
             /\ new[r].t \in Binary => Lies(new[r].p2, schema.pat[r].p2)
        /\ \A c \in Kids(b) : pat[c].t = "ref" => Lies(c, Past[c])
    <3>1. Onwards
      BY <1>2 DEF Listing
    <3> QED
      BY <1>2, <1>4, <2>2, <2>3, <2>4, <2>5, <3>1, DereferencedLies
  <2>8. Kids(b) \subseteq DOMAIN pat
    <3>1. TypeOK' /\ DOMAIN pat' = DOMAIN pat /\ pat'[p] = b
      BY <2>1, <2>5, <2>6, Step_deref_node DEF IInv
    <3> QED
      BY <1>4, <3>1 DEF TypeOK
  <2>9. PICK st : st = [flat |-> flat, marked |-> marked]
    OBVIOUS
  <2>10. PICK nx : nx = Flattened(b)
    OBVIOUS
  <2>11. PICK S : S = DOMAIN pat
    OBVIOUS
  <2>12. Worklist(st, S) /\ Apart(st.flat) /\ Kids(b) \subseteq S /\ st.flat = flat /\ st.marked = marked
    BY <1>2, <2>8, <2>9, <2>11 DEF Flattening, Listing
  <2>13. Worklist(nx, S) /\ Grows(st, nx) /\ Apart(nx.flat) /\ nx.marked = st.marked \cup Kids(b)
    BY <2>9, <2>10, <2>12, FlattensAll, FlattensKids
  <2>14. flat' = nx.flat /\ marked' = nx.marked
    BY <2>1, <2>5, <2>10
  <2>15. InFlat' = InFlat \cup Kids(b)
    <3>1. InFlat = st.marked
      BY <2>12 DEF Worklist, InFlat
    <3>2. InFlat' = nx.marked
      BY <2>13, <2>14 DEF Worklist, InFlat
    <3> QED
      BY <2>13, <3>1, <3>2
  <2>16. \A k \in 1 .. Len(flat) : flat'[k] = flat[k]
    BY <2>12, <2>13, <2>14 DEF Grows
  <2>17. Onwards'
    <3>1. \A r \in DOMAIN pat' :
             /\ pat'[r].t \in Binary \cup Unary => Lies(pat'[r].p1, schema.pat[r].p1)
             /\ pat'[r].t \in Binary => Lies(pat'[r].p2, schema.pat[r].p2)
      BY <2>1, <2>6, <2>7
    <3> QED
      BY <1>1, <1>5, <3>1 DEF Onwards, Lies
  <2>18. Circling'
    <3>1. ASSUME NEW c \in InFlat', pat'[c].t = "ref" PROVE Lies(c, Past[c])
      <4>1. c \in DOMAIN pat
        BY <1>3, <2>8, <2>15, <3>1 DEF InFlat
      <4>2. pat[c].t = "ref"
        BY <2>1, <2>5, <2>6, <3>1, <4>1
      <4> QED
        BY <1>2, <2>7, <2>15, <3>1, <4>2 DEF Listing, Circling
    <3> QED
      BY <1>1, <1>5, <3>1 DEF Circling, Lies
  <2>19. OnlyUsed'
    <3>1. ASSUME NEW A \in SUBSET DOMAIN schema.pat, NeedsAll(A) PROVE InFlat' \subseteq A
      <4>1. InFlat \subseteq A /\ p \in A /\ \A q \in A : Down(schema, q) \subseteq A
        BY <1>2, <1>4, <3>1 DEF Listing, OnlyUsed, NeedsAll
      <4>2. b.t = schema.pat[p].t
        BY <1>2, <1>4, <2>6 DEF AsParsed, Alike
      <4>3. /\ b.t \in Binary \cup Unary => Lies(b.p1, schema.pat[p].p1)
            /\ b.t \in Binary => Lies(b.p2, schema.pat[p].p2)
        BY <1>4, <2>5, <2>7
      <4>4. Kids(b) \subseteq A
        BY <1>2, <4>1, <4>2, <4>3, UsedKidsToo
      <4> QED
        BY <2>15, <4>1, <4>4
    <3> QED
      BY <1>1, <3>1 DEF OnlyUsed, NeedsAll
  <2>20. Leads'
    <3>1. ASSUME NEW A \in SUBSET DOMAIN pat, flat'[1] \in A,
                 \A k \in 1 .. i + 1 : flat'[k] \in A => Kids(pat'[flat'[k]]) \subseteq A
          PROVE  InFlat' \subseteq A
      <4>1. flat[1] \in A /\ flat # <<>> /\ 1 \in 1 .. Len(flat)
        BY <1>3, <2>16, <3>1
      <4>2. ASSUME NEW k \in 1 .. i, flat[k] \in A PROVE Kids(pat[flat[k]]) \subseteq A
        <5>1. k \in 1 .. i + 1 /\ k \in DOMAIN flat /\ i + 1 \in DOMAIN flat /\ k # i + 1
          BY <1>3
        <5>2. flat[k] # p
          BY <1>2, <5>1 DEF Listing, Apart, p
        <5>3. flat'[k] = flat[k] /\ flat[k] \in DOMAIN pat
          BY <1>3, <2>16, <5>1
        <5>4. pat'[flat'[k]] = pat[flat[k]]
          BY <2>1, <2>6, <5>2, <5>3
        <5> QED
          BY <3>1, <4>2, <5>1, <5>3, <5>4
      <4>3. InFlat \subseteq A
        BY <1>2, <4>1, <4>2 DEF Listing, Leads
      <4>4. flat'[i + 1] = p /\ i + 1 \in 1 .. i + 1 /\ p \in A
        BY <1>3, <1>4, <2>16, <4>3 DEF p
      <4>5. Kids(pat'[p]) \subseteq A
        BY <3>1, <4>4
      <4> QED
        BY <2>1, <2>5, <2>15, <4>3, <4>5
    <3> QED
      BY <2>1, <2>6, <3>1 DEF Leads
  <2> QED
    BY <2>1, <2>13, <2>14, <2>17, <2>18, <2>19, <2>20 DEF LPhase, Listing
<1> QED
  BY <1>6, <1>7

LEMMA L_deref_done ==
  ASSUME IInv, MInv, LPhase, deref_done
  PROVE  LPhase'
<1>1. pc = "deref" /\ pc' = "loops" /\ UNCHANGED <<schema, pat, flat, i>>
  BY DEF deref_done, Goto
<1>2. Listing
  BY <1>1 DEF LPhase
<1>3. Past' = Past /\ InFlat' = InFlat
  BY <1>1, StartSame DEF InFlat
<1>4. Listing'
  BY <1>1, <1>2, <1>3 DEF Listing, Onwards, Circling, OnlyUsed, NeedsAll, Leads, Apart, Lies
<1> QED
  BY <1>1, <1>4 DEF LPhase

-----------------------------------------------------------------------------
(* The search for loops.                                                   *)
Looking ==
  /\ schema \in Schemas /\ AsParsed /\ InStore /\ TypeOK /\ Unswept /\ Flat /\ Listing
  /\ Sense[flat[1]] = Sense[schema.start]

LEMMA LookingAt ==
  ASSUME Looking
  PROVE  /\ DOMAIN pat = DOMAIN schema.pat /\ InFlat \subseteq DOMAIN pat
         /\ flat[1] \in InFlat /\ flat # <<>> /\ DOMAIN flat = 1 .. Len(flat) /\ Len(flat) \in Nat
         /\ \A p \in DOMAIN pat : pat[p].t = schema.pat[p].t /\ Kids(pat[p]) \subseteq DOMAIN pat
         /\ \A p \in InFlat : Kids(pat[p]) \subseteq InFlat
         /\ \A p \in DOMAIN pat : p \in Inside(schema) <=> pat[p].t # "element"
<1>1. InFlat \subseteq DOMAIN pat /\ flat[1] \in InFlat /\ flat \in Seq(DOMAIN pat)
  BY FlatOnes DEF Looking
<1>2. DOMAIN pat = DOMAIN schema.pat /\ \A p \in DOMAIN pat : pat[p].t = schema.pat[p].t
  BY DEF Looking, AsParsed, Alike
<1> QED
  BY <1>1, <1>2 DEF Looking, TypeOK, Flat, Inside

(* The patterns met in the descent from the children of q, which has not   *)
(* left an element, are met in the schema as parsed.                       *)
LEMMA DescentInside ==
  ASSUME Looking, NEW q \in InFlat, pat[q].t \in Binary \cup Unary,
         NEW r, r = Opened(schema, Down(schema, q), Inside(schema))
  PROVE  Descent(Kids(pat[q])) \subseteq r \cap InFlat
<1>1. /\ schema \in Schemas /\ InStore /\ Onwards
      /\ \A p \in DOMAIN pat : Kids(pat[p]) \subseteq DOMAIN pat
  BY DEF Looking, TypeOK, Listing
<1>2. /\ DOMAIN pat = DOMAIN schema.pat /\ q \in DOMAIN pat /\ InFlat \subseteq DOMAIN pat
      /\ \A p \in DOMAIN pat : pat[p].t = schema.pat[p].t
      /\ \A p \in InFlat : Kids(pat[p]) \subseteq InFlat
      /\ \A p \in DOMAIN pat : p \in Inside(schema) <=> pat[p].t # "element"
  BY LookingAt
<1>3. \A t \in Binary \cup Unary : t # "ref"
  BY DEF Binary, Unary
<1>4. Down(schema, q) = Kids(schema.pat[q]) /\ Down(schema, q) \subseteq DOMAIN schema.pat
  BY <1>1, <1>2, <1>3, DownOnes
<1>5. Kids(schema.pat[q]) # {} /\ Kids(pat[q]) # {}
  <2>1. PICK a : a = schema.pat[q]
    OBVIOUS
  <2>2. PICK b : b = pat[q]
    OBVIOUS
  <2>3. a.t \in Binary \cup Unary /\ b.t \in Binary \cup Unary
    BY <1>2, <2>1, <2>2
  <2>4. Kids(a) # {} /\ Kids(b) # {}
    BY <2>3, KidsOf
  <2> QED
    BY <2>1, <2>2, <2>4
<1>6. /\ r \subseteq DOMAIN schema.pat /\ Kids(schema.pat[q]) \subseteq r
      /\ \A p \in r \cap Inside(schema) : Down(schema, p) \subseteq r
  BY <1>1, <1>4, <1>5, OpenedOnes
<1>7. Keeps(Past, r)
  <2>1. "ref" # "element"
    OBVIOUS
  <2> SUFFICES ASSUME NEW p \in r PROVE Past[p] \in r
    BY DEF Keeps
  <2>2. CASE schema.pat[p].t = "ref"
    <3>1. p \in Inside(schema) /\ Down(schema, p) = {Past[p]}
      BY <1>1, <1>6, <2>1, <2>2, DownOnes DEF Inside
    <3> QED
      BY <1>6, <3>1
  <2>3. CASE schema.pat[p].t # "ref"
    BY <1>1, <1>6, <2>3, DownOnes
  <2> QED
    BY <2>2, <2>3
<1>8. ASSUME NEW p \in DOMAIN pat, pat[p].t \in Binary \cup Unary, Kids(schema.pat[p]) \subseteq r
      PROVE  Kids(pat[p]) \subseteq r
  <2>1. PICK b : b = pat[p]
    OBVIOUS
  <2>2. /\ b.t \in Binary \cup Unary => Lies(b.p1, schema.pat[p].p1)
        /\ b.t \in Binary => Lies(b.p2, schema.pat[p].p2)
    BY <1>1, <1>8, <2>1 DEF Onwards
  <2>3. b.t = schema.pat[p].t
    BY <1>2, <2>1
  <2> QED
    BY <1>6, <1>7, <1>8, <2>1, <2>2, <2>3, KidsLie
<1>9. Kids(pat[q]) \subseteq r \cap InFlat
  BY <1>2, <1>6, <1>8
<1>10. ASSUME NEW p \in r \cap InFlat, pat[p].t \in Binary PROVE Kids(pat[p]) \subseteq r \cap InFlat
  <2>1. pat[p].t # "element" /\ pat[p].t # "ref"
    BY <1>10 DEF Binary
  <2>2. p \in r \cap Inside(schema)
    BY <1>2, <1>10, <2>1
  <2>3. Kids(schema.pat[p]) \subseteq r
    BY <1>1, <1>2, <1>6, <1>10, <2>1, <2>2, DownOnes
  <2> QED
    BY <1>2, <1>8, <1>10, <2>3
<1>11. PICK A : A = r \cap InFlat
  OBVIOUS
<1>12. PICK ps : ps = Kids(pat[q])
  OBVIOUS
<1>13. /\ A \in SUBSET DOMAIN pat /\ ps \in SUBSET DOMAIN pat /\ ps # {} /\ ps \subseteq A
       /\ \A p \in A : pat[p].t \in Binary => Kids(pat[p]) \subseteq A
  BY <1>1, <1>2, <1>5, <1>9, <1>10, <1>11, <1>12
<1>14. Descent(ps) \subseteq A
  BY <1>1, <1>13, DescentOnes
<1> QED
  BY <1>11, <1>12, <1>14

LEMMA SuspectsListed ==
  ASSUME Looking, NEW s \in Suspects
  PROVE  s \in InFlat /\ s \in DOMAIN pat /\ Descent({s}) \subseteq InFlat
<1>1. /\ InFlat \subseteq DOMAIN pat /\ flat[1] \in InFlat
      /\ \A p \in InFlat : Kids(pat[p]) \subseteq InFlat
      /\ InStore /\ \A p \in DOMAIN pat : Kids(pat[p]) \subseteq DOMAIN pat
      /\ DOMAIN flat = 1 .. Len(flat) /\ Len(flat) \in Nat
  BY LookingAt DEF Looking
<1>2. s \in InFlat
  <2>1. CASE s = flat[1]
    BY <1>1, <2>1
  <2>2. CASE s # flat[1]
    <3>1. PICK n \in 2 .. Len(flat) : pat[flat[n]].t = "element" /\ s = pat[flat[n]].p1
      BY <2>2 DEF Suspects
    <3>2. flat[n] \in InFlat
      BY <1>1 DEF InFlat
    <3>3. PICK b : b = pat[flat[n]]
      OBVIOUS
    <3>4. b.p1 \in Kids(b)
      BY <3>1, <3>3, KidsOf DEF Unary
    <3> QED
      BY <1>1, <3>1, <3>2, <3>3, <3>4
  <2> QED
    BY <2>1, <2>2
<1>3. PICK ps : ps = {s}
  OBVIOUS
<1>4. ps \in SUBSET DOMAIN pat /\ ps # {} /\ ps \subseteq InFlat /\ InFlat \in SUBSET DOMAIN pat
  BY <1>1, <1>2, <1>3
<1>5. Descent(ps) \subseteq InFlat
  BY <1>1, <1>4, DescentOnes
<1> QED
  BY <1>1, <1>2, <1>3, <1>5

(* What loop finds contains itself as parsed.                              *)
LEMMA LoopFound ==
  ASSUME Looking, NEW s \in Suspects, loop(s)
  PROVE  ~Unfolds(schema)
<1>1. PICK q \in Descent({s}) : \/ pat[q].t = "ref"
                                \/ pat[q].t \in Binary /\ q \in Descent(Kids(pat[q]))
  BY DEF loop
<1>2. /\ q \in InFlat /\ q \in DOMAIN schema.pat /\ pat[q].t = schema.pat[q].t
      /\ schema \in Schemas /\ schema.start \in DOMAIN schema.pat
  BY <1>1, SuspectsListed, LookingAt, Parsed DEF Looking
<1>3. PICK c : c = Opened(schema, {schema.start}, DOMAIN schema.pat)
  OBVIOUS
<1>4. NeedsAll(c) /\ c \subseteq DOMAIN schema.pat
  <2>1. PICK from : from = {schema.start}
    OBVIOUS
  <2>2. PICK open : open = DOMAIN schema.pat
    OBVIOUS
  <2>3. from \in SUBSET DOMAIN schema.pat /\ from # {} /\ c = Opened(schema, from, open)
    BY <1>2, <1>3, <2>1, <2>2
  <2>4. c \subseteq DOMAIN schema.pat /\ from \subseteq c /\ \A p \in c \cap open : Down(schema, p) \subseteq c
    BY <1>2, <2>3, OpenedOnes
  <2> QED
    BY <2>1, <2>2, <2>4 DEF NeedsAll
<1>5. q \in c
  BY <1>2, <1>4 DEF Looking, Listing, OnlyUsed
<1>6. PICK r : r = Opened(schema, Down(schema, q), Inside(schema))
  OBVIOUS
<1>7. q \in Inside(schema) /\ q \in r
  <2>1. CASE pat[q].t = "ref"
    <3>1. schema.pat[q].t = "ref" /\ q \in Inside(schema)
      BY <1>2, <2>1 DEF Inside
    <3>2. Down(schema, q) = {Past[q]} /\ Down(schema, q) \in SUBSET DOMAIN schema.pat
      BY <1>2, <3>1, DownOnes
    <3>3. /\ r \subseteq DOMAIN schema.pat /\ Past[q] \in r
          /\ \A p \in r \cap Inside(schema) : Down(schema, p) \subseteq r
      <4>1. PICK from : from = Down(schema, q)
        OBVIOUS
      <4>2. PICK open : open = Inside(schema)
        OBVIOUS
      <4>3. /\ schema \in Schemas /\ from \in SUBSET DOMAIN schema.pat /\ from # {} /\ Past[q] \in from
            /\ r = Opened(schema, from, open)
        BY <1>2, <1>6, <3>2, <4>1, <4>2
      <4>4. r \subseteq DOMAIN schema.pat /\ from \subseteq r /\ \A p \in r \cap open : Down(schema, p) \subseteq r
        BY <4>3, OpenedOnes
      <4> QED
        BY <4>2, <4>3, <4>4
    <3>4. Keeps(Past, r)
      <4> SUFFICES ASSUME NEW p \in r PROVE Past[p] \in r
        BY DEF Keeps
      <4>1. CASE schema.pat[p].t = "ref"
        <5>1. p \in Inside(schema) /\ Down(schema, p) = {Past[p]}
          BY <1>2, <3>3, <4>1, DownOnes DEF Inside
        <5> QED
          BY <3>3, <5>1
      <4>2. CASE schema.pat[p].t # "ref"
        BY <1>2, <3>3, <4>2, DownOnes
      <4> QED
        BY <4>1, <4>2
    <3>5. Lies(q, Past[q])
      BY <1>2, <2>1 DEF Looking, Listing, Circling
    <3> QED
      BY <3>1, <3>3, <3>4, <3>5 DEF Lies
  <2>2. CASE pat[q].t \in Binary /\ q \in Descent(Kids(pat[q]))
    <3>1. q \in Inside(schema)
      BY <1>2, <2>2 DEF Inside, Binary
    <3>2. Descent(Kids(pat[q])) \subseteq r \cap InFlat
      BY <1>2, <1>6, <2>2, DescentInside
    <3> QED
      BY <2>2, <3>1, <3>2
  <2> QED
    BY <1>1, <2>1, <2>2
<1> QED
  BY <1>3, <1>5, <1>6, <1>7 DEF Unfolds, Unfolding

(* Without references left, the children in the store are what those in    *)
(* the schema stand for.                                                   *)
LEMMA KidsMeant ==
  ASSUME Looking, NoRefs, NEW x \in InFlat, NEW c \in Kids(schema.pat[x])
  PROVE  Sense[c] \in Kids(pat[x])
<1>1. /\ x \in DOMAIN pat /\ Kids(pat[x]) \subseteq InFlat /\ InFlat \subseteq DOMAIN schema.pat
      /\ \A p \in DOMAIN pat : pat[p].t = schema.pat[p].t
  BY LookingAt
<1>2. \A d \in Kids(pat[x]) : Sense[d] = d
  <2> TAKE d \in Kids(pat[x])
  <2>1. schema.pat[d].t # "ref"
    BY <1>1, LookingAt DEF NoRefs
  <2> QED
    BY <1>1, <2>1, SenseOnes DEF Looking
<1>3. PICK a : a = schema.pat[x]
  OBVIOUS
<1>4. PICK b : b = pat[x]
  OBVIOUS
<1>5. Alike(a, b, Sense)
  BY <1>1, <1>3, <1>4 DEF Looking, AsParsed
<1>6. CASE b.t \in Binary
  <2>1. (c = a.p1 \/ c = a.p2) /\ b.p1 \in Kids(b) /\ b.p2 \in Kids(b)
    BY <1>3, <1>5, <1>6, KidsOf DEF Alike
  <2>2. Sense[b.p1] = b.p1 /\ Sense[b.p2] = b.p2
    BY <1>2, <1>4, <2>1
  <2> QED
    BY <1>4, <1>5, <1>6, <2>1, <2>2 DEF Alike
<1>7. CASE b.t \in Unary
  <2>1. c = a.p1 /\ b.p1 \in Kids(b)
    BY <1>3, <1>5, <1>7, KidsOf DEF Alike
  <2>2. Sense[b.p1] = b.p1
    BY <1>2, <1>4, <2>1
  <2> QED
    BY <1>4, <1>5, <1>7, <2>1, <2>2 DEF Alike
<1>8. CASE b.t \notin Binary \cup Unary
  BY <1>3, <1>5, <1>8, KidsOf DEF Alike
<1> QED
  BY <1>6, <1>7, <1>8

(* What a pattern in use stands for is in the worklist.                    *)
LEMMA UsedListed ==
  ASSUME Looking, NoRefs, NEW p \in Opened(schema, {schema.start}, DOMAIN schema.pat)
  PROVE  p \in DOMAIN schema.pat /\ Sense[p] \in InFlat
<1> DEFINE D == DOMAIN schema.pat
           W == {x \in D : Sense[x] \in InFlat}
<1>1. /\ schema \in Schemas /\ schema.start \in D /\ DOMAIN pat = D /\ InFlat \subseteq D
      /\ flat[1] \in InFlat
      /\ \A q \in D : pat[q].t = schema.pat[q].t
      /\ \A q \in InFlat : Kids(pat[q]) \subseteq InFlat
      /\ \A q \in InFlat : schema.pat[q].t # "ref"
  BY LookingAt, Parsed DEF Looking, NoRefs
<1>2. schema.start \in W
  <2>1. Sense[flat[1]] = flat[1]
    BY <1>1, SenseOnes
  <2> QED
    BY <1>1, <2>1 DEF Looking
<1>3. ASSUME NEW x \in W PROVE Down(schema, x) \subseteq W
  <2>1. Founded(x)
    BY <1>1 DEF Founded
  <2>2. CASE schema.pat[x].t = "ref"
    <3>1. Down(schema, x) = {Past[x]} /\ Past[x] \in D /\ Sense[Past[x]] = Sense[x]
      BY <1>1, <2>1, <2>2, DownOnes, PastMeans
    <3> QED
      BY <3>1
  <2>3. CASE schema.pat[x].t # "ref"
    <3>1. Sense[x] = x /\ x \in InFlat /\ Down(schema, x) = Kids(schema.pat[x]) /\ Down(schema, x) \subseteq D
      BY <1>1, <2>3, SenseOnes, DownOnes
    <3>2. \A c \in Kids(schema.pat[x]) : Sense[c] \in InFlat
      BY <1>1, <3>1, KidsMeant
    <3> QED
      BY <3>1, <3>2
  <2> QED
    BY <2>2, <2>3
<1>4. PICK from : from = {schema.start}
  OBVIOUS
<1>5. PICK A : A = W
  OBVIOUS
<1>6. PICK open : open = D
  OBVIOUS
<1>7. PICK r : r = Opened(schema, from, open)
  OBVIOUS
<1>8. /\ from \in SUBSET D /\ A \in SUBSET D /\ from \subseteq A
      /\ \A x \in A \cap open : Down(schema, x) \subseteq A
  BY <1>1, <1>2, <1>3, <1>4, <1>5
<1> HIDE DEF W
<1>9. r \subseteq A
  BY <1>1, <1>7, <1>8, OpenedOnes
<1>10. p \in W
  BY <1>4, <1>5, <1>6, <1>7, <1>9
<1> QED
  BY <1>10 DEF W

(* What is in the worklist is met in the descent from a suspect, or in the *)
(* content of the start element.                                           *)
LEMMA ListedSuspected ==
  ASSUME Looking, NoRefs, NEW e \in InFlat
  PROVE  \/ \E s \in Suspects : e \in Descent({s})
         \/ pat[flat[1]].t = "element" /\ e \in Descent(Kids(pat[flat[1]]))
<1> DEFINE f == flat[1]
           A == {x \in DOMAIN pat : \/ \E s \in Suspects : x \in Descent({s})
                                    \/ pat[f].t = "element" /\ x \in Descent(Kids(pat[f]))}
<1>1. /\ InFlat \subseteq DOMAIN pat /\ f \in InFlat /\ flat # <<>> /\ i \in 0 .. Len(flat)
      /\ DOMAIN flat = 1 .. Len(flat) /\ Len(flat) \in Nat
      /\ InStore /\ \A p \in DOMAIN pat : Kids(pat[p]) \subseteq DOMAIN pat
  BY LookingAt DEF Looking, TypeOK
<1>2. ASSUME NEW s \in Suspects
      PROVE  /\ s \in Descent({s})
             /\ \A p \in Descent({s}) : pat[p].t \in Binary => Kids(pat[p]) \subseteq Descent({s})
  <2>1. PICK ps : ps = {s}
    OBVIOUS
  <2>2. ps \in SUBSET DOMAIN pat /\ ps # {}
    BY <2>1, SuspectsListed
  <2>3. PICK d : d = Descent(ps)
    OBVIOUS
  <2>4. ps \subseteq d /\ \A p \in d : pat[p].t \in Binary => Kids(pat[p]) \subseteq d
    BY <1>1, <2>2, <2>3, DescentOnes
  <2> QED
    BY <2>1, <2>3, <2>4
<1>3. ASSUME pat[f].t = "element"
      PROVE  /\ Kids(pat[f]) \subseteq Descent(Kids(pat[f]))
             /\ \A p \in Descent(Kids(pat[f])) : pat[p].t \in Binary => Kids(pat[p]) \subseteq Descent(Kids(pat[f]))
  <2>1. PICK ps : ps = Kids(pat[f])
    OBVIOUS
  <2>2. ps \in SUBSET DOMAIN pat /\ ps # {}
    <3>1. PICK b : b = pat[f]
      OBVIOUS
    <3>2. b.t \in Unary
      BY <1>3, <3>1 DEF Unary
    <3> QED
      BY <1>1, <2>1, <3>1, <3>2, KidsOf
  <2>3. PICK d : d = Descent(ps)
    OBVIOUS
  <2>4. ps \subseteq d /\ \A p \in d : pat[p].t \in Binary => Kids(pat[p]) \subseteq d
    BY <1>1, <2>2, <2>3, DescentOnes
  <2> QED
    BY <2>1, <2>3, <2>4
<1>4. \A s \in Suspects : \A x \in Descent({s}) : x \in DOMAIN pat => x \in A
  OBVIOUS
<1>5. ASSUME pat[f].t = "element" PROVE \A x \in Descent(Kids(pat[f])) : x \in DOMAIN pat => x \in A
  BY <1>5
<1>6. ASSUME NEW x \in A, \A s \in Suspects : x \notin Descent({s})
      PROVE  pat[f].t = "element" /\ x \in Descent(Kids(pat[f]))
  BY <1>6
<1>7. A \in SUBSET DOMAIN pat
  OBVIOUS
<1> HIDE DEF A, f
<1>8. f \in A
  <2>1. f \in Suspects
    BY DEF Suspects, f
  <2> QED
    BY <1>1, <1>2, <1>4, <2>1
<1>9. ASSUME NEW k \in 1 .. i, flat[k] \in A PROVE Kids(pat[flat[k]]) \subseteq A
  <2>1. PICK x : x = flat[k]
    OBVIOUS
  <2> SUFFICES Kids(pat[x]) \subseteq A
    BY <2>1
  <2>2. k \in 1 .. Len(flat) /\ x \in InFlat /\ x \in DOMAIN pat /\ x \in A
    <3>1. k \in 1 .. Len(flat)
      BY <1>1
    <3> QED
      BY <1>1, <1>7, <1>9, <2>1, <3>1 DEF InFlat
  <2>3. Kids(pat[x]) \subseteq DOMAIN pat
    BY <1>1, <2>2
  <2>4. CASE pat[x].t \in Binary
    <3>1. CASE \E s \in Suspects : x \in Descent({s})
      BY <1>2, <1>4, <2>3, <2>4, <3>1
    <3>2. CASE \A s \in Suspects : x \notin Descent({s})
      BY <1>3, <1>5, <1>6, <2>2, <2>3, <2>4, <3>2
    <3> QED
      BY <3>1, <3>2
  <2>5. CASE pat[x].t \in Unary
    <3>1. pat[x].t = "element"
      BY <2>5 DEF Unary
    <3>2. CASE x = f
      BY <1>3, <1>5, <2>3, <3>1, <3>2
    <3>3. CASE x # f
      <4>1. k \in 2 .. Len(flat)
        BY <1>1, <2>1, <2>2, <3>3 DEF f
      <4>2. pat[x].p1 \in Suspects
        BY <2>1, <3>1, <4>1 DEF Suspects
      <4>3. PICK b : b = pat[x]
        OBVIOUS
      <4>4. Kids(b) = {b.p1}
        BY <2>5, <4>3, KidsOf
      <4> QED
        BY <1>2, <1>4, <2>3, <4>2, <4>3, <4>4
    <3> QED
      BY <3>2, <3>3
  <2>6. CASE pat[x].t \notin Binary \cup Unary
    <3>1. PICK b : b = pat[x]
      OBVIOUS
    <3>2. Kids(b) = {}
      BY <2>6, <3>1, KidsOf
    <3> QED
      BY <3>1, <3>2
  <2> QED
    BY <2>4, <2>5, <2>6
<1>10. InFlat \subseteq A
  BY <1>1, <1>7, <1>8, <1>9 DEF Looking, Listing, Leads, f
<1> QED
  BY <1>6, <1>10 DEF f

(* A pattern in use that contains itself, as parsed, stands for one that   *)
(* is met again in the descent from its children.                          *)
LEMMA MetAgain ==
  ASSUME Looking, NoRefs, NEW p \in Inside(schema), Sense[p] \in InFlat,
         p \in Opened(schema, Down(schema, p), Inside(schema)), NEW e, e = Sense[p]
  PROVE  pat[e].t \in Binary /\ e \in Descent(Kids(pat[e]))
<1> DEFINE D == DOMAIN schema.pat
           g == Descent(Kids(pat[e]))
           M1 == {x \in D : Sense[x] = e /\ ~Lies(p, x)}
           M2 == {x \in D : pat[e].t \in Binary /\ Sense[x] \in g}
           M == M1 \cup M2
<1>1. /\ schema \in Schemas /\ DOMAIN pat = D /\ InFlat \subseteq D /\ e \in InFlat /\ p \in D
      /\ \A q \in D : pat[q].t = schema.pat[q].t /\ Kids(pat[q]) \subseteq D
      /\ \A q \in InFlat : Kids(pat[q]) \subseteq InFlat
      /\ \A q \in InFlat : schema.pat[q].t # "ref"
      /\ Past \in [D -> D] /\ InStore
  BY LookingAt, Parsed DEF Looking, NoRefs, Inside
<1>2. \A q \in InFlat : Sense[q] = q
  BY <1>1, SenseOnes
<1>3. ASSUME pat[e].t \in Binary
      PROVE  /\ g \subseteq InFlat /\ Kids(pat[e]) \subseteq g
             /\ \A q \in g : pat[q].t \in Binary => Kids(pat[q]) \subseteq g
  <2>1. PICK ps : ps = Kids(pat[e])
    OBVIOUS
  <2>2. ps # {}
    <3>1. PICK b : b = pat[e]
      OBVIOUS
    <3> QED
      BY <1>3, <2>1, <3>1, KidsOf
  <2>3. ps \in SUBSET DOMAIN pat /\ ps \subseteq InFlat /\ InFlat \in SUBSET DOMAIN pat
    BY <1>1, <2>1
  <2>4. PICK d : d = Descent(ps)
    OBVIOUS
  <2>5. /\ ps \subseteq d
        /\ \A q \in d : pat[q].t \in Binary => Kids(pat[q]) \subseteq d
        /\ d \subseteq InFlat
    BY <1>1, <2>2, <2>3, <2>4, DescentOnes
  <2> QED
    BY <2>1, <2>4, <2>5
<1> HIDE DEF g
<1>4. ASSUME NEW x \in D, Sense[x] \in InFlat
      PROVE  /\ schema.pat[x].t = "ref" => Down(schema, x) = {Past[x]} /\ Past[x] \in D /\ Sense[Past[x]] = Sense[x]
             /\ schema.pat[x].t # "ref" => /\ Sense[x] = x /\ Down(schema, x) = Kids(schema.pat[x])
                                          /\ \A c \in Down(schema, x) : c \in D /\ Sense[c] \in Kids(pat[x])
  <2>1. Founded(x)
    BY <1>1, <1>4 DEF Founded
  <2>2. CASE schema.pat[x].t = "ref"
    BY <1>1, <2>1, <2>2, DownOnes, PastMeans
  <2>3. CASE schema.pat[x].t # "ref"
    <3>1. Sense[x] = x /\ x \in InFlat /\ Down(schema, x) = Kids(schema.pat[x]) /\ Down(schema, x) \subseteq D
      BY <1>1, <1>4, <2>3, SenseOnes, DownOnes
    <3>2. \A c \in Kids(schema.pat[x]) : Sense[c] \in Kids(pat[x])
      BY <3>1, KidsMeant
    <3> QED
      BY <2>3, <3>1, <3>2
  <2> QED
    BY <2>2, <2>3
<1>5. \A x \in D : schema.pat[x].t \notin Binary /\ x \in Inside(schema) => Kids(schema.pat[x]) = {}
  <2> TAKE x \in D
  <2>1. PICK b : b = schema.pat[x]
    OBVIOUS
  <2>2. b.t \notin Binary /\ x \in Inside(schema) => b.t \notin Binary \cup Unary
    BY <2>1 DEF Inside, Unary
  <2> QED
    BY <2>1, <2>2, KidsOf
<1>6. ASSUME NEW x \in D, x = e, x \in Inside(schema) PROVE Down(schema, x) \subseteq M2
  <2>1. Down(schema, x) = Kids(schema.pat[x]) /\ \A c \in Down(schema, x) : c \in D /\ Sense[c] \in Kids(pat[x])
    BY <1>1, <1>2, <1>4, <1>6
  <2>2. CASE pat[e].t \in Binary
    BY <1>3, <1>6, <2>1, <2>2
  <2>3. CASE pat[e].t \notin Binary
    BY <1>1, <1>5, <1>6, <2>1, <2>3
  <2> QED
    BY <2>2, <2>3
<1>7. ASSUME NEW x \in M2, x \in Inside(schema) PROVE Down(schema, x) \subseteq M2
  <2>1. x \in D /\ pat[e].t \in Binary /\ Sense[x] \in g /\ Sense[x] \in InFlat
    BY <1>3
  <2>2. CASE schema.pat[x].t = "ref"
    BY <1>4, <2>1, <2>2
  <2>3. CASE schema.pat[x].t # "ref"
    <3>1. /\ Sense[x] = x /\ Down(schema, x) = Kids(schema.pat[x])
          /\ \A c \in Down(schema, x) : c \in D /\ Sense[c] \in Kids(pat[x])
      BY <1>4, <2>1, <2>3
    <3>2. CASE pat[x].t \in Binary
      <4>1. Kids(pat[x]) \subseteq g
        BY <1>3, <2>1, <3>1, <3>2
      <4> QED
        BY <2>1, <3>1, <4>1
    <3>3. CASE pat[x].t \notin Binary
      BY <1>1, <1>5, <1>7, <2>1, <3>1, <3>3
    <3> QED
      BY <3>2, <3>3
  <2> QED
    BY <2>2, <2>3
<1>8. ASSUME NEW x \in M1, x \in Inside(schema) PROVE Down(schema, x) \subseteq M
  <2>1. x \in D /\ Sense[x] = e /\ ~Lies(p, x) /\ Sense[x] \in InFlat
    BY <1>1
  <2>2. CASE schema.pat[x].t = "ref"
    <3>1. Down(schema, x) = {Past[x]} /\ Past[x] \in D /\ Sense[Past[x]] = e
      BY <1>4, <2>1, <2>2
    <3>2. Lies(Past[x], x)
      BY DEF Lies, Keeps
    <3>3. ~Lies(p, Past[x])
      BY <2>1, <3>2, LiesOn
    <3> QED
      BY <3>1, <3>3
  <2>3. CASE schema.pat[x].t # "ref"
    <3>1. x = e
      BY <1>4, <2>1, <2>3
    <3> QED
      BY <1>6, <1>8, <2>1, <3>1
  <2> QED
    BY <2>2, <2>3
<1>9. Down(schema, p) \subseteq M
  <2>1. CASE schema.pat[p].t = "ref"
    <3>1. Down(schema, p) = {Past[p]} /\ Past[p] \in D /\ Sense[Past[p]] = e
      BY <1>1, <1>4, <2>1
    <3>2. ~Lies(p, Past[p])
      <4>1. Founded(p)
        BY <1>1 DEF Founded
      <4> QED
        BY <1>1, <2>1, <4>1, NoWayBack
    <3> QED
      BY <3>1, <3>2
  <2>2. CASE schema.pat[p].t # "ref"
    <3>1. p = e
      BY <1>1, <1>4, <2>2
    <3> QED
      BY <1>1, <1>6, <3>1
  <2> QED
    BY <2>1, <2>2
<1>10. PICK A : A = M
  OBVIOUS
<1>11. PICK from : from = Down(schema, p)
  OBVIOUS
<1>12. PICK open : open = Inside(schema)
  OBVIOUS
<1>13. PICK r : r = Opened(schema, from, open)
  OBVIOUS
<1>14. A \in SUBSET D /\ from \in SUBSET D /\ from \subseteq A
  BY <1>1, <1>9, <1>10, <1>11
<1>15. \A x \in A \cap open : Down(schema, x) \subseteq A
  <2> SUFFICES ASSUME NEW x \in M, x \in Inside(schema) PROVE Down(schema, x) \subseteq M
    BY <1>10, <1>12
  <2> QED
    BY <1>7, <1>8
<1>16. r \subseteq A
  BY <1>1, <1>13, <1>14, <1>15, OpenedOnes
<1>17. p \in M
  BY <1>10, <1>11, <1>12, <1>13, <1>16
<1>18. p \notin M1
  BY DEF Lies
<1> QED
  BY <1>17, <1>18 DEF g

(* What contains itself as parsed, loop finds, unless in the start element.*)
LEMMA LoopMissed ==
  ASSUME Looking, NoRefs, StartUnfolds, \A s \in Suspects : ~loop(s)
  PROVE  Unfolds(schema)
<1> SUFFICES ASSUME NEW p \in Opened(schema, {schema.start}, DOMAIN schema.pat), p \in Inside(schema),
                    p \in Opened(schema, Down(schema, p), Inside(schema))
             PROVE  FALSE
  BY DEF Unfolds, Unfolding
<1>1. PICK e : e = Sense[p]
  OBVIOUS
<1>2. e \in InFlat
  BY <1>1, UsedListed
<1>3. pat[e].t \in Binary /\ e \in Descent(Kids(pat[e]))
  BY <1>1, <1>2, MetAgain
<1>4. CASE \E s \in Suspects : e \in Descent({s})
  BY <1>3, <1>4 DEF loop
<1>5. CASE pat[flat[1]].t = "element" /\ e \in Descent(Kids(pat[flat[1]]))
  <2>1. PICK f : f = flat[1]
    OBVIOUS
  <2>2. /\ f \in InFlat /\ DOMAIN pat = DOMAIN schema.pat /\ InFlat \subseteq DOMAIN pat
        /\ \A q \in DOMAIN pat : pat[q].t = schema.pat[q].t
        /\ \A q \in DOMAIN pat : q \in Inside(schema) <=> pat[q].t # "element"
    BY <2>1, LookingAt
  <2>3. f = Sense[schema.start]
    BY <2>1, <2>2, SenseOnes DEF Looking, NoRefs
  <2>4. Unfolding(schema, Opened(schema, Down(schema, f), Inside(schema)))
    BY <1>5, <2>1, <2>2, <2>3 DEF StartUnfolds
  <2>5. e \in Opened(schema, Down(schema, f), Inside(schema))
    <3>1. pat[f].t \in Binary \cup Unary
      BY <1>5, <2>1 DEF Unary
    <3> QED
      BY <1>5, <2>1, <2>2, <3>1, DescentInside
  <2>6. e \in Opened(schema, Down(schema, e), Inside(schema))
    BY <1>2, <1>3, DescentInside
  <2>7. e \in Inside(schema)
    BY <1>2, <1>3, <2>2 DEF Binary
  <2> QED
    BY <2>4, <2>5, <2>6, <2>7 DEF Unfolding
<1> QED
  BY <1>2, <1>4, <1>5, ListedSuspected

-----------------------------------------------------------------------------
(* The steps of the rest.                                                  *)
LEMMA L_loops ==
  ASSUME IInv, MInv, LPhase, loops
  PROVE  LPhase'
<1> DEFINE found == \E s \in Suspects : loop(s)
<1>1. pc = "loops" /\ UNCHANGED <<schema, pat, flat>> /\ pc' = IF found THEN "rejected" ELSE "traits"
  BY DEF loops, Goto
<1> HIDE DEF found
<1>2. Looking
  <2>1. flat # <<>>
    BY <1>1 DEF IInv, Phase, Flat
  <2> QED
    BY <1>1, <2>1 DEF IInv, Phase, MInv, MPhase, Begun, LPhase, Looking
<1>3. (NoRefs' <=> NoRefs) /\ (StartUnfolds' <=> StartUnfolds) /\ (Unfolds(schema)' <=> Unfolds(schema))
  BY <1>1, StartSame DEF NoRefs, InFlat
<1>4. CASE found
  <2>1. ~Unfolds(schema)
    BY <1>2, <1>4, LoopFound DEF found
  <2> QED
    BY <1>1, <1>3, <1>4, <2>1 DEF LPhase
<1>5. CASE ~found
  <2>1. NoRefs /\ StartUnfolds => Unfolds(schema)
    BY <1>2, <1>5, LoopMissed DEF found
  <2> QED
    BY <1>1, <1>3, <1>5, <2>1 DEF LPhase
<1> QED
  BY <1>4, <1>5

LEMMA L_traits ==
  ASSUME IInv, MInv, LPhase, traits
  PROVE  LPhase'
<1>1. pc = "traits" /\ UNCHANGED schema /\ (pc' = "aborted" \/ (pc' = "mark_p" /\ NoRefs))
  BY DEF traits, Goto, NoRefs
<1>2. NoRefs /\ StartUnfolds => Unfolds(schema)
  BY <1>1 DEF LPhase
<1>3. (StartUnfolds' <=> StartUnfolds) /\ (Unfolds(schema)' <=> Unfolds(schema))
  BY <1>1, StartSame
<1> QED
  BY <1>1, <1>2, <1>3 DEF LPhase

(* When traits is over, the judgement does not change.                     *)
LEMMA L_later ==
  ASSUME LPhase, UNCHANGED schema,
         pc \in {"mark_p", "sweep_p", "sweep_p_loop", "unmark_p", "compress_p"},
         pc' \in {"sweep_p", "sweep_p_loop", "unmark_p", "compress_p", "loaded"}
  PROVE  LPhase'
<1>1. StartUnfolds => Unfolds(schema)
  BY DEF LPhase
<1>2. (StartUnfolds' <=> StartUnfolds) /\ (Unfolds(schema)' <=> Unfolds(schema))
  BY StartSame
<1> QED
  BY <1>1, <1>2 DEF LPhase

LEMMA L_Stutter ==
  ASSUME LPhase, UNCHANGED vars
  PROVE  LPhase'
<1>1. UNCHANGED <<schema, pc, pat, flat, i>>
  BY DEF vars
<1>2. /\ Past' = Past /\ InFlat' = InFlat /\ (StartUnfolds' <=> StartUnfolds)
      /\ (Unfolds(schema)' <=> Unfolds(schema))
  BY <1>1, StartSame DEF InFlat
<1>3. (Listing' <=> Listing) /\ (NoRefs' <=> NoRefs)
  BY <1>1, <1>2 DEF Listing, Onwards, Circling, OnlyUsed, NeedsAll, Leads, Apart, Lies, NoRefs
<1> QED
  BY <1>1, <1>2, <1>3 DEF LPhase

LEMMA JudgementKept == Spec => []LPhase
<1>1. Init => LPhase
  BY L_Init
<1>2. IInv /\ MInv /\ LPhase /\ [Next]_vars => LPhase'
  <2> SUFFICES ASSUME IInv, MInv, LPhase, [Next]_vars PROVE LPhase'
    OBVIOUS
  <2>1. CASE deref_start
    BY <2>1, L_deref_start
  <2>2. CASE deref_node
    BY <2>2, L_deref_node
  <2>3. CASE deref_done
    BY <2>3, L_deref_done
  <2>4. CASE de_spin
    BY <2>4 DEF de_spin, LPhase
  <2>5. CASE loops
    BY <2>5, L_loops
  <2>6. CASE traits
    BY <2>6, L_traits
  <2>7. CASE mark_p
    BY <2>7, L_later DEF mark_p, Goto
  <2>8. CASE sweep_p_init
    BY <2>8, L_later DEF sweep_p_init, Swept, Goto
  <2>9. CASE sweep_p_round
    BY <2>9, L_later DEF sweep_p_round, Round, Swept
  <2>10. CASE sweep_p_done
    BY <2>10, L_later DEF sweep_p_done, Goto
  <2>11. CASE unmark_p
    BY <2>11, L_later DEF unmark_p, Goto
  <2>12. CASE compress_p
    BY <2>12, L_later DEF compress_p, Goto
  <2>13. CASE UNCHANGED vars
    BY <2>13, L_Stutter
  <2> QED
    BY <2>1, <2>2, <2>3, <2>4, <2>5, <2>6, <2>7, <2>8, <2>9, <2>10, <2>11, <2>12, <2>13 DEF Next
<1> QED
  BY <1>1, <1>2, Invariance, MeaningKept, PTL DEF Spec

(* No schema is refused without cause: if loops of rnd_fixup finds one,    *)
(* some pattern in use contains itself without an element in between, in   *)
(* the schema as parsed.                                                   *)
THEOREM RefusedWithCause == Spec => [](pc = "rejected" => ~Unfolds(schema))
<1>1. LPhase => (pc = "rejected" => ~Unfolds(schema))
  BY DEF LPhase
<1> QED
  BY <1>1, JudgementKept, PTL

(* And none is loaded in which a pattern does: with one exception, which   *)
(* loops makes, the content of a start element up to the next elements.    *)
THEOREM LoopsFound == Spec => [](StartUnfolds => LoopsRefused)
<1>1. LPhase => (StartUnfolds => LoopsRefused)
  BY DEF LPhase, LoopsRefused
<1> QED
  BY <1>1, JudgementKept, PTL

=============================================================================
