--------------------------- MODULE HashTableProofs --------------------------
(***************************************************************************)
(* Proofs, for every client, every hash function and every size, that the  *)
(* hash table keeps its invariants and implements the set of rows that     *)
(* IndexSet describes.                                                     *)
(*                                                                         *)
(* A search passes the slots from the home of a hash value downwards, with *)
(* wrap-around.  Way names these slots by their numbers, without           *)
(* remainders: the rest is about order.                                    *)
(***************************************************************************)
EXTENDS HashTable, Counting

Slot == [i : Index \cup {None}, hv : Int]

(* The slots passed on the way from slot h down to slot j.                 *)
Way(h, j, len) ==
  {s \in 0 .. len - 1 : IF j <= h THEN j < s /\ s <= h ELSE s <= h \/ j < s}

Home(t, len, j) == first(t[j].hv, len)

(* The way to an entry is closed but for the slots of set g.               *)
Reached(t, len, j, g) ==
  \A s \in Way(Home(t, len, j), j, len) : t[s].i # None \/ s \in g

(* A table in which every entry is found, and none twice.                  *)
Sound(t, len) ==
  /\ t \in [0 .. len - 1 -> Slot]
  /\ \A j \in Occupied(t) : Reached(t, len, j, {})
  /\ \A j, k \in Occupied(t) : t[j].i = t[k].i => j = k

-----------------------------------------------------------------------------
(* Slot n of a probe sequence, and the slots before it.                    *)
LEMMA ProbeWay ==
  ASSUME NEW len \in Nat \ {0}, NEW hv \in Int, NEW n \in 0 .. len - 1
  PROVE  /\ first(hv, len) \in 0 .. len - 1
         /\ Probe(hv, n, len) \in 0 .. len - 1
         /\ Probe(hv, n, len) = IF n <= first(hv, len) THEN first(hv, len) - n
                                ELSE first(hv, len) - n + len
         /\ \A m \in 0 .. n - 1 : Probe(hv, m, len) \in Way(first(hv, len), Probe(hv, n, len), len)
         /\ \A s \in Way(first(hv, len), Probe(hv, n, len), len) :
              \E m \in 0 .. n - 1 : Probe(hv, m, len) = s
<1> DEFINE h == first(hv, len)
<1>1. h \in 0 .. len - 1
  BY ModRange DEF first
<1>2. ASSUME NEW m \in 0 .. len - 1
      PROVE  Probe(hv, m, len) = IF m <= h THEN h - m ELSE h - m + len
  <2>1. CASE m <= h
    <3>1. h - m \in 0 .. len - 1
      BY <1>1, <2>1
    <3> QED
      BY <2>1, <3>1, ModSame DEF Probe
  <2>2. CASE ~(m <= h)
    <3>1. h - m \in -len .. -1
      BY <1>1, <2>2
    <3> QED
      BY <2>2, <3>1, ModBelow DEF Probe
  <2> QED
    BY <2>1, <2>2
<1> DEFINE p == Probe(hv, n, len)
<1>3. p = IF n <= h THEN h - n ELSE h - n + len
  BY <1>2
<1>4. p \in 0 .. len - 1
  BY <1>1, <1>3
<1> HIDE DEF h, p
<1>5. ASSUME NEW m \in 0 .. n - 1 PROVE Probe(hv, m, len) \in Way(h, p, len)
  <2>1. Probe(hv, m, len) = IF m <= h THEN h - m ELSE h - m + len
    BY <1>2
  <2> QED
    BY <1>1, <1>3, <2>1 DEF Way
<1>6. ASSUME NEW s \in Way(h, p, len) PROVE \E m \in 0 .. n - 1 : Probe(hv, m, len) = s
  <2> DEFINE m == IF s <= h THEN h - s ELSE h - s + len
  <2>1. s \in 0 .. len - 1 /\ IF p <= h THEN p < s /\ s <= h ELSE s <= h \/ p < s
    BY DEF Way
  <2>2. m \in 0 .. n - 1
    BY <1>1, <1>3, <2>1
  <2>3. s = IF m <= h THEN h - m ELSE h - m + len
    BY <1>1, <2>1
  <2> HIDE DEF m
  <2>4. m \in 0 .. len - 1
    BY <2>2
  <2>5. Probe(hv, m, len) = s
    BY <1>2, <2>3, <2>4
  <2> QED
    BY <2>2, <2>5
<1> QED
  BY <1>1, <1>3, <1>4, <1>5, <1>6 DEF h, p

(* Every slot is in every probe sequence.                                  *)
LEMMA ProbeOnto ==
  ASSUME NEW len \in Nat \ {0}, NEW hv \in Int, NEW j \in 0 .. len - 1
  PROVE  \E n \in 0 .. len - 1 : Probe(hv, n, len) = j
<1> DEFINE h == first(hv, len)
           n == IF j <= h THEN h - j ELSE h - j + len
<1>1. h \in 0 .. len - 1
  BY ModRange DEF first
<1> HIDE DEF h
<1>2. n \in 0 .. len - 1 /\ j = IF n <= h THEN h - n ELSE h - n + len
  BY <1>1
<1> HIDE DEF n
<1>3. Probe(hv, n, len) = j
  BY <1>2, ProbeWay DEF h
<1> QED
  BY <1>2, <1>3

(* The slot at which a search stops, if there is one.                      *)
LEMMA SlotOfFound ==
  ASSUME NEW len \in Nat \ {0}, NEW t \in [0 .. len - 1 -> Slot], NEW hv \in Int, NEW wanted,
         \E j \in 0 .. len - 1 : t[j].i \in wanted \cup {None}
  PROVE  LET j == SlotOf(t, hv, len, wanted) IN
         /\ j \in 0 .. len - 1
         /\ t[j].i \in wanted \cup {None}
         /\ \A s \in Way(first(hv, len), j, len) : t[s].i \notin wanted \cup {None}
<1> DEFINE Stops(n) == t[Probe(hv, n, len)].i \in wanted \cup {None}
           S == {n \in 0 .. len - 1 : Stops(n)}
<1>1. S # {}
  <2>1. PICK j \in 0 .. len - 1 : t[j].i \in wanted \cup {None}
    OBVIOUS
  <2>2. PICK n \in 0 .. len - 1 : Probe(hv, n, len) = j
    BY ProbeOnto
  <2> QED
    BY <2>1, <2>2
<1>2. S \in SUBSET Nat
  OBVIOUS
<1>3. \A n \in S : n \in 0 .. len - 1 /\ Stops(n)
  OBVIOUS
<1>4. \A n \in 0 .. len - 1 : Stops(n) => n \in S
  OBVIOUS
<1> HIDE DEF S
<1>5. PICK least \in S : \A k \in S : least <= k
  BY <1>1, <1>2, Least
<1>6. least \in 0 .. len - 1 /\ Stops(least) /\ \A m \in 0 .. least - 1 : ~Stops(m)
  <2>1. ASSUME NEW m \in 0 .. least - 1, Stops(m) PROVE FALSE
    <3>1. m \in 0 .. len - 1 /\ ~(least <= m)
      BY <1>3
    <3> QED
      BY <1>4, <1>5, <2>1, <3>1
  <2> QED
    BY <1>3, <2>1
<1> DEFINE stop == Stop(t, hv, len, wanted)
<1>7. stop = CHOOSE n \in 0 .. len - 1 : Stops(n) /\ \A m \in 0 .. n - 1 : ~Stops(m)
  BY DEF Stop
<1> HIDE DEF Stops
<1>8. stop \in 0 .. len - 1 /\ Stops(stop) /\ \A m \in 0 .. stop - 1 : ~Stops(m)
  BY <1>6, <1>7
<1> HIDE DEF stop
<1> DEFINE j == Probe(hv, stop, len)
<1>9. j \in 0 .. len - 1
  BY <1>8, ProbeWay
<1>10. \A s \in Way(first(hv, len), j, len) : \E m \in 0 .. stop - 1 : Probe(hv, m, len) = s
  BY <1>8, ProbeWay
<1>11. \A s \in Way(first(hv, len), j, len) : t[s].i \notin wanted \cup {None}
  BY <1>8, <1>10 DEF Stops
<1>12. t[j].i \in wanted \cup {None}
  BY <1>8 DEF Stops
<1>13. SlotOf(t, hv, len, wanted) = j
  BY DEF SlotOf, stop
<1> QED
  BY <1>9, <1>11, <1>12, <1>13

-----------------------------------------------------------------------------
(* Free and occupied slots.                                                *)
LEMMA OccupiedFinite ==
  ASSUME NEW len \in Nat, NEW t \in [0 .. len - 1 -> Slot]
  PROVE  /\ Occupied(t) \subseteq 0 .. len - 1
         /\ IsFiniteSet(Occupied(t))
         /\ Cardinality(Occupied(t)) \in Nat
<1>1. IsFiniteSet(0 .. len - 1)
  BY FS_Interval
<1>2. Occupied(t) \subseteq 0 .. len - 1
  BY DEF Occupied
<1> QED
  BY <1>1, <1>2, FS_Subset, FS_CardinalityType

(* Where fewer slots are occupied than there are, one is free.             *)
LEMMA FreeSlot ==
  ASSUME NEW len \in Nat, NEW t \in [0 .. len - 1 -> Slot], Cardinality(Occupied(t)) < len
  PROVE  \E j \in 0 .. len - 1 : t[j].i = None
<1>1. IsFiniteSet(0 .. len - 1) /\ Cardinality(0 .. len - 1) = len
  BY FS_Interval
<1>2. Occupied(t) # 0 .. len - 1
  BY <1>1, OccupiedFinite
<1> QED
  BY <1>2, OccupiedFinite DEF Occupied

(* Nothing is in an empty table.                                           *)
LEMMA EmptySound ==
  ASSUME NEW len \in Nat
  PROVE  /\ Sound(Empty(len), len)
         /\ Occupied(Empty(len)) = {}
         /\ Cardinality(Occupied(Empty(len))) = 0
<1>1. Occupied(Empty(len)) = {}
  BY DEF Occupied, Empty, Free, None
<1>2. Empty(len) \in [0 .. len - 1 -> Slot]
  BY DEF Empty, Slot, Free
<1> QED
  BY <1>1, <1>2, FS_EmptySet DEF Sound

(* Insertion takes the first free slot on the way from home: no other way  *)
(* is opened by that.                                                      *)
LEMMA InsertSound ==
  ASSUME NEW len \in Nat \ {0}, NEW t, Sound(t, len),
         \E j \in 0 .. len - 1 : t[j].i = None,
         NEW i \in Index, NEW hv \in Int, \A j \in Occupied(t) : t[j].i # i
  PROVE  \E s \in 0 .. len - 1 :
           /\ s \notin Occupied(t)
           /\ Insert(t, len, i, hv)[s] = [i |-> i, hv |-> hv]
           /\ \A x \in Occupied(t) : Insert(t, len, i, hv)[x] = t[x]
           /\ Sound(Insert(t, len, i, hv), len)
           /\ Occupied(Insert(t, len, i, hv)) = Occupied(t) \cup {s}
           /\ Cardinality(Occupied(Insert(t, len, i, hv))) = Cardinality(Occupied(t)) + 1
<1> DEFINE s == SlotOf(t, hv, len, {})
           u == Insert(t, len, i, hv)
           new == [i |-> i, hv |-> hv]
<1>1. t \in [0 .. len - 1 -> Slot]
  BY DEF Sound
<1>2. /\ s \in 0 .. len - 1
      /\ t[s].i = None
      /\ \A x \in Way(first(hv, len), s, len) : t[x].i # None
  BY <1>1, SlotOfFound
<1>3. u = [t EXCEPT ![s] = new]
  BY DEF Insert
<1> HIDE DEF s, u
<1>4. new \in Slot /\ new.i = i /\ new.hv = hv /\ i # None
  BY IndexAssumption DEF Slot, None
<1> HIDE DEF new
<1>5. u \in [0 .. len - 1 -> Slot] /\ u[s] = new /\ \A x \in 0 .. len - 1 : x # s => u[x] = t[x]
  BY <1>1, <1>2, <1>3, <1>4
<1>6. Occupied(u) = Occupied(t) \cup {s} /\ s \notin Occupied(t)
  BY <1>1, <1>2, <1>4, <1>5 DEF Occupied
<1>7. ASSUME NEW j \in Occupied(u) PROVE Reached(u, len, j, {})
  <2>1. j \in 0 .. len - 1
    BY <1>5, <1>7 DEF Occupied
  <2>2. CASE j = s
    <3>1. Home(u, len, j) = first(hv, len)
      BY <1>4, <1>5, <2>2 DEF Home
    <3>2. ASSUME NEW x \in Way(first(hv, len), s, len) PROVE u[x].i # None
      <4>1. x \in 0 .. len - 1 /\ t[x].i # None
        BY <1>2 DEF Way
      <4> QED
        BY <1>2, <1>5, <4>1
    <3> QED
      BY <2>2, <3>1, <3>2 DEF Reached
  <2>3. CASE j # s
    <3>1. j \in Occupied(t) /\ Home(u, len, j) = Home(t, len, j)
      BY <1>5, <1>6, <1>7, <2>1, <2>3 DEF Home
    <3>2. \A x \in Way(Home(t, len, j), j, len) : t[x].i # None
      BY <3>1 DEF Sound, Reached
    <3>3. \A x \in Way(Home(t, len, j), j, len) : u[x].i # None
      BY <1>4, <1>5, <3>2 DEF Way
    <3> QED
      BY <3>1, <3>3 DEF Reached
  <2> QED
    BY <2>2, <2>3
<1>8. ASSUME NEW j \in Occupied(u), NEW k \in Occupied(u), u[j].i = u[k].i PROVE j = k
  <2>1. \A x \in Occupied(t) : u[x] = t[x] /\ t[x].i # i
    BY <1>1, <1>5, <1>6 DEF Occupied
  <2> QED
    BY <1>4, <1>5, <1>6, <1>8, <2>1 DEF Sound
<1>9. Cardinality(Occupied(u)) = Cardinality(Occupied(t)) + 1
  BY <1>1, <1>6, OccupiedFinite, FS_AddElement
<1> QED
  <2>1. u[s] = [i |-> i, hv |-> hv] /\ \A x \in Occupied(t) : u[x] = t[x]
    BY <1>1, <1>5, <1>6 DEF Occupied, new
  <2> QED
    BY <1>2, <1>5, <1>6, <1>7, <1>8, <1>9, <2>1 DEF Sound, u

-----------------------------------------------------------------------------
(* The loop of ht_put that fills the longer table.                         *)
LEMMA InsertType ==
  ASSUME NEW len \in Nat, NEW t \in [0 .. len - 1 -> Slot], NEW s \in Slot
  PROVE  Reinserted(t, len, s) \in [0 .. len - 1 -> Slot]
<1> DEFINE at == SlotOf(t, s.hv, len, {})
<1>1. [i |-> s.i, hv |-> s.hv] \in Slot
  BY DEF Slot
<1>2. Reinserted(t, len, s) \in {t, [t EXCEPT ![at] = [i |-> s.i, hv |-> s.hv]]}
  BY DEF Reinserted, Insert
<1> HIDE DEF at
<1> QED
  BY <1>1, <1>2

LEMMA FillLoop ==
  ASSUME NEW len \in Nat, NEW t \in [0 .. len - 1 -> Slot]
  PROVE  \E fill :
           /\ Doubled(t, len) = fill[len]
           /\ fill[0] = Empty(2 * len)
           /\ \A n \in 1 .. len : fill[n] = Reinserted(fill[n - 1], 2 * len, t[n - 1])
<1> DEFINE S == [0 .. 2 * len - 1 -> Slot]
           D == [n \in 1 .. len |-> [u \in S |-> Reinserted(u, 2 * len, t[n - 1])]]
           Fills(g) == g = [n \in 0 .. len |-> IF n = 0 THEN Empty(2 * len)
                                               ELSE Reinserted(g[n - 1], 2 * len, t[n - 1])]
<1>1. Empty(2 * len) \in S
  BY EmptySound DEF Sound
<1>2. D \in [1 .. len -> [S -> S]]
  <2>1. ASSUME NEW n \in 1 .. len, NEW u \in S PROVE Reinserted(u, 2 * len, t[n - 1]) \in S
    <3>1. t[n - 1] \in Slot
      OBVIOUS
    <3>2. 2 * len \in Nat
      OBVIOUS
    <3> QED
      BY <3>1, <3>2, InsertType
  <2> HIDE DEF S
  <2> QED
    BY <2>1
<1>3. \A n \in 1 .. len, u \in S : D[n][u] = Reinserted(u, 2 * len, t[n - 1])
  OBVIOUS
<1> HIDE DEF S, D
<1>4. PICK g \in [0 .. len -> S] :
        g[0] = Empty(2 * len) /\ \A n \in 1 .. len : g[n] = D[n][g[n - 1]]
  BY <1>1, <1>2, Recursion
<1>5. \A n \in 1 .. len : g[n] = Reinserted(g[n - 1], 2 * len, t[n - 1])
  <2> TAKE n \in 1 .. len
  <2>1. g[n - 1] \in S
    OBVIOUS
  <2> QED
    BY <1>3, <1>4, <2>1
<1>6. Fills(g)
  <2>1. ASSUME NEW n \in 0 .. len
        PROVE  g[n] = IF n = 0 THEN Empty(2 * len) ELSE Reinserted(g[n - 1], 2 * len, t[n - 1])
    <3>1. CASE n = 0
      BY <1>4, <3>1
    <3>2. CASE n \in 1 .. len
      BY <1>5, <3>2
    <3> QED
      BY <3>1, <3>2
  <2> QED
    BY <2>1
<1> DEFINE fill == CHOOSE f : Fills(f)
<1>7. Doubled(t, len) = fill[len]
  BY DEF Doubled
<1> HIDE DEF Fills
<1>8. Fills(fill)
  BY <1>6
<1> HIDE DEF fill
<1>9. fill[0] = Empty(2 * len)
  BY <1>8 DEF Fills
<1>10. \A n \in 1 .. len : fill[n] = Reinserted(fill[n - 1], 2 * len, t[n - 1])
  BY <1>8 DEF Fills
<1> QED
  BY <1>7, <1>9, <1>10

(* The longer table holds the entries of the first n slots of the other.   *)
Below(t, n) == {j \in Occupied(t) : j < n}

Refilled(t, u, len, n) ==
  /\ Sound(u, 2 * len)
  /\ Cardinality(Occupied(u)) <= n
  /\ Cardinality(Occupied(u)) = Cardinality(Below(t, n))
  /\ \A j \in Below(t, n) : \E k \in Occupied(u) : u[k] = t[j]
  /\ \A k \in Occupied(u) : \E j \in Below(t, n) : u[k] = t[j]

LEMMA RefillStep ==
  ASSUME NEW len \in Nat \ {0}, NEW t, Sound(t, len), NEW n \in 0 .. len - 1,
         NEW u, Refilled(t, u, len, n)
  PROVE  Refilled(t, Reinserted(u, 2 * len, t[n]), len, n + 1)
<1> DEFINE Before == Below(t, n)
           Upto == Below(t, n + 1)
           v == Reinserted(u, 2 * len, t[n])
<1>1. t \in [0 .. len - 1 -> Slot] /\ u \in [0 .. 2 * len - 1 -> Slot]
  BY DEF Refilled, Sound
<1>2. IsFiniteSet(Before) /\ Cardinality(Before) \in Nat
  BY <1>1, OccupiedFinite, FS_Subset, FS_CardinalityType DEF Below
<1>3. CASE t[n].i = None
  <2>1. v = u
    BY <1>3 DEF Reinserted
  <2>2. Upto = Before
    BY <1>1, <1>3 DEF Occupied, Below
  <2> QED
    BY <1>2, <2>1, <2>2 DEF Refilled
<1>4. CASE t[n].i # None
  <2>1. n \in Occupied(t) /\ n \notin Before /\ Upto = Before \cup {n}
    BY <1>1, <1>4 DEF Occupied, Below
  <2>2. Cardinality(Upto) = Cardinality(Before) + 1
    BY <1>2, <2>1, FS_AddElement
  <2>3. t[n] \in Slot /\ t[n].i \in Index /\ t[n].hv \in Int /\ t[n] = [i |-> t[n].i, hv |-> t[n].hv]
    BY <1>1, <1>4 DEF Slot
  <2>4. \A k \in Occupied(u) : u[k].i # t[n].i
    <3> SUFFICES ASSUME NEW k \in Occupied(u), u[k].i = t[n].i PROVE FALSE
      OBVIOUS
    <3>1. PICK j \in Before : u[k] = t[j]
      BY DEF Refilled
    <3>2. j = n
      BY <2>1, <3>1 DEF Sound, Below
    <3> QED
      BY <2>1, <3>2
  <2>5. \E k \in 0 .. 2 * len - 1 : u[k].i = None
    <3>1. Cardinality(Occupied(u)) < 2 * len
      BY <1>1, OccupiedFinite DEF Refilled
    <3> QED
      BY <1>1, <3>1, FreeSlot
  <2>6. v = Insert(u, 2 * len, t[n].i, t[n].hv)
    BY <1>4 DEF Reinserted
  <2>7. PICK s \in 0 .. 2 * len - 1 :
          /\ s \notin Occupied(u)
          /\ v[s] = t[n]
          /\ \A x \in Occupied(u) : v[x] = u[x]
          /\ Sound(v, 2 * len)
          /\ Occupied(v) = Occupied(u) \cup {s}
          /\ Cardinality(Occupied(v)) = Cardinality(Occupied(u)) + 1
    <3> DEFINE double == 2 * len
               i0 == t[n].i
               hv0 == t[n].hv
    <3>1. Sound(u, double) /\ double \in Nat \ {0}
      BY DEF Refilled
    <3>2. i0 \in Index /\ hv0 \in Int /\ t[n] = [i |-> i0, hv |-> hv0]
      BY <2>3
    <3>3. v = Insert(u, double, i0, hv0)
      BY <2>6
    <3>4. (\E k \in 0 .. double - 1 : u[k].i = None) /\ \A k \in Occupied(u) : u[k].i # i0
      BY <2>4, <2>5
    <3> HIDE DEF double, i0, hv0, v
    <3> SUFFICES \E s \in 0 .. double - 1 :
                   /\ s \notin Occupied(u)
                   /\ v[s] = t[n]
                   /\ \A x \in Occupied(u) : v[x] = u[x]
                   /\ Sound(v, double)
                   /\ Occupied(v) = Occupied(u) \cup {s}
                   /\ Cardinality(Occupied(v)) = Cardinality(Occupied(u)) + 1
      BY DEF double
    <3>5. \E s \in 0 .. double - 1 :
            /\ s \notin Occupied(u)
            /\ Insert(u, double, i0, hv0)[s] = [i |-> i0, hv |-> hv0]
            /\ \A x \in Occupied(u) : Insert(u, double, i0, hv0)[x] = u[x]
            /\ Sound(Insert(u, double, i0, hv0), double)
            /\ Occupied(Insert(u, double, i0, hv0)) = Occupied(u) \cup {s}
            /\ Cardinality(Occupied(Insert(u, double, i0, hv0))) = Cardinality(Occupied(u)) + 1
      BY <3>1, <3>2, <3>4, InsertSound
    <3> QED
      BY <3>2, <3>3, <3>5, Zenon
  <2> HIDE DEF v
  <2>8. v[s] = t[n] /\ \A k \in Occupied(u) : v[k] = u[k]
    BY <2>7
  <2>9. \A j \in Upto : \E k \in Occupied(v) : v[k] = t[j]
    <3> TAKE j \in Upto
    <3>1. CASE j = n
      BY <2>7, <2>8, <3>1
    <3>2. CASE j \in Before
      <4>1. PICK k \in Occupied(u) : u[k] = t[j]
        BY <3>2 DEF Refilled
      <4> QED
        BY <2>7, <2>8, <4>1
    <3> QED
      BY <2>1, <3>1, <3>2
  <2>10. \A k \in Occupied(v) : \E j \in Upto : v[k] = t[j]
    <3> TAKE k \in Occupied(v)
    <3>1. CASE k = s
      BY <2>1, <2>8, <3>1
    <3>2. CASE k \in Occupied(u)
      <4>1. PICK j \in Before : u[k] = t[j]
        BY <3>2 DEF Refilled
      <4> QED
        BY <2>1, <2>8, <3>2, <4>1
    <3> QED
      BY <2>7, <3>1, <3>2
  <2>11. Cardinality(Occupied(u)) \in Nat
    BY <1>1, OccupiedFinite
  <2>12. /\ Cardinality(Occupied(v)) <= n + 1
         /\ Cardinality(Occupied(v)) = Cardinality(Upto)
    BY <2>2, <2>7, <2>11 DEF Refilled
  <2>13. Refilled(t, v, len, n + 1)
    BY <2>7, <2>9, <2>10, <2>12 DEF Refilled
  <2> QED
    BY <2>13 DEF v
<1> QED
  BY <1>3, <1>4

LEMMA DoubledSound ==
  ASSUME NEW len \in Nat \ {0}, NEW t, Sound(t, len)
  PROVE  LET u == Doubled(t, len) IN
         /\ Sound(u, 2 * len)
         /\ Cardinality(Occupied(u)) = Cardinality(Occupied(t))
         /\ \A j \in Occupied(t) : \E k \in Occupied(u) : u[k] = t[j]
         /\ \A k \in Occupied(u) : \E j \in Occupied(t) : u[k] = t[j]
<1>1. t \in [0 .. len - 1 -> Slot]
  BY DEF Sound
<1>2. PICK fill :
        /\ Doubled(t, len) = fill[len]
        /\ fill[0] = Empty(2 * len)
        /\ \A n \in 1 .. len : fill[n] = Reinserted(fill[n - 1], 2 * len, t[n - 1])
  BY <1>1, FillLoop
<1> DEFINE K == {n \in 0 .. len : Refilled(t, fill[n], len, n)}
<1>3. 0 \in K
  <2>1. Sound(fill[0], 2 * len) /\ Occupied(fill[0]) = {} /\ Cardinality(Occupied(fill[0])) = 0
    <3>1. 2 * len \in Nat
      OBVIOUS
    <3> QED
      BY <1>2, <3>1, EmptySound
  <2>2. Below(t, 0) = {}
    BY <1>1 DEF Below, Occupied
  <2>3. Refilled(t, fill[0], len, 0)
    BY <2>1, <2>2, FS_EmptySet DEF Refilled
  <2>4. 0 \in 0 .. len
    OBVIOUS
  <2> QED
    BY <2>3, <2>4
<1>4. ASSUME NEW n \in 0 .. len - 1, n \in K PROVE n + 1 \in K
  <2>1. n + 1 \in 1 .. len /\ n + 1 - 1 = n
    OBVIOUS
  <2>2. fill[n + 1] = Reinserted(fill[n], 2 * len, t[n])
    BY <1>2, <2>1
  <2>3. Refilled(t, fill[n + 1], len, n + 1)
    BY <1>4, <2>2, RefillStep
  <2> QED
    BY <2>1, <2>3
<1> HIDE DEF K
<1>5. 0 .. len \subseteq K
  BY <1>3, <1>4, UpTo
<1>6. Refilled(t, fill[len], len, len)
  BY <1>5 DEF K
<1>7. Below(t, len) = Occupied(t)
  BY <1>1 DEF Below, Occupied
<1> QED
  BY <1>2, <1>6, <1>7 DEF Refilled

-----------------------------------------------------------------------------
(* The order of slots around the table: how far slot k is below slot j.    *)
Dist(j, k, len) == IF k <= j THEN j - k ELSE j - k + len

LEMMA DistOfScan ==
  ASSUME NEW len \in Nat \ {0}, NEW j \in 0 .. len - 1, NEW n \in 1 .. len - 1
  PROVE  (j - n) % len \in 0 .. len - 1 /\ Dist(j, (j - n) % len, len) = n
<1>1. CASE n <= j
  <2>1. j - n \in 0 .. len - 1
    BY <1>1
  <2>2. (j - n) % len = j - n
    BY <2>1, ModSame
  <2> QED
    BY <2>1, <2>2 DEF Dist
<1>2. CASE j < n
  <2>1. j - n \in -len .. -1
    BY <1>2
  <2>2. (j - n) % len = j - n + len
    BY <2>1, ModBelow
  <2> QED
    BY <1>2, <2>1, <2>2 DEF Dist
<1> QED
  BY <1>1, <1>2

LEMMA DistUnique ==
  ASSUME NEW len \in Nat, NEW j \in 0 .. len - 1, NEW k \in 0 .. len - 1
  PROVE  /\ Dist(j, k, len) \in 0 .. len - 1
         /\ \A x \in 0 .. len - 1 : Dist(j, x, len) = Dist(j, k, len) => x = k
BY DEF Dist

LEMMA WaySplits ==
  ASSUME NEW len \in Nat, NEW h \in 0 .. len - 1, NEW x \in 0 .. len - 1
  PROVE  /\ x \notin Way(h, x, len)
         /\ \A g \in Way(h, x, len) : /\ g \in 0 .. len - 1
                                      /\ Way(g, x, len) \subseteq Way(h, x, len)
                                      /\ Way(h, g, len) \subseteq Way(h, x, len)
BY DEF Way

(* Seen from slot j, slot k is met on the way from g down to x.            *)
LEMMA WayByDist ==
  ASSUME NEW len \in Nat, NEW j \in 0 .. len - 1,
         NEW g \in 0 .. len - 1, NEW k \in 0 .. len - 1, NEW x \in 0 .. len - 1,
         \/ Dist(j, g, len) < Dist(j, k, len) /\ Dist(j, k, len) < Dist(j, x, len)
         \/ Dist(j, x, len) < Dist(j, g, len) /\ Dist(j, g, len) < Dist(j, k, len)
  PROVE  k \in Way(g, x, len)
BY DEF Dist, Way

(* The condition of del's inner loop: the gap is on the way to the entry.  *)
LEMMA MayMoveWay ==
  ASSUME NEW len \in Nat, NEW gap \in 0 .. len - 1, NEW h \in 0 .. len - 1,
         NEW k \in 0 .. len - 1, gap # k
  PROVE  MayMove(gap, h, k) <=> gap \in Way(h, k, len)
BY DEF MayMove, Way

-----------------------------------------------------------------------------
(* The loops of del as a sequence of states.                               *)
Scanning(len) == [t : [0 .. len - 1 -> Slot], gap : 0 .. len - 1, done : BOOLEAN]

Start(t, j) == [t |-> [t EXCEPT ![j] = Free], gap |-> j, done |-> FALSE]

LEMMA ScanType ==
  ASSUME NEW len \in Nat, NEW s \in Scanning(len), NEW k \in 0 .. len - 1
  PROVE  Scanned(s, len, k) \in Scanning(len)
<1>1. /\ s.t \in [0 .. len - 1 -> Slot]
      /\ s.gap \in 0 .. len - 1
      /\ s.done \in BOOLEAN
  BY DEF Scanning
<1>2. Free \in Slot
  BY DEF Free, Slot
<1>3. s.t[k] \in Slot
  BY <1>1
<1> DEFINE u == [s.t EXCEPT ![s.gap] = s.t[k], ![k] = Free]
<1>4. u \in [0 .. len - 1 -> Slot]
  BY <1>1, <1>2, <1>3
<1>5. [s EXCEPT !.done = TRUE] \in Scanning(len)
  BY DEF Scanning
<1>6. [s EXCEPT !.t = u, !.gap = k] \in Scanning(len)
  BY <1>4 DEF Scanning
<1>7. Scanned(s, len, k) \in {s, [s EXCEPT !.done = TRUE], [s EXCEPT !.t = u, !.gap = k]}
  BY DEF Scanned
<1> QED
  BY <1>5, <1>6, <1>7

LEMMA ScanLoop ==
  ASSUME NEW len \in Nat \ {0}, NEW t \in [0 .. len - 1 -> Slot], NEW j \in 0 .. len - 1
  PROVE  \E scan :
           /\ Closed(t, len, j) = scan[len - 1].t
           /\ scan[0] = Start(t, j)
           /\ \A n \in 1 .. len - 1 : scan[n] = Scanned(scan[n - 1], len, (j - n) % len)
<1> DEFINE S == Scanning(len)
           D == [n \in 1 .. len - 1 |-> [s \in S |-> Scanned(s, len, (j - n) % len)]]
           Scans(g) == g = [n \in 0 .. len - 1 |-> IF n = 0 THEN Start(t, j)
                                                   ELSE Scanned(g[n - 1], len, (j - n) % len)]
<1>1. Start(t, j) \in S
  BY DEF Start, Scanning, Free, Slot
<1>2. D \in [1 .. len - 1 -> [S -> S]]
  <2>1. ASSUME NEW n \in 1 .. len - 1, NEW s \in S PROVE Scanned(s, len, (j - n) % len) \in S
    BY DistOfScan, ScanType
  <2> HIDE DEF S
  <2> QED
    BY <2>1
<1>3. \A n \in 1 .. len - 1, s \in S : D[n][s] = Scanned(s, len, (j - n) % len)
  OBVIOUS
<1> HIDE DEF S, D
<1>4. PICK g \in [0 .. len - 1 -> S] :
        g[0] = Start(t, j) /\ \A n \in 1 .. len - 1 : g[n] = D[n][g[n - 1]]
  BY <1>1, <1>2, Recursion
<1>5. \A n \in 1 .. len - 1 : g[n] = Scanned(g[n - 1], len, (j - n) % len)
  <2> TAKE n \in 1 .. len - 1
  <2>1. g[n - 1] \in S
    OBVIOUS
  <2> QED
    BY <1>3, <1>4, <2>1
<1>6. Scans(g)
  <2>1. ASSUME NEW n \in 0 .. len - 1
        PROVE  g[n] = IF n = 0 THEN Start(t, j) ELSE Scanned(g[n - 1], len, (j - n) % len)
    <3>1. CASE n = 0
      BY <1>4, <3>1
    <3>2. CASE n \in 1 .. len - 1
      BY <1>5, <3>2
    <3> QED
      BY <3>1, <3>2
  <2> QED
    BY <2>1
<1> DEFINE scan == CHOOSE f : Scans(f)
<1>7. Closed(t, len, j) = scan[len - 1].t
  BY DEF Closed, Start
<1> HIDE DEF Scans
<1>8. Scans(scan)
  BY <1>6
<1> HIDE DEF scan
<1>9. scan[0] = Start(t, j)
  BY <1>8 DEF Scans
<1>10. \A n \in 1 .. len - 1 : scan[n] = Scanned(scan[n - 1], len, (j - n) % len)
  BY <1>8 DEF Scans
<1> QED
  BY <1>7, <1>9, <1>10

(* Table u holds the entries of t but for that of slot j, none twice.      *)
Keeps(t, u, j) ==
  /\ \A k \in Occupied(u) : \E x \in Occupied(t) \ {j} : u[k] = t[x]
  /\ \A x \in Occupied(t) \ {j} : \E k \in Occupied(u) : u[k] = t[x]
  /\ \A k, x \in Occupied(u) : u[k].i = u[x].i => k = x
  /\ Cardinality(Occupied(u)) = Cardinality(Occupied(t)) - 1

(* After n slots below slot j: a gap is on no way but those to entries not *)
(* yet scanned, and there is a free slot for the scan to end at.           *)
Shifted(t, s, len, j, n) ==
  /\ s \in Scanning(len)
  /\ Keeps(t, s.t, j)
  /\ s.t[s.gap].i = None /\ Dist(j, s.gap, len) <= n
  /\ \A k \in Occupied(s.t) :
       /\ Reached(s.t, len, k, {s.gap})
       /\ s.done \/ Dist(j, k, len) <= n => s.gap \notin Way(Home(s.t, len, k), k, len)
  /\ s.done \/ \E f \in 0 .. len - 1 : s.t[f].i = None /\ Dist(j, f, len) > n

LEMMA ShiftStart ==
  ASSUME NEW len \in Nat \ {0}, NEW t, Sound(t, len), NEW j \in Occupied(t),
         \E f \in 0 .. len - 1 : t[f].i = None
  PROVE  Shifted(t, Start(t, j), len, j, 0)
<1> DEFINE s == Start(t, j)
           u == [t EXCEPT ![j] = Free]
<1>1. t \in [0 .. len - 1 -> Slot] /\ j \in 0 .. len - 1
  BY DEF Sound, Occupied
<1>2. Free \in Slot /\ Free.i = None
  BY DEF Free, Slot
<1>3. s.t = u /\ s.gap = j /\ s.done = FALSE
  BY DEF Start
<1>4. u \in [0 .. len - 1 -> Slot] /\ u[j].i = None /\ \A x \in 0 .. len - 1 : x # j => u[x] = t[x]
  BY <1>1, <1>2
<1>5. s \in Scanning(len)
  BY <1>1, <1>4 DEF Start, Scanning
<1> HIDE DEF u, s
<1>6. Occupied(u) = Occupied(t) \ {j} /\ \A x \in Occupied(u) : u[x] = t[x] /\ x \in 0 .. len - 1
  BY <1>1, <1>4 DEF Occupied
<1>7. Cardinality(Occupied(u)) = Cardinality(Occupied(t)) - 1
  BY <1>1, <1>6, OccupiedFinite, FS_RemoveElement
<1>8. Keeps(t, u, j)
  BY <1>6, <1>7 DEF Keeps, Sound
<1>9. ASSUME NEW k \in Occupied(u)
      PROVE  Reached(u, len, k, {j}) /\ Dist(j, k, len) > 0
  <2>1. k \in Occupied(t) /\ k # j /\ Home(u, len, k) = Home(t, len, k)
    BY <1>6 DEF Home
  <2>2. \A x \in Way(Home(t, len, k), k, len) : t[x].i # None /\ x \in 0 .. len - 1
    BY <2>1 DEF Sound, Reached, Way
  <2>3. \A x \in Way(Home(t, len, k), k, len) : u[x].i # None \/ x \in {j}
    BY <1>4, <2>2
  <2>4. Dist(j, k, len) > 0
    BY <1>1, <1>6, <2>1 DEF Dist
  <2> QED
    BY <2>1, <2>3, <2>4 DEF Reached
<1>10. \E f \in 0 .. len - 1 : u[f].i = None /\ Dist(j, f, len) > 0
  <2>1. PICK f \in 0 .. len - 1 : t[f].i = None
    OBVIOUS
  <2>2. f # j
    BY <2>1 DEF Occupied
  <2>3. Dist(j, f, len) > 0
    BY <1>1, <2>2 DEF Dist
  <2> QED
    BY <1>4, <2>1, <2>2, <2>3
<1>11. Dist(j, j, len) = 0
  BY <1>1 DEF Dist
<1>12. \A k \in Occupied(u) : Dist(j, k, len) \in Int
  BY <1>1, <1>6 DEF Dist
<1>13. ASSUME NEW k \in Occupied(u)
       PROVE  /\ Reached(u, len, k, {j})
              /\ s.done \/ Dist(j, k, len) <= 0 => j \notin Way(Home(u, len, k), k, len)
  BY <1>3, <1>9, <1>12
<1>14. Shifted(t, s, len, j, 0)
  <2>1. s.t[s.gap].i = None /\ Dist(j, s.gap, len) <= 0
    BY <1>3, <1>4, <1>11
  <2>2. \E f \in 0 .. len - 1 : s.t[f].i = None /\ Dist(j, f, len) > 0
    BY <1>3, <1>10
  <2> QED
    BY <1>3, <1>5, <1>8, <1>13, <2>1, <2>2, Zenon DEF Shifted
<1> QED
  BY <1>14 DEF s

(* An entry moves from slot k into the gap.                                *)
Moved(u, gap, k) == [u EXCEPT ![gap] = u[k], ![k] = Free]

LEMMA MoveKeeps ==
  ASSUME NEW len \in Nat, NEW t, NEW j, NEW u \in [0 .. len - 1 -> Slot], Keeps(t, u, j),
         NEW gap \in 0 .. len - 1, u[gap].i = None, NEW k \in Occupied(u)
  PROVE  /\ Keeps(t, Moved(u, gap, k), j)
         /\ Moved(u, gap, k) \in [0 .. len - 1 -> Slot]
         /\ Moved(u, gap, k)[gap] = u[k]
         /\ Moved(u, gap, k)[k] = Free
         /\ \A x \in 0 .. len - 1 : x \notin {gap, k} => Moved(u, gap, k)[x] = u[x]
         /\ Occupied(Moved(u, gap, k)) = (Occupied(u) \ {k}) \cup {gap}
<1> DEFINE v == Moved(u, gap, k)
<1>1. k \in 0 .. len - 1 /\ k # gap /\ u[k] \in Slot /\ u[k].i # None
  BY DEF Occupied
<1>2. Free \in Slot /\ Free.i = None
  BY DEF Free, Slot
<1>3. /\ v \in [0 .. len - 1 -> Slot]
      /\ v[gap] = u[k] /\ v[k] = Free /\ \A x \in 0 .. len - 1 : x \notin {gap, k} => v[x] = u[x]
  BY <1>1, <1>2 DEF Moved
<1> HIDE DEF v
<1>4. Occupied(v) = (Occupied(u) \ {k}) \cup {gap}
  BY <1>1, <1>2, <1>3 DEF Occupied
<1>5. gap \notin Occupied(u) \ {k} /\ \A x \in Occupied(u) \ {k} : v[x] = u[x]
  BY <1>1, <1>3 DEF Occupied
<1>6. Cardinality(Occupied(v)) = Cardinality(Occupied(u))
  <2>1. IsFiniteSet(Occupied(u)) /\ Cardinality(Occupied(u)) \in Nat
    BY OccupiedFinite
  <2>2. IsFiniteSet(Occupied(u) \ {k}) /\ Cardinality(Occupied(u) \ {k}) = Cardinality(Occupied(u)) - 1
    BY <2>1, FS_RemoveElement
  <2>3. Cardinality(Occupied(v)) = Cardinality(Occupied(u) \ {k}) + 1
    BY <1>4, <1>5, <2>2, FS_AddElement
  <2> QED
    BY <2>1, <2>2, <2>3
<1>7. ASSUME NEW x \in Occupied(v) PROVE \E y \in Occupied(u) : v[x] = u[y]
  BY <1>3, <1>4, <1>5
<1>8. ASSUME NEW y \in Occupied(u) PROVE \E x \in Occupied(v) : v[x] = u[y]
  BY <1>3, <1>4, <1>5
<1>9. ASSUME NEW x \in Occupied(v) PROVE \E y \in Occupied(t) \ {j} : v[x] = t[y]
  <2>1. PICK y \in Occupied(u) : v[x] = u[y]
    BY <1>7
  <2>2. PICK z \in Occupied(t) \ {j} : u[y] = t[z]
    BY DEF Keeps
  <2> QED
    BY <2>1, <2>2
<1>10. ASSUME NEW y \in Occupied(t) \ {j} PROVE \E x \in Occupied(v) : v[x] = t[y]
  <2>1. PICK z \in Occupied(u) : u[z] = t[y]
    BY DEF Keeps
  <2>2. PICK x \in Occupied(v) : v[x] = u[z]
    BY <1>8
  <2> QED
    BY <2>1, <2>2
<1>11. ASSUME NEW x \in Occupied(v), NEW y \in Occupied(v), v[x].i = v[y].i PROVE x = y
  <2>1. \A a, b \in Occupied(u) : u[a].i = u[b].i => a = b
    BY DEF Keeps
  <2> QED
    BY <1>3, <1>4, <1>5, <1>11, <2>1
<1> QED
  BY <1>3, <1>4, <1>6, <1>9, <1>10, <1>11 DEF Keeps, v

LEMMA ShiftStep ==
  ASSUME NEW len \in Nat \ {0}, NEW t, NEW j \in 0 .. len - 1, NEW n \in 0 .. len - 1,
         NEW s, Shifted(t, s, len, j, n),
         NEW k \in 0 .. len - 1, Dist(j, k, len) = n + 1
  PROVE  Shifted(t, Scanned(s, len, k), len, j, n + 1)
<1> DEFINE u == s.t
           gap == s.gap
           home(x) == Home(u, len, x)
           OnWay(x) == gap \in Way(home(x), x, len)
           z == Scanned(s, len, k)
<1>1. /\ s \in Scanning(len) /\ z \in Scanning(len)
      /\ u \in [0 .. len - 1 -> Slot] /\ gap \in 0 .. len - 1 /\ s.done \in BOOLEAN
  BY ScanType DEF Shifted, Scanning
<1>2. /\ Keeps(t, u, j)
      /\ u[gap].i = None /\ Dist(j, gap, len) <= n /\ Dist(j, gap, len) \in Int
  <2>1. Dist(j, gap, len) \in Int
    BY <1>1 DEF Dist
  <2>2. Keeps(t, u, j)
    BY DEF Shifted
  <2>3. u[gap].i = None /\ Dist(j, gap, len) <= n
    BY DEF Shifted
  <2> QED
    BY <2>1, <2>2, <2>3
<1>3. ASSUME NEW x \in Occupied(u)
      PROVE  /\ x \in 0 .. len - 1 /\ x # gap /\ home(x) \in 0 .. len - 1
             /\ Dist(j, x, len) \in 0 .. len - 1
             /\ \A y \in Way(home(x), x, len) : u[y].i # None \/ y = gap
             /\ s.done \/ Dist(j, x, len) <= n => ~OnWay(x)
  <2>1. x \in 0 .. len - 1 /\ x # gap /\ u[x].hv \in Int
    BY <1>1, <1>2 DEF Occupied, Slot
  <2>2. home(x) \in 0 .. len - 1
    BY <2>1, ModRange DEF Home, first
  <2>3. Dist(j, x, len) \in 0 .. len - 1
    BY <2>1, DistUnique
  <2>4. Reached(u, len, x, {gap})
    BY DEF Shifted
  <2>5. \A y \in Way(home(x), x, len) : u[y].i # None \/ y = gap
    BY <2>4 DEF Reached
  <2>6. s.done \/ Dist(j, x, len) <= n => ~OnWay(x)
    BY DEF Shifted
  <2> QED
    BY <2>1, <2>2, <2>3, <2>5, <2>6
<1>4. k # gap
  BY <1>2
<1>5. CASE s.done
  <2>1. z = s
    <3>1. s = [s EXCEPT !.done = TRUE]
      BY <1>1, <1>5 DEF Scanning
    <3> QED
      BY <1>5, <3>1 DEF Scanned
  <2>2. Dist(j, gap, len) <= n + 1
    BY <1>2
  <2>3. ASSUME NEW x \in Occupied(u)
        PROVE  /\ Reached(u, len, x, {gap})
               /\ s.done \/ Dist(j, x, len) <= n + 1 => gap \notin Way(Home(u, len, x), x, len)
    BY <1>3, <1>5 DEF Shifted
  <2>4. Shifted(t, s, len, j, n + 1)
    BY <1>1, <1>2, <1>5, <2>2, <2>3, Zenon DEF Shifted
  <2> QED
    BY <2>1, <2>4
<1>6. CASE ~s.done /\ u[k].i = None
  <2>1. z.t = u /\ z.gap = gap /\ z.done = TRUE
    BY <1>1, <1>6 DEF Scanned, Scanning
  <2>2. Dist(j, gap, len) <= n + 1
    BY <1>2
  <2>3. ASSUME NEW x \in Occupied(u) PROVE ~OnWay(x)
    <3> SUFFICES ASSUME OnWay(x), Dist(j, x, len) > n PROVE FALSE
      BY <1>3
    <3>1. x \in 0 .. len - 1 /\ x # k
      BY <1>3, <1>6 DEF Occupied
    <3>2. Dist(j, x, len) # n + 1
      BY <3>1, DistUnique
    <3>3. Dist(j, x, len) > n + 1
      BY <1>3, <3>2
    <3>4. k \in Way(gap, x, len)
      BY <1>1, <1>2, <3>1, <3>3, WayByDist
    <3>5. k \in Way(home(x), x, len)
      BY <1>3, <3>4, WaySplits
    <3> QED
      BY <1>3, <1>4, <1>6, <3>5
  <2>4. ASSUME NEW x \in Occupied(u)
        PROVE  /\ Reached(u, len, x, {gap})
               /\ z.done \/ Dist(j, x, len) <= n + 1 => gap \notin Way(Home(u, len, x), x, len)
    BY <2>3 DEF Shifted
  <2> HIDE DEF z, u, gap
  <2>5. Shifted(t, z, len, j, n + 1)
    BY <1>1, <1>2, <2>1, <2>2, <2>4, Zenon DEF Shifted
  <2> QED
    BY <2>5 DEF z
<1>7. ASSUME ~s.done
      PROVE  \E f \in 0 .. len - 1 : /\ u[f].i = None /\ f # gap /\ Dist(j, f, len) > n
                                     /\ u[k].i # None => f # k /\ Dist(j, f, len) > n + 1
  <2>1. PICK f \in 0 .. len - 1 : u[f].i = None /\ Dist(j, f, len) > n
    BY <1>7 DEF Shifted
  <2>2. f # gap
    BY <1>2, <2>1
  <2>3. Dist(j, f, len) \in 0 .. len - 1 /\ (Dist(j, f, len) = n + 1 => f = k)
    BY DistUnique
  <2> QED
    BY <2>1, <2>2, <2>3
<1>8. CASE ~s.done /\ u[k].i # None /\ ~MayMove(gap, home(k), k)
  <2>1. z = s
    BY <1>8 DEF Scanned, Home
  <2>2. k \in Occupied(u)
    BY <1>1, <1>8 DEF Occupied
  <2>3. ~OnWay(k)
    BY <1>1, <1>3, <1>4, <1>8, <2>2, MayMoveWay
  <2>4. ASSUME NEW x \in Occupied(u), Dist(j, x, len) <= n + 1 PROVE ~OnWay(x)
    <3>1. CASE x = k
      BY <2>3, <3>1
    <3>2. CASE x # k
      <4>1. Dist(j, x, len) # n + 1
        BY <1>3, <3>2, DistUnique
      <4> QED
        BY <1>3, <2>4, <4>1
    <3> QED
      BY <3>1, <3>2
  <2>5. ASSUME NEW x \in Occupied(u)
        PROVE  /\ Reached(u, len, x, {gap})
               /\ s.done \/ Dist(j, x, len) <= n + 1 => gap \notin Way(Home(u, len, x), x, len)
    BY <1>8, <2>4 DEF Shifted
  <2>6. Dist(j, gap, len) <= n + 1
    BY <1>2
  <2>7. \E f \in 0 .. len - 1 : u[f].i = None /\ Dist(j, f, len) > n + 1
    BY <1>7, <1>8
  <2>8. Shifted(t, s, len, j, n + 1)
    BY <1>1, <1>2, <2>5, <2>6, <2>7, Zenon DEF Shifted
  <2> QED
    BY <2>1, <2>8
<1>9. CASE ~s.done /\ u[k].i # None /\ MayMove(gap, home(k), k)
  <2> DEFINE v == Moved(u, gap, k)
  <2>1. k \in Occupied(u)
    BY <1>1, <1>9 DEF Occupied
  <2>2. z.t = v /\ z.gap = k /\ z.done = FALSE
    BY <1>1, <1>9 DEF Scanned, Scanning, Home, Moved
  <2> HIDE DEF v, z, u, gap, home
  <2>3. /\ Keeps(t, v, j)
        /\ v \in [0 .. len - 1 -> Slot]
        /\ v[gap] = u[k] /\ v[k] = Free /\ \A x \in 0 .. len - 1 : x \notin {gap, k} => v[x] = u[x]
        /\ Occupied(v) = (Occupied(u) \ {k}) \cup {gap}
    <3>2. len \in Nat /\ u \in [0 .. len - 1 -> Slot] /\ gap \in 0 .. len - 1
      BY <1>1
    <3>3. Keeps(t, u, j) /\ u[gap].i = None
      BY <1>2
    <3> QED
      BY <2>1, <3>2, <3>3, MoveKeeps DEF v
  <2>4. OnWay(k)
    BY <1>1, <1>3, <1>4, <1>9, <2>1, MayMoveWay
  <2>5. PICK f \in 0 .. len - 1 : u[f].i = None /\ f # gap /\ f # k /\ Dist(j, f, len) > n + 1
    BY <1>7, <1>9
  <2>6. v[f].i = None /\ v[k].i = None
    BY <2>3, <2>5 DEF Free
  <2>7. ASSUME NEW y \in 0 .. len - 1, u[y].i # None \/ y = gap PROVE v[y].i # None \/ y = k
    <3>1. u[k].i # None
      BY <1>9
    <3> QED
      BY <2>3, <2>7, <3>1
  <2>8. ASSUME NEW x \in Occupied(v)
        PROVE  /\ Reached(v, len, x, {k})
               /\ Dist(j, x, len) <= n + 1 => k \notin Way(Home(v, len, x), x, len)
    <3>1. CASE x = gap
      <4>1. Home(v, len, x) = home(k)
        BY <2>3, <3>1 DEF Home, home, u
      <4>2. /\ Way(home(k), gap, len) \subseteq Way(home(k), k, len)
            /\ k \notin Way(home(k), k, len)
        BY <1>3, <2>1, <2>4, WaySplits
      <4>3. \A y \in Way(home(k), k, len) : y \in 0 .. len - 1 /\ (u[y].i # None \/ y = gap)
        BY <1>3, <2>1 DEF Way
      <4>4. \A y \in Way(home(k), gap, len) : v[y].i # None \/ y = k
        BY <2>7, <4>2, <4>3
      <4> QED
        BY <3>1, <4>1, <4>2, <4>4 DEF Reached
    <3>2. CASE x # gap
      <4>1. x \in Occupied(u) /\ x # k /\ Home(v, len, x) = home(x)
        BY <1>3, <2>3, <3>2 DEF Home, home, u
      <4>2. \A y \in Way(home(x), x, len) : y \in 0 .. len - 1 /\ (u[y].i # None \/ y = gap)
        BY <1>3, <4>1 DEF Way
      <4>3. \A y \in Way(home(x), x, len) : v[y].i # None \/ y = k
        BY <2>7, <4>2
      <4>4. ASSUME Dist(j, x, len) <= n + 1, k \in Way(home(x), x, len) PROVE FALSE
        <5>1. x \in 0 .. len - 1 /\ Dist(j, x, len) \in 0 .. len - 1 /\ home(x) \in 0 .. len - 1
          BY <1>3, <4>1
        <5>2. Dist(j, x, len) < n + 1
          BY <4>1, <4>4, <5>1, DistUnique
        <5>3. f \in Way(k, x, len)
          BY <2>5, <5>1, <5>2, WayByDist
        <5>4. f \in Way(home(x), x, len)
          BY <4>4, <5>1, <5>3, WaySplits
        <5> QED
          BY <2>5, <4>2, <5>4
      <4> QED
        BY <4>1, <4>3, <4>4 DEF Reached
    <3> QED
      BY <3>1, <3>2
  <2>9. ASSUME NEW x \in Occupied(v)
        PROVE  /\ Reached(v, len, x, {k})
               /\ z.done \/ Dist(j, x, len) <= n + 1 => k \notin Way(Home(v, len, x), x, len)
    BY <2>2, <2>8
  <2>10. Dist(j, k, len) <= n + 1
    OBVIOUS
  <2>11. Shifted(t, z, len, j, n + 1)
    BY <1>1, <2>2, <2>3, <2>5, <2>6, <2>9, <2>10, Zenon DEF Shifted
  <2> QED
    BY <2>11 DEF z
<1> QED
  BY <1>5, <1>6, <1>8, <1>9

(* Deletion leaves a table in which every other entry is found.            *)
LEMMA ClosedSound ==
  ASSUME NEW len \in Nat \ {0}, NEW t, Sound(t, len), NEW j \in Occupied(t),
         \E f \in 0 .. len - 1 : t[f].i = None
  PROVE  Sound(Closed(t, len, j), len) /\ Keeps(t, Closed(t, len, j), j)
<1>1. t \in [0 .. len - 1 -> Slot] /\ j \in 0 .. len - 1
  BY DEF Sound, Occupied
<1>2. PICK scan :
        /\ Closed(t, len, j) = scan[len - 1].t
        /\ scan[0] = Start(t, j)
        /\ \A n \in 1 .. len - 1 : scan[n] = Scanned(scan[n - 1], len, (j - n) % len)
  BY <1>1, ScanLoop
<1> DEFINE K == {n \in 0 .. len - 1 : Shifted(t, scan[n], len, j, n)}
<1>3. 0 \in K
  <2>1. 0 \in 0 .. len - 1
    OBVIOUS
  <2> QED
    BY <1>2, <2>1, ShiftStart
<1>4. ASSUME NEW n \in 0 .. len - 1 - 1, n \in K PROVE n + 1 \in K
  <2>1. n + 1 \in 1 .. len - 1 /\ n + 1 - 1 = n /\ n \in 0 .. len - 1
    OBVIOUS
  <2> DEFINE k == (j - (n + 1)) % len
  <2>2. scan[n + 1] = Scanned(scan[n], len, k)
    BY <1>2, <2>1
  <2>3. k \in 0 .. len - 1 /\ Dist(j, k, len) = n + 1
    BY <1>1, <2>1, DistOfScan
  <2>4. Shifted(t, scan[n], len, j, n)
    BY <1>4
  <2> HIDE DEF k, K
  <2>5. Shifted(t, scan[n + 1], len, j, n + 1)
    BY <1>1, <2>1, <2>2, <2>3, <2>4, ShiftStep
  <2> QED
    BY <2>1, <2>5 DEF K
<1> HIDE DEF K
<1>5. 0 .. len - 1 \subseteq K
  <2>1. len - 1 \in Nat
    OBVIOUS
  <2> QED
    BY <1>3, <1>4, <2>1, UpTo
<1> DEFINE s == scan[len - 1]
<1>6. Shifted(t, s, len, j, len - 1)
  <2>1. len - 1 \in 0 .. len - 1
    OBVIOUS
  <2> QED
    BY <1>5, <2>1 DEF K
<1> HIDE DEF s
<1>7. s \in Scanning(len) /\ s.t \in [0 .. len - 1 -> Slot] /\ s.gap \in 0 .. len - 1
  BY <1>6 DEF Shifted, Scanning
<1>8. s.done
  <2>1. \A f \in 0 .. len - 1 : ~(Dist(j, f, len) > len - 1)
    BY <1>1 DEF Dist
  <2> QED
    BY <1>6, <2>1 DEF Shifted
<1>9. ASSUME NEW k \in Occupied(s.t) PROVE Reached(s.t, len, k, {})
  <2>1. s.gap \notin Way(Home(s.t, len, k), k, len)
    BY <1>6, <1>8 DEF Shifted
  <2>2. Reached(s.t, len, k, {s.gap})
    BY <1>6 DEF Shifted
  <2> QED
    BY <2>1, <2>2 DEF Reached
<1>10. Keeps(t, s.t, j)
  BY <1>6 DEF Shifted
<1>11. Sound(s.t, len)
  BY <1>7, <1>9, <1>10 DEF Sound, Keeps
<1> QED
  BY <1>2, <1>10, <1>11 DEF s

-----------------------------------------------------------------------------
(* The entries of table t are the rows of r that hold a key, each with the *)
(* hash value of its key, and no two rows are equal.                       *)
Registers(t, r) ==
  /\ \A j \in Occupied(t) : r[t[j].i] \in Key /\ t[j].hv = Hash[r[t[j].i]]
  /\ \A i \in Index : r[i] # Blank => \E j \in Occupied(t) : t[j].i = i
  /\ \A i, k \in Index : r[i] # Blank /\ r[i] = r[k] => i = k

Rows == [Index -> Key \cup {Blank}]

(* An entry holds an index.                                                *)
LEMMA OccupiedIndex ==
  ASSUME NEW len \in Nat, NEW t \in [0 .. len - 1 -> Slot], NEW j \in Occupied(t)
  PROVE  j \in 0 .. len - 1 /\ t[j] \in Slot /\ t[j].i \in Index /\ t[j].i # None
BY DEF Occupied, Slot

LEMMA WayTotal ==
  ASSUME NEW len \in Nat, NEW h \in 0 .. len - 1, NEW j \in 0 .. len - 1, NEW x \in 0 .. len - 1, j # x
  PROVE  j \in Way(h, x, len) \/ x \in Way(h, j, len)
BY DEF Way

(* A search finds an index wanted if one is registered, whose hash values  *)
(* are the one it looks for.                                               *)
LEMMA Search ==
  ASSUME NEW len \in Nat \ {0}, NEW t, Sound(t, len), \E f \in 0 .. len - 1 : t[f].i = None,
         NEW hv \in Int, NEW wanted,
         \A x \in Occupied(t) : t[x].i \in wanted => t[x].hv = hv
  PROVE  LET j == SlotOf(t, hv, len, wanted) IN
         /\ j \in 0 .. len - 1
         /\ t[j].i # None => t[j].i \in wanted /\ j \in Occupied(t)
         /\ t[j].i = None => \A x \in Occupied(t) : t[x].i \notin wanted
<1> DEFINE j == SlotOf(t, hv, len, wanted)
           h == first(hv, len)
<1>1. t \in [0 .. len - 1 -> Slot]
  BY DEF Sound
<1>2. /\ j \in 0 .. len - 1
      /\ t[j].i \in wanted \cup {None}
      /\ \A s \in Way(h, j, len) : t[s].i \notin wanted \cup {None}
  BY <1>1, SlotOfFound
<1>3. h \in 0 .. len - 1
  BY ModRange DEF first
<1> HIDE DEF j, h
<1>4. ASSUME t[j].i = None, NEW x \in Occupied(t), t[x].i \in wanted PROVE FALSE
  <2>1. x \in 0 .. len - 1 /\ t[x].i # None
    BY <1>1, <1>4, OccupiedIndex
  <2>2. Home(t, len, x) = h
    BY <1>4 DEF Home, h
  <2>3. \A s \in Way(h, x, len) : t[s].i # None
    BY <2>2 DEF Sound, Reached
  <2> QED
    BY <1>2, <1>3, <1>4, <2>1, <2>3, WayTotal
<1>5. t[j].i # None => j \in Occupied(t)
  BY <1>1, <1>2 DEF Occupied
<1> QED
  BY <1>2, <1>4, <1>5 DEF j

LEMMA InsertRegisters ==
  ASSUME NEW len \in Nat \ {0}, NEW t, Sound(t, len), \E f \in 0 .. len - 1 : t[f].i = None,
         NEW r \in Rows, Registers(t, r), NEW i \in Index, NEW k \in Key, r[i] = Blank,
         \A j \in Occupied(t) : r[t[j].i] # k
  PROVE  LET u == Insert(t, len, i, Hash[k]) IN
         /\ Sound(u, len)
         /\ Registers(u, [r EXCEPT ![i] = k])
         /\ Cardinality(Occupied(u)) = Cardinality(Occupied(t)) + 1
<1> DEFINE hv == Hash[k]
           u == Insert(t, len, i, hv)
           q == [r EXCEPT ![i] = k]
           new == [i |-> i, hv |-> hv]
<1>1. t \in [0 .. len - 1 -> Slot]
  BY DEF Sound
<1>2. hv \in Int
  BY HashAssumption
<1>3. \A j \in Occupied(t) : t[j].i # i /\ t[j].i \in Index
  BY <1>1, OccupiedIndex, BlankAssumption DEF Registers
<1>4. new.i = i /\ new.hv = hv
  OBVIOUS
<1>5. q \in Rows /\ q[i] = k /\ \A x \in Index : x # i => q[x] = r[x]
  BY DEF Rows
<1> HIDE DEF hv, q
<1>6. PICK s \in 0 .. len - 1 :
        /\ s \notin Occupied(t)
        /\ u[s] = new
        /\ \A j \in Occupied(t) : u[j] = t[j]
        /\ Sound(u, len)
        /\ Occupied(u) = Occupied(t) \cup {s}
        /\ Cardinality(Occupied(u)) = Cardinality(Occupied(t)) + 1
  <2>2. \A j \in Occupied(t) : t[j].i # i
    BY <1>3
  <2>1. \E s \in 0 .. len - 1 :
          /\ s \notin Occupied(t)
          /\ Insert(t, len, i, hv)[s] = [i |-> i, hv |-> hv]
          /\ \A x \in Occupied(t) : Insert(t, len, i, hv)[x] = t[x]
          /\ Sound(Insert(t, len, i, hv), len)
          /\ Occupied(Insert(t, len, i, hv)) = Occupied(t) \cup {s}
          /\ Cardinality(Occupied(Insert(t, len, i, hv))) = Cardinality(Occupied(t)) + 1
    <3> HIDE DEF u, new
    <3> QED
      BY <1>2, <2>2, InsertSound
  <2> QED
    BY <2>1, Zenon
<1> HIDE DEF u, new
<1>7. u[s] = new /\ \A j \in Occupied(t) : u[j] = t[j]
  BY <1>6
<1>8. ASSUME NEW j \in Occupied(u) PROVE q[u[j].i] \in Key /\ u[j].hv = Hash[q[u[j].i]]
  <2>1. CASE j = s
    BY <1>4, <1>5, <1>7, <2>1 DEF hv
  <2>2. CASE j \in Occupied(t)
    BY <1>3, <1>5, <1>7, <2>2 DEF Registers
  <2> QED
    BY <1>6, <2>1, <2>2
<1>9. ASSUME NEW x \in Index, q[x] # Blank PROVE \E j \in Occupied(u) : u[j].i = x
  <2>1. CASE x = i
    BY <1>4, <1>6, <1>7, <2>1
  <2>2. CASE x # i
    <3>1. PICK j \in Occupied(t) : t[j].i = x
      BY <1>5, <1>9, <2>2 DEF Registers
    <3> QED
      BY <1>6, <1>7, <3>1
  <2> QED
    BY <2>1, <2>2
<1>10. \A x \in Index : r[x] # k
  <2> SUFFICES ASSUME NEW x \in Index, r[x] = k PROVE FALSE
    OBVIOUS
  <2>1. PICK j \in Occupied(t) : t[j].i = x
    BY BlankAssumption DEF Registers
  <2> QED
    BY <2>1
<1>11. ASSUME NEW x \in Index, NEW y \in Index, q[x] # Blank, q[x] = q[y] PROVE x = y
  BY <1>5, <1>10, <1>11 DEF Registers
<1>12. Registers(u, q)
  BY <1>8, <1>9, <1>11 DEF Registers
<1> QED
  BY <1>6, <1>12 DEF u, q, hv

LEMMA DoubledRegisters ==
  ASSUME NEW len \in Nat \ {0}, NEW t, Sound(t, len), NEW r \in Rows, Registers(t, r)
  PROVE  LET u == Doubled(t, len) IN
         /\ Sound(u, 2 * len)
         /\ Registers(u, r)
         /\ Cardinality(Occupied(u)) = Cardinality(Occupied(t))
         /\ \A k \in Occupied(u) : \E j \in Occupied(t) : u[k] = t[j]
<1> DEFINE u == Doubled(t, len)
<1>1. /\ Sound(u, 2 * len)
      /\ Cardinality(Occupied(u)) = Cardinality(Occupied(t))
      /\ \A j \in Occupied(t) : \E k \in Occupied(u) : u[k] = t[j]
      /\ \A k \in Occupied(u) : \E j \in Occupied(t) : u[k] = t[j]
  BY DoubledSound
<1> HIDE DEF u
<1>2. Registers(u, r)
  <2>1. \A k \in Occupied(u) : r[u[k].i] \in Key /\ u[k].hv = Hash[r[u[k].i]]
    BY <1>1 DEF Registers
  <2>2. ASSUME NEW i \in Index, r[i] # Blank PROVE \E k \in Occupied(u) : u[k].i = i
    <3>1. PICK j \in Occupied(t) : t[j].i = i
      BY <2>2 DEF Registers
    <3> QED
      BY <1>1, <3>1
  <2> QED
    BY <2>1, <2>2 DEF Registers
<1> QED
  BY <1>1, <1>2 DEF u

LEMMA ClosedRegisters ==
  ASSUME NEW len \in Nat \ {0}, NEW t, Sound(t, len), \E f \in 0 .. len - 1 : t[f].i = None,
         NEW r \in Rows, Registers(t, r), NEW j \in Occupied(t)
  PROVE  LET u == Closed(t, len, j) IN
         /\ Sound(u, len)
         /\ Registers(u, [r EXCEPT ![t[j].i] = Blank])
         /\ Cardinality(Occupied(u)) = Cardinality(Occupied(t)) - 1
<1> DEFINE u == Closed(t, len, j)
           i0 == t[j].i
           q == [r EXCEPT ![i0] = Blank]
<1>1. Sound(u, len) /\ Keeps(t, u, j)
  BY ClosedSound
<1>2. t \in [0 .. len - 1 -> Slot]
  BY DEF Sound
<1>3. \A x \in Occupied(t) : t[x].i \in Index /\ (x # j => t[x].i # i0)
  BY <1>2, OccupiedIndex DEF Sound
<1>4. q[i0] = Blank /\ \A x \in Index : x # i0 => q[x] = r[x]
  BY <1>3 DEF Rows
<1> HIDE DEF u, q, i0
<1>5. ASSUME NEW k \in Occupied(u) PROVE q[u[k].i] \in Key /\ u[k].hv = Hash[q[u[k].i]]
  <2>1. PICK x \in Occupied(t) \ {j} : u[k] = t[x]
    BY <1>1 DEF Keeps
  <2> QED
    BY <1>3, <1>4, <2>1 DEF Registers
<1>6. ASSUME NEW i \in Index, q[i] # Blank PROVE \E k \in Occupied(u) : u[k].i = i
  <2>1. i # i0 /\ r[i] # Blank
    BY <1>4, <1>6
  <2>2. PICK x \in Occupied(t) : t[x].i = i
    BY <2>1 DEF Registers
  <2>3. x # j
    BY <2>1, <2>2 DEF i0
  <2>4. PICK k \in Occupied(u) : u[k] = t[x]
    BY <1>1, <2>3 DEF Keeps
  <2> QED
    BY <2>2, <2>4
<1>7. ASSUME NEW x \in Index, NEW y \in Index, q[x] # Blank, q[x] = q[y] PROVE x = y
  BY <1>4, <1>7 DEF Registers
<1>8. Registers(u, q)
  BY <1>5, <1>6, <1>7 DEF Registers
<1>9. Cardinality(Occupied(u)) = Cardinality(Occupied(t)) - 1
  BY <1>1 DEF Keeps
<1> QED
  BY <1>1, <1>8, <1>9 DEF u, q, i0

-----------------------------------------------------------------------------
(* The inductive invariant: besides what TypeOK says, that every entry is  *)
(* found from its home and that the entries are the registered rows.       *)
HInv ==
  /\ TypeOK
  /\ Sound(table, tablen)
  /\ Registers(table, row)
  /\ used = Cardinality(Occupied(table))

LEMMA InitTablenEven ==
  /\ InitTablen \div LoadFactor \in Nat \ {0}
  /\ LoadFactor * (InitTablen \div LoadFactor) = InitTablen
<1> DEFINE Enough == {x \in {2^n : n \in 0 .. InitLen + 1} : x >= 2 * InitLen}
<1>1. InitLen \in Nat \ {0} /\ LoadFactor = 2
  BY InitLenAssumption DEF LoadFactor
<1>2. \A n \in 0 .. InitLen + 1 : 2^n \in Nat
  <2> TAKE n \in 0 .. InitLen + 1
  <2>1. n \in Nat
    BY <1>1
  <2> QED
    BY <2>1, PowerOfTwo
<1>3. Enough \in SUBSET Nat
  BY <1>2
<1>4. 2^(InitLen + 1) \in Enough
  <2>1. 2^(InitLen + 1) = 2 * 2^InitLen /\ 2^InitLen \in Nat /\ 2^InitLen > InitLen
    BY <1>1, PowerOfTwo, PowerExceeds
  <2>2. InitLen + 1 \in 0 .. InitLen + 1
    BY <1>1
  <2>3. 2^(InitLen + 1) >= 2 * InitLen
    BY <1>1, <2>1
  <2> QED
    BY <2>2, <2>3
<1>5. \A x : x \in Enough <=> (\E n \in 0 .. InitLen + 1 : x = 2^n) /\ x >= 2 * InitLen
  OBVIOUS
<1> HIDE DEF Enough
<1>6. PICK len \in Enough : \A x \in Enough : len <= x
  BY <1>3, <1>4, Least
<1> DEFINE Fits(x) ==
      /\ x >= 2 * InitLen
      /\ \A n \in 0 .. InitLen + 1 : 2^n >= 2 * InitLen => x <= 2^n
<1>7. InitTablen = CHOOSE x \in {2^n : n \in 0 .. InitLen + 1} : Fits(x)
  BY DEF InitTablen, LoadFactor
<1>8. len \in {2^n : n \in 0 .. InitLen + 1} /\ Fits(len)
  BY <1>5, <1>6
<1>9. InitTablen \in {2^n : n \in 0 .. InitLen + 1} /\ Fits(InitTablen)
  <2> HIDE DEF Fits
  <2> QED
    BY <1>7, <1>8
<1>10. PICK n \in 0 .. InitLen + 1 : InitTablen = 2^n
  BY <1>9
<1>11. 2^n \in Nat /\ 2^n >= 2
  BY <1>1, <1>2, <1>9, <1>10
<1>12. n # 0
  <2>1. 2^0 = 1
    OBVIOUS
  <2>2. n = 0 => 2^n = 2^0
    BY Zenon
  <2> QED
    BY <1>11, <2>1, <2>2
<1>13. n - 1 \in Nat /\ n - 1 + 1 = n
  BY <1>1, <1>12
<1>14. 2^(n - 1) \in Nat /\ 2^(n - 1 + 1) = 2 * 2^(n - 1)
  BY <1>13, PowerOfTwo
<1> DEFINE half == 2^(n - 1)
<1>15. half \in Nat /\ InitTablen = 2 * half
  BY <1>10, <1>13, <1>14, Zenon
<1>16. InitTablen >= 2
  BY <1>10, <1>11
<1> HIDE DEF half
<1> QED
  BY <1>1, <1>15, <1>16

(* What TypeOK says of the table, and the room the load factor leaves.     *)
LEMMA HRoom ==
  ASSUME HInv
  PROVE  /\ limit \in Nat \ {0} /\ tablen \in Nat \ {0} /\ tablen = 2 * limit
         /\ table \in [0 .. tablen - 1 -> Slot]
         /\ row \in Rows
         /\ used \in 0 .. limit /\ used < tablen
         /\ Cardinality(Occupied(table)) \in Nat
         /\ \E f \in 0 .. tablen - 1 : table[f].i = None
<1>1. /\ limit \in Nat \ {0} /\ tablen \in Nat \ {0} /\ tablen = 2 * limit
      /\ used \in 0 .. limit /\ used < tablen /\ row \in Rows
  BY DEF HInv, TypeOK, tablen, LoadFactor, Rows
<1>2. table \in [0 .. tablen - 1 -> Slot]
  BY DEF HInv, Sound
<1>3. Cardinality(Occupied(table)) < tablen /\ Cardinality(Occupied(table)) \in Nat
  BY <1>1 DEF HInv
<1> QED
  BY <1>1, <1>2, <1>3, FreeSlot

(* ht_get and ht_del find the row with the key, if there is one.           *)
LEMMA FindsKey ==
  ASSUME HInv, NEW k \in Key
  PROVE  /\ table[SlotOf(table, Hash[k], tablen, Equal(k))].i = Set!Found(k)
         /\ Set!Found(k) \in Index \cup {None}
         /\ \A x \in Occupied(table) : table[x].i \in Equal(k) => table[x].hv = Hash[k]
<1> DEFINE found == table[SlotOf(table, Hash[k], tablen, Equal(k))].i
<1>1. \A x \in Occupied(table) : table[x].i \in Equal(k) => table[x].hv = Hash[k]
  BY DEF HInv, Registers, Equal
<1>2. Hash[k] \in Int
  BY HashAssumption
<1>3. /\ found # None => found \in Equal(k)
      /\ found = None => \A x \in Occupied(table) : table[x].i \notin Equal(k)
  <2>1. tablen \in Nat \ {0} /\ \E f \in 0 .. tablen - 1 : table[f].i = None
    BY HRoom
  <2>2. Sound(table, tablen)
    BY DEF HInv
  <2> QED
    BY <1>1, <1>2, <2>1, <2>2, Search
<1> HIDE DEF found
<1>4. Set!Members(k) = Equal(k)
  BY DEF Set!Members, Equal
<1>5. CASE found = None
  <2>1. Equal(k) = {}
    <3> SUFFICES ASSUME NEW i \in Index, row[i] = k PROVE FALSE
      BY DEF Equal
    <3>1. PICK x \in Occupied(table) : table[x].i = i
      BY BlankAssumption DEF HInv, Registers
    <3> QED
      BY <1>3, <1>5, <3>1 DEF Equal
  <2>2. Set!Found(k) = None
    BY <1>4, <2>1 DEF Set!Found, Set!None, None
  <2> QED
    BY <1>1, <1>5, <2>2 DEF found
<1>6. CASE found # None
  <2>1. Equal(k) = {found}
    BY <1>3, <1>6, BlankAssumption DEF HInv, Registers, Equal
  <2>2. found \in Index
    BY <2>1 DEF Equal
  <2>3. Set!Found(k) = found
    BY <1>4, <2>1 DEF Set!Found
  <2> QED
    BY <1>1, <2>2, <2>3 DEF found
<1> QED
  BY <1>5, <1>6

(* ht_deli finds the row itself if it is registered.                       *)
LEMMA FindsIndex ==
  ASSUME HInv, NEW i \in Index, NEW k \in Key, row[i] \in {k, Blank}
  PROVE  /\ table[SlotOf(table, Hash[k], tablen, {i})].i = IF row[i] = Blank THEN None ELSE i
         /\ \A x \in Occupied(table) : table[x].i \in {i} => table[x].hv = Hash[k]
<1> DEFINE found == table[SlotOf(table, Hash[k], tablen, {i})].i
<1>1. \A x \in Occupied(table) : table[x].i \in {i} => table[x].hv = Hash[k] /\ row[i] # Blank
  BY BlankAssumption DEF HInv, Registers
<1>2. Hash[k] \in Int
  BY HashAssumption
<1>3. /\ found # None => /\ found \in {i}
                         /\ SlotOf(table, Hash[k], tablen, {i}) \in Occupied(table)
      /\ found = None => \A x \in Occupied(table) : table[x].i \notin {i}
  <2>1. tablen \in Nat \ {0} /\ \E f \in 0 .. tablen - 1 : table[f].i = None
    BY HRoom
  <2>2. Sound(table, tablen)
    BY DEF HInv
  <2> QED
    BY <1>1, <1>2, <2>1, <2>2, Search
<1>4. found # None => found = i /\ row[i] # Blank
  BY <1>1, <1>3
<1>5. found = None => row[i] = Blank
  BY <1>3 DEF HInv, Registers
<1> HIDE DEF found
<1>6. found = IF row[i] = Blank THEN None ELSE i
  BY <1>4, <1>5
<1> QED
  BY <1>1, <1>6 DEF found

(* del keeps the invariant and takes out the row it has found.             *)
LEMMA Deletes ==
  ASSUME HInv, NEW k \in Key, NEW wanted, del(k, wanted),
         \A x \in Occupied(table) : table[x].i \in wanted => table[x].hv = Hash[k]
  PROVE  LET found == table[SlotOf(table, Hash[k], tablen, wanted)].i IN
         /\ IF found = None THEN row' = row
            ELSE row' = [row EXCEPT ![found] = Blank] /\ found \in Index
         /\ row' \in Rows /\ limit' = limit /\ used' \in 0 .. limit
         /\ Sound(table', tablen)
         /\ Registers(table', row')
         /\ used' = Cardinality(Occupied(table'))
<1> DEFINE j == SlotOf(table, Hash[k], tablen, wanted)
           found == table[j].i
<1>1. /\ limit \in Nat \ {0} /\ tablen \in Nat \ {0}
      /\ table \in [0 .. tablen - 1 -> Slot] /\ row \in Rows /\ used \in 0 .. limit
      /\ Cardinality(Occupied(table)) \in Nat
      /\ \E f \in 0 .. tablen - 1 : table[f].i = None
  BY HRoom
<1>2. Sound(table, tablen) /\ Registers(table, row) /\ used = Cardinality(Occupied(table))
  BY DEF HInv
<1>3. Hash[k] \in Int
  BY HashAssumption
<1>4. found # None => j \in Occupied(table)
  BY <1>1, <1>2, <1>3, Search
<1>5. /\ limit' = limit
      /\ IF found = None THEN row' = row /\ table' = table /\ used' = used
         ELSE /\ table' = Closed(table, tablen, j)
              /\ used' = used - 1
              /\ row' = [row EXCEPT ![found] = Blank]
  BY DEF del
<1> HIDE DEF j
<1>6. CASE found = None
  BY <1>1, <1>2, <1>5, <1>6 DEF j
<1>7. CASE found # None
  <2>1. j \in Occupied(table) /\ found \in Index
    BY <1>1, <1>4, <1>7, OccupiedIndex
  <2>2. /\ Sound(table', tablen)
        /\ Registers(table', row')
        /\ Cardinality(Occupied(table')) = Cardinality(Occupied(table)) - 1
    <3>1. LET u == Closed(table, tablen, j) IN
          /\ Sound(u, tablen)
          /\ Registers(u, [row EXCEPT ![table[j].i] = Blank])
          /\ Cardinality(Occupied(u)) = Cardinality(Occupied(table)) - 1
      BY <1>1, <1>2, <2>1, ClosedRegisters
    <3> QED
      BY <1>5, <1>7, <3>1
  <2>3. table' \in [0 .. tablen - 1 -> Slot]
    BY <2>2 DEF Sound
  <2>4. Cardinality(Occupied(table')) \in Nat
    BY <1>1, <2>3, OccupiedFinite
  <2>5. row' \in Rows
    BY <1>1, <1>5, <1>7 DEF Rows
  <2> QED
    BY <1>1, <1>2, <1>5, <1>7, <2>1, <2>2, <2>4, <2>5 DEF j
<1> QED
  BY <1>6, <1>7

-----------------------------------------------------------------------------
(* ht_init leaves an empty table.                                          *)
LEMMA HInit == Init => HInv
<1> SUFFICES ASSUME Init PROVE HInv
  OBVIOUS
<1>1. limit \in Nat \ {0} /\ tablen = InitTablen /\ table = Empty(tablen)
  BY InitTablenEven DEF Init, tablen
<1>2. tablen \in Nat
  BY <1>1 DEF tablen, LoadFactor
<1>3. Sound(table, tablen) /\ Occupied(table) = {} /\ Cardinality(Occupied(table)) = 0
  BY <1>1, <1>2, EmptySound
<1>4. Registers(table, row)
  BY <1>3 DEF Init, Registers
<1>5. TypeOK
  <2>1. table \in [0 .. tablen - 1 -> Slot]
    BY <1>3 DEF Sound
  <2>2. row \in [Index -> Key \cup {Blank}] /\ used \in 0 .. limit
    BY <1>1 DEF Init
  <2>3. ret \in (Key \cup {Blank}) \X (Index \cup {None}) \X (Index \cup {None})
    BY DEF Init, Silent
  <2> QED
    BY <1>1, <2>1, <2>2, <2>3 DEF TypeOK, Slot
<1> QED
  BY <1>3, <1>4, <1>5 DEF HInv, Init

(* What an action has to leave behind.                                     *)
LEMMA HInvNext ==
  ASSUME limit' \in Nat \ {0}, used' \in 0 .. limit', row' \in Rows,
         ret' \in (Key \cup {Blank}) \X (Index \cup {None}) \X (Index \cup {None}),
         Sound(table', LoadFactor * limit'), Registers(table', row'),
         used' = Cardinality(Occupied(table'))
  PROVE  HInv'
<1>1. TypeOK'
  BY DEF TypeOK, tablen, Rows, Sound, Slot
<1> QED
  BY <1>1 DEF HInv, tablen

LEMMA SilentType == Silent \in (Key \cup {Blank}) \X (Index \cup {None}) \X (Index \cup {None})
BY DEF Silent

LEMMA PutStep ==
  ASSUME HInv, NEW i \in Index, NEW k \in Key, ht_put(i, k)
  PROVE  HInv' /\ Set!Put(i, k)
<1> DEFINE q == [row EXCEPT ![i] = k]
<1>1. /\ limit \in Nat \ {0} /\ tablen \in Nat \ {0} /\ tablen = 2 * limit
      /\ row \in Rows /\ used \in 0 .. limit /\ used < tablen
      /\ \E f \in 0 .. tablen - 1 : table[f].i = None
  BY HRoom
<1>2. Sound(table, tablen) /\ Registers(table, row) /\ used = Cardinality(Occupied(table))
  BY DEF HInv
<1>3. /\ row[i] = Blank
      /\ \A j \in Occupied(table) : row[table[j].i] # k
      /\ used' = used + 1 /\ row' = q /\ ret' = Silent
  BY DEF ht_put
<1>4. q \in Rows
  BY <1>1 DEF Rows
<1> HIDE DEF q
<1>5. /\ limit' \in Nat \ {0} /\ used' \in 0 .. limit'
      /\ Sound(table', LoadFactor * limit')
      /\ Registers(table', row')
      /\ used' = Cardinality(Occupied(table'))
  <2>1. CASE used = limit
    <3> DEFINE double == 2 * tablen
               u == Doubled(table, tablen)
    <3>1. /\ Sound(u, double)
          /\ Registers(u, row)
          /\ Cardinality(Occupied(u)) = used
          /\ \A x \in Occupied(u) : \E j \in Occupied(table) : u[x] = table[j]
      BY <1>1, <1>2, DoubledRegisters
    <3>2. limit' = 2 * limit /\ table' = Insert(u, double, i, Hash[k])
      BY <2>1 DEF ht_put
    <3>3. double \in Nat \ {0} /\ used < double
      BY <1>1
    <3> HIDE DEF u, double
    <3>4. \A x \in Occupied(u) : row[u[x].i] # k
      BY <1>3, <3>1
    <3>5. \E f \in 0 .. double - 1 : u[f].i = None
      BY <3>1, <3>3, FreeSlot DEF Sound
    <3>6. /\ Sound(table', double)
          /\ Registers(table', q)
          /\ Cardinality(Occupied(table')) = used + 1
      <4>1. LET v == Insert(u, double, i, Hash[k]) IN
            /\ Sound(v, double)
            /\ Registers(v, [row EXCEPT ![i] = k])
            /\ Cardinality(Occupied(v)) = Cardinality(Occupied(u)) + 1
        BY <1>1, <1>3, <3>1, <3>3, <3>4, <3>5, InsertRegisters
      <4> QED
        BY <3>1, <3>2, <4>1 DEF q
    <3>7. LoadFactor * limit' = double
      BY <1>1, <3>2 DEF LoadFactor, double
    <3>8. limit' \in Nat \ {0} /\ used' \in 0 .. limit'
      BY <1>1, <1>3, <2>1, <3>2
    <3> QED
      BY <1>3, <3>6, <3>7, <3>8
  <2>2. CASE used # limit
    <3>1. limit' = limit /\ table' = Insert(table, tablen, i, Hash[k])
      BY <2>2 DEF ht_put
    <3>2. LET v == Insert(table, tablen, i, Hash[k]) IN
          /\ Sound(v, tablen)
          /\ Registers(v, [row EXCEPT ![i] = k])
          /\ Cardinality(Occupied(v)) = Cardinality(Occupied(table)) + 1
      BY <1>1, <1>2, <1>3, InsertRegisters
    <3>3. LoadFactor * limit' = tablen
      BY <3>1 DEF tablen
    <3>4. limit' \in Nat \ {0} /\ used' \in 0 .. limit'
      BY <1>1, <1>3, <2>2, <3>1
    <3> QED
      BY <1>2, <1>3, <3>1, <3>2, <3>3, <3>4 DEF q
  <2> QED
    BY <2>1, <2>2
<1>6. HInv'
  <2>1. row' \in Rows
    BY <1>3, <1>4
  <2>2. ret' \in (Key \cup {Blank}) \X (Index \cup {None}) \X (Index \cup {None})
    BY <1>3, SilentType
  <2> QED
    BY <1>5, <2>1, <2>2, HInvNext
<1>7. Set!Members(k) = {}
  <2> SUFFICES ASSUME NEW x \in Index, row[x] = k PROVE FALSE
    BY DEF Set!Members
  <2>1. PICK j \in Occupied(table) : table[j].i = x
    BY <1>2, BlankAssumption DEF Registers
  <2> QED
    BY <1>3, <2>1
<1>8. Set!Put(i, k)
  BY <1>3, <1>7 DEF Set!Put, Set!Silent, Set!None, Silent, None, q
<1> QED
  BY <1>6, <1>8

LEMMA GetStep ==
  ASSUME HInv, NEW k \in Key, ht_get(k)
  PROVE  HInv' /\ Set!Get(k)
<1> DEFINE found == table[SlotOf(table, Hash[k], tablen, Equal(k))].i
<1>1. ret' = <<k, None, found>> /\ UNCHANGED <<row, table, used, limit>>
  BY DEF ht_get
<1>2. found = Set!Found(k) /\ found \in Index \cup {None}
  BY FindsKey
<1> HIDE DEF found
<1>3. ret' \in (Key \cup {Blank}) \X (Index \cup {None}) \X (Index \cup {None})
  BY <1>1, <1>2
<1>4. HInv'
  BY <1>1, <1>3, HRoom, HInvNext DEF HInv, tablen
<1>5. Set!Get(k)
  BY <1>1, <1>2 DEF Set!Get, Set!None, None
<1> QED
  BY <1>4, <1>5

LEMMA DelStep ==
  ASSUME HInv, NEW k \in Key, ht_del(k)
  PROVE  HInv' /\ Set!Del(k)
<1> DEFINE found == table[SlotOf(table, Hash[k], tablen, Equal(k))].i
<1>1. ret' = <<k, None, found>> /\ del(k, Equal(k))
  BY DEF ht_del
<1>2. /\ found = Set!Found(k) /\ found \in Index \cup {None}
      /\ \A x \in Occupied(table) : table[x].i \in Equal(k) => table[x].hv = Hash[k]
  BY FindsKey
<1>3. /\ IF found = None THEN row' = row
         ELSE row' = [row EXCEPT ![found] = Blank] /\ found \in Index
      /\ row' \in Rows /\ limit' = limit /\ used' \in 0 .. limit
      /\ Sound(table', tablen)
      /\ Registers(table', row')
      /\ used' = Cardinality(Occupied(table'))
  BY <1>1, <1>2, Deletes
<1> HIDE DEF found
<1>4. ret' \in (Key \cup {Blank}) \X (Index \cup {None}) \X (Index \cup {None})
  BY <1>1, <1>2
<1>5. HInv'
  BY <1>3, <1>4, HRoom, HInvNext DEF tablen
<1>6. row \in Rows
  BY HRoom
<1>7. row' = [i \in Index |-> IF row[i] = k THEN Blank ELSE row[i]]
  <2>1. \A i, x \in Index : row[i] = k /\ row[x] = k => i = x
    BY BlankAssumption DEF HInv, Registers
  <2>2. CASE Set!Members(k) = {}
    <3>1. row' = row
      BY <1>2, <1>3, <2>2 DEF Set!Found, Set!None, None
    <3> QED
      BY <1>6, <2>2, <3>1 DEF Set!Members, Rows
  <2>3. CASE Set!Members(k) # {}
    <3>1. found \in Set!Members(k)
      BY <1>2, <2>3 DEF Set!Found
    <3>2. found \in Index /\ row[found] = k /\ found # None
      BY <3>1, IndexAssumption DEF Set!Members, None
    <3>3. row' = [row EXCEPT ![found] = Blank]
      BY <1>3, <3>2
    <3> QED
      BY <1>6, <2>1, <3>2, <3>3 DEF Rows
  <2> QED
    BY <2>2, <2>3
<1>8. Set!Del(k)
  BY <1>1, <1>2, <1>7 DEF Set!Del, Set!None, None
<1> QED
  BY <1>5, <1>8

LEMMA DeliStep ==
  ASSUME HInv, NEW i \in Index, NEW k \in Key, ht_deli(i, k)
  PROVE  HInv' /\ Set!Deli(i)
<1> DEFINE found == table[SlotOf(table, Hash[k], tablen, {i})].i
<1>1. ret' = <<Blank, i, found>> /\ del(k, {i}) /\ row[i] \in {k, Blank}
  BY DEF ht_deli
<1>2. /\ found = IF row[i] = Blank THEN None ELSE i
      /\ \A x \in Occupied(table) : table[x].i \in {i} => table[x].hv = Hash[k]
  BY <1>1, FindsIndex
<1>3. /\ IF found = None THEN row' = row
         ELSE row' = [row EXCEPT ![found] = Blank] /\ found \in Index
      /\ row' \in Rows /\ limit' = limit /\ used' \in 0 .. limit
      /\ Sound(table', tablen)
      /\ Registers(table', row')
      /\ used' = Cardinality(Occupied(table'))
  BY <1>1, <1>2, Deletes
<1> HIDE DEF found
<1>4. ret' \in (Key \cup {Blank}) \X (Index \cup {None}) \X (Index \cup {None})
  BY <1>1, <1>2
<1>5. HInv'
  BY <1>3, <1>4, HRoom, HInvNext DEF tablen
<1>6. row \in Rows /\ i # None
  BY HRoom, IndexAssumption DEF None
<1>7. row' = [row EXCEPT ![i] = Blank]
  BY <1>2, <1>3, <1>6 DEF Rows
<1>8. Set!Deli(i)
  BY <1>1, <1>2, <1>7 DEF Set!Deli, Set!None, None
<1> QED
  BY <1>5, <1>8

LEMMA ClearStep ==
  ASSUME HInv, ht_clear
  PROVE  HInv' /\ Set!Clear
<1>1. limit \in Nat \ {0} /\ tablen \in Nat /\ tablen = LoadFactor * limit
  BY HRoom DEF tablen
<1>2. /\ table' = Empty(tablen) /\ used' = 0 /\ row' = [i \in Index |-> Blank]
      /\ ret' = Silent /\ limit' = limit
  BY DEF ht_clear
<1>3. Sound(table', tablen) /\ Occupied(table') = {} /\ Cardinality(Occupied(table')) = 0
  BY <1>1, <1>2, EmptySound
<1>4. Registers(table', row')
  BY <1>2, <1>3 DEF Registers
<1>5. row' \in Rows /\ used' \in 0 .. limit'
  BY <1>1, <1>2 DEF Rows
<1>6. HInv'
  BY <1>1, <1>2, <1>3, <1>4, <1>5, SilentType, HInvNext
<1>7. Set!Clear
  BY <1>2 DEF Set!Clear, Set!Silent, Set!None, Silent, None
<1> QED
  BY <1>6, <1>7

LEMMA HStep ==
  ASSUME HInv, [Next]_vars
  PROVE  HInv' /\ [Set!Next]_(Set!vars)
<1>1. CASE \E i \in Index, k \in Key : ht_put(i, k)
  BY <1>1, PutStep DEF Set!Next
<1>2. CASE \E i \in Index, k \in Key : ht_deli(i, k)
  BY <1>2, DeliStep DEF Set!Next
<1>3. CASE \E k \in Key : ht_get(k)
  BY <1>3, GetStep DEF Set!Next
<1>4. CASE \E k \in Key : ht_del(k)
  BY <1>4, DelStep DEF Set!Next
<1>5. CASE ht_clear
  BY <1>5, ClearStep DEF Set!Next
<1>6. CASE UNCHANGED vars
  <2>1. HInv'
    BY <1>6 DEF vars, HInv, TypeOK, tablen
  <2>2. UNCHANGED Set!vars
    BY <1>6 DEF vars, Set!vars
  <2> QED
    BY <2>1, <2>2
<1> QED
  BY <1>1, <1>2, <1>3, <1>4, <1>5, <1>6 DEF Next

-----------------------------------------------------------------------------
(* Whatever the client registers, looks up and takes out, in any order and *)
(* with any hash function, the table keeps its inductive invariant.        *)
THEOREM HashTableInvariant == Spec => []HInv
<1>1. Init => HInv
  BY HInit
<1>2. HInv /\ [Next]_vars => HInv'
  BY HStep
<1> QED
  BY <1>1, <1>2, PTL DEF Spec

(* ht.c: the counters and the table stay in range, and every slot holds an *)
(* index of the client's array or none.                                    *)
THEOREM HashTableType == Spec => []TypeOK
<1>1. HInv => TypeOK
  BY DEF HInv
<1> QED
  BY <1>1, HashTableInvariant, PTL

(* ht.c: neither the doubling in ht_put nor the backward shift in del ever *)
(* leaves a free slot between an entry and its home, where a search would  *)
(* stop short of it.                                                       *)
THEOREM EntriesReached == Spec => []ProbeChains
<1>1. HInv => ProbeChains
  <2> SUFFICES ASSUME HInv, NEW j \in Occupied(table)
               PROVE  /\ table[j].hv = Hash[row[table[j].i]]
                      /\ \E n \in 0 .. tablen - 1 :
                           /\ Probe(table[j].hv, n, tablen) = j
                           /\ \A m \in 0 .. n - 1 : Probe(table[j].hv, m, tablen) \in Occupied(table)
    BY DEF ProbeChains
  <2>1. tablen \in Nat \ {0} /\ table \in [0 .. tablen - 1 -> Slot]
    BY HRoom
  <2>2. j \in 0 .. tablen - 1 /\ table[j] \in Slot
    BY <2>1, OccupiedIndex
  <2> DEFINE hv == table[j].hv
  <2>3. hv \in Int
    BY <2>2 DEF Slot
  <2>4. \A s \in Way(first(hv, tablen), j, tablen) : table[s].i # None
    BY DEF HInv, Sound, Reached, Home
  <2>5. PICK n \in 0 .. tablen - 1 : Probe(hv, n, tablen) = j
    BY <2>1, <2>2, <2>3, ProbeOnto
  <2> HIDE DEF hv
  <2>6. ASSUME NEW m \in 0 .. n - 1 PROVE Probe(hv, m, tablen) \in Occupied(table)
    <3>1. Probe(hv, m, tablen) \in Way(first(hv, tablen), j, tablen)
      BY <2>1, <2>3, <2>5, ProbeWay
    <3> QED
      BY <2>1, <2>4, <3>1 DEF Way, Occupied
  <2>7. table[j].hv = Hash[row[table[j].i]]
    BY DEF HInv, Registers
  <2> QED
    BY <2>5, <2>6, <2>7 DEF hv
<1> QED
  BY <1>1, HashTableInvariant, PTL

(* ht.c: the counter that ht_put compares with the limit counts the slots  *)
(* in use, and no call ever fills the table, so every probe loop ends.     *)
THEOREM RoomLeft == Spec => []FreeSlotLeft
<1>1. HInv => FreeSlotLeft
  BY HRoom DEF HInv, FreeSlotLeft
<1> QED
  BY <1>1, HashTableInvariant, PTL

(* ht.c implements the set of rows its clients take it for: each call      *)
(* returns, and leaves registered, what the plain set would.               *)
THEOREM HashTableImplements == Spec => Refines
<1>1. Init => Set!Init
  BY DEF Init, Set!Init, Set!Silent, Set!None, Silent, None
<1>2. HInv /\ [Next]_vars => [Set!Next]_(Set!vars)
  BY HStep
<1> QED
  BY <1>1, <1>2, HashTableInvariant, PTL DEF Spec, Refines, Set!Spec

=============================================================================
