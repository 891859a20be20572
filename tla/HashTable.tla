----------------------------- MODULE HashTable ------------------------------
(***************************************************************************)
(* ht.c: the open-addressing hash table of row indices under the pattern   *)
(* store (rn.c), the derivative memo (drv.c) and the regular expressions   *)
(* (rx.c).  Collisions are resolved by probing downwards, the table is     *)
(* doubled when half full, and a deletion closes the gap by moving back    *)
(* the entries of the cluster below it that may move.                      *)
(*                                                                         *)
(* One action per function of ht.h.  Each is atomic: the program is single *)
(* threaded and ht.c calls back only the pure hash and equal functions.    *)
(***************************************************************************)
EXTENDS Integers, FiniteSets

CONSTANTS
  Index,      \* row indices of the client's array
  Key,        \* what hash and equal look at
  Hash,       \* [Key -> Int]: the client's hash function
  InitLen,    \* the len passed to ht_init
  Blank       \* the contents of a row that is not registered

LoadFactor == 2
None == -1

ASSUME HashAssumption == Hash \in [Key -> Int]
ASSUME InitLenAssumption == InitLen \in Nat \ {0}
ASSUME BlankAssumption == Blank \notin Key
ASSUME IndexAssumption == Index \subseteq Nat

VARIABLES
  row,        \* the client's rows: the key of each registered row
  table,      \* [0 .. tablen-1 -> slots]: row index and stored hash value
  used, limit,
  ret         \* the last call: the key and the index asked for, what it returned

vars == <<row, table, used, limit, ret>>

tablen == LoadFactor * limit
Silent == <<Blank, None, None>>      \* a call that returns nothing
Free == [i |-> None, hv |-> 0]
Occupied(t) == {j \in DOMAIN t : t[j].i # None}

-----------------------------------------------------------------------------
(* Probing.  Len is the (power of two) length of the table; slot n of the  *)
(* probe sequence of a hash value is n below its home, cyclically.         *)

first(hv, len) == hv % len
Probe(hv, n, len) == (first(hv, len) - n) % len

(* The distance from home at which a search stops: the first slot that is  *)
(* free or holds one of the indices wanted.                                *)
Stop(t, hv, len, wanted) ==
  CHOOSE n \in 0 .. len - 1 :
    /\ LET s == t[Probe(hv, n, len)] IN s.i \in wanted \cup {None}
    /\ \A m \in 0 .. n - 1 : LET s == t[Probe(hv, m, len)] IN s.i \notin wanted \cup {None}

SlotOf(t, hv, len, wanted) == Probe(hv, Stop(t, hv, len, wanted), len)

(* ht->equal to a row with key k. *)
Equal(k) == {i \in Index : row[i] = k}

Insert(t, len, i, hv) == [t EXCEPT ![SlotOf(t, hv, len, {})] = [i |-> i, hv |-> hv]]

-----------------------------------------------------------------------------
(* ht_put's doubling: every entry is reinserted, in slot order, with the   *)
(* hash value stored beside it.                                            *)
Empty(len) == [j \in 0 .. len - 1 |-> Free]
Reinserted(u, len, s) == IF s.i = None THEN u ELSE Insert(u, len, s.i, s.hv)

Doubled(t, len) ==
  LET fill[n \in 0 .. len] ==
        IF n = 0 THEN Empty(2 * len) ELSE Reinserted(fill[n - 1], 2 * len, t[n - 1])
  IN fill[len]

(* Slip: the wrap-around is forgotten. *)
MayMove_unwrapped(k, j0, j) == k <= j0 \/ j0 < j

(* The gap left at slot k may be filled from slot j, whose entry has home  *)
(* j0, unless j0 lies on the way from just below k down to j.              *)
MayMove(k, j0, j) ==
  /\ k <= j0 \/ j0 < j
  /\ j0 < j \/ j <= k
  /\ j <= k \/ k <= j0

(* Slip: the slot is freed and nothing else. *)
Closed_gap(t, len, j) == [t EXCEPT ![j] = Free]

(* del's two nested loops: scan downwards from the freed slot to the end   *)
(* of the cluster, moving into the gap every entry that may move and going *)
(* on with the gap it leaves.                                              *)
Scanned(s, len, j) ==
  IF s.done \/ s.t[j].i = None THEN [s EXCEPT !.done = TRUE]
  ELSE IF MayMove(s.gap, first(s.t[j].hv, len), j)
       THEN [s EXCEPT !.t = [s.t EXCEPT ![s.gap] = s.t[j], ![j] = Free], !.gap = j]
       ELSE s

Closed(t, len, j) ==
  LET scan[n \in 0 .. len - 1] ==
        IF n = 0 THEN [t |-> [t EXCEPT ![j] = Free], gap |-> j, done |-> FALSE]
        ELSE Scanned(scan[n - 1], len, (j - n) % len)
  IN scan[len - 1].t

-----------------------------------------------------------------------------
(* smallest power of two that holds InitLen rows at the load factor *)
InitTablen ==
  CHOOSE len \in {2^n : n \in 0 .. InitLen + 1} :
    /\ len >= LoadFactor * InitLen
    /\ \A n \in 0 .. InitLen + 1 : 2^n >= LoadFactor * InitLen => len <= 2^n

Init ==
  /\ limit = InitTablen \div LoadFactor
  /\ table = Empty(InitTablen)
  /\ used = 0
  /\ row = [i \in Index |-> Blank]
  /\ ret = Silent

(* Slip: the counter is not reset. *)
ht_clear_used ==
  /\ table' = Empty(tablen)
  /\ row' = [i \in Index |-> Blank]
  /\ ret' = Silent
  /\ UNCHANGED <<used, limit>>

ht_clear ==
  /\ table' = Empty(tablen)
  /\ used' = 0
  /\ row' = [i \in Index |-> Blank]
  /\ ret' = Silent
  /\ UNCHANGED limit

(* A lookup with a probe row whose key is k. *)
ht_get(k) ==
  /\ ret' = <<k, None, table[SlotOf(table, Hash[k], tablen, Equal(k))].i>>
  /\ UNCHANGED <<row, table, used, limit>>

(* The caller writes key k into row i, has not found it, and registers i.  *)
(* The guard is the callers' side of the assertion in the probe loop.      *)
ht_put(i, k) ==
  /\ row[i] = Blank
  /\ \A j \in Occupied(table) : row[table[j].i] # k
  /\ IF used = limit
     THEN /\ limit' = 2 * limit
          /\ table' = Insert(Doubled(table, tablen), 2 * tablen, i, Hash[k])
     ELSE /\ table' = Insert(table, tablen, i, Hash[k])
          /\ UNCHANGED limit
  /\ used' = used + 1
  /\ row' = [row EXCEPT ![i] = k]
  /\ ret' = Silent

(* del(ht,i,eq) for a probe row with key k; wanted are the indices that    *)
(* are equal, by ht->equal or by themselves.                               *)
del(k, wanted) ==
  LET j == SlotOf(table, Hash[k], tablen, wanted)
      tj == table[j].i
  IN /\ IF tj = None
        THEN UNCHANGED <<row, table, used>>
        ELSE /\ table' = Closed(table, tablen, j)
             /\ used' = used - 1
             /\ row' = [row EXCEPT ![tj] = Blank]
     /\ UNCHANGED limit

ht_del(k) ==
  /\ del(k, Equal(k))
  /\ ret' = <<k, None, table[SlotOf(table, Hash[k], tablen, Equal(k))].i>>

(* Row i holds key k, registered or not. *)
ht_deli(i, k) ==
  /\ row[i] \in {k, Blank}
  /\ del(k, {i})
  /\ ret' = <<Blank, i, table[SlotOf(table, Hash[k], tablen, {i})].i>>

Next ==
  \/ \E i \in Index, k \in Key : ht_put(i, k) \/ ht_deli(i, k)
  \/ \E k \in Key : ht_get(k) \/ ht_del(k)
  \/ ht_clear

Spec == Init /\ [][Next]_vars

-----------------------------------------------------------------------------
TypeOK ==
  /\ row \in [Index -> Key \cup {Blank}]
  /\ limit \in Nat \ {0}
  /\ table \in [0 .. tablen - 1 -> [i : Index \cup {None}, hv : Int]]
  /\ used \in 0 .. limit
  /\ ret \in (Key \cup {Blank}) \X (Index \cup {None}) \X (Index \cup {None})

(* A search never runs into a gap: every slot between the home of an entry *)
(* and the entry is occupied, and the hash value stored beside an entry is *)
(* that of its row.  ht_get and del stop at the first free slot, so this   *)
(* is what the doubling and the backward shift of del must preserve.       *)
ProbeChains ==
  \A j \in Occupied(table) :
    /\ table[j].hv = Hash[row[table[j].i]]
    /\ \E n \in 0 .. tablen - 1 :
         /\ Probe(table[j].hv, n, tablen) = j
         /\ \A m \in 0 .. n - 1 : Probe(table[j].hv, m, tablen) \in Occupied(table)

(* The counter that decides when to double agrees with the slots in use,   *)
(* and there is always a free slot: without one every unsuccessful probe   *)
(* loop of ht.c would run for ever.                                        *)
FreeSlotLeft ==
  /\ used = Cardinality(Occupied(table))
  /\ used < tablen

(* Every call returns, and leaves registered, what the plain set of rows   *)
(* would: no row is lost, found twice, or found under another key.         *)
Set == INSTANCE IndexSet
Refines == Set!Spec

=============================================================================
