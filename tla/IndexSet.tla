------------------------------ MODULE IndexSet ------------------------------
(***************************************************************************)
(* What ht.c promises its clients (rn.c, drv.c, rx.c): a set of row        *)
(* indices in which no two rows are equal.  A row lives in an array of the *)
(* client; only its index enters the set, and two rows are equal when      *)
(* their keys are.  The client keeps the key of a registered row unchanged *)
(* (drv.c and rn.c take a row out with ht_deli before they rewrite it), so *)
(* the set can be stated as a partial injection from indices to keys:      *)
(* row[i] is the key under which i is registered, Blank when it is not.    *)
(***************************************************************************)
EXTENDS Integers

CONSTANTS
  Index,   \* the row indices of the client's array
  Key,     \* what the client's hash and equal functions look at
  Blank    \* stands for the contents of a row that is not registered

None == -1                                 \* "not found", the code's -1

VARIABLES
  row,     \* [Index -> Key \cup {Blank}]
  ret      \* the last call: the key and the index asked for, and what it returned

vars == <<row, ret>>

Members(k) == {i \in Index : row[i] = k}

Found(k) == IF Members(k) = {} THEN None ELSE CHOOSE i \in Members(k) : TRUE

(* A call that returns nothing. *)
Silent == <<Blank, None, None>>

Init ==
  /\ row = [i \in Index |-> Blank]
  /\ ret = Silent

(* ht_put: the caller has looked the key up and not found it. *)
Put(i, k) ==
  /\ row[i] = Blank
  /\ Members(k) = {}
  /\ row' = [row EXCEPT ![i] = k]
  /\ ret' = Silent

(* ht_get: the registered row equal to a probe row with key k. *)
Get(k) ==
  /\ ret' = <<k, None, Found(k)>>
  /\ UNCHANGED row

(* ht_del: take out the row equal to the probe row, whichever index it has. *)
Del(k) ==
  /\ ret' = <<k, None, Found(k)>>
  /\ row' = [i \in Index |-> IF row[i] = k THEN Blank ELSE row[i]]

(* ht_deli: take out row i itself, and nothing if only an equal row is in. *)
Deli(i) ==
  /\ ret' = <<Blank, i, IF row[i] = Blank THEN None ELSE i>>
  /\ row' = [row EXCEPT ![i] = Blank]

Clear ==
  /\ row' = [i \in Index |-> Blank]
  /\ ret' = Silent

Next ==
  \/ \E i \in Index, k \in Key : Put(i, k)
  \/ \E k \in Key : Get(k) \/ Del(k)
  \/ \E i \in Index : Deli(i)
  \/ Clear

Spec == Init /\ [][Next]_vars

=============================================================================
