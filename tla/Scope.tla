-------------------------------- MODULE Scope -------------------------------
(***************************************************************************)
(* sc.c: scopes inside scopes, kept in one array of rows.  The row at base *)
(* opens the innermost scope and the rows after it are its entries; BASE   *)
(* and LOCK, negative values in the code, tell such rows from entries.     *)
(* Rows are counted from 1, so that 0 is no row.  The key that sc_find     *)
(* leaves in the row at base to stop its search is not seen by others.     *)
(***************************************************************************)
EXTENDS Integers, Sequences, FiniteSetsExt

BASE == [row |-> "BASE"]
LOCK == [row |-> "LOCK"]
Entry(key, val, aux) == [row |-> "entry", key |-> key, val |-> val, aux |-> aux]

Greatest(S) == IF S = {} THEN 0 ELSE Max(S)

sc_open(st) == [tab |-> Append(st.tab, BASE), base |-> Len(st.tab) + 1]

windup == sc_open([tab |-> <<>>, base |-> 0])

sc_void(st) == st.base = 1

sc_lock(st) == [st EXCEPT !.tab[st.base] = LOCK]

sc_locked(st) == st.tab[st.base] = LOCK

sc_close(st) ==
  [tab |-> SubSeq(st.tab, 1, st.base - 1),
   base |-> Greatest({i \in 1 .. st.base - 1 : st.tab[i].row # "entry"})]

sc_find(st, key) == Greatest({i \in st.base + 1 .. Len(st.tab) : st.tab[i].key = key})

sc_add(st, key, val, aux) == [st EXCEPT !.tab = Append(@, Entry(key, val, aux))]

Entries(st) == SubSeq(st.tab, st.base + 1, Len(st.tab))

=============================================================================
