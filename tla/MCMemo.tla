------------------------------- MODULE MCMemo -------------------------------
(* A pattern whose derivatives share subderivatives: 5 needs 3 and 4, both  *)
(* of which need 2, which needs 1 twice over.  A value is the set of keys   *)
(* that went into it, so a wrong ingredient shows.                          *)
EXTENDS Memo

MCKey == 1 .. 5
MCSub == <<  <<>>, <<1, 1>>, <<2>>, <<2, 1>>, <<3, 4>> >>
MCValue == {v \cup {} : v \in SUBSET MCKey}
MCCombine(k, got) == {k} \cup UNION {got[c] : c \in DOMAIN got}
MCDeriv == [k \in MCKey |->
  CASE k = 1 -> {1} [] k = 2 -> {1, 2} [] k = 3 -> {1, 2, 3}
    [] k = 4 -> {1, 2, 4} [] k = 5 -> {1, 2, 3, 4, 5}]

MCRank == [k \in MCKey |-> IF k = 4 THEN 3 ELSE k]

=============================================================================
