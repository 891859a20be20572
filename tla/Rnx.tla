--------------------------------- MODULE Rnx --------------------------------
(***************************************************************************)
(* rnx.c: what a message lists as required and as allowed, from the        *)
(* pattern at which validation failed.  The list keeps no duplicates, so   *)
(* it is a set here; its order is that of a walk through the pattern.      *)
(***************************************************************************)
EXTENDS Pattern

(* Slip: whatever stands before it. *)
SecondFirst_always(p1, first) == first

(* Can the second member of a group come first? *)
SecondFirst(p1, first) == first /\ rn_nullable(p1)

(* first: nothing has to come before p.  req: what may be left out is left *)
(* out of the list.  Attributes come in any order.  An After stands for    *)
(* the end tag.                                                            *)
RECURSIVE expected(_, _, _)
expected(p, first, req) ==
  IF req /\ rn_nullable(p) THEN {}
  ELSE CASE p.t \in {"choice", "interleave"} ->
              expected(p.p1, first, req) \cup expected(p.p2, first, req)
         [] p.t = "group" ->
              expected(p.p1, first, req) \cup expected(p.p2, SecondFirst(p.p1, first), req)
         [] p.t \in {"oneOrMore", "list", "dataExcept"} -> expected(p.p1, first, req)
         [] p.t = "after" ->
              expected(p.p1, first, req) \cup {px \in {p} : first /\ rn_nullable(p.p1)}
         [] p.t \in {"text", "data", "value", "element"} -> {px \in {p} : first}
         [] p.t = "attribute" -> {p}
         [] OTHER -> {}

(* The list of what is required is continued with what is allowed.         *)
rnx_expected(p, req) ==
  expected(p, TRUE, TRUE) \cup (IF req THEN {} ELSE expected(p, TRUE, FALSE))

=============================================================================
