----------------------------- MODULE Derivative -----------------------------
(***************************************************************************)
(* drv.c: the derivative of a pattern with respect to each event of a      *)
(* document.  The pattern of a document in progress is a choice of nested  *)
(* "after" patterns: what the innermost open element still needs, then     *)
(* what its parent needs after it, and so on outwards.                     *)
(*                                                                         *)
(* Memo shows that the memo around these functions cannot be observed, so  *)
(* they are stated without it.  A text is a sequence of characters, a      *)
(* datatype a pair of a library and a type.                                *)
(***************************************************************************)
EXTENDS Pattern, FiniteSets, SequencesExt

CONSTANTS
  Content,            \* [names of definitions -> Patterns]: elements' contents
  Space,              \* the characters that are white space
  xsd_allows(_, _),   \* is the text in the lexical space of a type of the
  xsd_equal(_, _, _)  \* library xsd.c; does it denote the same value

Builtin == ""         \* the library of "string" and "token"

-----------------------------------------------------------------------------
(* The words of a text, in order. *)
Words(s) ==
  LET InWord(i) == i \in DOMAIN s /\ s[i] \notin Space
      Ends(i) == {j \in i .. Len(s) : ~InWord(j + 1)}
      first == SetToSortSeq({i \in DOMAIN s : InWord(i) /\ ~InWord(i - 1)}, <)
  IN [n \in DOMAIN first |->
        SubSeq(s, first[n], CHOOSE j \in Ends(first[n]) : \A l \in Ends(first[n]) : j <= l)]

whitespace(s) == \A i \in DOMAIN s : s[i] \in Space

allows(dt, s) == IF dt[1] = Builtin THEN TRUE ELSE xsd_allows(dt[2], s)

equal(dt, val, s) ==
  CASE dt = <<Builtin, "string">> -> val = s
    [] dt = <<Builtin, "token">> -> Words(val) = Words(s)
    [] dt[1] # Builtin -> xsd_equal(dt[2], val, s)

-----------------------------------------------------------------------------
puorg_rn(p2, p1) == rn_group(p1, p2)

(* The functions apply_after is called with. *)
Applied(f, p1, p2) ==
  CASE f = "rn_ileave" -> rn_ileave(p1, p2)
    [] f = "rn_group" -> rn_group(p1, p2)
    [] f = "puorg_rn" -> puorg_rn(p1, p2)
    [] f = "rn_after" -> rn_after(p1, p2)

(* Applies f to what follows each of the alternatives of p1. *)
RECURSIVE apply_after(_, _, _)
apply_after(f, p1, p0) ==
  CASE p1.t = "choice" -> rn_choice(apply_after(f, p1.p1, p0), apply_after(f, p1.p2, p0))
    [] p1.t = "after" -> rn_after(p1.p1, Applied(f, p1.p2, p0))
    [] OTHER -> rn_notAllowed

(* With recover, what had to come before the element is given up. *)
RECURSIVE start_tag_open(_, _, _)
start_tag_open(p, qn, recover) ==
  LET d(q) == start_tag_open(q, qn, recover) IN
  CASE p.t = "choice" -> rn_choice(d(p.p1), d(p.p2))
    [] p.t = "element" ->
         IF ncof(p.nc, qn) THEN rn_after(Content[p.def], rn_empty) ELSE rn_notAllowed
    [] p.t = "interleave" ->
         rn_choice(apply_after("rn_ileave", d(p.p1), p.p2), apply_after("rn_ileave", d(p.p2), p.p1))
    [] p.t = "group" ->
         LET p11 == apply_after("rn_group", d(p.p1), p.p2) IN
         IF rn_nullable(p.p1) \/ recover THEN rn_choice(p11, d(p.p2)) ELSE p11
    [] p.t = "oneOrMore" -> apply_after("rn_group", d(p.p1), rn_choice(p, rn_empty))
    [] p.t = "after" -> apply_after("rn_after", d(p.p1), p.p2)
    [] OTHER -> rn_notAllowed

(* Attributes come in any order, so both members of a group are tried. *)
RECURSIVE attribute_open(_, _)
attribute_open(p, qn) ==
  LET d(q) == attribute_open(q, qn) IN
  CASE p.t = "choice" -> rn_choice(d(p.p1), d(p.p2))
    [] p.t = "attribute" ->
         IF ncof(p.nc, qn) THEN rn_after(p.p1, rn_empty) ELSE rn_notAllowed
    [] p.t = "interleave" ->
         rn_choice(apply_after("rn_ileave", d(p.p1), p.p2), apply_after("rn_ileave", d(p.p2), p.p1))
    [] p.t = "group" ->
         rn_choice(apply_after("rn_group", d(p.p1), p.p2), apply_after("puorg_rn", d(p.p2), p.p1))
    [] p.t = "oneOrMore" -> apply_after("rn_group", d(p.p1), rn_choice(p, rn_empty))
    [] p.t = "after" -> apply_after("rn_after", d(p.p1), p.p2)
    [] OTHER -> rn_notAllowed

(* No more attributes: those still required are missing. *)
RECURSIVE start_tag_close(_, _)
start_tag_close(p, recover) ==
  LET d(q) == start_tag_close(q, recover) IN
  CASE p.t = "choice" -> rn_choice(d(p.p1), d(p.p2))
    [] p.t = "interleave" -> rn_ileave(d(p.p1), d(p.p2))
    [] p.t = "group" -> rn_group(d(p.p1), d(p.p2))
    [] p.t = "oneOrMore" -> rn_one_or_more(d(p.p1))
    [] p.t = "attribute" -> IF recover THEN rn_empty ELSE rn_notAllowed
    [] p.t = "after" -> rn_after(d(p.p1), p.p2)
    [] OTHER -> p

(* The structural cases that text and mixed_text share; d is the function  *)
(* itself.                                                                 *)
ThroughText(d(_), p) ==
  CASE p.t = "text" -> p
    [] p.t = "after" -> rn_after(d(p.p1), p.p2)
    [] p.t = "choice" -> rn_choice(d(p.p1), d(p.p2))
    [] p.t = "interleave" -> rn_choice(rn_ileave(d(p.p1), p.p2), rn_ileave(p.p1, d(p.p2)))
    [] p.t = "group" ->
         LET p11 == rn_group(d(p.p1), p.p2) IN
         IF rn_nullable(p.p1) THEN rn_choice(p11, d(p.p2)) ELSE p11
    [] p.t = "oneOrMore" -> rn_group(d(p.p1), rn_choice(p, rn_empty))
    [] OTHER -> rn_notAllowed

Accept(b) == IF b THEN rn_empty ELSE rn_notAllowed

(* The whole of an element's or attribute's text; a list is matched word   *)
(* by word.                                                                *)
RECURSIVE text(_, _)
text(p, s) ==
  CASE p.t = "list" -> Accept(rn_nullable(FoldLeft(text, p.p1, Words(s))))
    [] p.t = "data" -> Accept(allows(p.dt, s))
    [] p.t = "dataExcept" -> Accept(text(p.p1, s) = rn_empty /\ ~rn_nullable(text(p.p2, s)))
    [] p.t = "value" -> Accept(equal(p.dt, p.val, s))
    [] OTHER -> ThroughText(LAMBDA q : text(q, s), p)

(* Slip: white space is only ever text. *)
textws_strict(p, s) == text(p, s)

(* White space may also be no text at all. *)
textws(p, s) == IF whitespace(s) THEN rn_choice(p, text(p, s)) ELSE text(p, s)

RECURSIVE mixed_text(_)
mixed_text(p) ==
  IF p.t \in {"list", "data", "dataExcept", "value"}
  THEN rn_notAllowed
  ELSE ThroughText(mixed_text, p)

(* The innermost element is over; with recover, whatever it still needs. *)
RECURSIVE end_tag(_, _)
end_tag(p, recover) ==
  CASE p.t = "choice" -> rn_choice(end_tag(p.p1, recover), end_tag(p.p2, recover))
    [] p.t = "after" -> IF rn_nullable(p.p1) \/ recover THEN p.p2 ELSE rn_notAllowed
    [] OTHER -> rn_notAllowed

-----------------------------------------------------------------------------
(* The interface of drv.h; the _recover functions resume after an error.   *)
drv_start_tag_open(p, qn) == start_tag_open(p, qn, FALSE)
drv_start_tag_open_recover(p, qn) == start_tag_open(p, qn, TRUE)
drv_attribute_open(p, qn) == attribute_open(p, qn)
drv_attribute_open_recover(p, qn) == p
drv_attribute_close(p) == end_tag(p, FALSE)
drv_attribute_close_recover(p) == end_tag(p, TRUE)
drv_start_tag_close(p) == start_tag_close(p, FALSE)
drv_start_tag_close_recover(p) == start_tag_close(p, TRUE)
drv_text(p, s) == textws(p, s)
drv_text_recover(p, s) == p
drv_mixed_text(p) == mixed_text(p)
drv_mixed_text_recover(p) == p
drv_end_tag(p) == end_tag(p, FALSE)
drv_end_tag_recover(p) == end_tag(p, TRUE)

=============================================================================
