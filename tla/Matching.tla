------------------------------ MODULE Matching ------------------------------
(***************************************************************************)
(* Module Rx over the expressions and patterns of module Regex, compared   *)
(* with what rx.h says of the functions, and with a reference of what the  *)
(* regular expressions of XML Schema (part 2, appendix F) mean, and how    *)
(* they are written.                                                       *)
(*                                                                         *)
(* An expression is one character out of a set, the empty string, a        *)
(* sequence, an alternative or a repetition; hi = Unbounded stands for no  *)
(* upper bound.                                                            *)
(***************************************************************************)
EXTENDS Rx, Regex

Unbounded == -1

One(rx, set) == [t |-> "one", rx |-> rx, set |-> set]
Eps == [t |-> "eps"]
Cat(l, r) == [t |-> "cat", l |-> l, r |-> r]
Alt(l, r) == [t |-> "alt", l |-> l, r |-> r]
Rep(x, lo, hi) == [t |-> "rep", x |-> x, lo |-> lo, hi |-> hi]

Tail_(s, i) == SubSeq(s, i + 1, Len(s))

RECURSIVE Accepts(_, _)
Accepts(e, s) ==
  CASE e.t = "one" -> Len(s) = 1 /\ s[1] \in e.set
    [] e.t = "eps" -> s = <<>>
    [] e.t = "cat" -> \E i \in 0 .. Len(s) :
                        Accepts(e.l, SubSeq(s, 1, i)) /\ Accepts(e.r, Tail_(s, i))
    [] e.t = "alt" -> Accepts(e.l, s) \/ Accepts(e.r, s)
    [] e.t = "rep" ->
         LET less == Rep(e.x, IF e.lo = 0 THEN 0 ELSE e.lo - 1,
                         IF e.hi = Unbounded THEN Unbounded ELSE e.hi - 1)
         IN  \/ s = <<>> /\ e.lo = 0
             \/ /\ e.hi # 0
                /\ \E i \in (IF e.lo > 0 THEN 0 ELSE 1) .. Len(s) :
                     Accepts(e.x, SubSeq(s, 1, i)) /\ Accepts(less, Tail_(s, i))

Digits(n) == << Chr(<<"0", "1", "2", "3">>[n + 1]) >>
InBraces(rx) == <<Chr("{")>> \o rx \o <<Chr("}")>>
InParens(rx) == <<Chr("(")>> \o rx \o <<Chr(")")>>

Quantified(lo, hi) ==
  CASE <<lo, hi>> = <<0, 1>> -> <<Chr("?")>>
    [] <<lo, hi>> = <<0, Unbounded>> -> <<Chr("*")>>
    [] <<lo, hi>> = <<1, Unbounded>> -> <<Chr("+")>>
    [] lo = hi -> InBraces(Digits(lo))
    [] lo > 1 /\ hi = Unbounded -> InBraces(Digits(lo) \o <<Chr(",")>>)
    [] OTHER -> InBraces(Digits(lo) \o <<Chr(",")>> \o Digits(hi))

RECURSIVE Written(_)
Written(e) ==
  CASE e.t = "one" -> e.rx
    [] e.t = "eps" -> <<>>
    [] e.t = "cat" ->
         LET Part(x) == IF x.t = "alt" THEN InParens(Written(x)) ELSE Written(x)
         IN  Part(e.l) \o Part(e.r)
    [] e.t = "alt" -> Written(e.l) \o <<Chr("|")>> \o Written(e.r)
    [] e.t = "rep" ->
         (IF e.x.t = "one" THEN Written(e.x) ELSE InParens(Written(e.x)))
           \o Quantified(e.lo, e.hi)

(* A text, what it means if it is well formed, and what the parser of rx.c *)
(* makes of it.                                                            *)
Expression(rx, means) == [rx |-> rx, means |-> means, parsed |-> Compiled(rx)]

-----------------------------------------------------------------------------
Binary == {"choice", "group", "except"}

Referred(p) ==
  CASE p.t \in Binary -> <<p.p1, p.p2>>
    [] p.t = "oneOrMore" -> <<p.p1>>
    [] OTHER -> <<>>

RECURSIVE Subterms(_)
Subterms(p) ==
  Append(FlattenSeq([k \in DOMAIN Referred(p) |-> Subterms(Referred(p)[k])]), p)

(* The switch of drv.                                                      *)
SwitchAsks(p, k, got) ==
  CASE p.t = "group" -> k = 1 \/ (got[1] # None /\ nullable(p.p1))
    [] p.t = "except" -> k = 1 \/ (got[1] # None /\ nullable(got[1]))
    [] OTHER -> TRUE

SwitchMakes(p, c, got) ==
  CASE p.t = "choice" -> choice(got[1], got[2])
    [] p.t = "group" ->
         LET p11 == group(got[1], p.p2)
         IN  IF nullable(p.p1) THEN choice(p11, got[2]) ELSE p11
    [] p.t = "oneOrMore" -> group(got[1], choice(empty, p))
    [] p.t = "except" -> IfSo(nullable(got[1]) /\ ~nullable(got[2]))
    [] OTHER -> drv(p, c)

-----------------------------------------------------------------------------
(* The subject as a function reads it: as it is, with white space replaced *)
(* by spaces, or collapsed.                                                *)
Replaced(s) == [i \in DOMAIN s |-> Space(s[i])]
Collapsed(s) ==
  LET r == Replaced(s)
      Kept(i) == r[i] # " " \/ /\ i > 1 /\ r[i - 1] # " "
                               /\ \E j \in i .. Len(r) : r[j] # " "
      at == SelectSeq([i \in DOMAIN r |-> i], Kept)
  IN  [i \in DOMAIN at |-> r[at[i]]]

Subject(f, s) ==
  CASE f = "rx_match" -> s [] f = "rx_rmatch" -> Replaced(s) [] f = "rx_cmatch" -> Collapsed(s)

(* Whatever was called before, an expression is accepted by rx_check       *)
(* exactly if it is well formed, and matches exactly the texts the         *)
(* definition of the language says (rx.h).                                 *)
AnswersAsDocumented ==
  ret # None =>
    LET well == ret.e.means # None
    IN  ret.val = IF ret.f = "rx_check"
                  THEN IF well THEN 1 ELSE 0
                  ELSE IF well /\ Accepts(ret.e.means, Subject(ret.f, ret.s)) THEN 1 ELSE 0

=============================================================================
