-------------------------------- MODULE Regex -------------------------------
(***************************************************************************)
(* rx.c: the parser of the regular expressions of XML Schema and their     *)
(* derivatives.  Patterns are records as in module Pattern, whose          *)
(* constructors rx.c repeats; equality is equality of indices.             *)
(*                                                                         *)
(* An expression is a sequence of symbols, as getsym cuts them out of the  *)
(* text; a symbol knows how many errors reading it reports.  A character   *)
(* is a string, its code point is Code[c].                                 *)
(***************************************************************************)
EXTENDS Pattern

CONSTANTS
  Code,     \* [character -> code point]
  Class     \* [name of a class -> the characters in it]

Chr(c) == [sym |-> "CHR", val |-> c, errors |-> 0]
Esc(c) == [sym |-> "ESC", val |-> c, errors |-> 0]                \* \n, \(
Cls(cn) == [sym |-> "CLS", val |-> cn, errors |-> 0]              \* \s, \p{Nd}
NotCls(cn) == [sym |-> "NOT", val |-> cn, errors |-> 0]           \* \S; . is not NL
BadEsc(c) == [sym |-> "ESC", val |-> c, errors |-> 1]             \* \y
BadCls == [sym |-> "CLS", val |-> "none", errors |-> 1]           \* \p{Foo}
Unfinished == [sym |-> "END", val |-> "", errors |-> 1]           \* a last \

-----------------------------------------------------------------------------
perror == [t |-> "error"]      \* index 0, the pattern of what is not understood
empty == rn_empty
notAllowed == rn_notAllowed
any == [t |-> "any"]

newExcept(p1, p2) == [t |-> "except", p1 |-> p1, p2 |-> p2]
newRange(cf, cl) == [t |-> "range", cf |-> Code[cf], cl |-> Code[cl]]
newClass(cn) == [t |-> "class", cn |-> cn]
newChar(c) == [t |-> "char", c |-> c]

nullable(p) == rn_nullable(p)
group(p1, p2) == rn_group(p1, p2)
choice(p1, p2) == rn_choice(p1, p2)
one_or_more(p) == IF p \in {empty, notAllowed} THEN p ELSE rn_newOneOrMore(p)

(* A class symbol; 0, an unknown class, is notAllowed.                     *)
cls(s) ==
  CASE s.val = "none" -> notAllowed
    [] s.sym = "NOT" -> newExcept(any, newClass(s.val))
    [] OTHER -> newClass(s.val)

-----------------------------------------------------------------------------
(* The parser is at symbol (sym, val), has read up to ri and built p.      *)
error(s) == [s EXCEPT !.errors = @ + 1]
Built(s, p) == [s EXCEPT !.p = p]
At(s, chars) == s.sym = "CHR" /\ s.val \in chars
AtClass(s) == s.sym \in {"CLS", "NOT"}

getsym(s) ==
  IF s.ri >= Len(s.rx)
  THEN [s EXCEPT !.sym = "END"]
  ELSE LET new == s.rx[s.ri + 1]
       IN  [s EXCEPT !.ri = @ + 1, !.sym = new.sym, !.val = new.val,
                     !.errors = @ + new.errors]

chk_get(s, c) == getsym(IF At(s, {c}) THEN s ELSE error(s))

chkrch(s) == IF At(s, {"[", "]", "-"}) THEN error(s) ELSE s

Subtracts(s) == s.ri < Len(s.rx) /\ s.rx[s.ri + 1] = Chr("[")

(* Slip: of a range only the first character is kept.                      *)
Ranged_first(cf, cl) == newChar(cf)

Ranged(cf, cl) == newRange(cf, cl)

(* A range, a character or a class of a group.                             *)
Upto(s, c) ==
  IF s.sym \in {"CHR", "ESC"}
  THEN getsym(Built(chkrch(s), choice(s.p, Ranged(c, s.val))))
  ELSE getsym(error(s))

AfterOne(s, c) ==
  IF At(s, {"-"}) /\ ~Subtracts(s)
  THEN Upto(getsym(s), c)
  ELSE Built(s, choice(s.p, newChar(c)))

Member(s) ==
  IF AtClass(s)
  THEN getsym(Built(s, choice(s.p, cls(s))))
  ELSE AfterOne(getsym(chkrch(s)), s.val)

RECURSIVE Members(_)
MoreMembers(s) == IF At(s, {"]", "-"}) THEN s ELSE Members(s)
Members(s) == IF s.sym = "END" THEN error(s) ELSE MoreMembers(Member(s))

chgroup(s) == Members(Built(s, notAllowed))

Except(p1, s) == Built(s, newExcept(p1, s.p))

RECURSIVE chexpr(_)
Subtraction(s) ==
  IF At(s, {"-"})
  THEN chk_get(Except(s.p, chexpr(chk_get(getsym(s), "["))), "]")
  ELSE s

chexpr(s) ==
  Subtraction(IF At(s, {"^"}) THEN Except(any, chgroup(getsym(s))) ELSE chgroup(s))

RECURSIVE expression(_)

atom(s) ==
  LET next == getsym(s) IN
  CASE At(s, {"["}) -> chk_get(chexpr(next), "]")
    [] At(s, {"("}) -> chk_get(expression(next), ")")
    [] At(s, {"{", "?", "*", "+", "|", ")", "]", "}"}) \/ s.sym = "END" ->
         Built(getsym(error(s)), perror)
    [] AtClass(s) -> Built(next, cls(s))
    [] OTHER -> Built(next, newChar(s.val))

Digit == [d \in {"0", "1", "2", "3"} |->
            CHOOSE n \in 0 .. 3 : d = <<"0", "1", "2", "3">>[n + 1]]

RECURSIVE number(_, _)
number(s, n) ==
  IF At(s, DOMAIN Digit) THEN number(getsym(s), n * 10 + Digit[s.val])
  ELSE [at |-> s, n |-> n]

RECURSIVE Times(_, _, _)
Times(p, n, p0) == IF n = 0 THEN p ELSE Times(group(p, p0), n - 1, p0)

(* {n}, {n,} and {n,m}, with the parser after the opening brace; p0 is to  *)
(* be repeated, p is what it has become so far.                            *)
UpTo(high, low, p, p0) ==
  IF high.n < low
  THEN Built(error(high.at), p)
  ELSE Built(high.at, Times(p, high.n - low, choice(empty, p0)))

AfterComma(s, low, p, p0) ==
  IF At(s, {"}"})
  THEN Built(s, group(p, choice(empty, one_or_more(p0))))
  ELSE UpTo(number(s, 0), low, p, p0)

AtLeast(s, low, p, p0) ==
  CASE s.sym # "CHR" -> Built(error(s), p)
    [] At(s, {","}) -> AfterComma(getsym(s), low, p, p0)
    [] OTHER -> Built(s, p)

quantifier(s, p0) ==
  LET low == number(s, 0)
  IN  AtLeast(low.at, low.n, Times(empty, low.n, p0), p0)

Repeated(s) ==
  CASE At(s, {"{"}) -> chk_get(quantifier(getsym(s), s.p), "}")
    [] At(s, {"?"}) -> Built(getsym(s), choice(empty, s.p))
    [] At(s, {"*"}) -> Built(getsym(s), choice(empty, one_or_more(s.p)))
    [] At(s, {"+"}) -> Built(getsym(s), one_or_more(s.p))
    [] OTHER -> s

piece(s) == Repeated(atom(s))

Grouped(p, s) == Built(s, group(p, s.p))
Chosen(p, s) == Built(s, choice(p, s.p))

RECURSIVE Pieces(_)
Pieces(s) ==
  IF s.sym = "END" \/ At(s, {"|", ")"}) THEN s ELSE Pieces(Grouped(s.p, piece(s)))

branch(s) == Pieces(Built(s, empty))

RECURSIVE Branches(_)
Branches(s) ==
  IF At(s, {"|"}) THEN Branches(Chosen(s.p, branch(getsym(s)))) ELSE s

expression(s) == Branches(branch(s))

bind(rx) == getsym([rx |-> rx, ri |-> 0, sym |-> "", val |-> "", errors |-> 0, p |-> perror])

(* What compile makes of an expression that is new: pattern and errors.    *)
Finished(s) == [p |-> s.p, errors |-> (IF s.sym = "END" THEN s ELSE error(s)).errors]
Compiled(rx) == Finished(expression(bind(rx)))

-----------------------------------------------------------------------------
in_class(c, cn) == c \in Class[cn]

IfSo(yes) == IF yes THEN empty ELSE notAllowed

RECURSIVE drv(_, _)
drv(p, c) ==
  CASE p.t = "choice" -> choice(drv(p.p1, c), drv(p.p2, c))
    [] p.t = "group" ->
         LET p11 == group(drv(p.p1, c), p.p2)
         IN  IF nullable(p.p1) THEN choice(p11, drv(p.p2, c)) ELSE p11
    [] p.t = "oneOrMore" -> group(drv(p.p1, c), choice(empty, p))
    [] p.t = "except" -> IfSo(nullable(drv(p.p1, c)) /\ ~nullable(drv(p.p2, c)))
    [] p.t = "range" -> IfSo(p.cf <= Code[c] /\ Code[c] <= p.cl)
    [] p.t = "class" -> IfSo(in_class(c, p.cn))
    [] p.t = "any" -> empty
    [] p.t = "char" -> IfSo(c = p.c)
    [] OTHER -> notAllowed

=============================================================================
