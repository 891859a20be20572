-------------------------------- MODULE MCRx --------------------------------
(* Expressions with their meaning, and what a caller does with them.        *)
EXTENDS Matching

MCCode == [a |-> 97, b |-> 98, c |-> 99] @@ " " :> 32 @@ "\t" :> 9 @@ "\n" :> 10
          @@ "-" :> 45 @@ "]" :> 93
Abc == {"a", "b", "c"}
MCClass == [L |-> Abc, s |-> {" ", "\t", "\n"}, NL |-> {"\n"}]
MCWhite == {" ", "\t"}

Group(rx) == <<Chr("[")>> \o rx \o <<Chr("]")>>
A == One(<<Chr("a")>>, {"a"})
B == One(<<Chr("b")>>, {"b"})
Sp == One(<<Chr(" ")>>, {" "})
AnySpace == One(<<Cls("s")>>, {" ", "\t", "\n"})
Dot == One(<<NotCls("NL")>>, Abc \cup {" ", "\t", "-"})

Characters == {A, B, Dot, AnySpace,
  One(<<Esc("-")>>, {"-"}), One(<<NotCls("L")>>, {" ", "\t", "\n", "-"}),
  \* [a-c], [ab], [^b], [a-c-[b]], [^a-b-[c]], [\]\-b], [\p{L}-[a-b]], [a-b\s]
  One(Group(<<Chr("a"), Chr("-"), Chr("c")>>), Abc),
  One(Group(<<Chr("a"), Chr("b")>>), {"a", "b"}),
  One(Group(<<Chr("^"), Chr("b")>>), {"a", "c", " ", "\t", "\n", "-"}),
  One(Group(<<Chr("a"), Chr("-"), Chr("c"), Chr("-")>> \o Group(<<Chr("b")>>)), {"a", "c"}),
  One(Group(<<Chr("^"), Chr("a"), Chr("-"), Chr("b"), Chr("-")>> \o Group(<<Chr("c")>>)),
      {" ", "\t", "\n", "-"}),
  One(Group(<<Esc("]"), Esc("-"), Chr("b")>>), {"-", "b"}),
  One(Group(<<Cls("L"), Chr("-")>> \o Group(<<Chr("a"), Chr("-"), Chr("b")>>)), {"c"}),
  One(Group(<<Chr("a"), Chr("-"), Chr("b"), Cls("s")>>), {"a", "b", " ", "\t", "\n"})}

Bounds == {<<0, 1>>, <<0, Unbounded>>, <<1, Unbounded>>, <<2, 2>>, <<0, 0>>, <<2, Unbounded>>,
           <<1, 2>>, <<0, 2>>}
Reps(xs, bounds) == {Rep(x, b[1], b[2]) : x \in xs, b \in bounds}
Joined(xs, ys) == {Cat(x, y) : x \in xs, y \in ys} \cup {Alt(x, y) : x \in xs, y \in ys}

Short == {A, B, Eps} \cup Reps({A}, {<<0, 1>>, <<1, Unbounded>>, <<1, 2>>})
Pairs == Joined(Short, Short)
Nested == Reps(Pairs, {<<0, Unbounded>>, <<1, 2>>}) \cup Joined({Alt(A, Cat(A, B))}, Pairs)

Text(chars, n) == UNION {[1 .. i -> chars] : i \in 0 .. n}
Of(asts) == {Expression(Written(e), e) : e \in asts}
Each(es, fs, texts, n) ==
  {[expressions |-> {e}, functions |-> fs, subjects |-> texts, calls |-> n] : e \in es}

-----------------------------------------------------------------------------
(* One expression, one text.                                               *)
Singles ==
  Each(Of(Characters), {"rx_match"}, Text(Abc \cup {" ", "\t", "-"}, 1), 1)
  \cup Each(Of(Pairs \cup Nested \cup Reps(Characters, Bounds)), {"rx_match"}, Text({"a", "b"}, 3), 1)

(* White space; before the end of the text only, for rx_cmatch.            *)
Spaced == {Cat(A, Cat(Sp, B)), Cat(A, Rep(Cat(Sp, A), 0, Unbounded)), Rep(Dot, 0, Unbounded),
           Cat(Sp, A), Rep(AnySpace, 1, Unbounded), Cat(A, Rep(Sp, 0, 1)), Cat(A, B)}
Spaces ==
  Each(Of(Spaced), {"rx_rmatch"}, Text({"a", "b", " ", "\t"}, 3), 1)
  \cup Each(Of(Spaced), {"rx_cmatch"},
            {t \in Text({"a", "b", " ", "\t"}, 4) : t = <<>> \/ t[Len(t)] \notin MCWhite}, 1)

(* Expressions that are not well formed, one at a time: found again after  *)
(* another one, they would be judged by the errors of that other one.      *)
Odd == {<<Chr("(")>>, <<Chr(")")>>, <<Chr("a"), Chr(")")>>, <<Chr("*")>>, <<Chr("a"), Chr("*"), Chr("*")>>,
        <<Chr("["), Chr("a")>>, <<Chr("]")>>, Group(<<>>), Group(<<Chr("a"), Chr("-")>>),
        Group(<<Chr("-"), Chr("a")>>), Group(<<Chr("a"), Chr("-"), Cls("s")>>),
        <<Chr("a"), Chr("{"), Chr("2"), Chr(","), Chr("1"), Chr("}")>>,
        <<Chr("a"), Chr("{"), Chr("2")>>, <<Chr("a"), Chr("{"), Chr("b"), Chr("}")>>,
        <<Chr("a"), Chr("{"), Esc("-"), Chr("}")>>, <<BadEsc("a")>>, <<BadCls>>, <<Chr("a"), Unfinished>>}
IllFormed ==
  Each({Expression(rx, None) : rx \in Odd}, {"rx_check", "rx_match"}, {<<"a">>}, 2)

(* Several expressions in turn, whose patterns do not all fit.             *)
Turns ==
  {[expressions |-> Of(es), functions |-> {"rx_check", "rx_match", "rx_cmatch"},
    subjects |-> {<<"a">>, <<"a", "b">>, <<" ", "b">>}, calls |-> 3] :
     es \in {{Rep(Alt(A, B), 1, Unbounded), Cat(A, Rep(B, 0, 1)), B}}}

MCSessions == Singles \cup Spaces \cup IllFormed \cup Turns

-----------------------------------------------------------------------------
(* The patterns that these expressions lead to.                            *)
MCChars == DOMAIN MCCode

RECURSIVE Closed(_, _)
Closed(old, new) ==
  IF new = {} THEN old
  ELSE LET all == old \cup new
           next == UNION {{drv(p, c) : c \in MCChars} \cup ToSet(Subterms(p)) : p \in new}
       IN  Closed(all, next \ all)

MCPatterns ==
  Closed({}, {perror, empty, notAllowed, any}
             \cup UNION {{e.parsed.p : e \in s.expressions} : s \in MCSessions})

=============================================================================
