---------------------------- MODULE MCSchemaLoad ----------------------------
EXTENDS SchemaLoad

El(nc, p1) == [t |-> "element", nc |-> nc, p1 |-> p1, p2 |-> 0]
Choice(p1, p2) == [t |-> "choice", nc |-> "", p1 |-> p1, p2 |-> p2]
Group(p1, p2) == [t |-> "group", nc |-> "", p1 |-> p1, p2 |-> p2]
Ref(p1) == [t |-> "ref", nc |-> "", p1 |-> p1, p2 |-> 0]

Numbered(ps) == [k \in 0 .. Len(ps) - 1 |-> ps[k + 1]]

(* The patterns that can be made of the patterns and references older.     *)
Over(older) ==
  {El("a", c) : c \in older}
    \cup {Choice(c[1], c[2]) : c \in {d \in older \X older : d[1] < d[2]}}
    \cup {Group(c[1], c[2]) : c \in (older \ {0}) \X (older \ {0})}

(* start = element r { p }, or with inner element r { element s { p } },    *)
(* where p is the last of n patterns over one reference.                    *)
OneRef(n, inner) ==
  LET Pats[k \in 0 .. n] ==
        IF k = 0 THEN {<<>>}
        ELSE {Append(s, p) : s \in Pats[k - 1], p \in Over(0 .. k)}
      top == IF inner THEN <<El("s", n + 1), El("r", n + 2)>> ELSE <<El("r", n + 1)>>
      Parsed(r, ps) == Numbered(<<Empty, Ref(r)>> \o ps \o top)
  IN {s \in {[pat |-> Parsed(r, ps), start |-> n + 1 + Len(top)] :
                ps \in Pats[n], r \in 0 .. n + 1 + Len(top)} : IsSchema(s)}

(* Chains of two references, closed or not:                                *)
(* start = element r { element s { (x | empty), (y | element a { x }) } }  *)
(* or start = x, for any x and y that do not begin in element a.           *)
Chains ==
  {[pat |-> Numbered(<<Empty, Ref(r[1]), Ref(r[2]), El("a", 1), Choice(1, 0), Choice(2, 3),
                       Group(4, 5), El("s", 6), El("r", 7)>>),
    start |-> r[3]] :
     r \in ((0 .. 8) \X (0 .. 8) \X {8}) \cup ({1, 2, 8} \X {1, 2, 8} \X {1})}

(* A = a { empty | b { A } }, beside the same without reference.  Merging  *)
(* one pair of patterns makes their parents equal, three times over.       *)
Cascade ==
  [pat |-> Numbered(<<Empty, Ref(0), El("a", 1), El("a", 0), Choice(2, 1), Choice(3, 0),
                      El("b", 4), El("b", 5), Group(6, 7), El("r", 8)>>),
   start |-> 9]

(* r { a { b { c { empty } } }, a { b { C } } }, C = c { empty }, where the   *)
(* parents are older than their children: a merger shows one level up only *)
(* in the next round.                                                      *)
Climb ==
  [pat |-> Numbered(<<Empty, Ref(8), Ref(9), Ref(0), El("a", 1), El("a", 2), El("c", 3), El("c", 0),
                      El("b", 6), El("b", 7), Group(4, 5), El("r", 10)>>),
   start |-> 11]

(* A = a { B | b { empty } }, start = A | b { empty }, and the like: when  *)
(* the references are gone the start pattern can equal an older one.       *)
Twins ==
  {[pat |-> Numbered(<<Empty, Ref(r[1]), Ref(r[2]), El("b", 0), Choice(1, 3), El("a", 4),
                       Choice(2, 3)>>),
    start |-> 6] : r \in {2, 3, 5} \X {3, 5}}

(* C = A | b { empty }, A = a { C }, start = A | b { empty }: the start     *)
(* pattern is a copy of an older one.                                      *)
Copy ==
  [pat |-> Numbered(<<Empty, Ref(5), Ref(4), El("b", 0), El("a", 1), Choice(4, 3), Choice(2, 3)>>),
   start |-> 6]

(* start = element r { b }, b = b, or b = c, c = b: the reference is still  *)
(* there when the nullable flags are to be set.                             *)
Overlooked ==
  {[pat |-> Numbered(<<Empty, Ref(1), El("r", 1)>>), start |-> 2],
   [pat |-> Numbered(<<Empty, Ref(2), Ref(1), El("r", 2)>>), start |-> 3]}

(* The schemas that are loaded as they should be, with a start element     *)
(* whose content does not begin with a loop and a start pattern that is    *)
(* merged once at most, and two that end in the assertion of traits.       *)
MCSchemas ==
  OneRef(3, TRUE) \cup Chains \cup {Cascade, Climb, Copy} \cup Twins \cup Overlooked

(* start = a, a = b, b = c, c = b *)
MCCircles ==
  {[pat |-> Numbered(<<Empty, Ref(2), Ref(3), Ref(2), El("r", 1)>>), start |-> s] : s \in {1, 4}}

=============================================================================
