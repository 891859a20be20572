------------------------------ MODULE RelaxNG -------------------------------
(***************************************************************************)
(* What it means for a document to match a pattern, as the RELAX NG        *)
(* specification (section 6) defines it and without any derivative.  It    *)
(* is the reference the validator is compared with.                        *)
(*                                                                         *)
(* An element is [qn, atts, kids]: its name, a function from the names of  *)
(* its attributes to their texts, and a sequence of elements and texts in  *)
(* which no two texts are neighbours.  A text is [str].                    *)
(***************************************************************************)
EXTENDS Derivative

IsText(n) == "str" \in DOMAIN n
Text(s) == [str |-> s]

Without(m, A) == [a \in DOMAIN m \ A |-> m[a]]
Only(m, A) == [a \in A |-> m[a]]
At(kids, I) == LET o == SetToSortSeq(I, <) IN [n \in DOMAIN o |-> kids[o[n]]]

NoAtts == [a \in {} |-> <<>>]

(* Prefixes of kids, as sets of positions. *)
Fronts(kids) == {1 .. i : i \in 0 .. Len(kids)}

RECURSIVE Matches(_, _, _)
RECURSIVE WeaklyMatches(_, _, _)

(* Atts and kids match p1 and p2 together: each takes some of the          *)
(* attributes, and of the children p1 takes those at one of the sets Is.   *)
Shared(p1, p2, atts, kids, Is) ==
  \E A \in SUBSET DOMAIN atts, I \in Is :
    /\ Matches(p1, Only(atts, A), At(kids, I))
    /\ Matches(p2, Without(atts, A), At(kids, DOMAIN kids \ I))

Nothing(atts, kids) == atts = NoAtts /\ kids = <<>>

IsData(atts, kids) == atts = NoAtts /\ Len(kids) = 1 /\ IsText(kids[1])
Str(kids) == IF kids = <<>> THEN <<>> ELSE kids[1].str

Matches(p, atts, kids) ==
  CASE p.t = "notAllowed" -> FALSE
    [] p.t = "empty" -> Nothing(atts, kids)
    [] p.t = "text" -> atts = NoAtts /\ \A n \in DOMAIN kids : IsText(kids[n])
    [] p.t = "choice" -> Matches(p.p1, atts, kids) \/ Matches(p.p2, atts, kids)
    [] p.t = "group" -> Shared(p.p1, p.p2, atts, kids, Fronts(kids))
    [] p.t = "interleave" -> Shared(p.p1, p.p2, atts, kids, SUBSET DOMAIN kids)
    [] p.t = "oneOrMore" ->
         \/ Matches(p.p1, atts, kids)
         \/ \E A \in SUBSET DOMAIN atts, I \in Fronts(kids) :
              /\ A # {} \/ I # {}
              /\ A # DOMAIN atts \/ I # DOMAIN kids
              /\ Matches(p.p1, Only(atts, A), At(kids, I))
              /\ Matches(p, Without(atts, A), At(kids, DOMAIN kids \ I))
    [] p.t = "attribute" ->
         /\ kids = <<>>
         /\ \E a \in DOMAIN atts :
              /\ DOMAIN atts = {a}
              /\ ncof(p.nc, a)
              /\ WeaklyMatches(p.p1, NoAtts, <<Text(atts[a])>>)
    [] p.t = "element" ->
         /\ atts = NoAtts
         /\ Len(kids) = 1 /\ ~IsText(kids[1])
         /\ ncof(p.nc, kids[1].qn)
         /\ WeaklyMatches(Content[p.def], kids[1].atts, kids[1].kids)
    [] p.t = "list" ->
         /\ IsData(atts, kids)
         /\ LET words == Words(Str(kids)) IN
            Matches(p.p1, NoAtts, [n \in DOMAIN words |-> Text(words[n])])
    [] p.t = "data" -> IsData(atts, kids) /\ allows(p.dt, Str(kids))
    [] p.t = "value" -> IsData(atts, kids) /\ equal(p.dt, p.val, Str(kids))
    [] p.t = "dataExcept" ->
         /\ Matches(p.p1, atts, kids)
         /\ ~Matches(p.p2, atts, kids)

(* The content of an element or attribute.  White space between elements   *)
(* is dropped; a text of white space alone may stand for no text, and no   *)
(* text for the empty string.                                              *)
WeaklyMatches(p, atts, kids) ==
  IF \A n \in DOMAIN kids : IsText(kids[n])
  THEN \/ Matches(p, atts, IF kids = <<>> THEN <<Text(<<>>)>> ELSE kids)
       \/ whitespace(Str(kids)) /\ Matches(p, atts, <<>>)
  ELSE Matches(p, atts, SelectSeq(kids, LAMBDA n : IsText(n) => ~whitespace(n.str)))

(* The document with this root element is valid. *)
Valid(start, root) == Matches(start, NoAtts, <<root>>)

=============================================================================
