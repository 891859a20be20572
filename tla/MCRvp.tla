------------------------------- MODULE MCRvp --------------------------------
(* One grammar with pattern 4.  Its text may be "x", with a remark, and     *)
(* leads to 5; other text is an error, with a message longer than one read, *)
(* and leads astray, to notAllowed (2); white space between tags changes    *)
(* nothing.  And a query of each kind that is not understood.               *)
EXTENDS Rvp

Q(kwd, no, name, text) == [kwd |-> kwd, no |-> no, name |-> name, text |-> text]
notAllowed == 2

MCStarts == <<4>>

Opened == Q("start-tag-open", 4, "a", Missing)
Good == Q("text", 4, Missing, "x")
Wrong == Q("text", 4, Missing, "y")
Astray == Q("end-tag", notAllowed, "a", Missing)
Blank == Q("mixed", 5, Missing, " ")

MCRnv ==
  [q \in {Opened, Good, Wrong, Astray, Blank} |->
     CASE q = Opened -> [ok |-> FALSE, patno |-> notAllowed, prev |-> FALSE, erno |-> 8, said |-> 2]
       [] q = Good -> [ok |-> TRUE, patno |-> 5, prev |-> FALSE, erno |-> 7, said |-> 1]
       [] q = Wrong -> [ok |-> FALSE, patno |-> notAllowed, prev |-> FALSE, erno |-> 9, said |-> 3]
       [] q = Astray -> [ok |-> FALSE, patno |-> notAllowed, prev |-> TRUE, erno |-> 9, said |-> 1]
       [] q = Blank -> [ok |-> TRUE, patno |-> 5, prev |-> Unset, erno |-> 0, said |-> 0] ]

MCQuery ==
  DOMAIN MCRnv \cup
  {Q("start", 0, Missing, Missing), Q("start", 1, Missing, Missing),
   Q("text", 0, Missing, Missing), Q("start-tag-close", 4, Missing, Missing),
   Q("attribute", 4, "a", Missing), Q("odd", 0, Missing, Missing), Q("quit", 0, Missing, Missing)}

MCSize ==
  [q \in MCQuery |-> CASE q = Wrong -> 3 [] q.kwd \in {"start", "mixed"} -> 2 [] OTHER -> 1]

=============================================================================
