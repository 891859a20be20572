------------------------------ MODULE Pattern -------------------------------
(***************************************************************************)
(* rn.c: patterns, name classes and the constructors that keep patterns    *)
(* small.  rn.c stores every pattern once (accept_p) and names it by its   *)
(* index, so two indices are equal exactly when the patterns are; here a   *)
(* pattern is a record and equality is equality.  An element refers to its *)
(* content by the name of a definition, which is how a pattern may contain *)
(* itself.                                                                 *)
(***************************************************************************)
EXTENDS Integers, Sequences

rn_notAllowed == [t |-> "notAllowed"]
rn_empty == [t |-> "empty"]
rn_text == [t |-> "text"]

rn_newChoice(p1, p2) == [t |-> "choice", p1 |-> p1, p2 |-> p2]
rn_newInterleave(p1, p2) == [t |-> "interleave", p1 |-> p1, p2 |-> p2]
rn_newGroup(p1, p2) == [t |-> "group", p1 |-> p1, p2 |-> p2]
rn_newOneOrMore(p1) == [t |-> "oneOrMore", p1 |-> p1]
rn_newList(p1) == [t |-> "list", p1 |-> p1]
rn_newData(dt) == [t |-> "data", dt |-> dt]
rn_newDataExcept(p1, p2) == [t |-> "dataExcept", p1 |-> p1, p2 |-> p2]
rn_newValue(dt, val) == [t |-> "value", dt |-> dt, val |-> val]
rn_newAttribute(nc, p1) == [t |-> "attribute", nc |-> nc, p1 |-> p1]
rn_newElement(nc, def) == [t |-> "element", nc |-> nc, def |-> def]
rn_newAfter(p1, p2) == [t |-> "after", p1 |-> p1, p2 |-> p2]

(* The flag the constructors compute and rnd.c completes for references.   *)
RECURSIVE rn_nullable(_)
rn_nullable(p) ==
  CASE p.t \in {"empty", "text"} -> TRUE
    [] p.t = "choice" -> rn_nullable(p.p1) \/ rn_nullable(p.p2)
    [] p.t \in {"interleave", "group"} -> rn_nullable(p.p1) /\ rn_nullable(p.p2)
    [] p.t = "oneOrMore" -> rn_nullable(p.p1)
    [] OTHER -> FALSE

rn_one_or_more(p) ==
  IF p \in {rn_empty, rn_notAllowed, rn_text} THEN p ELSE rn_newOneOrMore(p)

rn_group(p1, p2) ==
  CASE rn_notAllowed \in {p1, p2} -> rn_notAllowed
    [] p1 = rn_empty -> p2
    [] p1 # rn_empty /\ p2 = rn_empty -> p1
    [] OTHER -> rn_newGroup(p1, p2)

rn_ileave(p1, p2) ==
  CASE rn_notAllowed \in {p1, p2} -> rn_notAllowed
    [] p1 = rn_empty -> p2
    [] p1 # rn_empty /\ p2 = rn_empty -> p1
    [] OTHER -> rn_newInterleave(p1, p2)

rn_after(p1, p2) ==
  IF rn_notAllowed \in {p1, p2} THEN rn_notAllowed ELSE rn_newAfter(p1, p2)

(* Choices lean to the left and hold no alternative twice. *)
RECURSIVE samechoice(_, _)
samechoice(p1, p2) ==
  IF p1.t = "choice" THEN p1.p2 = p2 \/ samechoice(p1.p1, p2) ELSE p1 = p2

RECURSIVE rn_choice(_, _)
rn_choice(p1, p2) ==
  CASE p1 = rn_notAllowed -> p2
    [] p2 = rn_notAllowed -> p1
    [] p1 # rn_notAllowed /\ p2.t = "choice" -> rn_choice(rn_choice(p1, p2.p1), p2.p2)
    [] OTHER ->
         IF \/ samechoice(p1, p2)
            \/ p2 = rn_empty /\ rn_nullable(p1)
         THEN p1
         ELSE IF p1 = rn_empty /\ rn_nullable(p2) THEN p2 ELSE rn_newChoice(p1, p2)

-----------------------------------------------------------------------------
(* Name classes; a name is a pair of a namespace URI and a local name. *)
rn_newQName(uri, name) == [t |-> "qname", uri |-> uri, name |-> name]
rn_newNsName(uri) == [t |-> "nsname", uri |-> uri]
rn_newAnyName == [t |-> "anyname"]
rn_newNameClassExcept(nc1, nc2) == [t |-> "except", nc1 |-> nc1, nc2 |-> nc2]
rn_newNameClassChoice(nc1, nc2) == [t |-> "ncchoice", nc1 |-> nc1, nc2 |-> nc2]

(* drv.c: does the name belong to the class? *)
RECURSIVE ncof(_, _)
ncof(nc, qn) ==
  CASE nc.t = "qname" -> qn = <<nc.uri, nc.name>>
    [] nc.t = "nsname" -> qn[1] = nc.uri
    [] nc.t = "anyname" -> TRUE
    [] nc.t = "except" -> ncof(nc.nc1, qn) /\ ~ncof(nc.nc2, qn)
    [] nc.t = "ncchoice" -> ncof(nc.nc1, qn) \/ ncof(nc.nc2, qn)

=============================================================================
