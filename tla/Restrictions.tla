---------------------------- MODULE Restrictions ----------------------------
(***************************************************************************)
(* rnd.c: restrictions(), after the references are gone and no loops have  *)
(* been found (module SchemaLoad): the content types of elements and the   *)
(* paths that section 7 of the RELAX NG specification forbids.             *)
(***************************************************************************)
EXTENDS Pattern

CONSTANT Schemas    \* [start |-> pattern, content |-> [definition -> pattern]]

VARIABLES
  schema,
  flat,      \* the start pattern and the elements, in the order of deref
  i, pc,
  errors     \* <<what, where>>: the errors reported

vars == <<schema, flat, i, pc, errors>>

-----------------------------------------------------------------------------
(* Content types, in the order of their flags.  None is not a type.        *)
None == 0
CTE == 1
CTC == 2
CTS == 4

Larger(t1, t2) == IF t1 > t2 THEN t1 ELSE t2

(* Slip: nothing may stand beside an attribute.                            *)
rn_groupable_both(t1, t2) == t1 = t2 /\ t1 \in {CTC, CTE}

rn_groupable(t1, t2) == (t1 = CTC /\ t2 = CTC) \/ CTE \in {t1, t2}

RECURSIVE ctype(_)
ctype(p) ==
  CASE p.t \in {"notAllowed", "empty"} -> CTE
    [] p.t \in {"text", "element"} -> CTC
    [] p.t \in {"list", "data", "value"} -> CTS
    [] p.t = "choice" -> Larger(ctype(p.p1), ctype(p.p2))
    [] p.t \in {"interleave", "group"} ->
         IF rn_groupable(ctype(p.p1), ctype(p.p2)) THEN Larger(ctype(p.p1), ctype(p.p2)) ELSE None
    [] p.t = "oneOrMore" -> IF rn_groupable(ctype(p.p1), ctype(p.p1)) THEN ctype(p.p1) ELSE None
    [] p.t = "dataExcept" -> IF ctype(p.p2) # None THEN CTS ELSE None
    [] p.t = "attribute" -> IF ctype(p.p1) # None THEN CTE ELSE None

-----------------------------------------------------------------------------
(* The patterns below p that a path goes on through.                       *)
Parts(p) == {p[f] : f \in DOMAIN p \cap {"p1", "p2"}}

RECURSIVE bad_start(_)
bad_start(p) ==
  \/ p.t \notin {"notAllowed", "element", "choice"}
  \/ p.t = "choice" /\ \E c \in Parts(p) : bad_start(c)

(* In the code a dataExcept is taken apart by the macro for choices, whose *)
(* assertion ends the program; such schemas are left out.                  *)
RECURSIVE bad_data_except(_)
bad_data_except(p) ==
  \/ p.t \notin {"notAllowed", "value", "data", "choice"}
  \/ p.t = "choice" /\ \E c \in Parts(p) : bad_data_except(c)

RECURSIVE bad_one_or_more(_, _)
bad_one_or_more(p, in_group) ==
  \/ p.t = "attribute" /\ in_group
  \/ \E c \in Parts(p) : bad_one_or_more(c, in_group \/ p.t \in {"interleave", "group"})

RECURSIVE bad_list(_)
bad_list(p) ==
  p.t \in {"text", "interleave", "attribute", "element"} \/ \E c \in Parts(p) : bad_list(c)

RECURSIVE bad_attribute(_)
bad_attribute(p) == p.t \in {"attribute", "element"} \/ \E c \in Parts(p) : bad_attribute(c)

(* Slip: only the outermost pattern of a kind is examined.                 *)
Deeper_no(p) == {}
Deeper(p) == Parts(p)

RECURSIVE path(_)
path(p) ==
  UNION {path(c) : c \in Deeper(p)} \cup
  (CASE p.t = "dataExcept" /\ bad_data_except(p.p2) -> {"except"}
     [] p.t = "oneOrMore" /\ bad_one_or_more(p.p1, FALSE) -> {"more"}
     [] p.t = "list" /\ bad_list(p.p1) -> {"list"}
     [] p.t = "attribute" /\ bad_attribute(p.p1) -> {"attribute"}
     [] OTHER -> {})

-----------------------------------------------------------------------------
Content(p) == schema.content[p.def]
Report(what) == errors' = errors \cup {<<w, i>> : w \in what}

Advance(l) ==
  IF i < Len(flat) THEN i' = i + 1 /\ UNCHANGED pc ELSE i' = 1 /\ pc' = l

ctypes ==
  /\ pc = "ctypes"
  /\ Report(IF flat[i].t = "element" /\ ctype(Content(flat[i])) = None THEN {"ctype"} ELSE {})
  /\ Advance("paths")
  /\ UNCHANGED <<schema, flat>>

paths ==
  /\ pc = "paths"
  /\ Report((IF i = 1 /\ bad_start(flat[1]) THEN {"start"} ELSE {})
            \cup (IF flat[i].t = "element" THEN path(Content(flat[i])) ELSE {}))
  /\ Advance("done")
  /\ UNCHANGED <<schema, flat>>

InFlat(s) ==
  <<s.start>> \o SelectSeq(s.elements, LAMBDA e : e # s.start)

Init ==
  /\ schema \in Schemas
  /\ flat = InFlat(schema)
  /\ i = 1 /\ pc = "ctypes"
  /\ errors = {}

Next == ctypes \/ paths

Spec == Init /\ [][Next]_vars

-----------------------------------------------------------------------------
(* What the specification says: from p, through patterns other than        *)
(* elements, a path leads to patterns of these kinds, one after the other. *)
RECURSIVE Leads(_, _)
Leads(p, kinds) ==
  LET rest == IF p.t \in Head(kinds) THEN Tail(kinds) ELSE kinds
  IN  rest = <<>> \/ \E c \in Parts(p) : Leads(c, rest)

RECURSIVE Exceptions(_)
Exceptions(p) ==
  (IF p.t = "dataExcept" THEN {p.p2} ELSE {}) \cup UNION {Exceptions(c) : c \in Parts(p)}

(* Sections 7.1.1 to 7.1.4, but for a list in a list, which the code       *)
(* accepts.                                                                *)
Forbidden(p) ==
  {w \in {"attribute", "more", "list", "except"} :
     CASE w = "attribute" -> Leads(p, <<{"attribute"}, {"attribute", "element"}>>)
       [] w = "more" -> Leads(p, <<{"oneOrMore"}, {"group", "interleave"}, {"attribute"}>>)
       [] w = "list" -> Leads(p, <<{"list"}, {"element", "attribute", "text", "interleave"}>>)
       [] w = "except" -> \E e \in Exceptions(p) :
            Leads(e, <<{"attribute", "element", "list", "text", "group", "interleave",
                        "oneOrMore", "empty"}>>)}

(* 7.1.5 *)
ForbiddenStart(p) ==
  Leads(p, <<{"attribute", "data", "dataExcept", "value", "text", "list", "group",
              "interleave", "oneOrMore", "empty"}>>)

(* 7.2; None where there is no content type.                               *)
RECURSIVE ContentType(_)
ContentType(p) ==
  LET types == {ContentType(c) : c \in Parts(p)}
      top == CHOOSE t \in types : \A u \in types : u <= t
  IN  CASE p.t \in {"notAllowed", "empty"} -> CTE
        [] p.t \in {"text", "element"} -> CTC
        [] p.t \in {"data", "value", "list"} -> CTS
        [] p.t = "attribute" /\ None \notin types -> CTE
        [] p.t = "dataExcept" /\ ContentType(p.p2) # None -> CTS
        [] p.t = "choice" /\ None \notin types -> top
        [] /\ p.t \in {"group", "interleave", "oneOrMore"}
           /\ None \notin types
           /\ CTE \in types \/ types = {CTC} -> top
        [] OTHER -> None

Element(k) == flat[k].t = "element"

(* A schema is refused only for what section 7 forbids: restrictions()     *)
(* reports a pattern only if the specification finds fault with it, and    *)
(* with that very element.                                                 *)
RefusedForCause ==
  \A e \in errors :
    CASE e[1] = "start" -> e[2] = 1 /\ ForbiddenStart(flat[1])
      [] e[1] = "ctype" -> Element(e[2]) /\ ContentType(Content(flat[e[2]])) = None
      [] OTHER -> Element(e[2]) /\ e[1] \in Forbidden(Content(flat[e[2]]))

(* No forbidden path escapes, however deep it begins or ends, in whichever *)
(* element of the worklist, and whatever has been reported before it.      *)
ForbiddenRefused ==
  pc = "done" =>
    /\ ForbiddenStart(flat[1]) => <<"start", 1>> \in errors
    /\ \A k \in DOMAIN flat : Element(k) =>
         \A w \in Forbidden(Content(flat[k])) : <<w, k>> \in errors

=============================================================================
