--------------------------- MODULE MCRestrictions ---------------------------
(* Patterns of three levels, as the constructors leave them: in an element, *)
(* in an element beside another, and as start pattern.                      *)
EXTENDS Restrictions

Name(n) == rn_newQName("", n)
A == rn_newElement(Name("a"), "a")
B == rn_newElement(Name("b"), "b")
Data == rn_newData(<<"xsd", "int">>)
Leaves == {rn_notAllowed, rn_empty, rn_text, Data, rn_newValue(<<"", "token">>, "1"), B}

Over(ps) == {rn_one_or_more(p) : p \in ps} \cup {rn_newList(p) : p \in ps}
            \cup {rn_newAttribute(Name("x"), p) : p \in ps}
Of(ps, qs) == {rn_choice(p, q) : p \in ps, q \in qs} \cup {rn_group(p, q) : p \in ps, q \in qs}
              \cup {rn_ileave(p, q) : p \in ps, q \in qs}
Except(ps) == {rn_newDataExcept(Data, p) : p \in ps}

Two == Leaves \cup Over(Leaves) \cup Of(Leaves, Leaves) \cup Except(Leaves)
Plain == {p \in Two : p.t # "dataExcept"}
Few == {rn_text, Data, B, rn_newAttribute(Name("x"), rn_text)}
Three == Two \cup Over(Two) \cup Of(Two, Few) \cup Of(Few, Two) \cup Except(Plain)
Four == Over({p \in Three : p.t \in {"group", "interleave", "oneOrMore", "dataExcept"}})

Schema(start, a, b) ==
  [start |-> start, elements |-> <<A, B>>, content |-> [a |-> a, b |-> b]]

MCSchemas == {Schema(A, p, rn_empty) : p \in Three \cup Four}
             \cup {Schema(A, p, q) : p \in Two, q \in {rn_newAttribute(Name("x"), B), Data}}
             \cup {Schema(p, rn_text, rn_empty) : p \in Two}

=============================================================================
