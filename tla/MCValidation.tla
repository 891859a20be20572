---------------------------- MODULE MCValidation ----------------------------
(* Small schemas, in the compact syntax beside their definitions, that      *)
(* between them use every kind of pattern, and documents over two element   *)
(* names, two attributes, a digit and a space.                              *)
EXTENDS Validation

Builtin == ""   \* as in Derivative

El(name, def) == rn_newElement(rn_newQName("", name), def)
Att(name, p) == rn_newAttribute(rn_newQName("", name), p)
Opt(p) == rn_choice(p, rn_empty)
Star(p) == Opt(rn_one_or_more(p))

Token1 == rn_newValue(<<Builtin, "token">>, <<"1">>)
Digits == rn_newData(<<"xsd", "digits">>)
NotX == rn_newNameClassExcept(rn_newAnyName, rn_newQName("", "x"))

MCContent == [
  \* mixed { a* }
  mixed |-> rn_ileave(rn_text, Star(El("a", "nothing"))),
  nothing |-> rn_empty,
  \* attribute x { "1" }, (a | xsd:digits)
  either |-> rn_group(Att("x", Token1), rn_choice(El("a", "nothing"), Digits)),
  \* (a?, b)+ with a recursive a
  groups |-> rn_one_or_more(rn_group(Opt(El("a", "groups0")), El("b", "nothing"))),
  groups0 |-> Opt(El("a", "groups0")),
  \* list { "1", xsd:digits* }
  words |-> rn_newList(rn_group(Token1, Star(Digits))),
  \* string - string "1"
  except |-> rn_newDataExcept(rn_newData(<<Builtin, "string">>),
                              rn_newValue(<<Builtin, "string">>, <<"1">>)),
  \* attribute * - x { text }*, attribute x { "1" }?, a?
  atts |-> rn_group(rn_group(Star(rn_newAttribute(NotX, rn_text)), Opt(Att("x", Token1))),
                    Opt(El("a", "nothing"))),
  \* a & b?
  shuffled |-> rn_ileave(El("a", "nothing"), Opt(El("b", "nothing"))) ]

MCSchemas == {El("a", def) : def \in DOMAIN MCContent \ {"nothing", "groups0"}}
               \cup {rn_choice(El("b", "nothing"),
                               rn_newElement(rn_newNsName(""), "words"))}

X(v) == << <<"", "x">>, v >>
Y(v) == << <<"", "y">>, v >>
MCTags == { <<"", "a">> } \X { <<>>, <<X(<<"1">>)>>, <<X(<<>>)>>, <<Y(<<" ">>), X(<<"1">>)>> }
            \cup { << <<"", "b">>, <<>> >> }
MCChunks == {<<"1">>, <<" ">>}

(* One word of digits, with white space around it.                          *)
Digit(s) == {n \in DOMAIN s : s[n] # " "}
MC_xsd_allows(typ, s) == Digit(s) # {} /\ \A m, n \in Digit(s) : m .. n \subseteq Digit(s)
MC_xsd_equal(typ, val, s) == val = s

(* A second document, external entities and annotations for one schema and  *)
(* shorter documents only.                                                  *)
MCSession == {El("a", "either")}

Explored ==
  \/ docno <= 1 /\ xgfile = None /\ \A m \in printed : m[2] # "entity"
  \/ start \in MCSession /\ pos <= 3

=============================================================================
