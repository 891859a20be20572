-------------------------------- MODULE MCArx --------------------------------
(* A schema as in the manual, for any content, one that allows nothing but  *)
(* text and one that asks for an attribute; documents for which each is     *)
(* decided at another event; and configuration files with and without       *)
(* mistakes, one or two of them.                                            *)
EXTENDS Arx

El(name, def) == rn_newElement(rn_newQName("", name), def)
Star(p) == rn_choice(rn_one_or_more(p), rn_empty)
AnyEl(def) == rn_newElement(rn_newAnyName, def)
AnyAtts == rn_newAttribute(rn_newAnyName, rn_text)

MCContent == [
  \* any = (element * { any } | attribute * { text } | text)*
  any |-> Star(rn_choice(rn_choice(AnyEl("any"), AnyAtts), rn_text)),
  \* (element * { empty } | text)*
  flat |-> Star(rn_choice(AnyEl("empty"), rn_text)),
  empty |-> rn_empty,
  \* attribute x { text }, element a { text }
  record |-> rn_group(rn_newAttribute(rn_newQName("", "x"), rn_text), El("a", "text")),
  text |-> rn_text ]

Name(S) == [t |-> "name", of |-> S]
MC_rx_match(r, name) == name \in r.of

MC_xsd_allows(typ, s) == FALSE
MC_xsd_equal(typ, val, s) == FALSE

Node(name, atts, kids) == [qn |-> <<"", name>>, atts |-> atts, kids |-> kids]
X == << << <<"", "x">>, <<"1">> >> >>
A(kids) == Node("a", <<>>, kids)

Roots == {
  A(<<>>),
  A(<<Text(<<"1", " ">>), A(<<>>)>>),
  A(<<A(<<A(<<Text(<<"1">>)>>)>>), Text(<<" ">>)>>),
  Node("a", X, <<A(<<Text(<<"1">>)>>)>>),
  Node("b", <<>>, <<A(<<>>), Text(<<"1">>)>>) }

MCDocuments ==
  {d \in {[name |-> "n", readable |-> TRUE, root |-> r, broken |-> b] : r \in Roots, b \in {0, 1, 4}} :
     d.broken <= Len(ElementEvents(d.root))}
    \cup {[name |-> "n", readable |-> FALSE, root |-> A(<<>>), broken |-> 0]}

Decls == << <<"t", "1">>, <<"u", "2">>, <<"t", "3">> >>

Route(kind, arg, typ) == [kind |-> kind, arg |-> arg, type |-> typ]
Grams == {El("a", def) : def \in DOMAIN MCContent \ {"empty"}}
Matchers == {Route(k, g, "t") : k \in {"valid", "!valid"}, g \in Grams}
              \cup {Route(k, Name({"n"}), "t") : k \in {"=~", "!~"}}
Mistaken == {Route("valid", Bad, "u"), Route("=~", Bad, "u"), Route("=~", Name({"n"}), "v")}

File(routes, lost) == [decls |-> Decls, routes |-> routes, lost |-> lost]
ByName == Route("=~", Name({"n"}), "u")

Sound == {File(<<m, n>>, 0) : m, n \in Matchers}
Losses(f) == {[f EXCEPT !.lost = n] : n \in {k \in DOMAIN Whole(f) : Whole(f)[k].sym \notin {"valid", "!valid"}}}
Faulty == {File(<<m, Route("!~", Name({"n"}), "t")>>, 0) : m \in Mistaken}
            \cup Losses(File(<<Route("=~", Name({"n"}), "t"), Route("valid", El("a", "any"), "t")>>, 0))

MCConfigs == {<<f>> : f \in Sound \cup Faulty} \cup {<<f, File(<<ByName>>, 0)>> : f \in Faulty \cup Sound}

=============================================================================
