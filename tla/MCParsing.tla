------------------------------ MODULE MCParsing -----------------------------
EXTENDS Parsing

SeqUpTo(S, n) == UNION {[1 .. k -> S] : k \in 0 .. n}

X == Name("", "x")
Y == Name("", "y")
Empty == Leaf("empty")
Text == Leaf("text")

Grammar(body) == [decls |-> <<>>, t |-> "contents", body |-> body]
InBrackets(body) == [decls |-> <<>>, t |-> "braces", body |-> body]
Single(p) == [decls |-> <<>>, t |-> "pattern", body |-> <<p>>]
Main(f) == "main" :> f
With(f, part) == ("main" :> f) @@ ("part" :> part)

(* Annotations, by the places they are put in. *)
Plain == [slot |-> <<>>, behind |-> <<>>, between |-> <<>>]
Attributes == <<Tok("["), QName("p", "k"), Tok("="), Lit("v"), Tok("~"), Lit("w"), Tok("]")>>
Foreign == <<Id("k"), Tok("["), Id("k"), Tok("="), Lit("v"), QName("p", "k"), Tok("["), Lit("v"),
             Tok("]"), Tok("]")>>
Documented == [Plain EXCEPT !.slot = <<Tok("##"), Tok("##")>> \o Attributes]
Annotated == [slot |-> <<Tok("##")>>, between |-> Foreign,
              behind |-> <<Tok(">>"), QName("p", "k"), Tok("["), Id("k"), Tok("["), Tok("]"), Tok("]"),
                           Tok(">>"), Id("k"), Tok("["), Tok("]")>>]

(* Styles: everyday, as tight and as loose as can be. *)
Everyday == [gap |-> <<" ">>, quote |-> <<"\"">>, eol |-> <<"\n">>, coded |-> {}, exes |-> <<"x">>,
             backslash |-> FALSE, head |-> <<>>, tail |-> <<"\n">>]
Tight == [Everyday EXCEPT !.gap = <<>>, !.quote = <<"'">>, !.eol = <<"\r">>, !.backslash = TRUE,
                          !.tail = <<>>]
Loose == [gap |-> <<"\r", "\n", "\t", "#", "v", "#", "#", "\r", "\n">>, quote |-> <<"'", "'", "'">>,
          eol |-> <<"\r", "\n">>, coded |-> {"a", "{", "x", "\n"}, exes |-> <<"x", "x">>,
          backslash |-> FALSE, head |-> <<BOM, "\r">>, tail |-> <<"#", "v">>]
Styles == {Everyday, Tight, Loose}

Case(fs, notes) == [fs |-> fs, notes |-> notes, style |-> Everyday]
Styled(fs, notes, st) == [fs |-> fs, notes |-> notes, style |-> st]

-----------------------------------------------------------------------------
(* Definitions and what they are combined with, in any order.              *)
Nest(def) == SubGrammar(<<Def("", "=", Elem(X, Op(",", ParentRef(def), RefTo("a")))),
                          Def("a", "=", Attr(X, Text))>>)

Part == Grammar(<<Def("a", "=", Elem(Y, RefTo("b"))), Def("b", "|=", Text)>>)
PartWithStart == InBrackets(<<Def("", "=", RefTo("a")), Div(<<Def("a", "&=", Elem(Y, Empty))>>)>>)

Pieces ==
  {Def("a", "=", Elem(X, Op("|", Text, RefTo("a")))), Def("a", "|=", Elem(Y, Empty)),
   Def("a", "&=", Attr(X, Text)), Def("b", "=", RefTo("a")), Def("b", "|=", Empty),
   Def("", "=", RefTo("a")), Def("", "|=", RefTo("b")), Def("", "=", Nest("b")),
   Def("", "&=", SubGrammar(<<Div(<<Def("", "=", Nest("a"))>>), Def("a", "=", ParentRef("a"))>>)),
   Div(<<Def("", "=", RefTo("b")), Def("b", "&=", Text)>>),
   Incl("part", None, <<>>), Incl("part", None, <<Def("a", "=", Text)>>),
   Incl("part", None, <<Def("b", "=", Text)>>),
   Incl("part", None, <<Def("a", "|=", Empty), Div(<<Def("b", "|=", RefTo("a"))>>)>>),
   Def("b", "=", Extern("whole", None))}

Bodies == {Case(With(Grammar(body), Part) @@ ("whole" :> PartWithStart), Plain) : body \in SeqUpTo(Pieces, 3)}
            \cup {Case(With(InBrackets(body), PartWithStart) @@ ("whole" :> PartWithStart), Annotated) : body \in SeqUpTo(Pieces, 2)}

-----------------------------------------------------------------------------
(* Patterns, simple ones and combined twice over.                          *)
Simple == {Empty, Text, Leaf("notAllowed"), Elem(X, Text), Const("", "", "v"),
           Typed("", "string", <<>>), Typed("xsd", "int", << <<"max", "9">> >>)}
Twice(Ps) ==
  {Op(op, p, q) : op \in {",", "|", "&"}, p \in Ps, q \in Ps}
    \cup {Rep(op, p) : op \in {"?", "*", "+"}, p \in Ps}
    \cup {Inside(word, p) : word \in {"list", "mixed"}, p \in Ps}
Others ==
  {But(Typed("xsd", "int", <<>>), Op("|", Const("xsd", "int", "1"), Const("", "token", "v"))),
   But(Typed("", "token", << <<"text", "v">>, <<"max", "9">> >>), Const("", "string", "v")),
   But(Text, Const("", "", "v")), Typed("d", "t", <<>>), Const("d", "t", "v"),
   RefTo("a"), ParentRef("a"), Extern("nowhere", None)}

Few == {Text, Elem(X, Text)}
Patterns ==
  {Case(Main(Single(Elem(X, p))), notes) :
     p \in Simple \cup Others \cup Twice(Simple), notes \in {Plain, Documented, Annotated}}
    \cup {Case(Main(Single(p)), Plain) : p \in Twice(Twice(Few))}

-----------------------------------------------------------------------------
(* Names and namespaces, in a file and in another that inherits them.      *)
Classes == {X, Name("p", "y"), AllNs("p"), Star, Name("xml", "lang")}
NameClasses ==
  Classes \cup {Minus(n1, n2) : n1 \in Classes, n2 \in Classes}
    \cup {Or(n1, n2) : n1 \in Classes, n2 \in Classes \cup {Minus(Star, X), Or(X, Y)}}
    \cup {Minus(Star, Or(AllNs("p"), Name("", "x")))}

Decls == {Ns("p", "u1"), Ns("p", "u2"), DefaultNs("", "u1"), DefaultNs("p", "u2"),
          Ns("p", Inherited), DefaultNs("", Inherited), Ns("xml", "u1"), Ns("parent", "u1"),
          DatatypesDecl("d", "u1"), DatatypesDecl("xsd", "u2"), DatatypesDecl("p", "u1")}

Declaring(ds, f) == [f EXCEPT !.decls = ds]
NamesUsed == Single(Elem(X, Op(",", Attr(Y, Text), Elem(Name("p", "y"), Attr(Name("p", "x"), Text)))))
Typing == Single(Elem(X, Op(",", Typed("d", "t", <<>>), Const("xsd", "int", "1"))))

Naming ==
  {Case(Main(Declaring(<<Ns("p", "u1"), DefaultNs("", "u2")>>, Single(Elem(nc, Attr(nc, Text))))), Plain) :
     nc \in NameClasses}
  \cup {Case(Main(Declaring(ds, f)), Plain) : ds \in SeqUpTo(Decls, 2), f \in {NamesUsed, Typing}}
  \cup {Case(With(Declaring(outer, Single(Elem(X, Extern("part", inh)))), Declaring(inner, NamesUsed)), Plain) :
          outer \in SeqUpTo(Decls, 1), inner \in SeqUpTo(Decls, 1), inh \in {None, "p", "q"}}
  \cup {Case(With(Declaring(outer, Grammar(<<Incl("part", inh, <<>>), Def("", "=", Elem(X, RefTo("a")))>>)),
                  Declaring(inner, Grammar(<<Def("a", "=", Elem(X, Attr(Name("p", "y"), Text)))>>))), Plain) :
          outer \in SeqUpTo(Decls, 1), inner \in SeqUpTo(Decls, 2), inh \in {None, "p"}}
  \cup {Case(With(Grammar(<<Def("", "=", Elem(X, Extern("part", None))), Def("a", "=", Text)>>), f), Plain) :
          f \in {PartWithStart, Single(RefTo("a")), Single(ParentRef("a")),
                 InBrackets(<<Def("", "=", Op("|", RefTo("b"), ParentRef("a"))), Def("b", "=", Empty)>>)}}

-----------------------------------------------------------------------------
(* Damaged text of schemas with a little of everything, at every symbol.   *)
Everything ==
  With(InBrackets(<<Incl("part", "xml", <<Div(<<Def("a", "=", Text)>>)>>), Div(<<Def("", "=", Nest("b"))>>)>>),
       Declaring(<<Ns("p", "u1"), DefaultNs("q", Inherited), DatatypesDecl("d", "u2")>>,
                 Grammar(<<Def("a", "=", Elem(Minus(Star, Name("p", "x")), RefTo("b"))),
                           Def("b", "|=", Op("|", But(Typed("d", "t", << <<"max", "9">> >>), Const("", "", "v")),
                                             Rep("?", Inside("list", Const("xsd", "int", "1")))))>>)))
Short ==
  With(Single(Elem(X, Op(",", Extern("part", "xml"), Attr(Or(X, Y), Op("|", Text, Empty))))),
       InBrackets(<<Def("", "=", RefTo("b")), Def("b", "=", Empty)>>))

-----------------------------------------------------------------------------
(* Any two symbols, next to each other.                                    *)
Raw(syms) == [decls |-> <<>>, t |-> "raw", body |-> syms]
SomeSymbols ==
  {Tok(sym) : sym \in {"=", "|=", "&=", ",", "|", "&", "?", "*", "+", "-", "~", "(", ")", "{", "}",
                       "[", "]", ">>", "##", "element", "start", "text", "grammar"} \cup Slips}
    \cup {Id(n) : n \in {"x", "xx", "a", "start"}} \cup {QName("p", "x"), NsName("a")}
    \cup {Lit(str) : str \in {"", "x", "v\nw", "'", "\"", "''v"}}
Adjacent == {Main(Raw(<<sym1, sym2>>)) : sym1 \in SomeSymbols, sym2 \in SomeSymbols}

MCLetters ==
  Keywords \cup {"x", "y", "a", "b", "k", "p", "q", "d", "t", "v", "int", "max", "lang", "xml", "xmlns", "xsd"}
MCCodes == ("a" :> <<"6", "1">>) @@ ("{" :> <<"7", "b">>) @@ ("x" :> <<"0", "7", "8">>) @@ ("\n" :> <<"A">>)
MCChr(code) ==
  CASE code = 97 -> "a" [] code = 123 -> "{" [] code = 120 -> "x" [] code = 10 -> "\n" [] code = 96 -> "%"
MCChars(str) ==
  CASE str = "" -> <<>> [] str = "v\nw" -> <<"v", "\n", "w">> [] str = "xx" -> <<"x", "x">> [] str = "''v" -> <<"'", "'", "v">>
    [] str = "|=" -> <<"|", "=">> [] str = "&=" -> <<"&", "=">> [] OTHER -> <<str>>

MCUninit == Tok("unread")
MCFragile == {Everything, Short}
MCStrays == {"]", "{", ")", "start", "open"}
MCCases ==
  Bodies \cup Patterns \cup Naming
    \cup {Case(fs, notes) : fs \in MCFragile, notes \in {Plain, Annotated}}
    \cup {Styled(Short, Plain, st) : st \in Styles}
    \cup {Styled(fs, Plain, st) : fs \in Adjacent, st \in Styles}
MCProbes ==
  {Styled(Main(Single(Elem(X, Nest("a")))), Plain, Tight), Case(Main(Grammar(<<Def("", "=", RefTo("a"))>>)), Plain)}

=============================================================================
