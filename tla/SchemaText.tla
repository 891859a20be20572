------------------------------ MODULE SchemaText ----------------------------
(***************************************************************************)
(* Reference for module Rnc: schemas of the compact syntax, how they are   *)
(* written, and what they mean.  Includes are replaced by the definitions  *)
(* they bring in, less those that are overridden; a reference is looked up *)
(* in its grammar, or the grammar around it for a parent; prefixes are     *)
(* those of the file a name is written in.                                 *)
(*                                                                         *)
(* A file is [decls, t, body]; its body is a sequence, of one pattern for  *)
(* t = "pattern", of contents otherwise, inside grammar { } for "braces".  *)
(***************************************************************************)
EXTENDS Rnc

Ns(pfx, url) == [t |-> "namespace", pfx |-> pfx, url |-> url]
DefaultNs(pfx, url) == [t |-> "default", pfx |-> pfx, url |-> url]
DatatypesDecl(pfx, url) == [t |-> "datatypes", pfx |-> pfx, url |-> url]
Inherited == "inherit"

Name(pfx, str) == [t |-> "name", pfx |-> pfx, name |-> str]
AllNs(pfx) == [t |-> "ns", pfx |-> pfx]
Star == [t |-> "any"]
Minus(n1, n2) == [t |-> "minus", n1 |-> n1, n2 |-> n2]
Or(n1, n2) == [t |-> "or", n1 |-> n1, n2 |-> n2]

Leaf(word) == [t |-> "leaf", word |-> word]
Elem(nc, p) == [t |-> "element", nc |-> nc, p |-> p]
Attr(nc, p) == [t |-> "attribute", nc |-> nc, p |-> p]
Inside(word, p) == [t |-> "inside", word |-> word, p |-> p]        \* list, mixed
Op(op, l, r) == [t |-> "op", op |-> op, l |-> l, r |-> r]
Rep(op, p) == [t |-> "rep", op |-> op, p |-> p]
RefTo(def) == [t |-> "ref", def |-> def]
ParentRef(def) == [t |-> "parent", def |-> def]
Typed(pfx, type, ps) == [t |-> "data", pfx |-> pfx, type |-> type, params |-> ps]
Const(pfx, type, str) == [t |-> "value", pfx |-> pfx, type |-> type, str |-> str]
But(p, e) == [t |-> "but", p |-> p, e |-> e]
SubGrammar(body) == [t |-> "grammar", body |-> body]
Extern(fn, inh) == [t |-> "external", fn |-> fn, inh |-> inh]

Def(def, op, p) == [t |-> "define", name |-> def, op |-> op, p |-> p]
Div(body) == [t |-> "div", body |-> body]
Incl(fn, inh, body) == [t |-> "include", fn |-> fn, inh |-> inh, body |-> body]

-----------------------------------------------------------------------------
(* Writing.  Annotations may stand at a Slot, before what they are about,  *)
(* Behind it, or Between definitions.                                      *)
Slot == Tok("slot")
Behind == Tok("behind")
Between == Tok("between")
Braced(text) == <<Tok("{")>> \o text \o <<Tok("}")>>
Parens(text) == <<Tok("(")>> \o text \o <<Tok(")")>>
Word(w) == IF w \in Keywords THEN Tok(w) ELSE Id(w)

RECURSIVE NcText(_)
NcAtom(n) == IF n.t \in {"minus", "or"} THEN Parens(NcText(n)) ELSE NcText(n)
NcText(n) ==
  CASE n.t = "name" -> << IF n.pfx = "" THEN Id(n.name) ELSE QName(n.pfx, n.name) >>
    [] n.t = "ns" -> <<NsName(n.pfx)>>
    [] n.t = "any" -> <<Tok("*")>>
    [] n.t = "minus" -> NcAtom(n.n1) \o <<Tok("-")>> \o NcAtom(n.n2)
    [] n.t = "or" -> (IF n.n1.t = "or" THEN NcText(n.n1) ELSE NcAtom(n.n1))
                       \o <<Tok("|")>> \o NcAtom(n.n2)

InheritText(inh) == IF inh = None THEN <<>> ELSE <<Tok("inherit"), Tok("="), Word(inh)>>
TypeText(p) == << IF p.pfx = "" THEN Tok(p.type) ELSE QName(p.pfx, p.type) >>
ParamText(ps) == FlattenSeq([i \in DOMAIN ps |->
                       <<Word(ps[i][1]), Tok("="), Lit(ps[i][2])>>])

RECURSIVE PatternText(_)
RECURSIVE BodyText(_)
Atom(p) == IF p.t \in {"op", "but"} THEN Parens(PatternText(p)) ELSE PatternText(p)
LeftText(p, op) == IF p.t = "op" /\ p.op = op THEN PatternText(p) ELSE Atom(p)
PatternText(p) ==
  CASE p.t = "leaf" -> <<Slot, Tok(p.word), Behind>>
    [] p.t \in {"element", "attribute"} ->
         <<Slot, Tok(p.t)>> \o NcText(p.nc) \o Braced(PatternText(p.p)) \o <<Behind>>
    [] p.t = "inside" -> <<Slot, Tok(p.word)>> \o Braced(PatternText(p.p))
    [] p.t = "op" -> LeftText(p.l, p.op) \o <<Tok(p.op)>> \o Atom(p.r)
    [] p.t = "rep" -> (IF p.p.t = "rep" THEN Parens(PatternText(p.p)) ELSE Atom(p.p)) \o <<Tok(p.op)>>
    [] p.t = "ref" -> <<Slot, Id(p.def), Behind>>
    [] p.t = "parent" -> <<Slot, Tok("parent"), Id(p.def)>>
    [] p.t = "data" -> <<Slot>> \o TypeText(p)
                         \o IF p.params = <<>> THEN <<>> ELSE Braced(ParamText(p.params))
    [] p.t = "value" -> <<Slot>> \o (IF p.type = "" THEN <<>> ELSE TypeText(p)) \o <<Lit(p.str)>>
    [] p.t = "but" -> PatternText(p.p) \o <<Tok("-")>> \o Atom(p.e)
    [] p.t = "grammar" -> <<Slot, Tok("grammar")>> \o Braced(BodyText(p.body))
    [] p.t = "external" -> <<Slot, Tok("external"), Lit(p.fn)>> \o InheritText(p.inh)

ContentText(c) ==
  <<Between, Slot>> \o
  CASE c.t = "define" -> << IF c.name = "" THEN Tok("start") ELSE Id(c.name), Tok(c.op) >>
                           \o PatternText(c.p)
    [] c.t = "div" -> <<Tok("div")>> \o Braced(BodyText(c.body))
    [] c.t = "include" -> <<Tok("include"), Lit(c.fn)>> \o InheritText(c.inh)
                            \o IF c.body = <<>> THEN <<>> ELSE Braced(BodyText(c.body))

BodyText(body) == FlattenSeq([i \in DOMAIN body |-> ContentText(body[i])])

DeclText(d) ==
  CASE d.t = "default" -> <<Tok("default"), Tok("namespace")>>
                            \o IF d.pfx = "" THEN <<>> ELSE <<Word(d.pfx)>>
    [] OTHER -> <<Tok(d.t), Word(d.pfx)>>

FileText(f) ==
  FlattenSeq([i \in DOMAIN f.decls |-> DeclText(f.decls[i]) \o
     <<Tok("="), IF f.decls[i].url = Inherited THEN Tok(Inherited) ELSE Lit(f.decls[i].url)>>])
  \o CASE f.t = "pattern" -> PatternText(f.body[1])
       [] f.t = "contents" -> BodyText(f.body)
       [] f.t = "braces" -> <<Tok("grammar")>> \o Braced(BodyText(f.body))

(* The same with annotations, by the marks they stand at.                  *)
Filled(text, notes) ==
  FlattenSeq([i \in DOMAIN text |-> IF text[i].sym \in DOMAIN notes THEN notes[text[i].sym] ELSE <<text[i]>>])

-----------------------------------------------------------------------------
(* Where a pattern stands: e = [fs, ns, dts, inh], the files, the prefixes *)
(* and what this file inherits; and g = [comps, up], the definitions of    *)
(* its grammar, each with the e of its own file, and the grammar around.   *)
Outermost == [comps |-> <<>>, up |-> "none"]

UrlOf(d, inh) == IF d.url = Inherited THEN inh ELSE d.url
Pfxs(d) == IF d.t = "default" THEN {d.pfx, ""} ELSE {d.pfx}
NsKinds == {"namespace", "default"}

Binding(f, kinds, pfx) ==
  {i \in DOMAIN f.decls : f.decls[i].t \in kinds /\ pfx \in Pfxs(f.decls[i])}

Bindings(f, kinds, inh) ==
  LET own == UNION {Pfxs(f.decls[i]) : i \in {j \in DOMAIN f.decls : f.decls[j].t \in kinds}} IN
  [pfx \in own |-> UrlOf(f.decls[CHOOSE i \in Binding(f, kinds, pfx) : TRUE], inh)]

Env(fs, f, inh) ==
  [fs |-> fs, inh |-> inh,
   ns |-> Bindings(f, NsKinds, inh)
            @@ ("xml" :> "http://www.w3.org/XML/1998/namespace")
            @@ ("xmlns" :> "http://www.w3.org/2000/xmlns") @@ ("" :> inh),
   dts |-> Bindings(f, {"datatypes"}, inh)
             @@ ("xsd" :> "http://www.w3.org/2001/XMLSchema-datatypes")]

(* Declared twice. *)
DeclsSound(f) ==
  /\ \A pfx \in UNION {Pfxs(f.decls[i]) : i \in DOMAIN f.decls} :
       /\ Cardinality(Binding(f, NsKinds, pfx)) <= IF pfx \in {"xml", "xmlns"} THEN 0 ELSE 1
       /\ Cardinality(Binding(f, {"datatypes"}, pfx)) <= 1

PassedOn(e, inh) == IF inh = None THEN e.ns[""] ELSE e.ns[inh]
OtherEnv(e, fn, inh) == Env(e.fs, e.fs[fn], PassedOn(e, inh))

RECURSIVE Defines(_, _)
DefinedIn(body, e) == {Defines(body, e)[i].name : i \in DOMAIN Defines(body, e)}
Kept(comps, names) == SelectSeq(comps, LAMBDA c : c.name \notin names)

Brings(c, e) ==
  CASE c.t = "define" -> <<[name |-> c.name, op |-> c.op, p |-> c.p, e |-> e]>>
    [] c.t = "div" -> Defines(c.body, e)
    [] c.t = "include" ->
         Kept(Defines(e.fs[c.fn].body, OtherEnv(e, c.fn, c.inh)), DefinedIn(c.body, e))
           \o Defines(c.body, e)

Defines(body, e) == FlattenSeq([i \in DOMAIN body |-> Brings(body[i], e)])

OfName(g, n) == SelectSeq(g.comps, LAMBDA c : c.name = n)
Sub(body, e, g) == [comps |-> Defines(body, e), up |-> g]

RECURSIVE NcMeans(_, _, _)
NcMeans(n, e, dflt) ==
  CASE n.t = "name" -> rn_newQName(IF n.pfx = "" THEN dflt ELSE e.ns[n.pfx], n.name)
    [] n.t = "ns" -> rn_newNsName(e.ns[n.pfx])
    [] n.t = "any" -> rn_newAnyName
    [] n.t = "minus" -> rn_newNameClassExcept(NcMeans(n.n1, e, dflt), NcMeans(n.n2, e, dflt))
    [] n.t = "or" -> Either(NcMeans(n.n1, e, dflt), NcMeans(n.n2, e, dflt))

TypeMeans(p, e) == << IF p.pfx = "" THEN "" ELSE e.dts[p.pfx], IF p.type = "" THEN "token" ELSE p.type >>

(* The meaning as a pattern, the contents of elements to the depth n.      *)
RECURSIVE Means(_, _, _, _)
NameMeans(def, g, n) ==
  LET cs == OfName(g, def)
      ops == {cs[i].op : i \in DOMAIN cs}
      ms == [i \in DOMAIN cs |-> Means(cs[i].p, cs[i].e, g, n)]
  IN CASE "|=" \in ops -> FoldLeft(rn_choice, Head(ms), Tail(ms))
       [] "&=" \in ops -> FoldLeft(rn_ileave, Head(ms), Tail(ms))
       [] OTHER -> Head(ms)

ExternMeans(f, e, g, n) ==
  IF f.t = "pattern" THEN Means(f.body[1], e, g, n) ELSE NameMeans("", Sub(f.body, e, g), n)

RepMeans(op, m) ==
  CASE op = "?" -> rn_choice(m, rn_empty)
    [] op = "+" -> rn_one_or_more(m)
    [] op = "*" -> rn_choice(rn_one_or_more(m), rn_empty)

Means(p, e, g, n) ==
  CASE p.t = "leaf" -> [t |-> p.word]
    [] p.t = "element" ->
         rn_newElement(NcMeans(p.nc, e, e.ns[""]), IF n = 0 THEN perror ELSE Means(p.p, e, g, n - 1))
    [] p.t = "attribute" -> rn_newAttribute(NcMeans(p.nc, e, ""), Means(p.p, e, g, n))
    [] p.t = "inside" /\ p.word = "list" -> rn_newList(Means(p.p, e, g, n))
    [] p.t = "inside" /\ p.word = "mixed" -> rn_ileave(Means(p.p, e, g, n), rn_text)
    [] p.t = "op" -> Operation(p.op, Means(p.l, e, g, n), Means(p.r, e, g, n))
    [] p.t = "rep" -> RepMeans(p.op, Means(p.p, e, g, n))
    [] p.t = "ref" -> NameMeans(p.def, g, n)
    [] p.t = "parent" -> NameMeans(p.def, g.up, n)
    [] p.t = "data" -> rn_newData(Append(TypeMeans(p, e), p.params))
    [] p.t = "value" -> rn_newValue(TypeMeans(p, e), p.str)
    [] p.t = "but" -> rn_newDataExcept(Means(p.p, e, g, n), Means(p.e, e, g, n))
    [] p.t = "grammar" -> NameMeans("", Sub(p.body, e, g), n)
    [] p.t = "external" -> ExternMeans(e.fs[p.fn], OtherEnv(e, p.fn, p.inh), g, n)

-----------------------------------------------------------------------------
(* Nothing is wrong with a pattern, a body, a grammar.                     *)
RECURSIVE NcSound(_, _)
NcSound(n, e) ==
  CASE n.t \in {"name", "ns"} -> n.pfx \in DOMAIN e.ns
    [] n.t = "any" -> TRUE
    [] n.t = "minus" -> n.n1.t \in {"any", "ns"} /\ NcSound(n.n1, e) /\ NcSound(n.n2, e)
    [] n.t = "or" -> NcSound(n.n1, e) /\ NcSound(n.n2, e)

FileThere(c, e) == c.fn \in DOMAIN e.fs /\ (c.inh = None \/ c.inh \in DOMAIN e.ns)

RECURSIVE Sound(_, _, _)
RECURSIVE BodySound(_, _)

(* A name is defined once, or combined in one way.                         *)
CombinedOneWay(g, def) ==
  LET cs == OfName(g, def) IN
  /\ Cardinality({i \in DOMAIN cs : cs[i].op = "="}) <= 1
  /\ ~({"|=", "&="} \subseteq {cs[i].op : i \in DOMAIN cs})
  /\ \A i \in DOMAIN cs : Sound(cs[i].p, cs[i].e, g)

GrammarSound(body, e, g) ==
  /\ BodySound(body, e)
  /\ "" \in DefinedIn(body, e)
  /\ \A def \in DefinedIn(body, e) : CombinedOneWay(Sub(body, e, g), def)

IncludeSound(c, e) ==
  /\ FileThere(c, e)
  /\ e.fs[c.fn].t # "pattern" /\ DeclsSound(e.fs[c.fn])
  /\ BodySound(e.fs[c.fn].body, OtherEnv(e, c.fn, c.inh))
  /\ BodySound(c.body, e)
  /\ DefinedIn(c.body, e) \subseteq DefinedIn(e.fs[c.fn].body, OtherEnv(e, c.fn, c.inh))

BodySound(body, e) ==
  \A i \in DOMAIN body :
    CASE body[i].t = "define" -> TRUE
      [] body[i].t = "div" -> BodySound(body[i].body, e)
      [] body[i].t = "include" -> IncludeSound(body[i], e)

ExternSound(f, e, g) ==
  /\ DeclsSound(f)
  /\ IF f.t = "pattern" THEN Sound(f.body[1], e, g) ELSE GrammarSound(f.body, e, g)

HasName(g, def) == g # Outermost /\ OfName(g, def) # <<>>

Sound(p, e, g) ==
  CASE p.t = "leaf" -> TRUE
    [] p.t \in {"element", "attribute"} -> NcSound(p.nc, e) /\ Sound(p.p, e, g)
    [] p.t \in {"inside", "rep"} -> Sound(p.p, e, g)
    [] p.t = "op" -> Sound(p.l, e, g) /\ Sound(p.r, e, g)
    [] p.t = "ref" -> HasName(g, p.def)
    [] p.t = "parent" -> HasName(g.up, p.def)
    [] p.t \in {"data", "value"} -> p.pfx \in {""} \cup DOMAIN e.dts
    [] p.t = "but" -> p.p.t = "data" /\ Sound(p.p, e, g) /\ Sound(p.e, e, g)
    [] p.t = "grammar" -> GrammarSound(p.body, e, g)
    [] p.t = "external" -> FileThere(p, e) /\ ExternSound(e.fs[p.fn], OtherEnv(e, p.fn, p.inh), g)

(* The schema of the file main of fs.  One that is a pattern stands in a   *)
(* grammar of its own that defines nothing to refer to.                    *)
AsBody(f) == IF f.t = "pattern" THEN <<Def("", "=", f.body[1])>> ELSE f.body

SchemaSound(fs) ==
  DeclsSound(fs["main"]) /\ GrammarSound(AsBody(fs["main"]), Env(fs, fs["main"], ""), Outermost)

SchemaMeans(fs, n) ==
  NameMeans("", Sub(AsBody(fs["main"]), Env(fs, fs["main"], ""), Outermost), n)

-----------------------------------------------------------------------------
(* What has been parsed, with references replaced, to the same depth.      *)
RECURSIVE Unfolded(_, _, _)
Unfolded(p, refers, n) ==
  CASE p.t = "ref" -> Unfolded(refers[p.n], refers, n)
    [] p.t = "element" ->
         rn_newElement(p.nc, IF n = 0 THEN perror ELSE Unfolded(p.def, refers, n - 1))
    [] p.t = "attribute" -> rn_newAttribute(p.nc, Unfolded(p.p1, refers, n))
    [] p.t = "list" -> rn_newList(Unfolded(p.p1, refers, n))
    [] p.t = "oneOrMore" -> rn_one_or_more(Unfolded(p.p1, refers, n))
    [] p.t = "choice" -> rn_choice(Unfolded(p.p1, refers, n), Unfolded(p.p2, refers, n))
    [] p.t = "group" -> rn_group(Unfolded(p.p1, refers, n), Unfolded(p.p2, refers, n))
    [] p.t = "interleave" -> rn_ileave(Unfolded(p.p1, refers, n), Unfolded(p.p2, refers, n))
    [] p.t = "dataExcept" -> rn_newDataExcept(Unfolded(p.p1, refers, n), Unfolded(p.p2, refers, n))
    [] OTHER -> p

=============================================================================
