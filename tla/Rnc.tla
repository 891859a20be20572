--------------------------------- MODULE Rnc --------------------------------
(***************************************************************************)
(* rnc.c: the parser of the compact syntax.  A file is opened as [syms,    *)
(* ill]: its symbols, as module Lexer cuts them, and whether cutting them  *)
(* has met an error.  The functions of the parser are operators on its     *)
(* state s:                                                                *)
(*   nss, dts, defs, refs, prefs   the stacks of scopes: prefixes, datatype*)
(*                 prefixes, definitions, references, references to parents*)
(*   cur, nxt, rest    the source: symbol, the one after it, and the others*)
(*   refers        what the references refer to, as close_scope finds out  *)
(*   files, path   the files by their names; the file to open next         *)
(*   errors        has an error been reported                              *)
(*   val           what the last function has returned                     *)
(* A pattern is a record as in Pattern; index 0 of the store, the pattern  *)
(* of what is not understood, is perror.  Strings stand for themselves,    *)
(* 0 in their place is "".                                                 *)
(***************************************************************************)
EXTENDS Scope, Pattern, Lexer

CONSTANT Uninit    \* a symbol's memory before one is read into it

perror == [t |-> "error"]
NotUnderstood == [t |-> "?"]               \* a name class: RN_NC_ERROR
AGrammar == [t |-> "-1"]                   \* what topLevel returns for one
Ref(n) == [t |-> "ref", n |-> n]
None == "-1"                               \* no string

-----------------------------------------------------------------------------
error(s) == [s EXCEPT !.errors = TRUE]
Ret(s, v) == [s EXCEPT !.val = v]
At(s, syms) == s.cur.sym \in syms
AtWord(s) == At(s, Keywords \cup {"IDENT"})

(* The symbol after the current one is read. *)
Read(s) ==
  [s EXCEPT !.nxt = IF s.rest = <<>> THEN EOF ELSE Head(s.rest),
            !.rest = IF s.rest = <<>> THEN <<>> ELSE Tail(s.rest)]

advance(s) == Read([s EXCEPT !.cur = s.nxt])

(* The rest of an annotation; its syntax is not checked. *)
RECURSIVE InAnnotation(_)
InAnnotation(s) ==
  CASE At(s, {"]"}) -> advance(s)
    [] At(s, {"["}) -> InAnnotation(InAnnotation(advance(s)))
    [] AtWord(s) \/ At(s, {"QNAME", "=", "LITERAL", "~"}) -> InAnnotation(advance(s))
    [] OTHER -> error(s)

skipAnnotationContent(s) == IF At(s, {"["}) THEN InAnnotation(advance(s)) ELSE s

RECURSIVE ToAnnotation(_)
ToAnnotation(s) == IF At(s, {"[", "EOF"}) THEN s ELSE ToAnnotation(advance(s))

(* After >>, a name and an annotation. *)
Named(s) == IF At(s, {"["}) THEN s ELSE error(s)
FollowAnnotation(s) ==
  IF AtWord(s) \/ At(s, {"QNAME"}) THEN Named(advance(s)) ELSE ToAnnotation(error(s))

(* Documentation and annotations are skipped, literals joined. *)
RECURSIVE Settled(_)
Joined(s) ==
  IF s.nxt.sym = "LITERAL"
  THEN Settled(Read([s EXCEPT !.cur = Lit(s.cur.s \o s.nxt.s)]))
  ELSE error(s)

Settled(s) ==
  CASE At(s, {"##"}) -> Settled(advance(s))
    [] At(s, {">>"}) -> Settled(skipAnnotationContent(FollowAnnotation(advance(s))))
    [] At(s, {"["}) -> Settled(skipAnnotationContent(s))
    [] At(s, {"LITERAL"}) /\ s.nxt.sym = "~" -> Joined(Read(s))
    [] OTHER -> s

getsym(s) == Settled(advance(s))

RECURSIVE skipto(_, _)
skipto(s, sym) == IF At(s, {sym, "EOF"}) THEN s ELSE skipto(getsym(s), sym)

chksym(s, sym) == IF At(s, {sym}) THEN s ELSE error(s)
chkwd(s) == IF AtWord(s) THEN s ELSE error(s)
chk_get(s, sym) == getsym(chksym(s, sym))
chk_skip(s, symc, syms) ==
  IF At(s, {symc}) THEN getsym(s) ELSE skipto(error(s), syms)

chk_skip_get(s, sym) == getsym(IF At(s, {sym}) THEN s ELSE skipto(error(s), sym))

-----------------------------------------------------------------------------
(* Definitions.  flags is a subset of HEAD, CHOICE, ILEAVE; start is "".   *)

Merged(old, pat, flags) ==
  CASE "CHOICE" \in flags -> rn_choice(old, pat)
    [] "CHOICE" \notin flags /\ "ILEAVE" \in flags -> rn_ileave(old, pat)
    [] OTHER -> old

Conflict(flags, old) ==
  \/ "HEAD" \in flags \cap old
  \/ {"CHOICE", "ILEAVE"} \subseteq flags \cup old

Again(s, i, pat, flags) ==
  LET old == s.defs.tab[i] IN
  [s EXCEPT !.errors = @ \/ Conflict(flags, old.aux),
            !.defs.tab[i].aux = flags \cup old.aux,
            !.defs.tab[i].val = Merged(old.val, pat, flags \cup old.aux)]

(* Slip: an override is one more definition. *)
adddef_added(s, name, pat, flags) ==
  IF sc_find(s.defs, name) = 0
  THEN [s EXCEPT !.defs = sc_add(@, name, pat, flags)]
  ELSE Again(s, sc_find(s.defs, name), pat, flags)

adddef(s, name, pat, flags) ==
  LET i == sc_find(s.defs, name) IN
  CASE i # 0 /\ sc_locked(s.defs) ->
         [s EXCEPT !.defs.tab[i].val = pat, !.defs.tab[i].aux = flags]
    [] i # 0 /\ ~sc_locked(s.defs) -> Again(s, i, pat, flags)
    [] i = 0 /\ sc_locked(s.defs) -> error(s)
    [] i = 0 /\ ~sc_locked(s.defs) -> [s EXCEPT !.defs = sc_add(@, name, pat, flags)]

open_scope(s) ==
  [s EXCEPT !.defs = sc_open(@), !.refs = sc_open(@), !.prefs = sc_open(@)]

(* The references of the innermost grammar refer to its definitions.       *)
Definition(s, name) ==
  LET i == sc_find(s.defs, name) IN IF i = 0 THEN perror ELSE s.defs.tab[i].val

Resolved(s, rows) ==
  [s EXCEPT !.errors = @ \/ \E r \in DOMAIN rows : sc_find(s.defs, rows[r].key) = 0,
            !.refers = [n \in DOMAIN @ |->
               IF \E r \in DOMAIN rows : rows[r].val = n
               THEN Definition(s, rows[CHOOSE r \in DOMAIN rows : rows[r].val = n].key)
               ELSE @[n]]]

(* Its references to the parent become the parent's own.                   *)
ToParent(s) ==
  IF sc_void(s.refs)
  THEN [s EXCEPT !.errors = @ \/ Entries(s.prefs) # <<>>]
  ELSE [s EXCEPT !.refs.tab = @ \o Entries(s.prefs)]

(* Slip: they are forgotten. *)
close_scope_orphans(s) ==
  LET r == Resolved(s, Entries(s.refs)) IN
  [r EXCEPT !.defs = sc_close(@), !.refs = sc_close(@), !.prefs = sc_close(@)]

close_scope(s) ==
  LET r == Resolved(s, Entries(s.refs))
      up == ToParent([r EXCEPT !.defs = sc_close(@), !.refs = sc_close(@)])
  IN  [up EXCEPT !.prefs = sc_close(@)]

Folded(st) ==
  LET outer == sc_close(st) IN [outer EXCEPT !.tab = @ \o Entries(st)]

folddef(s, row) == adddef(s, row.key, row.val, row.aux)

(* The innermost scopes become part of those around them.                  *)
fold_scope(s) ==
  LET d == FoldLeft(folddef, [s EXCEPT !.defs = sc_close(@)], Entries(s.defs)) IN
  [d EXCEPT !.refs = Folded(@), !.prefs = Folded(@)]

-----------------------------------------------------------------------------
(* Namespaces and datatype libraries.  The prefix "" is that of names      *)
(* without one, "-1" stands for what was inherited; an inherited or default*)
(* declaration may be replaced.                                            *)
Redeclared(st, i, url) == [st EXCEPT !.tab[i].val = url, !.tab[i].aux = {}]

addns(s, pfx, url) ==
  LET i == sc_find(s.nss, pfx) IN
  CASE i = 0 -> [s EXCEPT !.nss = sc_add(@, pfx, url, {})]
    [] i # 0 /\ s.nss.tab[i].aux # {} -> [s EXCEPT !.nss = Redeclared(@, i, url)]
    [] OTHER -> error(s)

adddt(s, pfx, url) ==
  LET i == sc_find(s.dts, pfx) IN
  CASE i = 0 -> [s EXCEPT !.dts = sc_add(@, pfx, url, {})]
    [] i # 0 /\ s.dts.tab[i].aux # {} -> [s EXCEPT !.dts = Redeclared(@, i, url)]
    [] OTHER -> error(s)

Declared(st, pfx) == st.tab[sc_find(st, pfx)].val

nsuri(s) ==
  getsym(CASE At(s, {"LITERAL"}) -> Ret(s, s.cur.s)
           [] At(s, {"inherit"}) -> Ret(s, Declared(s.nss, None))
           [] OTHER -> Ret(error(s), None))

Namespaces(s, pfxs) ==
  IF s.val = None THEN s
  ELSE FoldLeft(LAMBDA r, pfx : IF pfx = None THEN r ELSE addns(r, pfx, s.val), s, pfxs)

WordOr(s, other) == IF AtWord(s) THEN s.cur.s ELSE other

Namespace(s) == Namespaces(nsuri(chk_get(getsym(chkwd(s)), "=")), <<WordOr(s, None)>>)

Default(s) ==
  Namespaces(nsuri(chk_get(IF AtWord(s) THEN getsym(s) ELSE s, "=")), <<WordOr(s, None), "">>)

Library(s, pfx) ==
  getsym(CASE ~At(s, {"LITERAL"}) -> error(s)
           [] At(s, {"LITERAL"}) /\ pfx = None -> s
           [] OTHER -> adddt(s, pfx, s.cur.s))

Datatypes(s) == Library(chk_get(getsym(chkwd(s)), "="), WordOr(s, None))

decl(s) ==
  CASE At(s, {"namespace"}) -> Namespace(getsym(s))
    [] At(s, {"default"}) -> Default(chk_get(getsym(s), "namespace"))
    [] At(s, {"datatypes"}) -> Datatypes(getsym(s))

RECURSIVE decls(_)
decls(s) == IF At(s, {"namespace", "default", "datatypes"}) THEN decls(decl(s)) ELSE s

Uri(st, pfx) == IF sc_find(st, pfx) = 0 THEN "" ELSE Declared(st, pfx)
Known(s, st, pfx) == IF sc_find(st, pfx) = 0 THEN error(s) ELSE s

InheritedFrom(s) ==
  getsym(IF AtWord(s) THEN Ret(Known(s, s.nss, s.cur.s), Uri(s.nss, s.cur.s)) ELSE Ret(error(s), ""))

inherit(s) ==
  IF At(s, {"inherit"}) THEN InheritedFrom(chk_get(getsym(s), "="))
  ELSE Ret(s, Declared(s.nss, ""))

-----------------------------------------------------------------------------
(* Name classes. *)
name(s, pfx, str) ==
  getsym(Ret(Known(s, s.nss, pfx), rn_newQName(Uri(s.nss, pfx), str)))

nsname(s) == getsym(Ret(Known(s, s.nss, s.cur.s), rn_newNsName(Uri(s.nss, s.cur.s))))

RECURSIVE nameclass(_)

simplenc(s) ==
  CASE At(s, {"QNAME"}) -> name(s, s.cur.pfx, s.cur.s)
    [] At(s, {"NSNAME"}) -> nsname(s)
    [] At(s, {"*"}) -> getsym(Ret(s, rn_newAnyName))
    [] At(s, {"("}) -> chk_skip(nameclass(getsym(s)), ")", "{")
    [] AtWord(s) -> name(s, "", s.cur.s)
    [] OTHER -> Ret(skipto(error(s), "{"), NotUnderstood)

Either(nc, nci) ==
  CASE nc = nci \/ nc = rn_newAnyName -> nc
    [] nc # nci /\ nci = rn_newAnyName -> nci
    [] OTHER -> rn_newNameClassChoice(nc, nci)

RECURSIVE Alternatives(_)
Alternative(s, nc) == Ret(s, Either(nc, s.val))
Alternatives(s) ==
  IF At(s, {"|"}) THEN Alternatives(Alternative(simplenc(getsym(s)), s.val)) ELSE s

ExceptNc(s, nc) == Ret(s, rn_newNameClassExcept(nc, s.val))
Excepting(s) ==
  ExceptNc(simplenc(getsym(IF s.val.t \in {"anyname", "nsname"} THEN s ELSE error(s))), s.val)

AfterNc(s) == IF At(s, {"-"}) THEN Excepting(s) ELSE Alternatives(s)
nameclass(s) == AfterNc(simplenc(s))

-----------------------------------------------------------------------------
(* Patterns. *)
RECURSIVE pattern(_)
RECURSIVE primary(_)
RECURSIVE contents(_)
RECURSIVE topLevel(_)

InBraces(s) == chk_skip_get(pattern(chk_get(s, "{")), "}")

Element(s, nc) == Ret(s, rn_newElement(nc, s.val))
ElementOf(s) == Element(InBraces(s), s.val)
element(s) == ElementOf(nameclass(s))

(* An attribute without a prefix is in no namespace. *)
Unprefixed(s, url) == [s EXCEPT !.nss.tab[sc_find(s.nss, "")].val = url]
Attribute(s, nc) == Ret(s, rn_newAttribute(nc, s.val))
AttributeOf(s) == Attribute(InBraces(s), s.val)

attribute(s) ==
  AttributeOf(Unprefixed(nameclass(Unprefixed(s, "")), Declared(s.nss, "")))

ListOf(s) == Ret(s, rn_newList(s.val))
MixedOf(s) == Ret(s, rn_ileave(s.val, rn_text))
list(s) == ListOf(InBraces(s))
mixed(s) == MixedOf(InBraces(s))

(* A name refers to one reference per scope, of the stack named by which. *)
NewRef(s, which, n) ==
  Ret([s EXCEPT !.refers = Append(@, perror), ![which] = sc_add(@, s.cur.s, n, {})], Ref(n))

refname(s, which) ==
  LET i == sc_find(s[which], s.cur.s) IN
  IF i = 0 THEN NewRef(s, which, Len(s.refers) + 1) ELSE Ret(s, Ref(s[which].tab[i].val))

ref(s) == getsym(refname(s, "refs"))
parent(s) == getsym(IF At(s, {"IDENT"}) THEN refname(s, "prefs") ELSE Ret(error(s), perror))

(* Data.  The datatype of a pattern is its library, its name and, for      *)
(* data, its parameters in order.                                          *)
DatatypeName(s) ==
  CASE At(s, {"string", "token"}) -> <<"", s.cur.sym>>
    [] At(s, {"QNAME"}) -> <<Uri(s.dts, s.cur.pfx), s.cur.s>>
    [] OTHER -> <<"", "token">>

datatype(s) ==
  IF At(s, {"LITERAL"}) THEN s
  ELSE getsym(IF At(s, {"QNAME"}) THEN Known(s, s.dts, s.cur.pfx) ELSE s)

RECURSIVE Params(_)
Valued(s, key) ==
  getsym(IF At(s, {"LITERAL"}) THEN Ret(s, Append(s.val, <<key, s.cur.s>>)) ELSE error(s))
Params(s) == IF AtWord(s) THEN Params(Valued(chk_get(getsym(s), "="), s.cur.s)) ELSE s
params(s) ==
  IF At(s, {"{"}) THEN chk_skip_get(Params(getsym(Ret(s, <<>>))), "}") ELSE Ret(s, <<>>)

Data(s, dt) == Ret(s, rn_newData(Append(dt, s.val)))
data(s) == Data(params(datatype(s)), DatatypeName(s))

Value(s, dt) ==
  getsym(Ret(chksym(s, "LITERAL"), rn_newValue(dt, IF At(s, {"LITERAL"}) THEN s.cur.s ELSE "")))
value(s) == Value(datatype(s), DatatypeName(s))

-----------------------------------------------------------------------------
(* Grammars and other files. *)
Start(s) == IF sc_find(s.defs, "") = 0 THEN error(s) ELSE s

Started(s) == close_scope(Ret(Start(s), Definition(s, "")))

grammar(s) == Started(chk_skip_get(contents(chk_get(open_scope(s), "{")), "}"))

(* The file named by a literal; all are in one directory. *)
relpath(s) ==
  getsym(IF At(s, {"LITERAL"}) THEN [s EXCEPT !.path = s.cur.s]
         ELSE [error(s) EXCEPT !.path = None])

add_well_known_nss(st, dflt) ==
  sc_add(sc_add(sc_add(sc_add(st, "xml", "http://www.w3.org/XML/1998/namespace", {}),
                       "xmlns", "http://www.w3.org/2000/xmlns", {}),
                "", dflt, {"INHERITED"}), None, dflt, {"INHERITED"})

Source(s, text) ==
  [s EXCEPT !.cur = Uninit, !.nxt = Uninit, !.rest = text.syms, !.errors = @ \/ text.ill]

Resumed(s, outer) == [s EXCEPT !.cur = outer.cur, !.nxt = outer.nxt, !.rest = outer.rest]

file(s, url) ==
  LET inside == [s EXCEPT !.nss = add_well_known_nss(@, url)] IN
  IF s.path \in DOMAIN s.files
  THEN Resumed(topLevel(Source(inside, s.files[s.path])), s)
  ELSE Ret(error(inside), perror)

Opened(s) == open_scope([s EXCEPT !.nss = sc_open(@)])
NssClosed(s) == [s EXCEPT !.nss = sc_close(@)]

(* Slip: the prefixes of a file that is a pattern stay.                    *)
External_open(s) ==
  IF s.val # AGrammar THEN fold_scope(s) ELSE NssClosed(close_scope(Ret(s, Definition(s, ""))))

(* A pattern of another file takes part in the grammar; a grammar stands   *)
(* for its start, and without one for what topLevel has returned.          *)
External(s) ==
  CASE s.val # AGrammar -> NssClosed(fold_scope(s))
    [] s.val = AGrammar /\ sc_find(s.defs, "") # 0 ->
         NssClosed(close_scope(Ret(s, Definition(s, ""))))
    [] OTHER -> NssClosed(close_scope(s))

InheritedBy(s) == file(Opened(s), s.val)

ExternalAt(s) ==
  IF s.path = None THEN Ret(s, perror) ELSE External(InheritedBy(inherit(s)))
external(s) == ExternalAt(relpath(s))

(* What overrides definitions of an included grammar. *)
Overrides(s) == IF At(s, {"{"}) THEN chk_skip_get(contents(getsym(s)), "}") ELSE s

Included(s) == [(IF s.val = AGrammar THEN s ELSE error(s)) EXCEPT !.defs = sc_lock(@)]

IncludeAt(s) ==
  IF s.path = None THEN s
  ELSE NssClosed(fold_scope(Overrides(Included(InheritedBy(inherit(s))))))
include(s) == IncludeAt(relpath(s))

-----------------------------------------------------------------------------
Primary(s, next) ==
  CASE At(s, {"element"}) -> element(next)
    [] At(s, {"attribute"}) -> attribute(next)
    [] At(s, {"IDENT"}) -> ref(s)
    [] At(s, {"parent"}) -> parent(next)
    [] At(s, {"external"}) -> external(next)
    [] At(s, {"list"}) -> list(next)
    [] At(s, {"mixed"}) -> mixed(next)
    [] At(s, {"string", "token", "QNAME"}) -> IF s.nxt.sym = "LITERAL" THEN value(s) ELSE data(s)
    [] At(s, {"LITERAL"}) -> value(s)
    [] At(s, {"empty"}) -> Ret(next, rn_empty)
    [] At(s, {"text"}) -> Ret(next, rn_text)
    [] At(s, {"notAllowed"}) -> Ret(next, rn_notAllowed)
    [] At(s, {"grammar"}) -> grammar(next)
    [] At(s, {"("}) -> chk_skip(pattern(next), ")", "}")
    [] OTHER -> Ret(error(next), perror)

primary(s) == Primary(s, getsym(s))

Repetition(op, p) ==
  CASE op = "?" -> rn_choice(p, rn_empty)
    [] op = "*" -> rn_choice(rn_one_or_more(p), rn_empty)
    [] op = "+" -> rn_one_or_more(p)

Repeated(s) ==
  IF At(s, {"?", "*", "+"}) THEN getsym(Ret(s, Repetition(s.cur.sym, s.val))) ELSE s

unary(s) == Repeated(primary(s))

Operation(op, p1, p2) ==
  CASE op = "," -> rn_group(p1, p2) [] op = "|" -> rn_choice(p1, p2) [] op = "&" -> rn_ileave(p1, p2)

(* One operator only, unless there are parentheses. *)
Operand(s, op, p) == Ret(s, Operation(op, p, s.val))

RECURSIVE Operands(_, _)
Operands(s, op) ==
  IF At(s, {op}) THEN Operands(Operand(unary(getsym(s)), op, s.val), op) ELSE s

DataExcept(s, p) == Ret(s, rn_newDataExcept(p, s.val))

AfterUnary(s) ==
  CASE At(s, {",", "|", "&"}) -> Operands(s, s.cur.sym)
    [] At(s, {"-"}) ->
         DataExcept(primary(getsym(IF s.val.t = "data" THEN s ELSE error(s))), s.val)
    [] OTHER -> s

pattern(s) == AfterUnary(unary(s))

-----------------------------------------------------------------------------
Flags == [op \in {"=", "|=", "&="} |->
            CASE op = "=" -> {"HEAD"} [] op = "|=" -> {"CHOICE"} [] op = "&=" -> {"ILEAVE"}]

AddTo(s, def, flags) == adddef(s, def, s.val, flags)

define(s, def) ==
  AddTo(pattern(getsym(IF At(s, DOMAIN Flags) THEN s ELSE error(s))), def,
        IF At(s, DOMAIN Flags) THEN Flags[s.cur.sym] ELSE {})

division(s) == chk_skip_get(contents(chk_get(s, "{")), "}")

(* A definition or the like begins here; the name of an annotation too.    *)
AtContent(s) ==
  \/ At(s, {"IDENT"}) /\ s.nxt.sym \in {"["} \cup DOMAIN Flags
  \/ At(s, {"QNAME"}) /\ s.nxt.sym = "["
  \/ At(s, {"start", "div", "include"})

GrammarContent(s, next) ==
  CASE At(s, {"IDENT", "QNAME"}) /\ s.nxt.sym = "[" -> next
    [] At(s, {"IDENT"}) /\ s.nxt.sym # "[" -> define(next, s.cur.s)
    [] At(s, {"start"}) -> define(next, "")
    [] At(s, {"div"}) -> division(next)
    [] At(s, {"include"}) -> include(next)

grammarContent(s) == GrammarContent(s, getsym(s))

contents(s) == IF AtContent(s) THEN contents(grammarContent(s)) ELSE s

(* The whole of a file: a grammar, with or without its keyword, or a       *)
(* pattern.                                                                *)
WholeGrammar(s) == Ret(chk_skip(contents(chk_get(getsym(s), "{")), "}", "EOF"), AGrammar)

Whole(s) ==
  CASE At(s, {"grammar"}) -> WholeGrammar(s)
    [] AtContent(s) -> Ret(contents(s), AGrammar)
    [] OTHER -> pattern(s)

WithLibraries(s) ==
  [s EXCEPT !.dts = sc_add(sc_open(@), "xsd", "http://www.w3.org/2001/XMLSchema-datatypes",
                           {"DEFAULT"})]

FileContents(s) == Whole(decls(getsym(getsym(WithLibraries(s)))))
LibrariesClosed(s) == [s EXCEPT !.dts = sc_close(@)]

(* Slip: what follows is not looked at. *)
topLevel_early(s) == LibrariesClosed(FileContents(s))

topLevel(s) == LibrariesClosed(chk_skip(FileContents(s), "EOF", "EOF"))

(* The schema in the text, of which files are parts; st has the stacks.    *)
Begun(st, fs) ==
  [nss |-> add_well_known_nss(sc_open(st.nss), ""), dts |-> st.dts, defs |-> sc_open(st.defs),
   refs |-> sc_open(st.refs), prefs |-> sc_open(st.prefs),
   cur |-> Uninit, nxt |-> Uninit, rest |-> <<>>,
   refers |-> <<>>, files |-> fs, path |-> None, errors |-> FALSE, val |-> perror]

StartAdded(s) ==
  IF s.val = AGrammar THEN s ELSE [s EXCEPT !.defs = sc_add(@, "", s.val, {})]

Finished(s) == NssClosed(Started(s))

rnc_parse(st, fs, text) == Finished(StartAdded(topLevel(Source(Begun(st, fs), text))))

=============================================================================
