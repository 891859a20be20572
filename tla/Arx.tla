--------------------------------- MODULE Arx --------------------------------
(***************************************************************************)
(* arx.c: the type of a document, by the first rule that it matches in the *)
(* configuration files.  Rules are about the name of the file, or about    *)
(* its contents: then it is validated as in xcl.c, but only until an error *)
(* decides, or until ary.c finds that the rest may be anything.            *)
(*                                                                         *)
(* A document is [name, readable, root, broken]: its root element, and the *)
(* event before which it ceases to be well-formed, or 0.  A buffer may end *)
(* after any event and inside a text.  A configuration file is [decls,     *)
(* routes, lost]: types and their strings, rules, and the place of a       *)
(* symbol that is missing in it, or 0.  The size of the text buffer is     *)
(* that of xcl.c, see Validator.                                           *)
(***************************************************************************)
EXTENDS RelaxNG

CONSTANTS
  Documents, Configs,        \* the documents; sequences of configuration files
  rx_match(_, _)             \* does the regular expression match the name

V == INSTANCE Rnv WITH
  notAllowed <- rn_notAllowed, white <- whitespace,
  after_start_tag_open <- drv_start_tag_open, after_start_tag_open_recover <- drv_start_tag_open_recover,
  after_attribute_open <- drv_attribute_open, after_attribute_open_recover <- drv_attribute_open_recover,
  after_attribute_close <- drv_attribute_close, after_attribute_close_recover <- drv_attribute_close_recover,
  after_start_tag_close <- drv_start_tag_close, after_start_tag_close_recover <- drv_start_tag_close_recover,
  after_text <- drv_text, after_text_recover <- drv_text_recover,
  after_mixed_text <- drv_mixed_text, after_mixed_text_recover <- drv_mixed_text_recover,
  after_end_tag <- drv_end_tag, after_end_tag_recover <- drv_end_tag_recover

VARIABLES
  doc, confs, i_conf,        \* the document; the files, and the next to read
  rules, i_r,                \* the rules of the current file; the current rule
  phase,                     \* "config", "rules", "reading", "found" or "failed"
  current, previous, mixed, ok, wf, any,
  txt,                       \* text since the last tag
  todo,                      \* the events not yet delivered
  answer,                    \* what has been printed
  stale                      \* validation has begun with text left over

document == <<current, previous, mixed, any, txt, todo, stale>>
vars == <<doc, confs, i_conf, rules, i_r, phase, ok, wf, answer, document>>

-----------------------------------------------------------------------------
(* Configuration files.  The state of the parser: symbol, value, the rest, *)
(* whether there was an error, the types declared and the rules.           *)
Sym(sym, val) == [sym |-> sym, val |-> val]
Undefined == "?"
Bad == [t |-> "bad"]         \* an expression, or a grammar, with errors

Wanted == [kind \in {"=~", "!~", "valid", "!valid"} |->
             IF kind \in {"=~", "!~"} THEN "regexp" ELSE "reng"]

(* The symbols of a configuration file. *)
TypeSymbols(decl) == <<Sym("identifier", decl[1]), Sym("=", ""), Sym("literal", decl[2])>>

RouteSymbols(route) ==
  <<Sym(route.kind, ""), Sym(Wanted[route.kind], route.arg)>>
    \o (IF Wanted[route.kind] = "regexp" THEN <<Sym("=>", "")>> ELSE <<>>)
    \o <<Sym("identifier", route.type)>>

Whole(conf) ==
  <<Sym("grammars", ""), Sym("{", "")>>
    \o FlattenSeq([n \in DOMAIN conf.decls |-> TypeSymbols(conf.decls[n])])
    \o <<Sym("}", "")>>
    \o FlattenSeq([n \in DOMAIN conf.routes |-> RouteSymbols(conf.routes[n])])

Symbols(conf) == IF conf.lost = 0 THEN Whole(conf) ELSE RemoveAt(Whole(conf), conf.lost)

error(a) == [a EXCEPT !.errors = TRUE]
Unread(a) == [a EXCEPT !.rest = Tail(@)]

(* => is skipped; it may stand after a regular expression only.            *)
RECURSIVE getsym(_)
getsym(a) ==
  CASE a.rest = <<>> -> [a EXCEPT !.sym = "EOF"]
    [] a.rest # <<>> /\ Head(a.rest).sym = "=>" ->
         getsym(Unread(IF a.sym = "regexp" THEN a ELSE error(a)))
    [] OTHER -> Unread([a EXCEPT !.sym = Head(a.rest).sym, !.val = Head(a.rest).val])

chksym(a, x) == IF a.sym = x THEN a ELSE error(a)
chk_get(a, x) == getsym(chksym(a, x))

TypeString(a, typ) == getsym([chksym(a, "literal") EXCEPT !.t2s = Append(@, <<typ, a.val>>)])
Type(a) == TypeString(chk_get(getsym(chksym(a, "identifier")), "="), a.val)

RECURSIVE Types(_)
Types(a) == IF a.sym = "identifier" THEN Types(Type(a)) ELSE a

(* The last declaration of a type counts. *)
typ2str(a, typ) ==
  LET is == {i \in DOMAIN a.t2s : a.t2s[i][1] = typ} IN
  IF is = {} THEN Undefined ELSE a.t2s[CHOOSE i \in is : \A j \in is : i >= j][2]

(* rx_check or rnl_s has looked at the argument. *)
Argument(a, kind) == IF a.sym # Wanted[kind] \/ a.val = Bad THEN error(a) ELSE a

(* The string of the type that the symbol names. *)
Typed(a) == IF a.sym = "identifier" THEN typ2str(a, a.val) ELSE Undefined

AddRule(a, kind, arg) ==
  [a EXCEPT !.errors = @ \/ Typed(a) = Undefined,
            !.rules = Append(@, [kind |-> kind, arg |-> arg, str |-> Typed(a)])]

Rule(a, kind) == AddRule(getsym(Argument(a, kind)), kind, a.val)

RECURSIVE Rules(_)
Rules(a) == IF a.sym \in DOMAIN Wanted THEN Rules(getsym(Rule(getsym(a), a.sym))) ELSE a

Grammars(a) == chk_get(Types(Type(chk_get(chk_get(a, "grammars"), "{"))), "}")

arx(symbols) ==
  chk_get(Rules(Grammars(getsym([sym |-> "EOF", val |-> "", rest |-> symbols, errors |-> FALSE,
                                 t2s |-> <<>>, rules |-> <<>>]))), "EOF")

-----------------------------------------------------------------------------
(* ary.c: can nothing go wrong any more?  p is the pattern of any content, *)
(* p = (element * { p } | attribute * { text } | text)*                    *)
Self(p, e) == e.t = "element" /\ e.nc = rn_newAnyName /\ Content[e.def] = p
AnyAtt(e) == e = rn_newAttribute(rn_newAnyName, rn_text)

isanycont(p) ==
  /\ p.t = "oneOrMore" /\ p.p1.t = "choice" /\ p.p1.p1.t = "choice"
  /\ LET flat == <<p.p1.p2, p.p1.p1.p1, p.p1.p1.p2>> IN
     /\ \A n \in 1 .. 3 : Self(p, flat[n]) \/ AnyAtt(flat[n]) \/ flat[n] = rn_text
     /\ \E n \in 1 .. 3 : Self(p, flat[n])
     /\ \E n \in 1 .. 3 : AnyAtt(flat[n])

AnyElement(e) == e.t = "element" /\ e.nc = rn_newAnyName /\ isanycont(Content[e.def])

(* Slip: the contents of the elements do not matter. *)
isanymix_shallow(p) ==
  /\ p.t = "oneOrMore" /\ p.p1.t = "choice"
  /\ \E e \in {p.p1.p1, p.p1.p2} : e.t = "element" /\ e.nc = rn_newAnyName

(* The attributes have been read. *)
isanymix(p) ==
  /\ p.t = "oneOrMore" /\ p.p1.t = "choice"
  /\ \A e \in {p.p1.p1, p.p1.p2} : AnyElement(e) \/ e = rn_text
  /\ \E e \in {p.p1.p1, p.p1.p2} : AnyElement(e)

RECURSIVE ary_isany(_)
ary_isany(p) == p.t = "after" /\ isanymix(p.p1) /\ (p.p2 = rn_empty \/ ary_isany(p.p2))

-----------------------------------------------------------------------------
(* The events of an element, and of a document. *)
RECURSIVE ElementEvents(_)
ElementEvents(n) ==
  IF IsText(n) THEN <<[e |-> "text", s |-> n.str]>>
  ELSE <<[e |-> "start", qn |-> n.qn, atts |-> n.atts]>>
         \o FlattenSeq([i \in DOMAIN n.kids |-> ElementEvents(n.kids[i])])
         \o <<[e |-> "end"]>>

Events(d) ==
  LET es == ElementEvents(d.root) IN
  IF d.broken = 0 THEN es ELSE SubSeq(es, 1, d.broken - 1) \o <<[e |-> "broken"]>>

Init ==
  /\ doc \in Documents /\ confs \in Configs
  /\ i_conf = 1 /\ rules = <<>> /\ i_r = 1 /\ phase = "config"
  /\ current = rn_notAllowed /\ previous = rn_notAllowed /\ mixed = FALSE
  /\ ok = FALSE /\ any = FALSE /\ wf = doc.readable
  /\ txt = <<>> /\ todo = <<>> /\ answer = Undefined /\ stale = FALSE

(* The next configuration file; one with errors is cleared away at once.   *)
read_config ==
  /\ phase = "config" /\ i_conf <= Len(confs)
  /\ i_conf' = i_conf + 1
  /\ \E a \in {arx(Symbols(confs[i_conf]))} :
       IF a.errors THEN txt' = <<>> /\ UNCHANGED <<rules, phase>>
       ELSE rules' = a.rules /\ phase' = "rules" /\ UNCHANGED txt
  /\ i_r' = 1
  /\ UNCHANGED <<doc, confs, current, previous, mixed, ok, wf, any, todo, answer, stale>>

no_config ==
  /\ phase = "config" /\ i_conf > Len(confs)
  /\ phase' = "failed"
  /\ UNCHANGED <<doc, confs, i_conf, rules, i_r, ok, wf, answer, document>>

clear ==
  /\ phase = "rules" /\ i_r > Len(rules)
  /\ phase' = "config" /\ rules' = <<>> /\ txt' = <<>>
  /\ UNCHANGED <<doc, confs, i_conf, i_r, current, previous, mixed, ok, wf, any, todo, answer, stale>>

(* The current rule matches, or the next one is tried.                     *)
Decide(matches) ==
  /\ ok' = matches
  /\ IF matches THEN answer' = rules[i_r].str /\ phase' = "found" /\ UNCHANGED i_r
     ELSE phase' = "rules" /\ i_r' = i_r + 1 /\ UNCHANGED answer

AtRule(kinds) == phase = "rules" /\ i_r <= Len(rules) /\ rules[i_r].kind \in kinds

match_name ==
  /\ AtRule({"=~", "!~"})
  /\ Decide(rx_match(rules[i_r].arg, doc.name) = (rules[i_r].kind = "=~"))
  /\ UNCHANGED <<doc, confs, i_conf, rules, wf, document>>

not_well_formed ==
  /\ AtRule({"valid", "!valid"}) /\ ~wf
  /\ Decide(FALSE)
  /\ UNCHANGED <<doc, confs, i_conf, rules, wf, document>>

validate ==
  /\ AtRule({"valid", "!valid"}) /\ wf
  /\ current' = rules[i_r].arg /\ previous' = rules[i_r].arg
  /\ ok' = TRUE /\ any' = FALSE
  /\ todo' = Events(doc) /\ phase' = "reading"
  /\ stale' = (stale \/ ~whitespace(txt))
  /\ UNCHANGED <<doc, confs, i_conf, rules, i_r, mixed, wf, txt, answer>>

-----------------------------------------------------------------------------
Delivered(kind) == phase = "reading" /\ todo # <<>> /\ Head(todo).e = kind

Now == V!Entered(current, previous)
Outcome(v) == current' = v.cur /\ previous' = v.prev /\ ok' = (ok /\ v.ok) /\ txt' = <<>>

start_element ==
  /\ Delivered("start")
  /\ todo' = Tail(todo)
  /\ IF current # rn_notAllowed
     THEN /\ Outcome(V!rnv_start_tag(V!rnv_text(Now, txt, TRUE), Head(todo).qn, Head(todo).atts))
          /\ mixed' = FALSE
          /\ any' = (any \/ ary_isany(current'))
     ELSE UNCHANGED <<current, previous, ok, txt, mixed, any>>
  /\ UNCHANGED <<doc, confs, i_conf, rules, i_r, phase, wf, answer, stale>>

end_element ==
  /\ Delivered("end")
  /\ todo' = Tail(todo)
  /\ IF current # rn_notAllowed
     THEN /\ Outcome(V!rnv_end_tag(V!rnv_text(Now, txt, mixed)))
          /\ mixed' = TRUE
     ELSE UNCHANGED <<current, previous, ok, txt, mixed>>
  /\ UNCHANGED <<doc, confs, i_conf, rules, i_r, phase, wf, any, answer, stale>>

(* The first n characters of a text, or all of it.                         *)
characters(n) ==
  /\ Delivered("text")
  /\ LET s == Head(todo).s IN
     /\ n \in DOMAIN s
     /\ todo' = IF n = Len(s) THEN Tail(todo)
                ELSE <<[e |-> "text", s |-> SubSeq(s, n + 1, Len(s))]>> \o Tail(todo)
     /\ txt' = IF current = rn_notAllowed THEN txt ELSE txt \o SubSeq(s, 1, n)
  /\ UNCHANGED <<doc, confs, i_conf, rules, i_r, phase, current, previous, mixed, ok, wf, any, answer, stale>>

(* The document is not well-formed, or cannot be read on.                  *)
broken ==
  /\ Delivered("broken")
  /\ wf' = FALSE /\ ok' = FALSE /\ todo' = <<>>
  /\ UNCHANGED <<doc, confs, i_conf, rules, i_r, phase, current, previous, mixed, any, txt, answer, stale>>

(* Slip: a document that is not well-formed breaks any schema. *)
Verdict_broken(kind) == IF kind = "valid" THEN ok ELSE ~ok

Verdict(kind) == IF kind = "valid" THEN ok ELSE wf /\ ~ok

(* At the end of a buffer, after an error, when all is allowed, or at the  *)
(* end of the document.  What has been read of a text is not dropped.      *)
validated ==
  /\ phase = "reading" /\ (~ok \/ any \/ todo = <<>>)
  /\ Decide(Verdict(rules[i_r].kind))
  /\ todo' = <<>>
  /\ UNCHANGED <<doc, confs, i_conf, rules, wf, current, previous, mixed, any, txt, stale>>

Next ==
  \/ read_config \/ no_config \/ clear
  \/ match_name \/ not_well_formed \/ validate
  \/ start_element \/ end_element \/ broken
  \/ \E n \in 1 .. 3 : characters(n)
  \/ validated

Spec == Init /\ [][Next]_vars

-----------------------------------------------------------------------------
(* What the answer should be, by RELAX NG and without reading in parts.    *)
RECURSIVE Tree(_)
Tree(n) ==
  IF IsText(n) THEN n
  ELSE [qn |-> n.qn, kids |-> [i \in DOMAIN n.kids |-> Tree(n.kids[i])],
        atts |-> [a \in {x[1] : x \in Range(n.atts)} |->
                    (CHOOSE x \in Range(n.atts) : x[1] = a)[2]]]

WellFormed(d) == d.readable /\ d.broken = 0

Holds(route, d) ==
  CASE route.kind = "=~" -> rx_match(route.arg, d.name)
    [] route.kind = "!~" -> ~rx_match(route.arg, d.name)
    [] route.kind = "valid" -> WellFormed(d) /\ Valid(route.arg, Tree(d.root))
    [] route.kind = "!valid" -> WellFormed(d) /\ ~Valid(route.arg, Tree(d.root))

DeclarationsOf(conf, typ) == {i \in DOMAIN conf.decls : conf.decls[i][1] = typ}

(* Free of errors; the arrow after an expression may be missing.           *)
Usable(conf) ==
  /\ conf.lost # 0 => Whole(conf)[conf.lost].sym = "=>"
  /\ \A route \in Range(conf.routes) :
       route.arg # Bad /\ DeclarationsOf(conf, route.type) # {}

Matching(conf, d) == {i \in DOMAIN conf.routes : Holds(conf.routes[i], d)}

(* The string of the first rule that matches in the first file where one does. *)
Expected(files, d) ==
  LET good == {n \in DOMAIN files : Usable(files[n]) /\ Matching(files[n], d) # {}} IN
  IF good = {} THEN Undefined
  ELSE LET conf == files[Min(good)]
           typ == conf.routes[Min(Matching(conf, d))].type
       IN conf.decls[Max(DeclarationsOf(conf, typ))][2]

(* readme.txt:211: "Rules are processed sequentially, the first matching    *)
(* rule determines the file's type."  The answer is that of the first rule *)
(* of which this holds, however the document is cut into buffers and       *)
(* however early its reading is given up.                                  *)
FirstMatchDetermines ==
  phase \in {"found", "failed"} /\ doc.broken \in {0, 1} => answer = Expected(confs, doc)

(* The same where no text of an earlier reading is left over: files with   *)
(* errors are passed over with all their rules, a document that is not     *)
(* well-formed is neither valid nor invalid, and stopping in the middle of *)
(* a document decides its type as reading it to the end would.  Where it   *)
(* ceases to be well-formed only after a rule can have been decided, more  *)
(* than one answer is possible.                                            *)
FirstMatchDecides == stale \/ FirstMatchDetermines

(* Once ary_isany has found that the rest of the document may be anything, *)
(* no well-formed rest of it brings an error: reading on would not change  *)
(* the verdict that validate gives by stopping there.                      *)
AnyMeansAll ==
  [][any /\ ok /\ phase = "reading" /\ phase' = "reading" /\ wf' => ok']_vars

=============================================================================
