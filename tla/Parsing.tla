------------------------------- MODULE Parsing ------------------------------
(***************************************************************************)
(* Schemas read one after the other, as arx.c does: rnc.c keeps its scopes *)
(* in variables of the file, and what one schema leaves there the next one *)
(* finds.  A case is a schema, as files of the compact syntax, with        *)
(* annotations put in, with damage done to the text of one file, and       *)
(* spelled in some style.  A file of type raw is any text.                 *)
(***************************************************************************)
EXTENDS SchemaText, Spelling

CONSTANTS
  Cases,        \* the schemas read first, each with its annotations and style, and
  Probes,       \* those read later
  Fragile,      \* the schemas whose text may be damaged
  MaxParses,    \* how many schemas are read
  Strays,       \* what may be found in a text where it should not be
  Depth         \* to which depth of elements schemas are compared

ASSUME ParsingAssumption ==
  /\ MaxParses \in Nat /\ Depth \in Nat
  /\ Uninit.sym \notin {"##", ">>", "[", "LITERAL"}

VARIABLES
  nss, dts, defs, refs, prefs,   \* the scopes, kept between schemas
  schema,                        \* the schema that is read, and
  text,                          \* the symbols of its files as they are written,
  style,                         \* and the style they are written in
  intact,                        \* nothing has happened to the text
  state,                         \* "idle", "written" or "read"
  result,                        \* what has come of it
  parses                         \* how many have been read

vars == <<nss, dts, defs, refs, prefs, schema, text, style, intact, state, result, parses>>
scopes == [nss |-> nss, dts |-> dts, defs |-> defs, refs |-> refs, prefs |-> prefs]

NoResult == [errors |-> FALSE, start |-> perror, refers |-> <<>>, files |-> <<>>]

Init ==
  /\ nss = windup /\ dts = windup /\ defs = windup /\ refs = windup /\ prefs = windup
  /\ schema = <<>> /\ text = <<>> /\ style = <<>> /\ intact = TRUE /\ state = "idle"
  /\ result = NoResult
  /\ parses = 0

Written(f, notes) == IF f.t = "raw" THEN f.body ELSE Filled(FileText(f), notes)

Write(fs, notes, st) ==
  /\ schema' = fs /\ style' = st
  /\ text' = [fn \in DOMAIN fs |-> Written(fs[fn], notes)]
  /\ intact' = (\A fn \in DOMAIN fs : fs[fn].t # "raw") /\ state' = "written" /\ result' = NoResult
  /\ UNCHANGED <<nss, dts, defs, refs, prefs, parses>>

(* A file is cut off before a symbol, or the symbol is missing, or one that*)
(* does not belong there comes before it.                                  *)
Damage(fn, at, what) ==
  /\ state = "written" /\ intact
  /\ text' = [text EXCEPT ![fn] = SubSeq(@, 1, at - 1) \o what]
  /\ intact' = FALSE
  /\ UNCHANGED <<nss, dts, defs, refs, prefs, schema, style, state, result, parses>>

Damages(fn, at) ==
  LET rest == SubSeq(text[fn], at + 1, Len(text[fn])) IN
  {<<>>, rest} \cup {<<Tok(sym), text[fn][at]>> \o rest : sym \in Strays}

Files == [fn \in DOMAIN text |-> Symbols(Spelled(text[fn], style))]

Parse ==
  /\ state = "written"
  /\ \E files \in {Files} : \E s \in {rnc_parse(scopes, files, files["main"])} :
       /\ nss' = s.nss /\ dts' = s.dts /\ defs' = s.defs /\ refs' = s.refs /\ prefs' = s.prefs
       /\ result' = [errors |-> s.errors, start |-> s.val, refers |-> s.refers, files |-> s.files]
  /\ state' = "read" /\ parses' = parses + 1
  /\ UNCHANGED <<schema, text, style, intact>>

Next ==
  \/ /\ state # "written" /\ parses < MaxParses
     /\ \E c \in IF parses = 0 THEN Cases ELSE Probes : Write(c.fs, c.notes, c.style)
  \/ schema \in Fragile /\ \E fn \in DOMAIN text : \E at \in DOMAIN text[fn] : \E what \in Damages(fn, at) :
       Damage(fn, at, what)
  \/ Parse

Spec == Init /\ [][Next]_vars

-----------------------------------------------------------------------------
(* However many scopes a schema opens, with grammars in grammars, includes *)
(* and overrides, and wherever an error makes the parser skip to the next  *)
(* brace, all have been closed when it ends: what one schema defines or    *)
(* declares is not there for the next.                                     *)
ScopesUnwound == scopes = [st \in DOMAIN scopes |-> windup]

(* Symbols are read as they are written, in whatever style: with or        *)
(* without space between them, comments, a mark or no end of line at the   *)
(* ends of the file, line ends of any kind, any quotes, escapes of names   *)
(* and characters; and what is no symbol is reported.                      *)
ReadAsWritten ==
  state = "read" =>
    \A fn \in DOMAIN text :
      result.files[fn] = [syms |-> AsRead(text[fn]), ill |-> Illegal(text[fn])]

(* A schema in which nothing is wrong is accepted and means what its       *)
(* definitions say: combined ones are added up, an override takes the place*)
(* of what it overrides, names have the namespaces of the file they are    *)
(* in, references go to their own grammar or to its parent.                *)
MeansWhatItSays ==
  state = "read" /\ intact /\ SchemaSound(schema) =>
    ~result.errors /\ Unfolded(result.start, result.refers, Depth) = SchemaMeans(schema, Depth)

(* A schema with something wrong, a reference without definition, a name   *)
(* defined twice, a prefix not declared, an override of nothing, is        *)
(* reported, wherever in its files that is.                                *)
FaultsReported == state = "read" /\ intact /\ ~SchemaSound(schema) => result.errors

Opening == [sym \in {"}", ")", "]"} |->
              CASE sym = "}" -> "{" [] sym = ")" -> "(" [] sym = "]" -> "["]

(* Brackets close their like; from symbol i on, when those in open are.    *)
RECURSIVE Nested(_, _, _)
Nested(syms, i, open) ==
  CASE i > Len(syms) -> open = <<>>
    [] i <= Len(syms) /\ syms[i].sym \in {"{", "(", "["} ->
         Nested(syms, i + 1, Append(open, syms[i].sym))
    [] i <= Len(syms) /\ syms[i].sym \in DOMAIN Opening ->
         open # <<>> /\ Last(open) = Opening[syms[i].sym] /\ Nested(syms, i + 1, Front(open))
    [] OTHER -> Nested(syms, i + 1, open)

(* The parser recovers from errors by skipping, and annotations are skipped*)
(* without a look at their syntax; but text in which a bracket is missing  *)
(* or left over, or that has something in it that is no symbol, never      *)
(* passes for a schema.                                                    *)
BrokenTextReported ==
  state = "read" /\ (\E fn \in DOMAIN text : ~Nested(text[fn], 1, <<>>) \/ Illegal(text[fn]))
    => result.errors

=============================================================================
