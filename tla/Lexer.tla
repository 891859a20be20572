-------------------------------- MODULE Lexer -------------------------------
(***************************************************************************)
(* rnc.c: from the characters of a file to the symbols of the parser.  A   *)
(* run of letters counts as one character.  getu decodes a character, ends *)
(* the last line if it has no end, and makes one of CR LF; getv replaces   *)
(* escapes; advance cuts a symbol.  They work on the state l of a source:  *)
(*   buf, i   the characters of the file, and how many of them are read    *)
(*   u, v     what getu and getv have read last                            *)
(*   nx, w    getv has read ahead: this many x still to come, and then w   *)
(*   ill      has an error been reported                                   *)
(*   sym      the symbol cut last                                          *)
(***************************************************************************)
EXTENDS Integers, Sequences, SequencesExt

CONSTANTS
  Letters,     \* runs of letters
  Chr(_),      \* the character of a code
  BOM, Bad     \* the mark at the beginning of a file; bytes that are not UTF-8

Sym(sym, str, pfx) == [sym |-> sym, s |-> str, pfx |-> pfx]
Tok(sym) == Sym(sym, sym, "")              \* keywords and punctuation
Id(name) == Sym("IDENT", name, "")
QName(pfx, name) == Sym("QNAME", name, pfx)
NsName(pfx) == Sym("NSNAME", pfx, "")
Lit(str) == Sym("LITERAL", str, "")
EOF == Tok("EOF")

Keywords == {"attribute", "datatypes", "default", "div", "element", "empty", "external",
  "grammar", "include", "inherit", "list", "mixed", "namespace", "notAllowed", "parent",
  "start", "string", "text", "token"}

-----------------------------------------------------------------------------
End == "end of file"         \* -1
Line == "end of line"        \* 0, for the end of a line that is not escaped

Digits == {"0", "1", "2", "3", "4", "5", "6", "7", "8", "9"}
Hex == [c \in Digits |-> CHOOSE n \in 0 .. 9 : ToString(n) = c]
         @@ [c \in {"A", "a"} |-> 10] @@ [c \in {"B", "b"} |-> 11] @@ [c \in {"C", "c"} |-> 12]
         @@ [c \in {"D", "d"} |-> 13] @@ [c \in {"E", "e"} |-> 14] @@ [c \in {"F", "f"} |-> 15]

illegal(l) == [l EXCEPT !.ill = TRUE]

RECURSIVE Decoded(_, _)
Decoded(l, u0) ==
  IF l.i = Len(l.buf) THEN [l EXCEPT !.u = IF u0 \in {"\n", "\r", End} THEN End ELSE "\n"]
  ELSE LET c == l.buf[l.i + 1]
           next == [l EXCEPT !.i = @ + 1]
       IN CASE c = Bad -> Decoded(illegal(next), u0)
            [] c = "\n" /\ u0 = "\r" -> Decoded(next, "\n")
            [] OTHER -> [next EXCEPT !.u = c]

getu(l) == Decoded(l, l.u)

(* What stands behind a backslash: x and a code in braces, or anything.    *)
Char(code) == IF code = 0 THEN Line ELSE Chr(code)

RECURSIVE Code(_, _)
Code(l, code) ==
  CASE l.u = "}" -> [l EXCEPT !.v = Char(code)]
    [] l.u \in DOMAIN Hex -> Code(getu(l), 16 * code + Hex[l.u])
    [] OTHER -> illegal([l EXCEPT !.v = Char(16 * code)])

Backslash(l, nx) == [l EXCEPT !.v = "\\", !.nx = nx, !.w = l.u]

RECURSIVE Exes(_, _)
Exes(l, nx) ==
  CASE l.u = "x" -> Exes(getu(l), nx + 1)
    [] l.u = "{" /\ nx > 0 -> Code(getu(l), 0)
    [] OTHER -> Backslash(l, nx)

Unescaped(l) ==
  CASE l.u \in {"\n", "\r"} -> [l EXCEPT !.v = Line]
    [] l.u = "\\" -> Exes(getu(l), 0)
    [] OTHER -> [l EXCEPT !.v = l.u]

getv(l) ==
  CASE l.nx > 0 -> [l EXCEPT !.v = "x", !.nx = @ - 1]
    [] l.nx = 0 -> [l EXCEPT !.v = l.w, !.nx = -1]
    [] OTHER -> Unescaped(getu(l))

-----------------------------------------------------------------------------
newline == {Line, "\n"}
whitespace == {" ", "\t"}
name_start == Letters \cup {"_"}
name_char == name_start \cup Digits \cup {".", "-", ":"}
Marks == {"=", ",", "?", "*", "+", "-", "~", "(", ")", "{", "}", "[", "]"}

Got(l, sym) == [l EXCEPT !.sym = sym]
Str(chars) == FoldLeft(LAMBDA s, c : s \o c, "", chars)

RECURSIVE skip_comment(_)
skip_comment(l) == IF l.v \in newline THEN getv(l) ELSE skip_comment(getv(l))

RECURSIVE Past(_, _)
Past(l, chars) == IF l.v \in chars THEN Past(getv(l), chars) ELSE l

(* The rest of a documentation comment: it goes on with the next line that *)
(* begins with ##; the text is of no use to anyone.                        *)
RECURSIVE Documentation(_)
RECURSIVE ToLineEnd(_)
ToLineEnd(l) == IF l.v \in newline THEN l ELSE ToLineEnd(getv(l))
MaybeMore(l) ==
  IF l.v = "#" THEN Documentation(getv(l)) ELSE Got(skip_comment(l), Tok("##"))
Documentation(l) ==
  LET next == Past(getv(ToLineEnd(Past(l, {"#"}))), whitespace) IN
  IF next.v = "#" THEN MaybeMore(getv(next)) ELSE Got(next, Tok("##"))

(* Slip: two quotes are taken for three. *)
Closes_two(q, triple, s) == triple => Len(s) >= 1 /\ s[Len(s)] = q

(* A literal, after its quotes; what has been read of it is s.             *)
Closes(q, triple, s) == triple => Len(s) >= 2 /\ s[Len(s)] = q /\ s[Len(s) - 1] = q
Closed(l, s) == Got(getv(l), Lit(Str(s)))

RECURSIVE Literal(_, _, _, _)
Literal(l, q, triple, s) ==
  CASE l.v = q /\ Closes(q, triple, s) -> Closed(l, IF triple THEN SubSeq(s, 1, Len(s) - 2) ELSE s)
    [] l.v = End \/ (l.v = Line /\ ~triple) -> Closed(illegal(l), s)
    [] l.v = Line /\ triple -> Literal(getv(l), q, triple, Append(s, "\n"))
    [] OTHER -> Literal(getv(l), q, triple, Append(s, l.v))

Quoted2(l, q) == IF l.v = q THEN Literal(getv(l), q, TRUE, <<>>) ELSE Got(l, Lit(""))
Quoted(l, q) == IF l.v = q THEN Quoted2(getv(l), q) ELSE Literal(l, q, FALSE, <<>>)

(* A name is a keyword unless it is escaped.  Its prefix ends at the first *)
(* colon, where the parser splits it.                                      *)
Prefixed(s) ==
  LET colon == SelectInSeq(s, LAMBDA c : c = ":") IN
  QName(Str(SubSeq(s, 1, colon - 1)), Str(SubSeq(s, colon + 1, Len(s))))

AsName(l, s, escaped) ==
  CASE ~Contains(s, ":") ->
         Got(l, IF ~escaped /\ Str(s) \in Keywords THEN Tok(Str(s)) ELSE Id(Str(s)))
    [] Contains(s, ":") /\ Last(s) = ":" /\ l.v = "*" -> Got(getv(l), NsName(Str(Front(s))))
    [] OTHER -> Got(l, Prefixed(s))

RECURSIVE NameFrom(_, _, _)
NameFrom(l, s, escaped) ==
  IF l.v \in name_char THEN NameFrom(getv(l), Append(s, l.v), escaped) ELSE AsName(l, s, escaped)

Assigning(l, op) == IF l.v = "=" THEN Got(getv(l), Tok(op \o "=")) ELSE Got(l, Tok(op))
Following(l) == Got(getv(IF l.v = ">" THEN l ELSE illegal(l)), Tok(">>"))

RECURSIVE Cut(_)
Comment(l) == IF l.v = "#" THEN Documentation(getv(l)) ELSE Cut(skip_comment(l))
NameOr(l, escaped) ==
  IF l.v \in name_start THEN NameFrom(getv(l), <<l.v>>, escaped) ELSE Cut(getv(illegal(l)))

Cut(l) ==
  CASE l.v \in newline \cup whitespace -> Cut(getv(l))
    [] l.v = End -> Got(l, EOF)
    [] l.v = "#" -> Comment(getv(l))
    [] l.v \in Marks -> Got(getv(l), Tok(l.v))
    [] l.v \in {"|", "&"} -> Assigning(getv(l), l.v)
    [] l.v = ">" -> Following(getv(l))
    [] l.v \in {"\"", "'"} -> Quoted(getv(l), l.v)
    [] l.v = "\\" -> NameOr(getv(l), TRUE)
    [] OTHER -> NameOr(l, FALSE)

-----------------------------------------------------------------------------
(* All symbols of a file. *)
rnc_source_init(chars) ==
  [buf |-> chars, i |-> IF chars # <<>> /\ Head(chars) = BOM THEN 1 ELSE 0,
   u |-> End, v |-> Line, nx |-> -1, w |-> Line, ill |-> FALSE, sym |-> EOF]

RECURSIVE Further(_, _)
Further(l, syms) ==
  IF l.sym = EOF THEN [syms |-> syms, ill |-> l.ill] ELSE Further(Cut(l), Append(syms, l.sym))

Symbols(chars) == Further(Cut(rnc_source_init(chars)), <<>>)

=============================================================================
