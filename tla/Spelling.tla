------------------------------- MODULE Spelling -----------------------------
(***************************************************************************)
(* Reference for module Lexer: how symbols are written.  A style is        *)
(*   gap        what stands between symbols; if it is empty, a space where *)
(*              they would run together                                    *)
(*   quote      the quotes of literals, where they will do                 *)
(*   eol        the end of a line                                          *)
(*   coded      the characters written as escapes                          *)
(*   exes       the x of an escape                                         *)
(*   backslash  whether all names have a backslash, or only those that     *)
(*              would be keywords                                          *)
(*   head, tail what stands before and after the symbols                   *)
(***************************************************************************)
EXTENDS Lexer

CONSTANTS
  Chars(_),    \* the characters of a literal
  Codes        \* the hexadecimal digits of the codes of some characters

(* What is no symbol: a character that cannot be, bytes that are not UTF-8,*)
(* an escape without end, a literal that its line ends, half of a >>.      *)
Slips == {"ill", "bad", "code", "open", ">"}

Quotes == {<<"'">>, <<"\"">>, <<"'", "'", "'">>, <<"\"", "\"", "\"">>}

Fits(chars, quote, coded) ==
  LET q == Head(quote) IN
  IF Len(quote) = 1
  THEN q \notin ToSet(chars) /\ ("\n" \in ToSet(chars) => "\n" \in coded)
  ELSE /\ \A i \in 1 .. Len(chars) - 2 : SubSeq(chars, i, i + 2) # quote
       /\ chars # <<>> => Last(chars) # q

QuotesFor(chars, style) ==
  IF Fits(chars, style.quote, style.coded) THEN style.quote
  ELSE CHOOSE quote \in Quotes : Fits(chars, quote, style.coded)

Each(chars, style) ==
  FlattenSeq([i \in DOMAIN chars |->
    CASE chars[i] \in style.coded -> <<"\\">> \o style.exes \o <<"{">> \o Codes[chars[i]] \o <<"}">>
      [] chars[i] = "\n" /\ chars[i] \notin style.coded -> style.eol
      [] OTHER -> <<chars[i]>>])

LiteralText(sym, style) ==
  LET quote == QuotesFor(Chars(sym.s), style) IN quote \o Each(Chars(sym.s), style) \o quote

NameText(sym, style) ==
  IF style.backslash \/ sym.s \in Keywords THEN <<"\\">> \o Chars(sym.s)
  ELSE Each(Chars(sym.s), style)

DocumentationText(style) ==
  <<"#", "#", " ", "v", "#">> \o style.eol \o <<"\t", "#", "#", "#">> \o style.eol
    \o <<"#", "v">> \o style.eol \o style.eol

SymbolText(sym, style) ==
  CASE sym.sym = "LITERAL" -> LiteralText(sym, style)
    [] sym.sym = "IDENT" -> NameText(sym, style)
    [] sym.sym = "QNAME" -> Each(<<sym.pfx, ":", sym.s>>, style)
    [] sym.sym = "NSNAME" -> Each(<<sym.s, ":", "*">>, style)
    [] sym.sym = "##" -> DocumentationText(style)
    [] sym.sym \in {"|=", "&="} -> Each(<<Head(Chars(sym.sym)), "=">>, style)
    [] sym.sym = ">>" -> <<">", ">">>
    [] sym.sym = "ill" -> <<"%">>
    [] sym.sym = "bad" -> <<Bad>>
    [] sym.sym = "code" -> <<"\\", "x", "{", "6", "%">>
    [] sym.sym = "open" -> <<"'", "v">> \o style.eol
    [] sym.sym = ">" -> <<">", " ">>
    [] OTHER -> Each(<<sym.sym>>, style)

(* Symbols that would run together: two words, or a word and a -, which is *)
(* a character of names; the halves of |= and &=; empty quotes and another *)
(* one; what would be an escape; and what would not be one any more, since *)
(* getv does not look at a backslash that it has read ahead.               *)
Wordlike(sym) == sym.sym \in Keywords \cup {"IDENT", "QNAME"}
Sticks(a, b) ==
  \/ Wordlike(a) /\ (Wordlike(b) \/ b.sym \in {"-", "NSNAME"})
  \/ a.sym \in {"|", "&"} /\ b.sym = "="
  \/ a.sym = "LITERAL" /\ a.s = "" /\ b.sym \in {"LITERAL", "open"}
  \/ a.sym = "IDENT" /\ ToSet(Chars(a.s)) = {"x"} /\ b.sym \in {"{", "code"}

GapBetween(a, b, style) == IF style.gap = <<>> /\ Sticks(a, b) THEN <<" ">> ELSE style.gap

Spelled(syms, style) ==
  style.head
    \o FlattenSeq([i \in DOMAIN syms |-> SymbolText(syms[i], style)
         \o IF i = Len(syms) THEN <<>> ELSE GapBetween(syms[i], syms[i + 1], style)])
    \o style.tail

(* What is read of it; a slip is an error, and the rest of it is read.     *)
AsRead(syms) ==
  FlattenSeq([i \in DOMAIN syms |->
    CASE syms[i].sym \in {"ill", "bad", "code"} -> <<>>
      [] syms[i].sym = "open" -> <<Lit("v")>>
      [] syms[i].sym = ">" -> <<Tok(">>")>>
      [] OTHER -> <<syms[i]>>])

Illegal(syms) == \E i \in DOMAIN syms : syms[i].sym \in Slips

=============================================================================
