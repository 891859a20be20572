--------------------------------- MODULE Xsd --------------------------------
(***************************************************************************)
(* xsd.c: is a text allowed by a datatype of XML Schema with its facets,   *)
(* and is it equal to a value?                                             *)
(*                                                                         *)
(* A text is a sequence of characters (see XsdTm for dates and times; lex  *)
(* says whether such a text is well formed).  A pattern is the name of one *)
(* of the patterns of xsd.c; how patterns match is what module Rx is about.*)
(***************************************************************************)
EXTENDS XsdTm, Sequences, FiniteSets

LOCAL INSTANCE SequencesExt
LOCAL INSTANCE FiniteSetsExt

CONSTANTS
  NPAT,        \* patterns given for a type at most
  Invalid      \* a parameter that is not a number

White == {" ", "\n"}
DigitChars == <<"0", "1", "2", "3", "4", "5", "6", "7", "8", "9">>

-----------------------------------------------------------------------------
(* xmlc_white_space; what rx_rmatch and rx_cmatch read.                    *)
Replaced(s) == [i \in DOMAIN s |-> IF s[i] \in White THEN " " ELSE s[i]]

Collapsed(s) ==
  LET r == Replaced(s)
      Kept(i) == r[i] # " " \/ /\ i > 1 /\ r[i - 1] # " "
                               /\ \E j \in i .. Len(r) : r[j] # " "
      at == SelectSeq([i \in DOMAIN r |-> i], Kept)
  IN  [i \in DOMAIN at |-> r[at[i]]]

(* The first and the last character out of a set, 0 if there is none; the  *)
(* text without those at its end, or at its beginning.                     *)
Places(s, chars) == {i \in DOMAIN s : s[i] \in chars}
Others(s, chars) == {i \in DOMAIN s : s[i] \notin chars}
FirstOf(places) == IF places = {} THEN 0 ELSE Min(places)
Cut(s, chars) == SubSeq(s, 1, Max({0} \cup Others(s, chars)))
Skip(s, chars) == SubSeq(s, Min({Len(s) + 1} \cup Others(s, chars)), Len(s))

-----------------------------------------------------------------------------
RECURSIVE TokenRest(_, _)
TokenStart(s, len) ==
  IF s = <<>> THEN IF len = 0 THEN 0 ELSE len - 1 ELSE TokenRest(Tail(s), len + 1)
TokenRest(s, len) ==
  CASE s = <<>> -> len
    [] s # <<>> /\ Head(s) \in White -> TokenStart(Skip(s, White), len + 1)
    [] OTHER -> TokenRest(Tail(s), len + 1)

toklenn(s) == TokenStart(Skip(s, White), 0)

tokcntn(s) ==
  Cardinality({i \in DOMAIN s : s[i] \notin White /\ (i = 1 \/ s[i - 1] \in White)})

NoSpace(s) == SelectSeq(s, LAMBDA c : c \notin White)

b64lenn(s) ==
  LET l == Len(NoSpace(Cut(s, White \cup {"="})))
  IN  IF l % 4 = 1 THEN -1 ELSE (l \div 4) * 3 + <<0, 0, 1, 2>>[(l % 4) + 1]

fdiglenn(s) ==
  LET t == Cut(s, White \cup {"0"})
      dot == FirstOf(Places(t, {"."}))
  IN  IF dot = 0 THEN 0 ELSE Len(t) - dot

diglenn(s) ==
  LET t == Skip(s, White \cup {"+", "-", "0"})
      stop == FirstOf(Places(t, White \cup {"."}))
      len == IF stop = 0 THEN Len(t) ELSE stop - 1
  IN  (IF len = 0 THEN 1 ELSE len)
      + IF stop # 0 /\ t[stop] = "." THEN fdiglenn(SubSeq(t, stop, Len(t))) ELSE 0

-----------------------------------------------------------------------------
(* Whether nothing is left of a decimal number: both scans stop at a point *)
(* or nowhere.  White space at the beginning stops the one from the end.   *)

(* Slip: only where the first scan stops is looked at. *)
IsZero_front(end, first) == first # 0 => end[first] = "."
IsZero(end, first) == \A i \in {first, Len(end)} \ {0} : end[i] = "."

(* Its sign, its digits before and after the point without the zeros that  *)
(* mean nothing.                                                           *)
Anchored(all, end, first, dot) ==
  [plus |-> \A i \in 1 .. (IF first = 0 THEN Len(end) ELSE first - 1) : end[i] # "-",
   zero |-> IsZero(end, first),
   int |-> CASE first = 0 -> <<>>
             [] first # 0 /\ dot = 0 -> SubSeq(all, first, Len(all))
             [] OTHER -> SubSeq(end, first, dot - 1),
   frac |-> IF dot = 0 THEN <<>> ELSE SubSeq(end, dot + 1, Len(end))]

Anchors(all, end) ==
  Anchored(all, end, FirstOf(Others(end, White \cup {"0", "+", "-"})),
           Max({0} \cup Places(end, {"."})))

UpToEnd(all) == Anchors(all, Cut(all, {"0", "+", "-"}))

anchdec(s) == UpToEnd(Cut(s, White))

DigitOf == [c \in ToSet(DigitChars) |-> CHOOSE i \in 0 .. 9 : DigitChars[i + 1] = c]

(* The digits may turn out to be none only later, when patterns match.     *)
Code == [c \in ToSet(DigitChars) |-> 48 + DigitOf[c]] @@
        (" " :> 32 @@ "\n" :> 10 @@ "+" :> 43 @@ "-" :> 45 @@ "." :> 46)

(* Digits one by one; what ends first is less.                             *)
RECURSIVE Lexical(_, _)
Lexical(c1, c2) ==
  CASE c1 = <<>> -> IF c2 = <<>> THEN 0 ELSE -1
    [] c1 # <<>> /\ c2 = <<>> -> 1
    [] OTHER -> IF Head(c1) = Head(c2) THEN Lexical(Tail(c1), Tail(c2))
                ELSE Sign(Code[Head(c1)] - Code[Head(c2)])

Magnitude(a1, a2) ==
  CASE Len(a1.int) # Len(a2.int) -> Sign(Len(a1.int) - Len(a2.int))
    [] Len(a1.int) = Len(a2.int) /\ a1.int # a2.int -> Lexical(a1.int, a2.int)
    [] OTHER -> Lexical(a1.frac, a2.frac)

(* Slip: the digits decide, whatever the sign. *)
Signed_not(a1, a2) == Magnitude(a1, a2)
Signed(a1, a2) == IF a1.plus THEN Magnitude(a1, a2) ELSE -Magnitude(a1, a2)

Compared(a1, a2) ==
  CASE a1.zero /\ a2.zero -> 0
    [] ~(a1.zero /\ a2.zero) /\ a1.plus # a2.plus -> IF a1.plus THEN 1 ELSE -1
    [] OTHER -> Signed(a1, a2)

deccmp(s1, s2) == Compared(anchdec(s1), anchdec(s2))

-----------------------------------------------------------------------------
(* The types defined by a pattern and bounds.                              *)
Between(pat, bounds) == [patterns |-> <<pat>>, set |-> bounds]
Minus(s) == <<"-">> \o s
Digits(ds) == [i \in DOMAIN ds |-> DigitChars[ds[i] + 1]]
UnsignedUpTo(most) ==
  Between("NON_NEGATIVE", [minInclusive |-> Digits(<<0>>), maxInclusive |-> Digits(most)])
SignedUpTo(most) ==
  Between("INTEGER", [minInclusive |-> Minus(Digits([most EXCEPT ![Len(most)] = @ + 1])),
                      maxInclusive |-> Digits(most)])

Derived ==
  [integer |-> Between("INTEGER", <<>>),
   positiveInteger |-> Between("POSITIVE", [minInclusive |-> <<"1">>]),
   nonNegativeInteger |-> Between("NON_NEGATIVE", [minInclusive |-> <<"0">>]),
   nonPositiveInteger |-> Between("NON_POSITIVE", [maxInclusive |-> <<"0">>]),
   negativeInteger |-> Between("NEGATIVE", [maxInclusive |-> Minus(<<"1">>)]),
   byte |-> SignedUpTo(<<1, 2, 7>>),
   short |-> SignedUpTo(<<3, 2, 7, 6, 7>>),
   int |-> SignedUpTo(<<2, 1, 4, 7, 4, 8, 3, 6, 4, 7>>),
   long |-> SignedUpTo(<<9, 2, 2, 3, 3, 7, 2, 0, 3, 6, 8, 5, 4, 7, 7, 5, 8, 0, 7>>),
   unsignedByte |-> UnsignedUpTo(<<2, 5, 5>>),
   unsignedShort |-> UnsignedUpTo(<<6, 5, 5, 3, 5>>),
   unsignedInt |-> UnsignedUpTo(<<4, 2, 9, 4, 9, 6, 7, 2, 9, 5>>),
   unsignedLong |-> UnsignedUpTo(<<1, 8, 4, 4, 6, 7, 4, 4, 0, 7, 3, 7, 0, 9, 5, 5, 1, 6, 1, 5>>)]

Base(typ) == IF typ \in DOMAIN Derived THEN "decimal" ELSE typ

Times == {"dateTime", "date", "time", "gYearMonth", "gYear", "gMonthDay", "gDay", "gMonth"}
Doubles == {"float", "double"}   \* one type
Tokens == {"token", "language", "anyURI", "NMTOKEN", "Name", "NCName", "ID", "IDREF", "ENTITY"}
Lists == {"NMTOKENS", "IDREFS", "ENTITIES"}
Names == {"QName", "NOTATION"}
Types == DOMAIN Derived \cup Times \cup Doubles \cup Tokens \cup Lists \cup Names \cup
         {"decimal", "duration", "string", "normalizedString", "boolean", "hexBinary", "base64Binary"}

-----------------------------------------------------------------------------
(* Tokens: s_tokcmpn of s.c passes over white space at both ends and       *)
(* takes any run of it for any other.                                      *)
RECURSIVE Alike(_, _)
Alike(s1, s2) ==
  CASE s2 = <<>> -> Skip(s1, White) = <<>>
    [] s2 # <<>> /\ s1 = <<>> -> Skip(s2, White) = <<>>
    [] OTHER ->
         IF {Head(s1), Head(s2)} \subseteq White
         THEN Alike(Skip(s1, White), Skip(s2, White))
         ELSE Head(s1) = Head(s2) /\ Alike(Tail(s1), Tail(s2))

s_tokcmpn(s1, s2) == Alike(Skip(s1, White), Skip(s2, White))

-----------------------------------------------------------------------------
(* The loop over the parameters: the facets set, the patterns, the errors. *)
Numbers == {"length", "minLength", "maxLength", "fractionDigits", "totalDigits"}
BoundNames == {"minExclusive", "minInclusive", "maxInclusive", "maxExclusive"}

WithFacet(f, key, val) == [f EXCEPT !.set = (key :> val) @@ @]
WithError(f, er) == [f EXCEPT !.errors = @ \cup {er}]

(* Slip: room is left for one pattern more. *)
Pattern_late(f, pat) ==
  IF Len(f.patterns) > NPAT
  THEN WithError(f, "NPAT") ELSE [f EXCEPT !.patterns = Append(@, pat)]

Pattern(f, pat) ==
  IF Len(f.patterns) = NPAT
  THEN WithError(f, "NPAT") ELSE [f EXCEPT !.patterns = Append(@, pat)]

Parameter(f, p) ==
  CASE p.key = "pattern" -> Pattern(f, p.val)
    [] p.key \in Numbers /\ p.val = Invalid -> WithError(WithFacet(f, p.key, 0), "PARVAL")
    [] p.key \in Numbers /\ p.val # Invalid -> WithFacet(f, p.key, p.val)
    [] p.key \in BoundNames -> WithFacet(f, p.key, p.val)
    [] p.key = "whiteSpace" -> WithError(f, "WS")
    [] p.key = "enumeration" -> WithError(f, "ENUM")
    [] OTHER -> WithError(f, "PAR")

Facets(typ, ps) ==
  FoldLeft(Parameter,
           (IF typ \in DOMAIN Derived THEN Derived[typ] ELSE [patterns |-> <<>>, set |-> <<>>])
             @@ [errors |-> {}],
           ps)

-----------------------------------------------------------------------------
(* The patterns, on text with its white space treated.                     *)
Letters == {"a", "b", "c"}
NameStart == Letters
NameChars == NameStart \cup {"1", "-"}
All(s, chars) == s # <<>> /\ ToSet(s) \subseteq chars
Ordinal(s) == All(s, ToSet(DigitChars))
Opt(s, chars) == IF s # <<>> /\ s[1] \in chars THEN Tail(s) ELSE s
NCName(s) == All(s, NameChars) /\ s[1] \in NameStart
Words(s) ==
  LET gap == {0, Len(s) + 1} \cup {i \in DOMAIN s : s[i] = " "}
  IN  {SubSeq(s, i + 1, j - 1) : <<i, j>> \in
         {g \in gap \X gap : g[1] < g[2] /\ \A k \in gap : k <= g[1] \/ k >= g[2]}}

Hex == ToSet(DigitChars) \cup {"a", "b", "c", "d", "e", "f", "A", "B", "C", "D", "E", "F"}
Base64 == Hex \cup {"w", "Q"}
UriChars == NameChars \cup {":", "/"}

(* Quadruples, of which the last may be incomplete and is filled up.       *)
Encoded(t) ==
  LET n == FirstOf(Places(t \o <<"=">>, {"="})) - 1
      pad == SubSeq(t, n + 1, Len(t))
  IN  /\ ToSet(SubSeq(t, 1, n)) \subseteq Base64
      /\ \/ n % 4 = 0 /\ pad = <<>>
         \/ n % 4 = 2 /\ pad = <<"=", "=">> /\ t[n] \in {"A", "Q", "w"}
         \/ n % 4 = 3 /\ pad = <<"=">> /\ t[n] \in {"A", "E", "Q", "c", "0", "4", "8", "w"}

Integer(s) == Ordinal(Opt(s, {"+", "-"}))
Decimal(s) ==
  \/ Ordinal(s)
  \/ \E i \in DOMAIN s : /\ s[i] = "."
                         /\ Ordinal(SubSeq(s, 1, i - 1) \o SubSeq(s, i + 1, Len(s)))
Fixed(s) == Decimal(Opt(s, {"+", "-"}))
Floating(s) ==
  LET e == FirstOf(Places(s \o <<"E">>, {"E", "e"})) IN
  /\ Fixed(SubSeq(s, 1, e - 1))
  /\ e > Len(s) \/ Integer(SubSeq(s, e + 1, Len(s)))

(* The units of a duration, in the order of the patterns: where hours are  *)
(* missing, minutes or seconds may come twice.                             *)
Maybe(u) == {<<>>, <<u>>}
InTurn(us, vs, ws) == {u \o v \o w : u \in us, v \in vs, w \in ws}
DateUnits == InTurn(Maybe("Y"), Maybe("M"), Maybe("D")) \ {<<>>}
TimeUnits == InTurn({<<"H">>}, Maybe("M"), Maybe("S")) \cup
             InTurn(Maybe("M"), {<<"M">>}, Maybe("S")) \cup
             InTurn(Maybe("S"), Maybe("M"), {<<"S">>})
Durations ==
  {<<"P">> \o d \o c : d \in DateUnits, c \in {<<>>} \cup {<<"T">> \o t : t \in TimeUnits}} \cup
  {<<"P", "T">> \o t : t \in TimeUnits}

Duration(s) ==
  LET at == Others(s, ToSet(DigitChars) \cup {"."})
      Count(i) == SubSeq(s, Max({0} \cup {j \in at : j < i}) + 1, i - 1)
  IN  /\ s # <<>> /\ Len(s) \in at
      /\ SelectSeq(s, LAMBDA c : c \notin ToSet(DigitChars) \cup {"."}) \in Durations
      /\ \A i \in at : CASE s[i] \in {"P", "T"} -> Count(i) = <<>>
                         [] s[i] = "S" -> Decimal(Count(i))
                         [] OTHER -> Ordinal(Count(i))

Matches(pat, s) ==
  CASE pat = "INTEGER" -> Integer(s)
    [] pat \in {"POSITIVE", "NON_NEGATIVE"} -> Ordinal(Opt(s, {"+"}))
    [] pat = "NON_POSITIVE" -> (Ordinal(Opt(s, {"-"})) /\ s[1] = "-") \/ All(s, {"0"})
    [] pat = "NEGATIVE" -> Ordinal(Opt(s, {"-"})) /\ s[1] = "-"
    [] pat = "FIXED" -> Fixed(s)
    [] pat = "FLOATING" -> s \in {<<"INF">>, <<"-", "INF">>, <<"NaN">>} \/ Floating(s)
    [] pat = "duration" -> Duration(Opt(s, {"-"}))
    [] pat = "language" ->   \* parts of at most eight
         LET ends == {0, Len(s) + 1} \cup Places(s, {"-"}) IN
         \A i, j \in ends :
           i < j /\ (\A k \in ends : k <= i \/ k >= j) =>
             /\ j - i - 1 \in 1 .. 8
             /\ ToSet(SubSeq(s, i + 1, j - 1)) \subseteq (IF i = 0 THEN Letters ELSE Letters \cup {"1"})
    [] pat = "anyURI" ->
         LET body == SubSeq(s, 1, FirstOf(Places(s \o <<"#">>, {"#"})) - 1)
             fragment == SubSeq(s, Len(body) + 1, Len(s)) IN
         /\ ToSet(body) \subseteq UriChars
         /\ fragment = <<>> \/ All(Tail(fragment), UriChars)
    [] pat = "boolean" -> s \in {<<"true">>, <<"false">>, <<"1">>, <<"0">>}
    [] pat = "hexBinary" -> All(s, Hex)
    [] pat = "base64Binary" -> Encoded(NoSpace(s))
    [] pat = "NMTOKEN" -> All(s, NameChars \cup {":"})
    [] pat = "NMTOKENS" -> \A w \in Words(s) : All(w, NameChars \cup {":"})
    [] pat = "Name" -> All(s, NameChars \cup {":"}) /\ s[1] \in NameStart \cup {":"}
    [] pat = "NCNAME" -> NCName(s)
    [] pat = "NCNAMES" -> \A w \in Words(s) : NCName(w)
    [] pat = "QNAME" ->
         \/ NCName(s)
         \/ \E i \in DOMAIN s : /\ s[i] = ":"
                                /\ NCName(SubSeq(s, 1, i - 1)) /\ NCName(SubSeq(s, i + 1, Len(s)))
    [] pat \in Times -> s.lex

-----------------------------------------------------------------------------
(* What the type itself asks for: its pattern, how its white space is      *)
(* treated, its length.                                                    *)
INT_MAX == 2147483647

TypePatterns(dt) ==
  CASE dt \in {"string", "normalizedString", "token", "unknown"} -> <<>>
    [] dt \in {"NCName", "ID", "IDREF", "ENTITY"} -> <<"NCNAME">>
    [] dt \in {"IDREFS", "ENTITIES"} -> <<"NCNAMES">>
    [] dt \in Names -> <<"QNAME">>
    [] dt = "decimal" -> <<"FIXED">>
    [] dt \in Doubles -> <<"FLOATING">>
    [] OTHER -> <<dt>>

Treated(dt, s) ==
  CASE dt = "string" \/ dt \in Times -> s
    [] dt = "normalizedString" -> Replaced(s)
    [] OTHER -> Collapsed(s)

LengthOf(dt, s) ==
  CASE dt \in {"string", "normalizedString"} -> Len(s)
    [] dt \in Tokens -> toklenn(s)
    [] dt \in Lists -> tokcntn(s)
    [] dt = "hexBinary" -> (toklenn(s) + 1) \div 2
    [] dt = "base64Binary" -> b64lenn(s)
    [] OTHER -> INT_MAX

LengthChecked(dt, set, length) ==
  dt \in Names \/
  /\ "length" \in DOMAIN set => length = set.length
  /\ "maxLength" \in DOMAIN set => length <= set.maxLength
  /\ "minLength" \in DOMAIN set => length >= set.minLength

chkdec(set, s) ==
  /\ "minExclusive" \in DOMAIN set => deccmp(s, set.minExclusive) > 0
  /\ "minInclusive" \in DOMAIN set => deccmp(s, set.minInclusive) >= 0
  /\ "maxInclusive" \in DOMAIN set => deccmp(s, set.maxInclusive) <= 0
  /\ "maxExclusive" \in DOMAIN set => deccmp(s, set.maxExclusive) < 0

(* Numbers of the C library, in units of 1/10000; what is no number        *)
(* matches no pattern, and whatever it counts for does not matter.         *)
Unit == 10000
HUGE_VAL == INT_MAX

Num(s) ==
  LET u == Opt(Collapsed(s), {"+", "-"})
      dot == FirstOf(Places(u \o <<".">>, {"."}))
      Weight(i) == IF i < dot THEN Unit * 10^(dot - i - 1) ELSE 10^(4 - (i - dot))
      abs == MapThenSumSet(LAMBDA i : DigitOf[u[i]] * Weight(i), DOMAIN u \ {dot})
  IN  IF Collapsed(s)[1] = "-" THEN -abs ELSE abs

atof(s) ==
  LET t == Collapsed(s)
      e == FirstOf(Places(t \o <<"E">>, {"E", "e"}))
      power == IF e > Len(t) THEN 0 ELSE Num(SubSeq(t, e + 1, Len(t))) \div Unit
      number == Num(SubSeq(t, 1, e - 1))
  IN  IF ~Floating(t) THEN 0
      ELSE IF power >= 0 THEN number * 10^power ELSE number \div 10^(-power)

IsNaN(s) == s_tokcmpn(<<"NaN">>, s)

atodn(s) ==
  CASE s_tokcmpn(<<"-", "INF">>, s) -> -HUGE_VAL
    [] s_tokcmpn(<<"INF">>, s) -> HUGE_VAL
    [] OTHER -> atof(s)

(* Nothing is less than, equal to or greater than what is not a number.    *)
Compare(d1, d2) == IF d1 = d2 THEN {0} ELSE IF d1 < d2 THEN {-1} ELSE {1}
dblcmp(s1, s2) == IF IsNaN(s1) \/ IsNaN(s2) THEN {} ELSE Compare(atodn(s1), atodn(s2))

AtLimit == [minExclusive |-> {1}, minInclusive |-> {0, 1},
            maxInclusive |-> {-1, 0}, maxExclusive |-> {-1}]

chkdbl(set, s) ==
  \A key \in DOMAIN set \cap BoundNames : dblcmp(s, set[key]) \cap AtLimit[key] # {}

DigitsChecked(set, s) ==
  /\ "fractionDigits" \in DOMAIN set => fdiglenn(s) <= set.fractionDigits
  /\ "totalDigits" \in DOMAIN set => diglenn(s) <= set.totalDigits

(* The limits are well formed: for one that is not, the error is reported   *)
(* without the arguments its message needs.                                *)
chktm(set, s) ==
  /\ s.lex
  /\ \A key \in DOMAIN set \cap BoundNames :
       xsd_tmcmp(xsd_mktm(s), xsd_mktm(set[key])) \in AtLimit[key]

ValueChecked(dt, set, s) ==
  CASE dt = "decimal" -> DigitsChecked(set, s) /\ chkdec(set, s)
    [] dt \in Doubles -> chkdbl(set, s)
    [] dt \in Times /\ DOMAIN set \cap BoundNames # {} -> chktm(set, s)
    [] OTHER -> TRUE

Checked(dt, f, patterns, s) ==
  [ok |-> /\ ValueChecked(dt, f.set, s)
          /\ \A i \in DOMAIN patterns : Matches(patterns[i], Treated(dt, s))
          /\ LengthChecked(dt, f.set, LengthOf(dt, s)),
   errors |-> f.errors \cup (IF dt = "unknown" THEN {"TYP"} ELSE {}),
   npat |-> Len(patterns)]

AllowedBy(dt, f, s) == Checked(dt, f, f.patterns \o TypePatterns(dt), s)

xsd_allows(typ, ps, s) == AllowedBy(Base(typ), Facets(typ, ps), s)

-----------------------------------------------------------------------------
(* Equality.                                                               *)
(* Two digits; the cases of the switch fall through.                       *)
Upper == <<"A", "B", "C", "D", "E", "F">>
Lower == <<"a", "b", "c", "d", "e", "f">>
Letter(c) == IF c \in ToSet(Upper) THEN FirstOf(Places(Upper, {c}))
             ELSE FirstOf(Places(Lower, {c}))

SameHex(c1, c2) ==
  c1 = c2 \/ (Letter(c1) # 0 /\ Letter(c2) >= Letter(c1))

Pairwise(s1, s2, Same(_, _)) ==
  Len(s1) = Len(s2) /\ \A i \in DOMAIN s1 : Same(s1[i], s2[i])

hexcmpn(s1, s2) == Pairwise(NoSpace(s1), NoSpace(s2), SameHex)
b64cmpn(s1, s2) == NoSpace(s1) = NoSpace(s2)
nrmcmpn(s1, s2) ==
  Pairwise(s1, s2, LAMBDA c1, c2 : c1 = c2 \/ {c1, c2} \subseteq White)

(* The part behind the first colon, if there is one.                       *)
LocalPart(s) == SubSeq(s, FirstOf(Places(s, {":"})) + 1, Len(s))
qncmpn(s1, s2) == s_tokcmpn(LocalPart(s1), LocalPart(s2))

(* Two numbers, or what is written alike.                                  *)
dblcmpn(s1, s2) ==
  s_tokcmpn(s1, s2) \/ dblcmp(s1, s2) = {0}

(* A duration is read unit by unit; what counts for a unit is the last     *)
(* digit before it, for at every digit the number begins anew.             *)
Unread ==
  [sign |-> 1, np |-> 0, time |-> FALSE, dp |-> [u \in {"Y", "M", "D", "H", "m", "S"} |-> 0]]
Counted(r, u) == [r EXCEPT !.dp[u] = r.sign * r.np]

ReadChar(r, c) ==
  CASE c = "-" -> [r EXCEPT !.sign = -1]
    [] c \in ToSet(DigitChars) -> [r EXCEPT !.np = DigitOf[c]]
    [] c = "." -> [r EXCEPT !.np = 0]
    [] c = "T" -> [r EXCEPT !.time = TRUE]
    [] c = "M" -> Counted(r, IF r.time THEN "m" ELSE "M")
    [] c \in {"Y", "D", "H", "S"} -> Counted(r, c)
    [] OTHER -> r

s2dura(s) == FoldLeft(ReadChar, Unread, s).dp
duracmp(s1, s2) == s2dura(s1) = s2dura(s2)

IsTrue(s) == s_tokcmpn(<<"true">>, s) \/ s_tokcmpn(<<"1">>, s)

Equal(typ, val, s) ==
  CASE typ = "string" -> val = s
    [] typ = "boolean" -> IsTrue(val) = IsTrue(s)
    [] Base(typ) = "decimal" -> deccmp(val, s) = 0
    [] typ \in Doubles -> dblcmpn(val, s)
    [] typ = "duration" -> duracmp(val, s)
    [] typ \in Times -> xsd_tmcmp(xsd_mktm(val), xsd_mktm(s)) = 0
    [] typ = "hexBinary" -> hexcmpn(val, s)
    [] typ = "base64Binary" -> b64cmpn(val, s)
    [] typ \in Names -> qncmpn(val, s)
    [] typ = "normalizedString" -> nrmcmpn(val, s)
    [] OTHER -> s_tokcmpn(val, s)

Compares(typ, val, s, ofval, ofs) ==
  [ok |-> ofval.ok /\ ofs.ok /\ typ # "unknown" /\ Equal(typ, val, s),
   errors |-> ofval.errors \cup (IF ofval.ok THEN {} ELSE {"VAL"}),
   npat |-> ofs.npat]

xsd_equal(typ, val, s) ==
  Compares(typ, val, s, xsd_allows(typ, <<>>, val), xsd_allows(typ, <<>>, s))

=============================================================================
