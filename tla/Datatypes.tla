----------------------------- MODULE Datatypes -----------------------------
(***************************************************************************)
(* A schema asks xsd.c whether it allows a text, or whether it equals a    *)
(* value; the answer is compared with what XML Schema says of the value    *)
(* that the text stands for.                                               *)
(***************************************************************************)
EXTENDS Xsd, Moments

LOCAL INSTANCE FiniteSetsExt
LOCAL INSTANCE SequencesExt

CONSTANTS
  Asked,           \* the types asked about
  Parameters(_),   \* of a type: sequence of lists of parameters, as [key, val]
  Values(_),       \* of a type: values in a schema
  Texts(_),        \* of a type: texts in a document
  None

VARIABLES question, text, answer
vars == <<question, text, answer>>

Init ==
  /\ \E typ \in Asked :
       \/ \E i \in DOMAIN Parameters(typ) :
            question = [f |-> "xsd_allows", typ |-> typ, ps |-> Parameters(typ)[i]]
       \/ \E v \in Values(typ) : question = [f |-> "xsd_equal", typ |-> typ, val |-> v]
  /\ text = None /\ answer = None

allows ==
  /\ answer = None /\ question.f = "xsd_allows"
  /\ \E s \in Texts(question.typ) :
       text' = s /\ answer' = xsd_allows(question.typ, question.ps, s)
  /\ UNCHANGED question

equal ==
  /\ answer = None /\ question.f = "xsd_equal"
  /\ \E s \in Texts(question.typ) :
       text' = s /\ answer' = xsd_equal(question.typ, question.val, s)
  /\ UNCHANGED question

Next == allows \/ equal
Spec == Init /\ [][Next]_vars

-----------------------------------------------------------------------------
(* Numbers, in units of 1/10000 (Num).                                     *)
Abs(n) == IF n < 0 THEN -n ELSE n
FractionDigits(n) == CHOOSE k \in 0 .. 4 : /\ Abs(n) % 10^(4 - k) = 0
                                           /\ \A j \in 0 .. k - 1 : Abs(n) % 10^(4 - j) # 0
IntegerDigits(n) == CHOOSE k \in 1 .. 5 : /\ Abs(n) \div Unit < 10^k
                                          /\ k > 1 => Abs(n) \div Unit >= 10^(k - 1)

InType(typ, n) ==
  CASE typ = "positiveInteger" -> n > 0
    [] typ = "nonNegativeInteger" -> n >= 0
    [] typ = "nonPositiveInteger" -> n <= 0
    [] typ = "negativeInteger" -> n < 0
    [] typ = "byte" -> n >= -128 * Unit /\ n < 128 * Unit
    [] typ = "short" -> n >= -32768 * Unit /\ n < 32768 * Unit
    [] typ = "unsignedByte" -> n >= 0 /\ n < 256 * Unit
    [] typ = "unsignedShort" -> n >= 0 /\ n < 65536 * Unit
    [] typ \in {"unsignedInt", "unsignedLong"} -> n >= 0     \* no text is at their other bound
    [] typ \in {"integer", "decimal", "int", "long"} -> TRUE

-----------------------------------------------------------------------------
(* The length of a value.                                                  *)
Measure(typ, s) ==
  CASE typ \in {"string", "normalizedString"} -> Len(s)
    [] typ \in Tokens -> Len(Collapsed(s))
    [] typ \in Lists -> Cardinality({i \in DOMAIN Collapsed(s) : Collapsed(s)[i] = " "})
                        + IF Collapsed(s) = <<>> THEN 0 ELSE 1
    [] typ = "hexBinary" -> Len(Collapsed(s)) \div 2
    [] typ = "base64Binary" ->
         3 * (Len(NoSpace(s)) \div 4) - Cardinality({i \in DOMAIN s : s[i] = "="})

(* The line of numbers with both infinities, and what is off the line.     *)
Real(s) ==
  LET t == Collapsed(s) IN
  CASE t = <<"INF">> -> <<1, 0>> [] t = <<"-", "INF">> -> <<-1, 0>> [] OTHER -> <<0, atof(t)>>
OffLine(s) == "NaN" \in ToSet(s)

(* A duration is a number of months and one of half seconds.               *)
Length(s) ==
  LET time == FirstOf(Places(s \o <<"T">>, {"T"}))
      Amount(u, at) ==
        LET i == FirstOf({j \in at \cap DOMAIN s : s[j] = u})
            k == Max({0} \cup {j \in 1 .. i - 1 : s[j] \in {"P", "T", "Y", "M", "D", "H"}})
        IN  IF i = 0 THEN 0 ELSE Num(SubSeq(s, k + 1, i - 1)) \div (Unit \div 2)
      date == 1 .. time
      clock == time .. Len(s)
      sign == IF s[1] = "-" THEN -1 ELSE 1
  IN  << sign * (12 * Amount("Y", date) + Amount("M", date)),
         sign * (86400 * Amount("D", date) + 3600 * Amount("H", clock)
                 + 60 * Amount("M", clock) + Amount("S", clock)) >>

(* Where xsd.c departs from numbers: after white space a zero without a    *)
(* point is not recognised, and then -0.0, whose sign counts, is below it. *)
NegativeZero(s) == Num(s) = 0 /\ {"-", "."} \subseteq ToSet(s)
UnseenZero(s) == Num(s) = 0 /\ s[1] \in White /\ "." \notin ToSet(s)
Parted(s1, s2) == NegativeZero(s1) /\ UnseenZero(s2)

Below(typ, s1, s2) ==
  CASE typ \in Times -> Earlier(s1, s2)
    [] typ \in Doubles -> ~OffLine(s1) /\ ~OffLine(s2) /\ Before(Real(s1), Real(s2))
    [] OTHER -> Num(s1) < Num(s2) \/ Parted(s1, s2)
Equals(typ, s1, s2) ==
  CASE typ \in Times -> Same(s1, s2)
    [] typ \in Doubles -> OffLine(s1) = OffLine(s2) /\ (OffLine(s1) \/ Real(s1) = Real(s2))
    [] typ = "duration" -> Length(Collapsed(s1)) = Length(Collapsed(s2))
    [] OTHER -> Num(s1) = Num(s2) /\ ~Parted(s1, s2) /\ ~Parted(s2, s1)

Satisfies(typ, s, p) ==
  CASE p.key = "pattern" -> Matches(p.val, Treated(Base(typ), s))
    [] p.key = "length" -> typ \in Names \/ Measure(typ, s) = p.val
    [] p.key = "minLength" -> typ \in Names \/ Measure(typ, s) >= p.val
    [] p.key = "maxLength" -> typ \in Names \/ Measure(typ, s) <= p.val
    [] p.key = "fractionDigits" -> FractionDigits(Num(s)) <= p.val
    [] p.key = "totalDigits" -> IntegerDigits(Num(s)) + FractionDigits(Num(s)) <= p.val
    [] p.key = "minExclusive" -> Below(typ, p.val, s)
    [] p.key = "minInclusive" -> Below(typ, p.val, s) \/ Equals(typ, p.val, s)
    [] p.key = "maxInclusive" -> Below(typ, s, p.val) \/ Equals(typ, p.val, s)
    [] p.key = "maxExclusive" -> Below(typ, s, p.val)

Valid(typ, s) ==
  /\ \A pat \in ToSet(Facets(typ, <<>>).patterns \o TypePatterns(Base(typ))) :
       Matches(pat, Treated(Base(typ), s))
  /\ Base(typ) = "decimal" => InType(typ, Num(s))

(* Two valid texts stand for the same value.                               *)
LowerCase(c) == IF c \in ToSet(Upper) THEN Lower[Letter(c)] ELSE c
AfterColon(s) ==
  LET ends == {SubSeq(s, i, Len(s)) : i \in {j \in 1 .. Len(s) + 1 : j = 1 \/ s[j - 1] = ":"}}
  IN  CHOOSE e \in ends : \A f \in ends : Len(e) <= Len(f)

SameValue(typ, s1, s2) ==
  CASE Base(typ) = "decimal" \/ typ \in Times \cup Doubles \cup {"duration"} -> Equals(typ, s1, s2)
    [] typ = "string" -> s1 = s2
    [] typ = "normalizedString" -> Replaced(s1) = Replaced(s2)
    [] typ = "boolean" ->
         LET true == {<<"1">>, <<"true">>} IN Collapsed(s1) \in true <=> Collapsed(s2) \in true
    [] typ = "hexBinary" ->
         LET Digit(s) == [i \in DOMAIN Collapsed(s) |-> LowerCase(Collapsed(s)[i])]
         IN  Digit(s1) = Digit(s2)
    [] typ = "base64Binary" -> NoSpace(s1) = NoSpace(s2)
    [] typ \in Names -> AfterColon(Collapsed(s1)) = AfterColon(Collapsed(s2))
    [] OTHER -> Collapsed(s1) = Collapsed(s2)

-----------------------------------------------------------------------------
TypeOK ==
  /\ question.typ \in Asked
  /\ answer # None =>
       /\ answer.ok \in BOOLEAN
       /\ answer.errors \subseteq {"TYP", "PAR", "PARVAL", "VAL", "NPAT", "WS", "ENUM"}
       /\ answer.npat \in 0 .. NPAT + 1      \* they fit into the array

Answered(f) ==
  answer # None /\ question.f = f /\ answer.errors = {}

(* A text is allowed exactly if it is in the lexical space of the type and *)
(* its value satisfies every facet, and within the bounds of the type:     *)
(* whatever zeros, signs and spaces it is written with, but for two zeros  *)
(* that xsd.c parts, and in whatever time zone (xsd_allows).               *)
AllowsAsSpecified ==
  Answered("xsd_allows") =>
    answer.ok = (/\ Valid(question.typ, text)
                 /\ \A i \in DOMAIN question.ps : Satisfies(question.typ, text, question.ps[i]))

(* A text equals a value exactly if it stands for the same one: two ways   *)
(* to write it are equal, but for two zeros that xsd.c parts; two values   *)
(* never are (xsd_equal).                                                  *)
EqualAsSpecified ==
  Answered("xsd_equal") =>
    answer.ok = (Valid(question.typ, text) /\ SameValue(question.typ, question.val, text))

=============================================================================
