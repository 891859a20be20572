----------------------------- MODULE MCDatatypes ----------------------------
(* Parameters, values and texts for the types of XML Schema.               *)
EXTENDS Datatypes

LOCAL INSTANCE SequencesExt

UpTo(chars, n) == UNION {[1 .. i -> chars] : i \in 0 .. n}
Facet(k, v) == <<[key |-> k, val |-> v]>>
Each(ks, vs) == \* all the keys with all the values
  [i \in 1 .. Len(ks) * Len(vs) |->
     Facet(ks[((i - 1) \div Len(vs)) + 1], vs[((i - 1) % Len(vs)) + 1])]

-----------------------------------------------------------------------------
(* Decimal numbers: all texts of four characters, and all of three between *)
(* spaces.                                                                 *)
Bounds == <<"minExclusive", "minInclusive", "maxInclusive", "maxExclusive">>
Limits == << <<"0">>, <<"-", "0", ".", "0">>, <<"1", "2">>, <<"1", ".", "2", "0">>,
             <<"+", "0", ".", "1">>, <<"-", "1", "0">>, <<" ", "-", ".", "2">>, <<"\n", "-", "0">>,
             <<" ", "-", "0", ".">> >>

DecimalParameters ==
  << <<>> >> \o Each(Bounds, Limits)
  \o Each(<<"totalDigits", "fractionDigits">>, <<0, 1, 2>>)
  \o << Facet("pattern", "INTEGER"), Facet("pattern", "NEGATIVE") \o Facet("fractionDigits", 1),
        Facet("minInclusive", <<"0", ".", "1">>) \o Facet("maxExclusive", <<"1">>),
        Facet("pattern", "INTEGER") \o Facet("pattern", "NEGATIVE") \o Facet("pattern", "FIXED"),
        Facet("fractionDigits", Invalid), Facet("enumeration", "1"), Facet("whiteSpace", "collapse"),
        Facet("digits", 1) >>

DecimalTexts ==
  UpTo({"+", "-", "0", "1", "."}, 4) \cup UpTo({"-", "2", "0", "."}, 3)
  \cup {<<" ">> \o t \o e : t \in UpTo({"+", "-", "0", "1", "."}, 3), e \in {<<>>, <<"\n">>}}
  \cup {<<" ", "1", ".", "2", " ">>, <<"\n", "0">>, <<"\n", " ", "-", "0", "0">>, <<" ", "-", "0", ".", "0">>,
        <<"-", "0", "1", "\n">>, <<"0", "0", "1", ".", "1", "0">>, <<"-", "1", "2", ".", "0", "1">>}
DecimalValues ==
  {<<"0">>, <<"-", "0">>, <<"1">>, <<"-", "1">>, <<"1", ".", "0", "1">>, <<"1", "0">>,
   <<"0", ".", "1", "0">>, <<"-", "1", "0", ".">>, <<".">>, <<"-", ".", "0", "1">>,
   <<"-", "0", ".", "0">>, <<" ", "0">>, <<"\n", "-", "0">>, <<" ", ".", "0">>, <<" ", "-", ".", "0">>}

(* The types with bounds, near them.                                       *)
WholeTexts ==
  {sign \o n : sign \in {<<>>, <<"+">>, <<"-">>},
               n \in {<<"0">>, <<"0", "0">>, <<"1">>, <<"0", "2">>, <<"1", "0">>, <<"1", "2", "7">>,
                      <<"0", "1", "2", "8">>, <<"1", "2", "9">>, <<"2", "5", "5">>,
                      <<"2", "5", "6">>, <<"1", ".">>, Digits(<<3, 2, 7, 6, 7>>),
                      Digits(<<3, 2, 7, 6, 8>>), Digits(<<3, 2, 7, 6, 9>>),
                      Digits(<<6, 5, 5, 3, 5>>), Digits(<<6, 5, 5, 3, 6>>)}}

(* Numbers with an exponent, and what is not a finite number.              *)
Infinite == {<<"INF">>, <<"-", "INF">>, <<"NaN">>, <<" ", "-", "INF">>, <<"NaN", "\n">>}
Powers == {m \o <<"E">> \o e : m \in {<<"1">>, <<"-", "1">>, <<"1", "0">>, <<".", "1">>, <<".">>, <<>>},
                              e \in {<<"0">>, <<"2">>, <<"-", "1">>, <<"+", "1">>, <<>>}}
FloatingTexts ==
  Infinite \cup Powers \cup UpTo({"-", "0", "1", "."}, 3)
  \cup {<<"+", "INF">>, <<"1", "e", "1", " ">>, <<"INF", "1">>, <<"1", "E", "1", ".">>}
FloatingValues ==
  Infinite \cup {<<"0">>, <<"1">>, <<"1", "0">>, <<"1", "E", "1">>, <<"-", "1", "E", "0", "0">>,
                <<".", "0", "1">>, <<"E">>}
FloatingLimits == << <<"INF">>, <<"-", "INF">>, <<"0">>, <<"1", "E", "1">>, <<"-", ".", "1">> >>

(* Durations: of the numbers only the last digit is read, so they have     *)
(* one; where hours are missing nothing comes twice.                       *)
Terms(us, ns) == \* some of the units, each with a number
  {FlattenSeq([i \in DOMAIN us |-> IF g[i] = <<>> THEN <<>> ELSE g[i] \o <<us[i]>>]) :
     g \in [DOMAIN us -> {<<>>} \cup ns]}
DurationsOf(ns) ==
  {sign \o <<"P">> \o date \o clock :
     sign \in {<<>>, <<"-">>},
     date \in Terms(<<"Y", "M", "D">>, ns),
     clock \in {<<>>} \cup {<<"T">> \o c : c \in Terms(<<"H", "M", "S">>, ns)}}
DurationTexts ==
  DurationsOf({<<"1">>, <<"2">>})
  \cup {<<"P", "1", "D", "1", "Y">>, <<"P", "Y">>, <<"P", "1">>, <<"1", "Y">>, <<"P", "1", ".", "5", "Y">>,
        <<"P", "T", "1", ".", "5", "S">>, <<"P", "T", ".", "5", "S">>, <<"P", "T", "1", "S", "1", "H">>,
        <<" ", "P", "1", "Y", "\n">>, <<"-", "P", "0", "Y">>, <<"P", "T", "0", "S">>}
DurationValues ==
  {d \in DurationsOf({<<"1">>}) : Len(d) <= 6}
  \cup {<<"P", "T", "0", "H">>, <<"\n", "P", "T", "2", "M">>}

-----------------------------------------------------------------------------
Lengths == << <<>> >> \o Each(<<"length", "minLength", "maxLength">>, <<0, 1, 2>>)

(* Of the texts that end in a space only those whose words are complete:   *)
(* rx_cmatch takes others for complete.                                    *)
NoSpaceLast(ts) == {t \in ts : t = <<>> \/ t[Len(t)] # " "}

LanguageTexts ==
  NoSpaceLast(UpTo({"a", "1", "-", " "}, 4))
  \cup {[i \in 1 .. n |-> IF i = k THEN "-" ELSE "a"] : n \in {8, 9, 10}, k \in {1, 2, 9, 10, 11}}
UriTexts == NoSpaceLast(UpTo({"a", "/", "#", " "}, 4))
NameTexts == NoSpaceLast(UpTo({"a", "1", ":", " "}, 4))
HexTexts == {t \in UpTo({"0", "a", "A", " "}, 4) : Len(Collapsed(t)) % 2 = 0}

-----------------------------------------------------------------------------
Zoneless(fs) == {[f \in DOMAIN r \ {"zone"} |-> r[f]] : r \in {x \in fs : x.zone = 0}}
WithZones(fs) == fs \cup Zoneless(fs)
Offsets == {0, 840, -840, 90}

Days == {<<-4, 2, 29>>, <<-4, 12, 31>>, <<-3, 1, 1>>, <<1900, 2, 28>>, <<1900, 3, 1>>,
         <<1999, 12, 31>>, <<2000, 1, 1>>, <<2000, 2, 29>>, <<2000, 3, 1>>}
Clock == {<<0, 0, 0>>, <<10, 0, 0>>, <<23, 59, 59>>}

Moments(typ) ==
  CASE typ = "dateTime" ->
         WithZones({[yr |-> d[1], mo |-> d[2], dy |-> d[3], hr |-> t[1], mi |-> t[2], se |-> t[3],
                     zone |-> z, lex |-> TRUE] : d \in Days, t \in Clock, z \in Offsets})
    [] typ = "date" -> WithZones({[yr |-> d[1], mo |-> d[2], dy |-> d[3], zone |-> z, lex |-> TRUE] :
                                    d \in Days, z \in Offsets})
    [] typ = "time" -> WithZones({[hr |-> t[1], mi |-> t[2], se |-> t[3], mics |-> m, zone |-> z,
                                   lex |-> TRUE] : t \in Clock, m \in {0, 500000}, z \in Offsets})
    [] typ = "gYearMonth" -> WithZones({[yr |-> y, mo |-> m, zone |-> z, lex |-> TRUE] :
                                          y \in {-4, 2000}, m \in {2, 3}, z \in Offsets})
    [] typ = "gYear" -> WithZones({[yr |-> y, zone |-> z, lex |-> TRUE] :
                                     y \in {-4, 1, 2000}, z \in Offsets})
    [] typ = "gMonthDay" -> WithZones({[mo |-> 2, dy |-> d, zone |-> z, lex |-> TRUE] :
                                         d \in {28, 29}, z \in Offsets})
    [] typ = "gDay" -> WithZones({[dy |-> d, zone |-> z, lex |-> TRUE] : d \in {1, 31}, z \in Offsets})
    [] typ = "gMonth" -> WithZones({[mo |-> m, zone |-> z, lex |-> TRUE] : m \in {2, 3}, z \in Offsets})
Illformed == [lex |-> FALSE]

Moment(d, t) == [yr |-> d[1], mo |-> d[2], dy |-> d[3], hr |-> t[1], mi |-> t[2], se |-> t[3], lex |-> TRUE]
MomentLimits == << Moment(<<2000, 2, 29>>, <<10, 0, 0>>), Moment(<<1999, 12, 31>>, <<23, 59, 59>>),
                   Moment(<<-3, 1, 1>>, <<0, 0, 0>>) @@ [zone |-> -840],
                   Moment(<<1900, 3, 1>>, <<10, 0, 0>>) @@ [zone |-> 90] >>

-----------------------------------------------------------------------------
MCAsked == Types \cup {"unknown"}

MCParameters(typ) ==
  CASE typ = "decimal" -> DecimalParameters
    [] typ \in {"negativeInteger", "nonPositiveInteger"} -> << <<>>, Facet("minInclusive", <<"-", "1", "0">>) >>
    [] typ \in DOMAIN Derived -> << <<>>, Facet("maxInclusive", <<"1", "0">>) >>
    [] typ \in Doubles -> << <<>>, Facet("pattern", "FIXED") >> \o Each(Bounds, FloatingLimits)
    [] typ = "duration" -> << <<>> >>
    [] typ = "dateTime" -> << <<>> >> \o Each(Bounds, MomentLimits)
    [] typ = "time" ->
         << <<>> >> \o Each(Bounds, << [hr |-> 10, mi |-> 0, se |-> 0, mics |-> 500000, lex |-> TRUE] >>)
    [] typ \in {"boolean", "unknown"} \cup (Times \ {"dateTime", "time"}) -> << <<>> >>
    [] OTHER -> Lengths

MCTexts(typ) ==
  CASE typ = "decimal" -> DecimalTexts
    [] typ \in DOMAIN Derived -> WholeTexts
    [] typ \in Times -> Moments(typ) \cup {Illformed}
    [] typ \in Doubles -> FloatingTexts
    [] typ = "duration" -> DurationTexts
    [] typ = "language" -> LanguageTexts
    [] typ = "anyURI" -> UriTexts
    [] typ = "boolean" -> UpTo({"true", "false", "1", "0", " "}, 2)
    [] typ = "hexBinary" -> HexTexts
    [] typ = "base64Binary" -> UpTo({"A", "B", "=", " "}, 5)
    [] typ \in {"string", "normalizedString", "token", "unknown"} -> UpTo({"a", " ", "\n"}, 4)
    [] OTHER -> NameTexts

MCValues(typ) ==
  CASE typ = "decimal" -> DecimalValues
    [] typ \in DOMAIN Derived -> {<<"1">>, <<"-", "0", "1">>, <<"+", "1", "2", "8">>}
    [] typ \in Doubles -> FloatingValues
    [] typ = "duration" -> DurationValues
    [] typ \in Times -> MCTexts(typ)
    [] typ = "base64Binary" -> {<<"A", "A", "A", "=">>, <<"A", " ", "B", "A", "A">>}
    [] typ \in {"string", "normalizedString", "token"} -> UpTo({"a", " ", "\n"}, 3)
    [] OTHER -> {t \in MCTexts(typ) : Len(t) \in {1, 2}}

=============================================================================
