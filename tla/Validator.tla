----------------------------- MODULE Validator ------------------------------
(***************************************************************************)
(* xcl.c, the main program, over rnv.c (Rnv): the handlers of the XML      *)
(* parser's events, error recovery, and the exit status, for the documents *)
(* of one command line.                                                    *)
(*                                                                         *)
(* The parser (Expat, external) delivers the events of a well-formed       *)
(* document in order; open is the part of it delivered so far.  Each       *)
(* handler runs to its end before the next event.                          *)
(***************************************************************************)
EXTENDS Rnv, FiniteSets

CONSTANTS
  Schemas,                   \* their start patterns
  Tags, Chunks,              \* what the parser can deliver: <<name, attributes>>,
                             \* these being <<name, value>> pairs; pieces of text
  DTD,                       \* are there external entities and annotations
  Docs,                      \* documents on the command line
  MaxPos, MaxDepth,          \* positions in a document, elements open at once
  LEN_T, LIM_T,              \* first size of the text buffer, largest size kept
  nexp,                      \* how much a message may list
  listing(_, _)              \* what a pattern requires, or also allows

VARIABLES
  start,              \* the pattern of the schema on the command line
  current, previous,  \* the pattern of the rest of the document; the one before it
  mixed, level,       \* text between elements? elements open in a skipped one
  txt, len_txt,      \* the text since the last tag, and the buffer's size
  ok, lastpos,        \* the exit status; where the last message was printed
  xgfile,             \* the document whose annotation named the source file
  printed,            \* messages: <<document, kind, document the file name is from>>
  listed,             \* what the last event has listed, and for which pattern
  docno, open, pos    \* the parser: document, open elements, position in it

state == <<current, previous, mixed, level, txt, len_txt>>
vars == <<start, state, ok, lastpos, xgfile, printed, listed, docno, open, pos>>

None == -1
Idle == <<>>                                   \* no document is being read
Document == [qn |-> "", atts |-> <<>>, kids |-> <<>>, at |-> 0]  \* the root's parent

Top == open[Len(open)]
IsText(n) == "str" \in DOMAIN n

Now == Entered(current, previous)

-----------------------------------------------------------------------------
(* verror_handler: one message at a position, the first.  The file name is *)
(* the document's, or the one that an annotation gave.                     *)
Message(kind, p) ==
  printed' = IF p = lastpos THEN printed
             ELSE printed \cup {<<docno, kind, IF xgfile = None THEN docno ELSE xgfile>>}

Report(kind, p) == lastpos' = p /\ Message(kind, p)

Unlisted == [at |-> notAllowed, shown |-> {}, whole |-> FALSE]

(* What is required, then what is allowed besides; not a list longer than  *)
(* nexp, nor what follows one.                                             *)
Lists(at) ==
  LET required == listing(at, TRUE)
      allowed == listing(at, FALSE)
  IN CASE Cardinality(allowed) <= nexp -> [at |-> at, shown |-> allowed, whole |-> TRUE]
       [] Cardinality(allowed) > nexp /\ Cardinality(required) <= nexp ->
            [at |-> at, shown |-> required, whole |-> FALSE]
       [] OTHER -> [at |-> at, shown |-> {}, whole |-> FALSE]

(* The message about an error in a document. *)
Invalid(at, p) ==
  /\ Report("invalid", p)
  /\ listed' = IF p = lastpos THEN Unlisted ELSE Lists(at)

Quiet == listed' = Unlisted

(* Slip: the status is that of the last handler, not the conjunction. *)
Outcome_last(v, p) ==
  /\ current' = v.cur
  /\ previous' = v.prev
  /\ ok' = v.ok
  /\ IF v.ok THEN Quiet /\ UNCHANGED <<lastpos, printed>> ELSE Invalid(v.at, p)

(* A handler has left v behind, at position p. *)
Outcome(v, p) ==
  /\ current' = v.cur
  /\ previous' = v.prev
  /\ ok' = (ok /\ v.ok)
  /\ IF v.ok THEN Quiet /\ UNCHANGED <<lastpos, printed>> ELSE Invalid(v.at, p)

(* An event moves the parser on; what it has delivered so far is doc. *)
Deliver(doc, p) ==
  /\ p <= MaxPos
  /\ open' = doc
  /\ pos' = p
  /\ UNCHANGED <<start, docno>>

(* open without its innermost element, which has become a child. *)
Closed ==
  [SubSeq(open, 1, Len(open) - 1) EXCEPT ![Len(open) - 1].kids =
     Append(@, [qn |-> Top.qn, atts |-> Top.atts, kids |-> Top.kids])]
Reading == Len(open) > 1
RootDue == Len(open) = 1 /\ open[1].kids = <<>>

AsFunction(atts) ==
  [qn \in {atts[n][1] : n \in DOMAIN atts} |->
     atts[CHOOSE n \in DOMAIN atts : atts[n][1] = qn][2]]

(* Slip: the end of a skipped element is recognised too early. *)
EndOfSkipped_early ==
  IF level <= 1 THEN current' = previous /\ level' = 0
  ELSE level' = level - 1 /\ UNCHANGED current

(* An end tag in, or of, an element that is skipped. *)
EndOfSkipped ==
  IF level = 0 THEN current' = previous /\ UNCHANGED level
  ELSE level' = level - 1 /\ UNCHANGED current

(* Slip: the terminating zero is forgotten. *)
Stretched_unterminated(n) == IF n < len_txt THEN len_txt ELSE n

(* The size of the buffer once it has to hold n characters. *)
Stretched(n) ==
  CASE n + 1 <= LIM_T /\ LIM_T < len_txt -> LIM_T
    [] ~(n + 1 <= LIM_T /\ LIM_T < len_txt) /\ n + 1 < len_txt -> len_txt
    [] OTHER -> n + 1

start_element(qn, atts) ==
  /\ Reading \/ RootDue
  /\ Len(open) <= MaxDepth
  /\ Deliver(Append(open, [qn |-> qn, atts |-> AsFunction(atts), kids |-> <<>>, at |-> pos + 1]),
             pos + 1)
  /\ IF current # notAllowed
     THEN /\ Outcome(rnv_start_tag(rnv_text(Now, txt, TRUE), qn, atts), pos + 1)
          /\ txt' = <<>>
          /\ mixed' = FALSE
          /\ UNCHANGED <<level, len_txt>>
     ELSE /\ level' = level + 1
          /\ Quiet
          /\ UNCHANGED <<current, previous, mixed, txt, len_txt, ok, lastpos, printed>>
  /\ UNCHANGED xgfile

(* The tag of an empty element is one position for both its events; at is  *)
(* the position of the start tag of an open element.                       *)
end_element ==
  /\ Reading
  /\ \E p \in {pos + 1} \cup {q \in {pos} : Top.at = pos} :
       /\ Deliver(Closed, p)
       /\ IF current # notAllowed
          THEN /\ Outcome(rnv_end_tag(rnv_text(Now, txt, mixed)), p)
               /\ txt' = <<>>
               /\ mixed' = TRUE
               /\ UNCHANGED <<level, len_txt>>
          ELSE /\ EndOfSkipped
               /\ Quiet
               /\ UNCHANGED <<previous, mixed, txt, len_txt, ok, lastpos, printed>>
  /\ UNCHANGED xgfile

(* The parser may deliver one text in several pieces. *)
characters(s) ==
  /\ Reading
  /\ LET kids == Top.kids
         n == Len(kids)
     IN Deliver([open EXCEPT ![Len(open)].kids =
                   IF n > 0 /\ IsText(kids[n]) THEN [kids EXCEPT ![n].str = @ \o s]
                   ELSE Append(kids, [str |-> s])], pos + 1)
  /\ IF current # notAllowed
     THEN /\ len_txt' = Stretched(Len(txt) + Len(s))
          /\ txt' = txt \o s
     ELSE UNCHANGED <<txt, len_txt>>
  /\ Quiet
  /\ UNCHANGED <<current, previous, mixed, level, ok, lastpos, xgfile, printed>>

(* A message, and the reading goes on. *)
externalEntityRef ==
  /\ DTD
  /\ Reading \/ RootDue
  /\ Deliver(open, pos + 1)
  /\ Report("entity", pos + 1)
  /\ Quiet
  /\ UNCHANGED <<state, ok, xgfile>>

processingInstruction ==
  /\ DTD
  /\ open # Idle
  /\ Deliver(open, pos + 1)
  /\ xgfile' = docno
  /\ Quiet
  /\ UNCHANGED <<state, ok, lastpos, printed>>

-----------------------------------------------------------------------------
(* clear, after each document. *)
clear ==
  /\ lastpos' = None
  /\ len_txt' = IF len_txt > LIM_T THEN LEN_T ELSE len_txt
  /\ txt' = <<>>
  /\ level' = 0
  /\ UNCHANGED <<current, previous, mixed>>

(* main opens the next document and hands it to validate. *)
validate ==
  /\ open = Idle
  /\ docno < Docs
  /\ docno' = docno + 1
  /\ current' = start
  /\ previous' = start
  /\ open' = <<Document>>
  /\ pos' = 0
  /\ Quiet
  /\ UNCHANGED <<start, mixed, level, txt, len_txt, ok, lastpos, xgfile, printed>>

(* It cannot be opened: main says so itself. *)
not_opened ==
  /\ open = Idle
  /\ docno < Docs
  /\ docno' = docno + 1
  /\ ok' = FALSE
  /\ printed' = printed \cup {<<docno + 1, "file", docno + 1>>}
  /\ Quiet
  /\ UNCHANGED <<start, state, lastpos, xgfile, open, pos>>

(* Ill-formed XML or a failing read ends the document. *)
process_failed ==
  /\ open # Idle
  /\ pos < MaxPos
  /\ ok' = FALSE
  /\ Message("xml", pos + 1)
  /\ open' = Idle
  /\ clear
  /\ Quiet
  /\ UNCHANGED <<start, xgfile, docno, pos>>

process_done ==
  /\ Len(open) = 1 /\ open[1].kids # <<>>
  /\ open' = Idle
  /\ clear
  /\ Quiet
  /\ UNCHANGED <<start, ok, xgfile, printed, docno, pos>>

Init ==
  /\ start \in Schemas
  /\ current = notAllowed /\ previous = notAllowed
  /\ mixed = FALSE /\ level = 0
  /\ txt = <<>> /\ len_txt = LEN_T
  /\ ok = TRUE /\ lastpos = None
  /\ xgfile = None /\ printed = {} /\ listed = Unlisted
  /\ docno = 0 /\ open = Idle /\ pos = 0

Next ==
  \/ \E tag \in Tags : start_element(tag[1], tag[2])
  \/ end_element
  \/ \E s \in Chunks : characters(s)
  \/ externalEntityRef
  \/ processingInstruction
  \/ validate
  \/ not_opened
  \/ process_failed
  \/ process_done

Spec == Init /\ [][Next]_vars

-----------------------------------------------------------------------------
(* Pieces of text and attributes are sequences; the buffer has room for    *)
(* the zero of no text.                                                    *)
Characters == UNION {{s[n] : n \in DOMAIN s} : s \in Chunks}
ASSUME TextAssumption ==
  /\ Chunks \subseteq Seq(Characters)
  /\ \A tag \in Tags : tag[2] \in Seq(ToSet(tag[2]))
  /\ {LEN_T, LIM_T} \subseteq Nat \ {0}

(* The exit status tells whether all documents were read and valid, over   *)
(* however many documents: no error is lost to a document that follows it, *)
(* and none is raised without a message.                                   *)
ExitStatus == ok <=> \A m \in printed : m[2] = "entity"

(* The text at the end of an element's children so far.                    *)
LastText(kids) == IF Len(kids) > 0 /\ IsText(kids[Len(kids)]) THEN kids[Len(kids)].str ELSE <<>>

(* The text handed to the derivatives is that since the last tag, and its  *)
(* terminating zero is inside the buffer.                                  *)
BufferHoldsText ==
  /\ Len(txt) < len_txt
  /\ Reading /\ current # notAllowed => txt = LastText(Top.kids)

-----------------------------------------------------------------------------
(* The documents that are complained of, the pattern of one that is not,   *)
(* and the text and the elements before its next tag, as the parser has    *)
(* delivered them.                                                         *)
Rejected == {m[1] : m \in {n \in printed : n[2] = "invalid"}}
Plain == IF open = Idle \/ docno \in Rejected THEN notAllowed ELSE current
Text == IF open = Idle THEN <<>> ELSE LastText(Top.kids)
HasElement(kids) == \E n \in 1 .. Len(kids) : ~IsText(kids[n])
Between == open # Idle /\ HasElement(Top.kids)

J == INSTANCE Judge WITH
       p <- Plain, rejected <- Rejected, depth <- Len(open), text <- Text, between <- Between

(* The validator judges documents as module Judge does: however the parser *)
(* cuts up the text, whatever was repaired, skipped or listed, it          *)
(* complains of a document if, and only if, a derivative that nothing was  *)
(* repaired in is notAllowed.                                              *)
JudgesPlainly == J!Spec

=============================================================================
