------------------------------- MODULE Judge --------------------------------
(***************************************************************************)
(* What the validator promises of a command line, whatever its buffers,    *)
(* its error recovery and the bookkeeping of its messages do: a document   *)
(* is judged by the derivatives of the schema's pattern by its tags, each  *)
(* after that by the text before it, put together from all its pieces; and *)
(* it is rejected when, and only when, one of them is notAllowed.          *)
(*                                                                         *)
(* A schema whose own pattern is notAllowed rejects nothing: there is no   *)
(* derivative that becomes so.                                             *)
(***************************************************************************)
EXTENDS Integers, Sequences

CONSTANTS
  notAllowed,
  after_start_tag_open(_, _), after_attribute_open(_, _), after_attribute_close(_),
  after_start_tag_close(_), after_text(_, _), after_mixed_text(_), after_end_tag(_),
  white(_),
  Schemas, Tags, Chunks     \* as in Validator

VARIABLES
  start,                    \* the pattern of the schema
  p,                        \* that of the rest of the document
  text,                     \* the text since the last tag
  between,                  \* has an element ended since the last start tag
  depth,                    \* elements open, the document one of them
  docno, rejected           \* the documents so far, and those of them rejected

vars == <<start, p, text, between, depth, docno, rejected>>

-----------------------------------------------------------------------------
(* The derivatives; there is none of notAllowed.                           *)
Opened(q, qn) == IF q = notAllowed THEN notAllowed ELSE after_start_tag_open(q, qn)
AttributeOpened(q, qn) == IF q = notAllowed THEN notAllowed ELSE after_attribute_open(q, qn)
AttributeClosed(q) == IF q = notAllowed THEN notAllowed ELSE after_attribute_close(q)
TagClosed(q) == IF q = notAllowed THEN notAllowed ELSE after_start_tag_close(q)
Ended(q) == IF q = notAllowed THEN notAllowed ELSE after_end_tag(q)
Read(q, s) == IF q = notAllowed THEN notAllowed ELSE after_text(q, s)
Mixed(q, s) == IF q = notAllowed \/ white(s) THEN q ELSE after_mixed_text(q)

Attribute(q, a) == AttributeClosed(Read(AttributeOpened(q, a[1]), a[2]))

StartTag(q, qn, atts) ==
  LET upto[n \in 0 .. Len(atts)] ==
        IF n = 0 THEN Opened(q, qn) ELSE Attribute(upto[n - 1], atts[n])
  IN  TagClosed(upto[Len(atts)])

(* Text between two tags of elements may be white space; the text that is  *)
(* all there is in an element is a value.                                  *)
EndTag(q, s, mix) == Ended(IF mix THEN Mixed(q, s) ELSE Read(q, s))

-----------------------------------------------------------------------------
Judged(q) ==
  /\ p' = q
  /\ rejected' = IF p # notAllowed /\ q = notAllowed THEN rejected \cup {docno} ELSE rejected

start_tag(qn, atts) ==
  /\ depth > 1 \/ (depth = 1 /\ ~between)
  /\ Judged(StartTag(Mixed(p, text), qn, atts))
  /\ depth' = depth + 1 /\ text' = <<>> /\ between' = FALSE
  /\ UNCHANGED <<start, docno>>

end_tag ==
  /\ depth > 1
  /\ Judged(EndTag(p, text, between))
  /\ depth' = depth - 1 /\ text' = <<>> /\ between' = TRUE
  /\ UNCHANGED <<start, docno>>

characters(s) ==
  /\ depth > 1
  /\ text' = text \o s
  /\ UNCHANGED <<start, p, between, depth, docno, rejected>>

begin ==
  /\ depth = 0
  /\ p' = start /\ docno' = docno + 1 /\ depth' = 1 /\ text' = <<>> /\ between' = FALSE
  /\ UNCHANGED <<start, rejected>>

not_opened ==
  /\ depth = 0
  /\ docno' = docno + 1
  /\ UNCHANGED <<start, p, text, between, depth, rejected>>

(* The document is at its end, or ill-formed.                              *)
end ==
  /\ depth > 0
  /\ p' = notAllowed /\ depth' = 0 /\ text' = <<>> /\ between' = FALSE
  /\ UNCHANGED <<start, docno, rejected>>

Init ==
  /\ start \in Schemas
  /\ p = notAllowed /\ text = <<>> /\ between = FALSE /\ depth = 0
  /\ docno = 0 /\ rejected = {}

Next ==
  \/ \E tag \in Tags : start_tag(tag[1], tag[2])
  \/ end_tag
  \/ \E s \in Chunks : characters(s)
  \/ begin \/ not_opened \/ end

Spec == Init /\ [][Next]_vars

=============================================================================
