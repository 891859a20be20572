----------------------------- MODULE Validation -----------------------------
(***************************************************************************)
(* The validator put together: the handlers of xcl.c and rnv.c (Validator) *)
(* over the derivatives of drv.c and rn.c (Derivative, in RelaxNG) and the *)
(* lists of rnx.c (Rnx), compared with what RELAX NG says of the whole     *)
(* document (RelaxNG).                                                     *)
(***************************************************************************)
EXTENDS Validator, Pattern

CONSTANTS Content, Space, xsd_allows(_, _), xsd_equal(_, _, _)

ASSUME BoundAssumption == {Docs, MaxPos, MaxDepth, nexp} \subseteq Nat \ {0}

R == INSTANCE RelaxNG
L == INSTANCE Rnx

(* What the parameters of Validator stand for, in a configuration.         *)
Drv_start_tag_open(p, qn) == R!drv_start_tag_open(p, qn)
Drv_start_tag_open_recover(p, qn) == R!drv_start_tag_open_recover(p, qn)
Drv_attribute_open(p, qn) == R!drv_attribute_open(p, qn)
Drv_attribute_open_recover(p, qn) == R!drv_attribute_open_recover(p, qn)
Drv_attribute_close(p) == R!drv_attribute_close(p)
Drv_attribute_close_recover(p) == R!drv_attribute_close_recover(p)
Drv_start_tag_close(p) == R!drv_start_tag_close(p)
Drv_start_tag_close_recover(p) == R!drv_start_tag_close_recover(p)
Drv_text(p, s) == R!drv_text(p, s)
Drv_text_recover(p, s) == R!drv_text_recover(p, s)
Drv_mixed_text(p) == R!drv_mixed_text(p)
Drv_mixed_text_recover(p) == R!drv_mixed_text_recover(p)
Drv_end_tag(p) == R!drv_end_tag(p)
Drv_end_tag_recover(p) == R!drv_end_tag_recover(p)
White(s) == R!whitespace(s)
Listing(p, req) == L!rnx_expected(p, req)

-----------------------------------------------------------------------------
(* The document has been read to its end tag. *)
Complete == Len(open) = 1 /\ open[1].kids # <<>>

Said(kind) == \E m \in printed : m[1] = docno /\ m[2] = kind

(* The validator complains about a document exactly if the document is     *)
(* invalid: the derivatives, taken one event at a time, with text put off  *)
(* to the next tag and errors repaired on the way, come to the same as the *)
(* definition of RELAX NG for the document as a whole.                     *)
Judgement == Complete => (Said("invalid") <=> ~R!Valid(start, open[1].kids[1]))

(* After patterns are nested as deep as elements are open: nothing of an   *)
(* element outlives its end tag, whatever was repaired.                    *)
RECURSIVE Nested(_, _)
Nested(p, n) ==
  CASE p.t = "choice" -> Nested(p.p1, n) /\ Nested(p.p2, n)
    [] p.t = "after" -> n > 0 /\ Nested(p.p1, 0) /\ Nested(p.p2, n - 1)
    [] OTHER -> n = 0

Depth == Len(open) - 1

(* While an element that is not allowed is being skipped, level is the     *)
(* number of elements open in it, and the pattern to go on with is that of *)
(* its parent; and otherwise the current pattern is that of the innermost  *)
(* open element.                                                           *)
InStep ==
  open # Idle =>
    IF current = rn_notAllowed
    THEN Nested(previous, Depth - level - 1)
    ELSE level = 0 /\ Nested(current, Depth)

(* The names in the tags of documents. *)
ElementNames == {tag[1] : tag \in Tags}
AttributeNames == UNION {{a[1] : a \in Range(tag[2])} : tag \in Tags}

Listed(kind, qn) == \E p \in listed.shown : p.t = kind /\ ncof(p.nc, qn)

(* What a message lists would have been accepted at the place of the error *)
(* instead: a tag, an attribute, text or the end tag; and unless the list  *)
(* is cut short by its limit it names all that would have been.            *)
Fitting(would, named) == (named => would) /\ (listed.whole /\ would => named)

ListsWhatFits ==
  /\ \A qn \in ElementNames :
       Fitting(after_start_tag_open(listed.at, qn) # rn_notAllowed, Listed("element", qn))
  /\ \A qn \in AttributeNames :
       Fitting(after_attribute_open(listed.at, qn) # rn_notAllowed, Listed("attribute", qn))
  /\ Fitting(after_mixed_text(listed.at) # rn_notAllowed, rn_text \in listed.shown)
  /\ Fitting(after_end_tag(listed.at) # rn_notAllowed, \E p \in listed.shown : p.t = "after")

=============================================================================
