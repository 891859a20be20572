--------------------------------- MODULE Rnv --------------------------------
(***************************************************************************)
(* rnv.c: the steps of validation, shared by the validator (xcl.c), the    *)
(* server (rvp.c) and the selection of schemas (arx.c): take a derivative, *)
(* or report an error and resume with a guess.  The derivatives are        *)
(* parameters, named as in drv.c with after_ in the place of drv_, and     *)
(* module Derivative gives them their meaning.                             *)
(***************************************************************************)
EXTENDS Integers, Sequences, SequencesExt

CONSTANTS
  notAllowed,                         \* rn_notAllowed
  after_start_tag_open(_, _), after_start_tag_open_recover(_, _),
  after_attribute_open(_, _), after_attribute_open_recover(_, _),
  after_attribute_close(_), after_attribute_close_recover(_),
  after_start_tag_close(_), after_start_tag_close_recover(_),
  after_text(_, _), after_text_recover(_, _),
  after_mixed_text(_), after_mixed_text_recover(_),
  after_end_tag(_), after_end_tag_recover(_),
  white(_)                            \* is a text white space

(* v holds *curp, *prevp, whether no error was raised, and *prevp when the *)
(* first one was.                                                          *)
Entered(current, previous) ==
  [cur |-> current, prev |-> previous, ok |-> TRUE, at |-> notAllowed]

(* Slip: an error that can be repaired is none. *)
Step_forgiving(v, d, r) ==
  [cur |-> IF d = notAllowed THEN r ELSE d, prev |-> v.cur,
   ok |-> v.ok /\ (d # notAllowed \/ r # notAllowed),
   at |-> IF v.ok /\ d = notAllowed THEN v.cur ELSE v.at]

(* The common step: take the derivative d, or report and resume with r.    *)
Step(v, d, r) ==
  [cur |-> IF d = notAllowed THEN r ELSE d, prev |-> v.cur, ok |-> v.ok /\ d # notAllowed,
   at |-> IF v.ok /\ d = notAllowed THEN v.cur ELSE v.at]

rnv_text(v, s, mix) ==
  CASE mix /\ white(s) -> v
    [] mix /\ ~white(s) -> Step(v, after_mixed_text(v.cur), after_mixed_text_recover(v.cur))
    [] ~mix -> Step(v, after_text(v.cur, s), after_text_recover(v.cur, s))

rnv_start_tag_open(v, qn) ==
  Step(v, after_start_tag_open(v.cur, qn), after_start_tag_open_recover(v.cur, qn))

rnv_attribute(v, qn, val) ==
  LET opened == Step(v, after_attribute_open(v.cur, qn), after_attribute_open_recover(v.cur, qn))
      d == after_text(opened.cur, val)
      read == Step(opened, d, after_attribute_close_recover(opened.cur))
  IN CASE after_attribute_open(v.cur, qn) = notAllowed -> opened
       [] after_attribute_open(v.cur, qn) # notAllowed /\ d = notAllowed -> read
       [] OTHER -> Step(read, after_attribute_close(d), after_attribute_close_recover(d))

rnv_start_tag_close(v) ==
  Step(v, after_start_tag_close(v.cur), after_start_tag_close_recover(v.cur))

(* The attributes, for as long as there is something to go on with.        *)
Attributed(v, a) == IF v.cur = notAllowed THEN v ELSE rnv_attribute(v, a[1], a[2])

rnv_start_tag(v, qn, atts) ==
  LET upto[n \in 0 .. Len(atts)] ==
        IF n = 0 THEN rnv_start_tag_open(v, qn) ELSE Attributed(upto[n - 1], atts[n])
      last == upto[Len(atts)]
  IN IF last.cur = notAllowed THEN last ELSE rnv_start_tag_close(last)

rnv_end_tag(v) == Step(v, after_end_tag(v.cur), after_end_tag_recover(v.cur))

=============================================================================
