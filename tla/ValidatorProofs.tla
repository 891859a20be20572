--------------------------- MODULE ValidatorProofs --------------------------
(***************************************************************************)
(* Proofs, for every schema and whatever the derivatives are, of three     *)
(* properties of the handlers of the validator: the exit status tells      *)
(* whether anything but external entities was complained of; the text      *)
(* handed to the derivatives is that since the last tag; and documents are *)
(* judged as module Judge judges them, where nothing is repaired.          *)
(*                                                                         *)
(* The first is in danger because a message is dropped if it is for the    *)
(* position of the last one.  That position never lies ahead, so only the  *)
(* end tag of an empty element can meet it, which has the position of its  *)
(* start tag; and if there was a message for the start tag, the status is  *)
(* an error already.  The second is in danger where an element is skipped: *)
(* nothing may be left in the buffer from before it.                       *)
(*                                                                         *)
(* For the third, a step of rnv.c with its recovery agrees with the        *)
(* derivative alone for as long as no error is raised (Agree), and what is *)
(* repaired never comes back to be judged: the document is rejected from   *)
(* then on, by a message that was not dropped.                             *)
(***************************************************************************)
EXTENDS Validator, Counting, SequenceTheorems

(* Open elements; the sets of names, attributes and children are those     *)
(* that the documents happen to have.                                      *)
Node(Q, A, K) == [qn : Q, atts : A, kids : Seq(K), at : Nat]

Shape == \E Q, A, K : open \in Seq(Node(Q, A, K))

(* Start tags are at different positions, none of them ahead; a message    *)
(* for the start tag of an open element has changed the status.            *)
SInv ==
  /\ Shape
  /\ pos \in Nat /\ lastpos \in Int /\ lastpos <= pos
  /\ open = Idle => lastpos = None
  /\ \A i, j \in 1 .. Len(open) : i < j => open[i].at < open[j].at
  /\ \A i \in 1 .. Len(open) : open[i].at <= pos
  /\ ok \in BOOLEAN
  /\ \A i \in 2 .. Len(open) : open[i].at = lastpos => ~ok
  /\ ExitStatus

(* While an element is skipped, and between documents, there is no text.   *)
TInv ==
  /\ Shape
  /\ txt \in Seq(Characters) /\ len_txt \in Nat
  /\ current = notAllowed \/ open = Idle => txt = <<>>
  /\ BufferHoldsText

-----------------------------------------------------------------------------
(* Changing the children of one open element changes nothing else.         *)
Regrow(s, i, ks) == [s EXCEPT ![i].kids = ks]

LEMMA Regrown ==
  ASSUME NEW Q, NEW A, NEW K, NEW s \in Seq(Node(Q, A, K)), NEW i \in 1 .. Len(s),
         NEW L, NEW ks \in Seq(L), NEW t, t = Regrow(s, i, ks)
  PROVE  /\ t \in Seq(Node(Q, A, K \cup L)) /\ Len(t) = Len(s)
         /\ \A j \in 1 .. Len(s) : t[j].at = s[j].at
         /\ t[i].kids = ks
<1>1. Len(s) \in Nat /\ DOMAIN s = 1 .. Len(s)
  BY LenProperties
<1>2. \A j \in 1 .. Len(s) : s[j] \in Node(Q, A, K)
  BY ElementOfSeq
<1>3. Seq(K) \subseteq Seq(K \cup L) /\ ks \in Seq(K \cup L)
  <2>1. \A x \in Seq(K) : x \in Seq(K \cup L)
    BY SeqMonotonic
  <2>2. ks \in Seq(K \cup L)
    BY SeqMonotonic
  <2> QED
    BY <2>1, <2>2
<1> DEFINE r == [s[i] EXCEPT !.kids = ks]
<1>4. r \in Node(Q, A, K \cup L) /\ r.at = s[i].at /\ r.kids = ks
  <2>1. s[i] \in Node(Q, A, K)
    BY <1>2
  <2> QED
    BY <1>3, <2>1 DEF Node
<1>5. \A j \in 1 .. Len(s) : s[j] \in Node(Q, A, K \cup L)
  BY <1>2, <1>3 DEF Node
<1>6. t = [s EXCEPT ![i] = r]
  BY DEF Regrow
<1> HIDE DEF r
<1>7. s \in Seq(Node(Q, A, K \cup L))
  <2>1. Node(Q, A, K) \subseteq Node(Q, A, K \cup L)
    BY <1>3 DEF Node
  <2> QED
    BY <2>1, SeqMonotonic
<1>8. /\ t \in Seq(Node(Q, A, K \cup L)) /\ Len(t) = Len(s)
      /\ \A j \in 1 .. Len(s) : t[j] = IF j = i THEN r ELSE s[j]
  BY <1>4, <1>6, <1>7, ExceptSeq
<1> QED
  BY <1>4, <1>8

(* The effect of each event on the open elements.                          *)
LEMMA Opening ==
  ASSUME NEW Q, NEW A, NEW K, open \in Seq(Node(Q, A, K)), pos \in Nat,
         NEW qn, NEW atts, start_element(qn, atts)
  PROVE  /\ Shape' /\ pos' = pos + 1
         /\ Len(open') = Len(open) + 1
         /\ \A j \in 1 .. Len(open) : open'[j] = open[j]
         /\ open'[Len(open) + 1].at = pos + 1 /\ open'[Len(open) + 1].kids = <<>>
<1> DEFINE f == AsFunction(atts)
           x == [qn |-> qn, atts |-> f, kids |-> <<>>, at |-> pos + 1]
           N == Node(Q \cup {qn}, A \cup {f}, K)
<1>1. open' = Append(open, x) /\ pos' = pos + 1
  BY DEF start_element, Deliver
<1> HIDE DEF f
<1>2. x \in N /\ x.at = pos + 1 /\ x.kids = <<>>
  BY DEF Node
<1> HIDE DEF x
<1>3. open \in Seq(N)
  <2>1. Node(Q, A, K) \subseteq N
    BY DEF Node
  <2> HIDE DEF N
  <2> QED
    BY <2>1, SeqMonotonic
<1> HIDE DEF N
<1>4. /\ open' \in Seq(N) /\ Len(open') = Len(open) + 1
      /\ \A j \in 1 .. Len(open) : open'[j] = open[j]
      /\ open'[Len(open) + 1] = x
  BY <1>1, <1>2, <1>3, AppendProperties
<1>5. Shape'
  BY <1>4 DEF Shape, N
<1> QED
  BY <1>1, <1>2, <1>4, <1>5

LEMMA Closing ==
  ASSUME NEW Q, NEW A, NEW K, open \in Seq(Node(Q, A, K)), Reading, open' = Closed
  PROVE  /\ Shape' /\ Len(open') = Len(open) - 1
         /\ \A j \in 1 .. Len(open) - 1 : open'[j].at = open[j].at
         /\ \E L : /\ open'[Len(open')].kids \in Seq(L) /\ Len(open'[Len(open')].kids) > 0
                   /\ ~IsText(open'[Len(open')].kids[Len(open'[Len(open')].kids)])
<1> DEFINE m == Len(open) - 1
           s == SubSeq(open, 1, m)
           x == [qn |-> Top.qn, atts |-> Top.atts, kids |-> Top.kids]
           ks == Append(s[m].kids, x)
<1>1. Len(open) \in Nat /\ Len(open) > 1 /\ m \in Nat /\ m >= 1
  BY LenProperties DEF Reading
<1>2. s \in Seq(Node(Q, A, K)) /\ Len(s) = m /\ \A j \in 1 .. m : s[j] = open[j]
  <2>1. \A j \in 1 .. m : open[j] \in Node(Q, A, K)
    BY <1>1, ElementOfSeq
  <2> HIDE DEF m
  <2> QED
    BY <1>1, <2>1, SubSeqProperties
<1>3. open' = Regrow(s, m, ks)
  BY DEF Closed, Regrow
<1>4. DOMAIN x = {"qn", "atts", "kids"}
  OBVIOUS
<1> HIDE DEF m, x
<1>5. s[m] \in Node(Q, A, K) /\ s[m].kids \in Seq(K)
  <2>1. open[m] \in Node(Q, A, K)
    BY <1>1, ElementOfSeq DEF m
  <2>2. s[m] \in Node(Q, A, K)
    BY <1>1, <1>2, <2>1
  <2> HIDE DEF s
  <2> QED
    BY <2>2 DEF Node
<1> DEFINE old == s[m].kids
<1>6. old \in Seq(K)
  BY <1>5
<1>7. ks = Append(old, x)
  OBVIOUS
<1> HIDE DEF s, ks, old
<1>8. ks \in Seq(K \cup {x}) /\ Len(ks) > 0 /\ ks[Len(ks)] = x
  <2>1. old \in Seq(K \cup {x}) /\ Len(old) \in Nat
    BY <1>6, SeqMonotonic, LenProperties
  <2> QED
    BY <1>7, <2>1, AppendProperties
<1>9. m \in 1 .. Len(s)
  BY <1>1, <1>2
<1>10. /\ open' \in Seq(Node(Q, A, K \cup (K \cup {x}))) /\ Len(open') = Len(s)
       /\ \A j \in 1 .. Len(s) : open'[j].at = s[j].at
       /\ open'[m].kids = ks
  <2> DEFINE L == K \cup {x}
  <2>1. ks \in Seq(L) /\ s \in Seq(Node(Q, A, K))
    BY <1>2, <1>8
  <2> HIDE DEF L
  <2>2. /\ open' \in Seq(Node(Q, A, K \cup L)) /\ Len(open') = Len(s)
        /\ \A j \in 1 .. Len(s) : open'[j].at = s[j].at
        /\ open'[m].kids = ks
    <3>1. PICK t : t = Regrow(s, m, ks)
      OBVIOUS
    <3>2. t \in Seq(Node(Q, A, K \cup L))
      BY <1>9, <2>1, <3>1, Regrown
    <3>3. Len(t) = Len(s) /\ t[m].kids = ks /\ \A j \in 1 .. Len(s) : t[j].at = s[j].at
      BY <1>9, <2>1, <3>1, <3>2, Regrown
    <3> QED
      BY <1>3, <3>1, <3>2, <3>3
  <2> QED
    BY <2>2 DEF L
<1>11. Shape'
  BY <1>10 DEF Shape
<1>12. ~IsText(x)
  BY <1>4 DEF IsText
<1> QED
  BY <1>2, <1>8, <1>10, <1>11, <1>12 DEF m

(* Text is added to the last child of the innermost element, or is one.    *)
Pieced(kids, s) ==
  IF Len(kids) > 0 /\ IsText(kids[Len(kids)]) THEN [kids EXCEPT ![Len(kids)].str = @ \o s]
  ELSE Append(kids, [str |-> s])

LEMMA Piecing ==
  ASSUME NEW K, NEW kids \in Seq(K), NEW s, NEW ks, ks = Pieced(kids, s)
  PROVE  /\ \E L : ks \in Seq(L)
         /\ Len(ks) > 0 /\ IsText(ks[Len(ks)])
         /\ ks[Len(ks)].str = IF Len(kids) > 0 /\ IsText(kids[Len(kids)])
                              THEN kids[Len(kids)].str \o s ELSE s
<1> DEFINE m == Len(kids)
<1>1. m \in Nat
  BY LenProperties
<1>2. CASE m > 0 /\ IsText(kids[m])
  <2> DEFINE x == [kids[m] EXCEPT !.str = @ \o s]
  <2>1. ks = [kids EXCEPT ![m] = x]
    BY <1>2 DEF Pieced
  <2>2. x.str = kids[m].str \o s /\ IsText(x)
    BY <1>2 DEF IsText
  <2>3. m \in 1 .. m /\ x \in K \cup {x} /\ kids \in Seq(K \cup {x})
    BY <1>1, <1>2, SeqMonotonic
  <2> HIDE DEF x
  <2>4. /\ ks \in Seq(K \cup {x}) /\ Len(ks) = m
        /\ \A j \in 1 .. m : ks[j] = IF j = m THEN x ELSE kids[j]
    BY <2>1, <2>3, ExceptSeq
  <2>5. ks[Len(ks)] = x
    BY <2>3, <2>4
  <2> HIDE DEF m
  <2> QED
    BY <1>1, <1>2, <2>2, <2>4, <2>5 DEF m
<1>3. CASE ~(m > 0 /\ IsText(kids[m]))
  <2> DEFINE x == [str |-> s]
  <2>1. ks = Append(kids, x)
    BY <1>3 DEF Pieced
  <2>2. x.str = s /\ IsText(x)
    BY DEF IsText
  <2>3. x \in K \cup {x} /\ kids \in Seq(K \cup {x})
    BY SeqMonotonic
  <2> HIDE DEF x
  <2>4. ks \in Seq(K \cup {x}) /\ Len(ks) = m + 1 /\ ks[m + 1] = x
    BY <2>1, <2>3, AppendProperties
  <2> QED
    BY <1>1, <1>3, <2>2, <2>4
<1> QED
  BY <1>2, <1>3

LEMMA Adding ==
  ASSUME NEW Q, NEW A, NEW K, open \in Seq(Node(Q, A, K)), pos \in Nat, NEW s, characters(s)
  PROVE  /\ Shape' /\ pos' = pos + 1 /\ Len(open') = Len(open) /\ Len(open) > 1
         /\ \A j \in 1 .. Len(open) : open'[j].at = open[j].at
         /\ Top.kids \in Seq(K)
         /\ Top'.kids = Pieced(Top.kids, s)
<1>1. Len(open) \in Nat /\ Len(open) > 1
  BY LenProperties DEF characters, Reading
<1> DEFINE i == Len(open)
           kids == Top.kids
           ks == Pieced(kids, s)
<1>2. kids \in Seq(K)
  <2>1. open[i] \in Node(Q, A, K)
    BY <1>1, ElementOfSeq
  <2> QED
    BY <2>1 DEF Top, Node
<1>3. open' = Regrow(open, i, ks) /\ pos' = pos + 1
  BY DEF characters, Deliver, Pieced, Regrow
<1> HIDE DEF kids
<1>4. PICK L : ks \in Seq(L)
  BY <1>2, Piecing
<1>5. i \in 1 .. Len(open)
  BY <1>1
<1> HIDE DEF ks
<1>6. /\ open' \in Seq(Node(Q, A, K \cup L)) /\ Len(open') = Len(open)
      /\ \A j \in 1 .. Len(open) : open'[j].at = open[j].at
      /\ open'[i].kids = ks
  <2> HIDE DEF i
  <2>1. PICK t : t = Regrow(open, i, ks)
    OBVIOUS
  <2>2. t \in Seq(Node(Q, A, K \cup L))
    BY <1>4, <1>5, <2>1, Regrown
  <2>3. Len(t) = Len(open) /\ t[i].kids = ks /\ \A j \in 1 .. Len(open) : t[j].at = open[j].at
    BY <1>4, <1>5, <2>1, <2>2, Regrown
  <2> QED
    BY <1>3, <2>1, <2>2, <2>3
<1>7. Shape'
  BY <1>6 DEF Shape
<1>8. Top'.kids = ks
  BY <1>6 DEF Top
<1> QED
  BY <1>1, <1>2, <1>3, <1>6, <1>7, <1>8 DEF ks, kids

(* A document begins. *)
LEMMA Beginning ==
  ASSUME open' = <<Document>>
  PROVE  Shape' /\ Len(open') = 1 /\ open'[1].at = 0
<1> DEFINE N == Node({""}, {<<>>}, Nat)
<1>1. Document \in N /\ Document.at = 0
  <2>1. <<>> \in Seq(Nat)
    BY EmptySeq
  <2> QED
    BY <2>1 DEF Document, Node
<1> HIDE DEF N
<1>2. open' \in Seq(N) /\ Len(open') = 1 /\ open'[1] = Document
  BY <1>1
<1> QED
  BY <1>1, <1>2 DEF Shape, N

LEMMA Ending ==
  ASSUME open' = Idle
  PROVE  Shape' /\ Len(open') = 0
<1>1. open' \in Seq(Node({}, {}, {})) /\ Len(open') = 0
  BY DEF Idle
<1> QED
  BY <1>1 DEF Shape

-----------------------------------------------------------------------------
(* The outcome of a handler, for a position at which there has not been a  *)
(* message, or not without the status being an error.                      *)
LEMMA OutcomeStatus ==
  ASSUME NEW v, NEW p \in Nat, ok \in BOOLEAN, ExitStatus, p = lastpos => ~ok, Outcome(v, p)
  PROVE  /\ ok' \in BOOLEAN /\ ExitStatus' /\ (ok' => ok)
         /\ (lastpos' = lastpos) \/ (lastpos' = p /\ ~ok')
<1>1. ok' = (ok /\ v.ok)
  BY DEF Outcome
<1>2. CASE v.ok
  <2>1. (ok' <=> ok) /\ ok' \in BOOLEAN
    BY <1>1, <1>2
  <2>2. lastpos' = lastpos /\ printed' = printed
    BY <1>2 DEF Outcome
  <2>3. ExitStatus'
    BY <2>1, <2>2 DEF ExitStatus
  <2>4. ok' \in BOOLEAN
    BY <2>1
  <2>5. ok' => ok
    BY <2>1
  <2> QED
    BY <2>2, <2>3, <2>4, <2>5
<1>3. CASE ~v.ok
  <2>1. ~ok' /\ ok' \in BOOLEAN /\ lastpos' = p /\ Message("invalid", p)
    BY <1>1, <1>3 DEF Outcome, Invalid, Report
  <2>2. CASE p = lastpos
    <3>1. printed' = printed /\ ~ok
      BY <2>1, <2>2 DEF Message
    <3>2. ExitStatus'
      BY <2>1, <3>1 DEF ExitStatus
    <3> QED
      BY <2>1, <3>2
  <2>3. CASE p # lastpos
    <3> DEFINE m == <<docno, "invalid", IF xgfile = None THEN docno ELSE xgfile>>
    <3>1. m \in printed' /\ m[2] # "entity"
      BY <2>1, <2>3 DEF Message
    <3> HIDE DEF m
    <3>2. ExitStatus'
      BY <2>1, <3>1 DEF ExitStatus
    <3> QED
      BY <2>1, <3>2
  <2> QED
    BY <1>1, <2>1, <2>2, <2>3
<1> QED
  BY <1>2, <1>3

-----------------------------------------------------------------------------
(* The exit status. *)
LEMMA InitSInv == ASSUME Init PROVE SInv
<1>1. open = <<>> /\ Len(open) = 0 /\ open \in Seq(Node({}, {}, {}))
  BY DEF Init, Idle
<1>2. Shape
  BY <1>1 DEF Shape
<1>3. pos = 0 /\ lastpos = -1 /\ ok = TRUE /\ printed = {}
  BY DEF Init, None
<1>4. ExitStatus
  BY <1>3 DEF ExitStatus
<1>5. open = Idle => lastpos = None
  BY <1>3 DEF None
<1> QED
  BY <1>1, <1>2, <1>3, <1>4, <1>5 DEF SInv

LEMMA StepSInv ==
  ASSUME SInv, [Next]_vars
  PROVE  SInv'
<1>1. PICK Q, A, K : open \in Seq(Node(Q, A, K))
  BY DEF SInv, Shape
<1>2. Len(open) \in Nat /\ \A i \in 1 .. Len(open) : open[i].at \in Nat
  <2>1. Len(open) \in Nat
    BY <1>1, LenProperties
  <2>2. \A i \in 1 .. Len(open) : open[i] \in Node(Q, A, K)
    BY <1>1, ElementOfSeq
  <2> QED
    BY <2>1, <2>2 DEF Node
<1>3. /\ pos \in Nat /\ lastpos \in Int /\ lastpos <= pos /\ ok \in BOOLEAN /\ ExitStatus
      /\ \A i, j \in 1 .. Len(open) : i < j => open[i].at < open[j].at
      /\ \A i \in 1 .. Len(open) : open[i].at <= pos
      /\ \A i \in 2 .. Len(open) : open[i].at = lastpos => ~ok
  BY DEF SInv
<1>4. ASSUME NEW qn, NEW atts, start_element(qn, atts) PROVE SInv'
  <2>1. /\ Shape' /\ pos' = pos + 1
        /\ Len(open') = Len(open) + 1
        /\ \A j \in 1 .. Len(open) : open'[j] = open[j]
        /\ open'[Len(open) + 1].at = pos + 1
    BY <1>1, <1>3, <1>4, Opening
  <2>2. /\ ok' \in BOOLEAN /\ ExitStatus' /\ (ok' => ok)
        /\ (lastpos' = lastpos) \/ (lastpos' = pos + 1 /\ ~ok')
    <3>1. CASE current # notAllowed
      <4>1. pos + 1 \in Nat /\ (pos + 1 = lastpos => ~ok)
        BY <1>3
      <4>2. Outcome(rnv_start_tag(rnv_text(Now, txt, TRUE), qn, atts), pos + 1)
        BY <1>4, <3>1 DEF start_element
      <4> QED
        BY <1>3, <4>1, <4>2, OutcomeStatus
    <3>2. CASE current = notAllowed
      <4>1. UNCHANGED <<ok, lastpos, printed>>
        BY <1>4, <3>2 DEF start_element
      <4> QED
        BY <1>3, <4>1 DEF ExitStatus
    <3> QED
      BY <3>1, <3>2
  <2>3. lastpos' \in Int /\ lastpos' <= pos'
    BY <1>3, <2>1, <2>2
  <2>4. open' # Idle
    BY <1>2, <2>1 DEF Idle
  <2>5. \A i \in 1 .. Len(open') : open'[i].at \in Nat /\ open'[i].at <= pos'
    <3> TAKE i \in 1 .. Len(open')
    <3>1. i \in 1 .. Len(open) \/ i = Len(open) + 1
      BY <1>2, <2>1
    <3> QED
      BY <1>2, <1>3, <2>1, <3>1
  <2>6. ASSUME NEW i \in 1 .. Len(open'), NEW j \in 1 .. Len(open'), i < j
        PROVE  open'[i].at < open'[j].at
    <3>1. i \in 1 .. Len(open)
      BY <1>2, <2>1, <2>6
    <3>2. CASE j \in 1 .. Len(open)
      BY <1>3, <2>1, <2>6, <3>1, <3>2
    <3>3. CASE j = Len(open) + 1
      BY <1>2, <1>3, <2>1, <3>1, <3>3
    <3> QED
      BY <1>2, <2>1, <3>2, <3>3
  <2>7. ASSUME NEW i \in 2 .. Len(open'), open'[i].at = lastpos' PROVE ~ok'
    <3>1. CASE i = Len(open) + 1
      BY <1>2, <1>3, <2>1, <2>2, <2>7, <3>1
    <3>2. CASE i \in 2 .. Len(open)
      <4>1. i \in 1 .. Len(open) /\ open'[i].at = open[i].at
        BY <1>2, <2>1, <3>2
      <4> QED
        BY <1>2, <1>3, <2>2, <2>7, <3>2, <4>1
    <3> QED
      BY <1>2, <2>1, <3>1, <3>2
  <2> QED
    BY <1>3, <2>1, <2>2, <2>3, <2>4, <2>5, <2>6, <2>7 DEF SInv
<1>5. CASE end_element
  <2>1. PICK p \in {pos + 1} \cup {q \in {pos} : Top.at = pos} :
          /\ Deliver(Closed, p)
          /\ IF current # notAllowed
             THEN Outcome(rnv_end_tag(rnv_text(Now, txt, mixed)), p)
             ELSE UNCHANGED <<ok, lastpos, printed>>
    BY <1>5 DEF end_element
  <2>2. Len(open) > 1 /\ open' = Closed /\ pos' = p
    BY <1>5, <2>1 DEF end_element, Reading, Deliver
  <2>3. /\ Shape' /\ Len(open') = Len(open) - 1
        /\ \A j \in 1 .. Len(open) - 1 : open'[j].at = open[j].at
    BY <1>1, <2>2, Closing DEF Reading
  <2>4. p \in Nat /\ p >= pos /\ (p # pos => p = pos + 1) /\ (p = pos => open[Len(open)].at = pos)
    BY <1>3, <2>1 DEF Top
  <2>5. p = lastpos => ~ok
    BY <1>2, <1>3, <2>2, <2>4
  <2>6. /\ ok' \in BOOLEAN /\ ExitStatus' /\ (ok' => ok)
        /\ (lastpos' = lastpos) \/ (lastpos' = p /\ ~ok')
    <3>1. CASE current # notAllowed
      BY <1>3, <2>1, <2>4, <2>5, <3>1, OutcomeStatus
    <3>2. CASE current = notAllowed
      <4>1. UNCHANGED <<ok, lastpos, printed>>
        BY <2>1, <3>2
      <4> QED
        BY <1>3, <4>1 DEF ExitStatus
    <3> QED
      BY <3>1, <3>2
  <2>7. lastpos' \in Int /\ lastpos' <= pos'
    BY <1>3, <2>2, <2>4, <2>6
  <2>8. open' # Idle
    BY <1>2, <2>2, <2>3 DEF Idle
  <2>9. \A i \in 1 .. Len(open') : open'[i].at \in Nat /\ open'[i].at < open[Len(open)].at /\ open'[i].at <= pos
    <3> TAKE i \in 1 .. Len(open')
    <3>1. i \in 1 .. Len(open) - 1 /\ i \in 1 .. Len(open) /\ Len(open) \in 1 .. Len(open) /\ i < Len(open)
      BY <1>2, <2>2, <2>3
    <3> QED
      BY <1>2, <1>3, <2>3, <3>1
  <2>10. ASSUME NEW i \in 1 .. Len(open'), NEW j \in 1 .. Len(open'), i < j
         PROVE  open'[i].at < open'[j].at
    <3>1. i \in 1 .. Len(open) - 1 /\ j \in 1 .. Len(open) - 1 /\ i \in 1 .. Len(open) /\ j \in 1 .. Len(open)
      BY <1>2, <2>3
    <3> QED
      BY <1>3, <2>3, <2>10, <3>1
  <2>11. ASSUME NEW i \in 2 .. Len(open'), open'[i].at = lastpos' PROVE ~ok'
    <3>1. i \in 1 .. Len(open') /\ i \in 2 .. Len(open) /\ open'[i].at = open[i].at
      BY <1>2, <2>3
    <3> QED
      BY <1>2, <1>3, <2>4, <2>6, <2>9, <2>11, <3>1
  <2>12. \A i \in 1 .. Len(open') : open'[i].at <= pos'
    BY <1>3, <2>2, <2>4, <2>9
  <2> QED
    BY <2>2, <2>3, <2>4, <2>6, <2>7, <2>8, <2>10, <2>11, <2>12 DEF SInv
<1>6. ASSUME NEW s, characters(s) PROVE SInv'
  <2>1. /\ Shape' /\ pos' = pos + 1 /\ Len(open') = Len(open) /\ Len(open) > 1
        /\ \A j \in 1 .. Len(open) : open'[j].at = open[j].at
    BY <1>1, <1>3, <1>6, Adding
  <2>2. UNCHANGED <<ok, lastpos, printed>>
    BY <1>6 DEF characters
  <2>3. ExitStatus'
    BY <1>3, <2>2 DEF ExitStatus
  <2>4. open' # Idle
    BY <2>1 DEF Idle
  <2>5. \A i \in 1 .. Len(open') : open'[i].at = open[i].at /\ open'[i].at <= pos'
    BY <1>2, <1>3, <2>1
  <2>6. \A i \in 2 .. Len(open') : i \in 1 .. Len(open')
    OBVIOUS
  <2> QED
    BY <1>3, <2>1, <2>2, <2>3, <2>4, <2>5, <2>6 DEF SInv
<1>7. CASE externalEntityRef
  <2>1. /\ open' = open /\ pos' = pos + 1 /\ lastpos' = pos + 1 /\ ok' = ok /\ open # Idle
        /\ Message("entity", pos + 1)
    BY <1>2, <1>7 DEF externalEntityRef, Deliver, Report, Reading, RootDue, Idle
  <2>2. ExitStatus'
    <3> DEFINE m == <<docno, "entity", IF xgfile = None THEN docno ELSE xgfile>>
    <3>1. printed' = printed \cup {m} /\ m[2] = "entity"
      BY <1>3, <2>1 DEF Message
    <3> HIDE DEF m
    <3> QED
      BY <1>3, <2>1, <3>1 DEF ExitStatus
  <2>3. Shape'
    BY <1>1, <2>1 DEF Shape
  <2>4. \A i \in 1 .. Len(open) : open[i].at <= pos' /\ open[i].at # lastpos'
    BY <1>2, <1>3, <2>1
  <2>5. \A i \in 2 .. Len(open) : i \in 1 .. Len(open)
    OBVIOUS
  <2> QED
    BY <1>3, <2>1, <2>2, <2>3, <2>4, <2>5 DEF SInv
<1>8. CASE processingInstruction
  <2>1. open' = open /\ pos' = pos + 1 /\ open # Idle /\ UNCHANGED <<ok, lastpos, printed>>
    BY <1>8 DEF processingInstruction, Deliver
  <2>2. Shape' /\ ExitStatus'
    BY <1>1, <1>3, <2>1 DEF Shape, ExitStatus
  <2>3. \A i \in 1 .. Len(open) : open[i].at <= pos'
    BY <1>2, <1>3, <2>1
  <2> QED
    BY <1>3, <2>1, <2>2, <2>3 DEF SInv
<1>9. CASE validate
  <2>1. open = Idle /\ open' = <<Document>> /\ pos' = 0 /\ UNCHANGED <<ok, lastpos, printed>>
    BY <1>9 DEF validate
  <2>2. Shape' /\ Len(open') = 1 /\ open'[1].at = 0
    BY <2>1, Beginning
  <2>3. lastpos' = -1 /\ open' # Idle
    BY <2>1, <2>2 DEF SInv, None, Idle
  <2>4. ExitStatus'
    BY <1>3, <2>1 DEF ExitStatus
  <2> QED
    BY <1>3, <2>1, <2>2, <2>3, <2>4 DEF SInv
<1>10. CASE not_opened
  <2>1. UNCHANGED <<open, pos, lastpos>> /\ ok' = FALSE /\ printed' = printed \cup {<<docno + 1, "file", docno + 1>>}
    BY <1>10 DEF not_opened
  <2>2. ExitStatus'
    <3> DEFINE m == <<docno + 1, "file", docno + 1>>
    <3>1. m \in printed' /\ m[2] # "entity"
      BY <2>1
    <3> HIDE DEF m
    <3> QED
      BY <2>1, <3>1 DEF ExitStatus
  <2>3. Shape'
    BY <1>1, <2>1 DEF Shape
  <2> QED
    BY <2>1, <2>2, <2>3 DEF SInv
<1>11. CASE process_failed
  <2>1. open' = Idle /\ pos' = pos /\ lastpos' = -1 /\ ok' = FALSE /\ Message("xml", pos + 1)
    BY <1>11 DEF process_failed, clear, None
  <2>2. ExitStatus'
    <3> DEFINE m == <<docno, "xml", IF xgfile = None THEN docno ELSE xgfile>>
    <3>1. m \in printed' /\ m[2] # "entity"
      BY <1>3, <2>1 DEF Message
    <3> HIDE DEF m
    <3> QED
      BY <2>1, <3>1 DEF ExitStatus
  <2>3. Shape' /\ Len(open') = 0
    BY <2>1, Ending
  <2>4. lastpos' = None /\ lastpos' \in Int /\ lastpos' <= pos' /\ pos' \in Nat
    BY <1>3, <2>1 DEF None
  <2>5. 1 .. 0 = {} /\ 2 .. 0 = {}
    OBVIOUS
  <2>6. ok' \in BOOLEAN
    BY <1>3, <2>1
  <2> QED
    BY <2>2, <2>3, <2>4, <2>5, <2>6 DEF SInv
<1>12. CASE process_done
  <2>1. open' = Idle /\ lastpos' = -1 /\ UNCHANGED <<ok, printed, pos>>
    BY <1>12 DEF process_done, clear, None
  <2>2. ExitStatus'
    BY <1>3, <2>1 DEF ExitStatus
  <2>3. Shape' /\ Len(open') = 0
    BY <2>1, Ending
  <2>4. lastpos' = None /\ lastpos' \in Int /\ lastpos' <= pos' /\ pos' \in Nat
    BY <1>3, <2>1 DEF None
  <2>5. 1 .. 0 = {} /\ 2 .. 0 = {}
    OBVIOUS
  <2>6. ok' \in BOOLEAN
    BY <1>3, <2>1
  <2> QED
    BY <2>2, <2>3, <2>4, <2>5, <2>6 DEF SInv
<1>13. CASE UNCHANGED vars
  BY <1>13 DEF SInv, Shape, ExitStatus, vars
<1> QED
  BY <1>4, <1>5, <1>6, <1>7, <1>8, <1>9, <1>10, <1>11, <1>12, <1>13 DEF Next

(* The exit status tells whether anything but external entities was        *)
(* complained of, in any of the documents (xcl.c:55-87, 113-145).             *)
THEOREM StatusTells == Spec => []ExitStatus
<1>1. SInv => ExitStatus
  BY DEF SInv
<1> QED
  BY <1>1, InitSInv, StepSInv, PTL DEF Spec

-----------------------------------------------------------------------------
(* The text. *)
LEMMA InitTInv == ASSUME Init PROVE TInv
<1>1. open = <<>> /\ Len(open) = 0 /\ open \in Seq(Node({}, {}, {}))
  BY DEF Init, Idle
<1>2. Shape
  BY <1>1 DEF Shape
<1>3. txt = <<>> /\ txt \in Seq(Characters) /\ Len(txt) = 0 /\ len_txt = LEN_T /\ LEN_T \in Nat \ {0}
  BY TextAssumption DEF Init
<1>4. BufferHoldsText
  BY <1>1, <1>3 DEF BufferHoldsText, Reading
<1> QED
  BY <1>2, <1>3, <1>4 DEF TInv

(* The buffer has room for n characters and a zero after it is stretched. *)
LEMMA StretchedRoom ==
  ASSUME NEW n \in Nat, len_txt \in Nat
  PROVE  Stretched(n) \in Nat /\ n < Stretched(n)
<1>1. LIM_T \in Nat
  BY TextAssumption
<1>2. CASE n + 1 <= LIM_T /\ LIM_T < len_txt
  BY <1>1, <1>2 DEF Stretched
<1>3. CASE ~(n + 1 <= LIM_T /\ LIM_T < len_txt) /\ n + 1 < len_txt
  BY <1>1, <1>3 DEF Stretched
<1>4. CASE ~(n + 1 <= LIM_T /\ LIM_T < len_txt) /\ ~(n + 1 < len_txt)
  BY <1>1, <1>4 DEF Stretched
<1> QED
  BY <1>2, <1>3, <1>4

LEMMA StepTInv ==
  ASSUME TInv, pos \in Nat, [Next]_vars
  PROVE  TInv'
<1>1. PICK Q, A, K : open \in Seq(Node(Q, A, K))
  BY DEF TInv, Shape
<1>2. /\ txt \in Seq(Characters) /\ len_txt \in Nat /\ Len(txt) < len_txt /\ Len(txt) \in Nat
      /\ current = notAllowed => txt = <<>>
      /\ open = Idle => txt = <<>>
      /\ Len(open) \in Nat
  BY <1>1, LenProperties DEF TInv, BufferHoldsText
<1>3. Len(open) > 1 /\ current # notAllowed => txt = LastText(Top.kids)
  BY DEF TInv, BufferHoldsText, Reading
<1>4. ASSUME Shape', txt' \in Seq(Characters), len_txt' \in Nat, Len(txt') < len_txt',
             current' = notAllowed => txt' = <<>>, open' = Idle => txt' = <<>>,
             Len(open') > 1 /\ current' # notAllowed => txt' = LastText(Top'.kids)
      PROVE  TInv'
  BY <1>4 DEF TInv, BufferHoldsText, Reading
<1>5. <<>> \in Seq(Characters) /\ Len(<<>>) = 0 /\ 0 < len_txt
  BY <1>2
<1>6. ASSUME NEW qn, NEW atts, start_element(qn, atts) PROVE TInv'
  <2>1. Shape' /\ Len(open') = Len(open) + 1 /\ open'[Len(open) + 1].kids = <<>>
    BY <1>1, <1>6, Opening
  <2>2. txt' = <<>> /\ len_txt' = len_txt
    BY <1>2, <1>6 DEF start_element
  <2>3. Top'.kids = <<>>
    BY <2>1 DEF Top
  <2>4. LastText(<<>>) = <<>>
    BY <1>5 DEF LastText
  <2> HIDE DEF Last
  <2> QED
    BY <1>2, <1>4, <1>5, <2>1, <2>2, <2>3, <2>4
<1>7. CASE end_element
  <2>1. open' = Closed /\ Reading
    BY <1>7 DEF end_element, Deliver
  <2>2. /\ Shape' /\ Len(open') = Len(open) - 1
        /\ \E L : /\ open'[Len(open')].kids \in Seq(L) /\ Len(open'[Len(open')].kids) > 0
                  /\ ~IsText(open'[Len(open')].kids[Len(open'[Len(open')].kids)])
    BY <1>1, <2>1, Closing
  <2>3. LastText(Top'.kids) = <<>>
    BY <2>2 DEF Top, LastText
  <2>4. txt' = <<>> /\ len_txt' = len_txt
    BY <1>2, <1>7 DEF end_element
  <2> HIDE DEF Last
  <2> QED
    BY <1>2, <1>4, <1>5, <2>2, <2>3, <2>4
<1>8. ASSUME NEW s \in Chunks, characters(s) PROVE TInv'
  <2>1. /\ Shape' /\ Len(open') = Len(open) /\ Len(open) > 1
        /\ Top.kids \in Seq(K) /\ Top'.kids = Pieced(Top.kids, s)
    BY <1>1, <1>8, Adding
  <2>2. s \in Seq(Characters) /\ Len(s) \in Nat
    BY LenProperties, TextAssumption
  <2>3. open' # Idle /\ current' = current
    BY <1>8, <2>1 DEF Idle, characters
  <2>4. CASE current = notAllowed
    <3>1. txt' = <<>> /\ len_txt' = len_txt
      BY <1>2, <1>8, <2>4 DEF characters
    <3> HIDE DEF Last
    <3> QED
      BY <1>4, <1>5, <1>2, <2>1, <2>3, <2>4, <3>1
  <2>5. CASE current # notAllowed
    <3>1. len_txt' = Stretched(Len(txt) + Len(s)) /\ txt' = txt \o s
      BY <1>8, <2>5 DEF characters
    <3>2. txt' \in Seq(Characters) /\ Len(txt') = Len(txt) + Len(s)
      BY <1>2, <2>2, <3>1, ConcatProperties
    <3>3. len_txt' \in Nat /\ Len(txt') < len_txt'
      <4>1. Len(txt) + Len(s) \in Nat
        BY <1>2, <2>2
      <4> QED
        BY <1>2, <3>1, <3>2, <4>1, StretchedRoom
    <3>4. LastText(Top'.kids) = txt'
      <4> DEFINE kids == Top.kids
                 ks == Top'.kids
      <4>1. /\ Len(ks) > 0 /\ IsText(ks[Len(ks)])
            /\ ks[Len(ks)].str = IF Len(kids) > 0 /\ IsText(kids[Len(kids)])
                                 THEN kids[Len(kids)].str \o s ELSE s
        <5>1. kids \in Seq(K) /\ ks = Pieced(kids, s)
          BY <2>1
        <5> HIDE DEF kids, ks
        <5> QED
          BY <5>1, Piecing
      <4>2. LastText(ks) = ks[Len(ks)].str
        BY <4>1 DEF LastText
      <4>3. txt = LastText(kids)
        BY <1>3, <2>1, <2>5
      <4> HIDE DEF kids, ks
      <4>4. ASSUME Len(kids) > 0 /\ IsText(kids[Len(kids)]) PROVE LastText(ks) = txt'
        <5>1. LastText(kids) = kids[Len(kids)].str
          BY <4>4 DEF LastText
        <5> DEFINE old == kids[Len(kids)].str
                   new == ks[Len(ks)].str
        <5>2. txt = old /\ new = old \o s /\ LastText(ks) = new
          BY <4>1, <4>2, <4>3, <4>4, <5>1
        <5> HIDE DEF old, new, Last
        <5> QED
          BY <3>1, <5>2
      <4>5. ASSUME ~(Len(kids) > 0 /\ IsText(kids[Len(kids)])) PROVE LastText(ks) = txt'
        <5>1. txt = <<>> /\ ks[Len(ks)].str = s
          BY <4>1, <4>3, <4>5 DEF LastText
        <5>2. <<>> \o s = s
          BY <2>2, ConcatEmptySeq
        <5> HIDE DEF Last
        <5> QED
          BY <3>1, <4>2, <5>1, <5>2
      <4>6. LastText(ks) = txt'
        <5> HIDE DEF Last
        <5> QED
          BY <4>4, <4>5
      <4> QED
        BY <4>6 DEF ks
    <3> HIDE DEF Last
    <3> QED
      BY <1>4, <2>1, <2>3, <2>5, <3>2, <3>3, <3>4
  <2> QED
    BY <2>4, <2>5
<1> HIDE DEF Last
<1>9. CASE externalEntityRef \/ processingInstruction \/ UNCHANGED vars
  <2>1. UNCHANGED <<open, txt, len_txt, current>>
    BY <1>9 DEF externalEntityRef, processingInstruction, Deliver, state, vars
  <2>2. Shape' /\ Top' = Top
    BY <1>1, <2>1 DEF Shape, Top
  <2> QED
    BY <1>2, <1>3, <1>4, <2>1, <2>2
<1>10. CASE validate
  <2>1. open' = <<Document>> /\ txt' = <<>> /\ len_txt' = len_txt
    BY <1>2, <1>10 DEF validate
  <2>2. Shape' /\ Len(open') = 1
    BY <2>1, Beginning
  <2> QED
    BY <1>2, <1>4, <1>5, <2>1, <2>2
<1>11. CASE not_opened
  <2>1. UNCHANGED <<open, txt, len_txt, current>>
    BY <1>11 DEF not_opened, state
  <2>2. Shape' /\ Top' = Top
    BY <1>1, <2>1 DEF Shape, Top
  <2> QED
    BY <1>2, <1>3, <1>4, <2>1, <2>2
<1>12. CASE process_failed \/ process_done
  <2>1. open' = Idle /\ txt' = <<>> /\ len_txt' = IF len_txt > LIM_T THEN LEN_T ELSE len_txt
    BY <1>12 DEF process_failed, process_done, clear
  <2>2. Shape' /\ Len(open') = 0
    BY <2>1, Ending
  <2>3. LEN_T \in Nat /\ 0 < LEN_T
    BY TextAssumption
  <2>4. len_txt' \in Nat /\ 0 < len_txt'
    BY <1>2, <1>5, <2>1, <2>3
  <2> QED
    BY <1>4, <1>5, <2>1, <2>2, <2>4
<1> QED
  BY <1>6, <1>7, <1>8, <1>9, <1>10, <1>11, <1>12 DEF Next

(* The text handed to the derivatives is that since the last tag, all of   *)
(* it and nothing from a skipped element or an earlier document, and the   *)
(* buffer has room for it and its terminating zero (xcl.c:106-154). *)
THEOREM TextKept == Spec => []BufferHoldsText
<1>1. TInv => BufferHoldsText
  BY DEF TInv
<1>2. SInv => pos \in Nat
  BY DEF SInv
<1>3. Init => TInv
  BY InitTInv
<1>4. TInv /\ SInv /\ [Next]_vars => TInv'
  BY <1>2, StepTInv
<1> QED
  BY <1>1, <1>3, <1>4, InitSInv, StepSInv, PTL DEF Spec

-----------------------------------------------------------------------------
(* The steps of rnv.c, with their recovery, against the derivatives alone. *)
(* As long as no error is raised, v holds the derivative q; when one is,   *)
(* and ever after, q is notAllowed.                                        *)
Agree(v, q) ==
  /\ v.ok \in BOOLEAN
  /\ v.ok => v.cur = q /\ q # notAllowed
  /\ ~v.ok => q = notAllowed

LEMMA StepAgrees ==
  ASSUME NEW v, NEW q, Agree(v, q), NEW d, NEW r, NEW e,
         v.ok => e = d, ~v.ok => e = notAllowed
  PROVE  Agree(Step(v, d, r), e)
BY DEF Agree, Step

LEMMA TextAgrees ==
  ASSUME NEW v, NEW q, Agree(v, q), NEW s
  PROVE  /\ Agree(rnv_text(v, s, TRUE), J!Mixed(q, s))
         /\ Agree(rnv_text(v, s, FALSE), J!Read(q, s))
<1>1. ASSUME white(s) PROVE Agree(rnv_text(v, s, TRUE), J!Mixed(q, s))
  BY <1>1 DEF rnv_text, J!Mixed
<1>2. ASSUME ~white(s) PROVE Agree(rnv_text(v, s, TRUE), J!Mixed(q, s))
  <2>1. rnv_text(v, s, TRUE) = Step(v, after_mixed_text(v.cur), after_mixed_text_recover(v.cur))
    BY <1>2 DEF rnv_text
  <2>2. v.ok => J!Mixed(q, s) = after_mixed_text(v.cur)
    BY <1>2 DEF Agree, J!Mixed
  <2>3. ~v.ok => J!Mixed(q, s) = notAllowed
    BY DEF Agree, J!Mixed
  <2> QED
    BY <2>1, <2>2, <2>3, StepAgrees
<1>3. Agree(rnv_text(v, s, FALSE), J!Read(q, s))
  <2>1. rnv_text(v, s, FALSE) = Step(v, after_text(v.cur, s), after_text_recover(v.cur, s))
    BY DEF rnv_text
  <2>2. (v.ok => J!Read(q, s) = after_text(v.cur, s)) /\ (~v.ok => J!Read(q, s) = notAllowed)
    BY DEF Agree, J!Read
  <2> QED
    BY <2>1, <2>2, StepAgrees
<1> QED
  BY <1>1, <1>2, <1>3

LEMMA AttributeAgrees ==
  ASSUME NEW v, NEW q, Agree(v, q), NEW a
  PROVE  Agree(Attributed(v, a), J!Attribute(q, a))
<1>1. CASE v.cur = notAllowed
  <2>1. q = notAllowed
    BY <1>1 DEF Agree
  <2>2. J!Attribute(q, a) = q
    BY <2>1 DEF J!Attribute, J!AttributeClosed, J!Read, J!AttributeOpened
  <2> QED
    BY <1>1, <2>2 DEF Attributed
<1>2. CASE v.cur # notAllowed
  <2> DEFINE x == after_attribute_open(v.cur, a[1])
             opened == Step(v, x, after_attribute_open_recover(v.cur, a[1]))
             o == J!AttributeOpened(q, a[1])
             d == after_text(opened.cur, a[2])
             read == Step(opened, d, after_attribute_close_recover(opened.cur))
             t == J!Read(o, a[2])
             c == after_attribute_close(d)
             closed == Step(read, c, after_attribute_close_recover(d))
             z == J!AttributeClosed(t)
  <2>1. /\ Attributed(v, a) = IF x = notAllowed THEN opened
                              ELSE IF d = notAllowed THEN read ELSE closed
        /\ J!Attribute(q, a) = z
    BY <1>2 DEF Attributed, rnv_attribute, J!Attribute
  <2>2. (v.ok => o = x) /\ (~v.ok => o = notAllowed)
    BY DEF Agree, J!AttributeOpened
  <2>3. Agree(opened, o)
    BY <2>2, StepAgrees
  <2>4. (opened.ok => t = d) /\ (~opened.ok => t = notAllowed)
    <3> HIDE DEF opened, o
    <3> QED
      BY <2>3 DEF Agree, J!Read
  <2>5. Agree(read, t)
    <3> HIDE DEF opened, o, d, t
    <3> QED
      BY <2>3, <2>4, StepAgrees
  <2>6. (read.ok => z = c) /\ (~read.ok => z = notAllowed)
    <3>1. read.ok => t = d
      BY <2>4 DEF Step
    <3> HIDE DEF read, t, d
    <3> QED
      BY <2>5, <3>1 DEF Agree, J!AttributeClosed
  <2>7. Agree(closed, z)
    <3> HIDE DEF read, t, c, z, d
    <3> QED
      BY <2>5, <2>6, StepAgrees
  <2>8. x = notAllowed => Agree(opened, z)
    <3>1. x = notAllowed => o = notAllowed
      BY <2>2
    <3>2. o = notAllowed => z = notAllowed
      BY DEF J!Read, J!AttributeClosed
    <3> HIDE DEF opened, o, z, x
    <3> QED
      BY <2>3, <3>1, <3>2 DEF Agree
  <2>9. d = notAllowed => Agree(read, z)
    <3>1. d = notAllowed => t = notAllowed
      BY <2>4
    <3>2. t = notAllowed => z = notAllowed
      BY DEF J!AttributeClosed
    <3> HIDE DEF read, t, z, d
    <3> QED
      BY <2>5, <3>1, <3>2 DEF Agree
  <2> HIDE DEF x, opened, o, d, read, t, c, closed, z
  <2> QED
    BY <2>1, <2>7, <2>8, <2>9
<1> QED
  BY <1>1, <1>2

(* The attributes of a start tag, one after another.                       *)
Attributes(f, v, qn, atts) ==
  /\ f[0] = rnv_start_tag_open(v, qn)
  /\ \A n \in 1 .. Len(atts) : f[n] = Attributed(f[n - 1], atts[n])
PlainAttributes(g, q, qn, atts) ==
  /\ g[0] = J!Opened(q, qn)
  /\ \A n \in 1 .. Len(atts) : g[n] = J!Attribute(g[n - 1], atts[n])

LEMMA TagRecursion ==
  ASSUME NEW v, NEW qn, NEW atts, Len(atts) \in Nat
  PROVE  \E f : /\ Attributes(f, v, qn, atts)
                /\ rnv_start_tag(v, qn, atts) =
                     IF f[Len(atts)].cur = notAllowed THEN f[Len(atts)]
                     ELSE rnv_start_tag_close(f[Len(atts)])
<1> DEFINE m == Len(atts)
           c == rnv_start_tag_open(v, qn)
           Fills(f, k) == f = [n \in 0 .. k |-> IF n = 0 THEN c ELSE Attributed(f[n - 1], atts[n])]
           K == {k \in 0 .. m : \E f : Fills(f, k)}
<1> HIDE DEF m, c
<1>0. m \in Nat
  BY DEF m
<1>1. 0 \in K
  <2> DEFINE f == [n \in 0 .. 0 |-> c]
  <2>1. Fills(f, 0)
    OBVIOUS
  <2> HIDE DEF Fills, f
  <2> QED
    BY <1>0, <2>1
<1>2. ASSUME NEW k \in 0 .. m - 1, k \in K PROVE k + 1 \in K
  <2>1. PICK g : Fills(g, k)
    BY <1>2
  <2> DEFINE h == [n \in 0 .. k + 1 |-> IF n = k + 1 THEN Attributed(g[k], atts[k + 1]) ELSE g[n]]
  <2>2. ASSUME NEW n \in 0 .. k + 1
        PROVE  h[n] = IF n = 0 THEN c ELSE Attributed(h[n - 1], atts[n])
    <3>1. CASE n = k + 1
      <4>1. n # 0 /\ n - 1 = k /\ k \in 0 .. k + 1 /\ k # k + 1
        BY <3>1
      <4>2. h[k] = g[k] /\ h[n] = Attributed(g[k], atts[k + 1])
        BY <3>1, <4>1
      <4> QED
        BY <3>1, <4>1, <4>2
    <3>2. CASE n = 0
      BY <2>1, <3>2
    <3>3. CASE n \in 1 .. k
      <4>1. n \in 0 .. k /\ n - 1 \in 0 .. k /\ n - 1 \in 0 .. k + 1 /\ n # k + 1 /\ n - 1 # k + 1 /\ n # 0
        BY <3>3
      <4>2. h[n] = g[n] /\ h[n - 1] = g[n - 1]
        BY <4>1
      <4>3. g[n] = Attributed(g[n - 1], atts[n])
        BY <2>1, <4>1
      <4> QED
        BY <4>1, <4>2, <4>3
    <3> QED
      BY <3>1, <3>2, <3>3
  <2>3. h = [n \in 0 .. k + 1 |-> h[n]]
    OBVIOUS
  <2> HIDE DEF h
  <2>4. Fills(h, k + 1)
    BY <2>2, <2>3
  <2> HIDE DEF Fills
  <2>5. k + 1 \in 0 .. m
    BY <1>0
  <2> QED
    BY <2>4, <2>5
<1> HIDE DEF K
<1>3. m \in K
  <2>1. 0 .. m \subseteq K
    BY <1>0, <1>1, <1>2, UpTo
  <2> QED
    BY <1>0, <2>1
<1>4. \E f : Fills(f, m)
  BY <1>3 DEF K
<1> DEFINE t == CHOOSE f : Fills(f, m)
<1>5. Fills(t, m)
  <2> HIDE DEF Fills
  <2> QED
    BY <1>4
<1>6. rnv_start_tag(v, qn, atts) = IF t[m].cur = notAllowed THEN t[m] ELSE rnv_start_tag_close(t[m])
  BY DEF rnv_start_tag, m, c
<1> HIDE DEF t
<1>7. Attributes(t, v, qn, atts)
  <2>1. t[0] = c
    BY <1>0, <1>5
  <2>2. ASSUME NEW n \in 1 .. m PROVE t[n] = Attributed(t[n - 1], atts[n])
    <3>1. n \in 0 .. m /\ n # 0
      BY <1>0
    <3> QED
      BY <1>5, <3>1
  <2> QED
    BY <2>1, <2>2 DEF Attributes, m, c
<1> QED
  BY <1>6, <1>7 DEF m

(* The same for the derivatives alone.                                     *)
LEMMA PlainRecursion ==
  ASSUME NEW q, NEW qn, NEW atts, Len(atts) \in Nat
  PROVE  \E g : /\ PlainAttributes(g, q, qn, atts)
                /\ J!StartTag(q, qn, atts) = J!TagClosed(g[Len(atts)])
<1> DEFINE m == Len(atts)
           c == J!Opened(q, qn)
           Fills(f, k) == f = [n \in 0 .. k |-> IF n = 0 THEN c ELSE J!Attribute(f[n - 1], atts[n])]
           K == {k \in 0 .. m : \E f : Fills(f, k)}
<1> HIDE DEF m, c
<1>0. m \in Nat
  BY DEF m
<1>1. 0 \in K
  <2> DEFINE f == [n \in 0 .. 0 |-> c]
  <2>1. Fills(f, 0)
    OBVIOUS
  <2> HIDE DEF Fills, f
  <2> QED
    BY <1>0, <2>1
<1>2. ASSUME NEW k \in 0 .. m - 1, k \in K PROVE k + 1 \in K
  <2>1. PICK g : Fills(g, k)
    BY <1>2
  <2> DEFINE h == [n \in 0 .. k + 1 |-> IF n = k + 1 THEN J!Attribute(g[k], atts[k + 1]) ELSE g[n]]
  <2>2. ASSUME NEW n \in 0 .. k + 1
        PROVE  h[n] = IF n = 0 THEN c ELSE J!Attribute(h[n - 1], atts[n])
    <3>1. CASE n = k + 1
      <4>1. n # 0 /\ n - 1 = k /\ k \in 0 .. k + 1 /\ k # k + 1
        BY <3>1
      <4>2. h[k] = g[k] /\ h[n] = J!Attribute(g[k], atts[k + 1])
        BY <3>1, <4>1
      <4> QED
        BY <3>1, <4>1, <4>2
    <3>2. CASE n = 0
      BY <2>1, <3>2
    <3>3. CASE n \in 1 .. k
      <4>1. n \in 0 .. k /\ n - 1 \in 0 .. k /\ n - 1 \in 0 .. k + 1 /\ n # k + 1 /\ n - 1 # k + 1 /\ n # 0
        BY <3>3
      <4>2. h[n] = g[n] /\ h[n - 1] = g[n - 1]
        BY <4>1
      <4>3. g[n] = J!Attribute(g[n - 1], atts[n])
        BY <2>1, <4>1
      <4> QED
        BY <4>1, <4>2, <4>3
    <3> QED
      BY <3>1, <3>2, <3>3
  <2>3. h = [n \in 0 .. k + 1 |-> h[n]]
    OBVIOUS
  <2> HIDE DEF h
  <2>4. Fills(h, k + 1)
    BY <2>2, <2>3
  <2> HIDE DEF Fills
  <2>5. k + 1 \in 0 .. m
    BY <1>0
  <2> QED
    BY <2>4, <2>5
<1> HIDE DEF K
<1>3. m \in K
  <2>1. 0 .. m \subseteq K
    BY <1>0, <1>1, <1>2, UpTo
  <2> QED
    BY <1>0, <2>1
<1>4. \E f : Fills(f, m)
  BY <1>3 DEF K
<1> DEFINE t == CHOOSE f : Fills(f, m)
<1>5. Fills(t, m)
  <2> HIDE DEF Fills
  <2> QED
    BY <1>4
<1>6. J!StartTag(q, qn, atts) = J!TagClosed(t[m])
  BY DEF J!StartTag, m, c
<1> HIDE DEF t
<1>7. PlainAttributes(t, q, qn, atts)
  <2>1. t[0] = c
    BY <1>0, <1>5
  <2>2. ASSUME NEW n \in 1 .. m PROVE t[n] = J!Attribute(t[n - 1], atts[n])
    <3>1. n \in 0 .. m /\ n # 0
      BY <1>0
    <3> QED
      BY <1>5, <3>1
  <2> QED
    BY <2>1, <2>2 DEF PlainAttributes, m, c
<1> QED
  BY <1>6, <1>7 DEF m

(* Whole tags.                                                             *)
LEMMA StartTagAgrees ==
  ASSUME NEW v, NEW q, Agree(v, q), NEW qn, NEW atts, Len(atts) \in Nat
  PROVE  Agree(rnv_start_tag(v, qn, atts), J!StartTag(q, qn, atts))
<1>1. PICK f : /\ Attributes(f, v, qn, atts)
               /\ rnv_start_tag(v, qn, atts) =
                    IF f[Len(atts)].cur = notAllowed THEN f[Len(atts)]
                    ELSE rnv_start_tag_close(f[Len(atts)])
  BY TagRecursion
<1>2. PICK g : /\ PlainAttributes(g, q, qn, atts)
               /\ J!StartTag(q, qn, atts) = J!TagClosed(g[Len(atts)])
  BY PlainRecursion
<1> DEFINE K == {n \in 0 .. Len(atts) : Agree(f[n], g[n])}
<1>3. 0 \in K
  <2>1. f[0] = Step(v, after_start_tag_open(v.cur, qn), after_start_tag_open_recover(v.cur, qn))
    BY <1>1 DEF Attributes, rnv_start_tag_open
  <2>2. g[0] = J!Opened(q, qn)
    BY <1>2 DEF PlainAttributes
  <2>3. (v.ok => g[0] = after_start_tag_open(v.cur, qn)) /\ (~v.ok => g[0] = notAllowed)
    BY <2>2 DEF Agree, J!Opened
  <2>4. Agree(f[0], g[0])
    BY <2>1, <2>3, StepAgrees
  <2> QED
    BY <2>4
<1>4. ASSUME NEW n \in 0 .. Len(atts) - 1, n \in K PROVE n + 1 \in K
  <2>1. n + 1 \in 1 .. Len(atts) /\ (n + 1) - 1 = n /\ n + 1 \in 0 .. Len(atts)
    OBVIOUS
  <2>2. Agree(f[n], g[n])
    BY <1>4
  <2>3. f[n + 1] = Attributed(f[n], atts[n + 1])
    BY <1>1, <2>1 DEF Attributes
  <2>4. g[n + 1] = J!Attribute(g[n], atts[n + 1])
    BY <1>2, <2>1 DEF PlainAttributes
  <2>5. Agree(f[n + 1], g[n + 1])
    BY <2>2, <2>3, <2>4, AttributeAgrees
  <2> QED
    BY <2>1, <2>5
<1>5. Agree(f[Len(atts)], g[Len(atts)])
  <2> HIDE DEF K
  <2>1. 0 .. Len(atts) \subseteq K
    BY <1>3, <1>4, UpTo
  <2>2. Len(atts) \in K
    BY <2>1
  <2> QED
    BY <2>2 DEF K
<1> DEFINE w == f[Len(atts)]
           r == g[Len(atts)]
<1> HIDE DEF w, r
<1>6. Agree(w, r)
  BY <1>5 DEF w, r
<1>7. CASE w.cur = notAllowed
  <2>1. r = notAllowed
    BY <1>6, <1>7 DEF Agree
  <2>2. J!TagClosed(r) = r
    BY <2>1 DEF J!TagClosed
  <2> QED
    BY <1>1, <1>2, <1>6, <1>7, <2>2 DEF w, r
<1>8. CASE w.cur # notAllowed
  <2>1. rnv_start_tag_close(w) = Step(w, after_start_tag_close(w.cur), after_start_tag_close_recover(w.cur))
    BY DEF rnv_start_tag_close
  <2>2. /\ w.ok => J!TagClosed(r) = after_start_tag_close(w.cur)
        /\ ~w.ok => J!TagClosed(r) = notAllowed
    BY <1>6 DEF Agree, J!TagClosed
  <2>3. Agree(rnv_start_tag_close(w), J!TagClosed(r))
    BY <1>6, <2>1, <2>2, StepAgrees
  <2> QED
    BY <1>1, <1>2, <1>8, <2>3 DEF w, r
<1> QED
  BY <1>7, <1>8

LEMMA EndTagAgrees ==
  ASSUME NEW v, NEW q, Agree(v, q), NEW s, NEW mix \in BOOLEAN
  PROVE  Agree(rnv_end_tag(rnv_text(v, s, mix)), J!EndTag(q, s, mix))
<1> DEFINE w == rnv_text(v, s, mix)
           r == IF mix THEN J!Mixed(q, s) ELSE J!Read(q, s)
<1>1. Agree(w, r)
  <2>1. CASE mix = TRUE
    BY <2>1, TextAgrees
  <2>2. CASE mix = FALSE
    BY <2>2, TextAgrees
  <2> QED
    BY <2>1, <2>2
<1>2. J!EndTag(q, s, mix) = J!Ended(r)
  BY DEF J!EndTag
<1> HIDE DEF w, r
<1>3. rnv_end_tag(w) = Step(w, after_end_tag(w.cur), after_end_tag_recover(w.cur))
  BY DEF rnv_end_tag
<1>4. (w.ok => J!Ended(r) = after_end_tag(w.cur)) /\ (~w.ok => J!Ended(r) = notAllowed)
  BY <1>1 DEF Agree, J!Ended
<1>5. Agree(rnv_end_tag(w), J!Ended(r))
  BY <1>1, <1>3, <1>4, StepAgrees
<1> QED
  BY <1>2, <1>5 DEF w

(* Nothing is derived from notAllowed.                                     *)
LEMMA NothingLeft ==
  ASSUME NEW s, NEW qn, NEW atts, Len(atts) \in Nat, NEW mix
  PROVE  /\ J!StartTag(J!Mixed(notAllowed, s), qn, atts) = notAllowed
         /\ J!EndTag(notAllowed, s, mix) = notAllowed
<1>1. J!Mixed(notAllowed, s) = notAllowed /\ J!EndTag(notAllowed, s, mix) = notAllowed
  BY DEF J!Mixed, J!EndTag, J!Ended, J!Read
<1>2. J!StartTag(notAllowed, qn, atts) = notAllowed
  <2>2. PICK g : /\ PlainAttributes(g, notAllowed, qn, atts)
                 /\ J!StartTag(notAllowed, qn, atts) = J!TagClosed(g[Len(atts)])
    BY PlainRecursion
  <2> DEFINE K == {n \in 0 .. Len(atts) : g[n] = notAllowed}
  <2>3. 0 \in K
    BY <2>2 DEF PlainAttributes, J!Opened
  <2>4. ASSUME NEW n \in 0 .. Len(atts) - 1, n \in K PROVE n + 1 \in K
    <3>1. n + 1 \in 1 .. Len(atts) /\ (n + 1) - 1 = n /\ n + 1 \in 0 .. Len(atts)
      OBVIOUS
    <3>2. g[n + 1] = J!Attribute(notAllowed, atts[n + 1])
      BY <2>2, <2>4, <3>1 DEF PlainAttributes
    <3>3. g[n + 1] = notAllowed
      BY <3>2 DEF J!Attribute, J!AttributeClosed, J!Read, J!AttributeOpened
    <3> QED
      BY <3>1, <3>3
  <2> HIDE DEF K
  <2>5. 0 .. Len(atts) \subseteq K
    BY <2>3, <2>4, UpTo
  <2>6. g[Len(atts)] = notAllowed
    BY <2>5 DEF K
  <2> QED
    BY <2>2, <2>6 DEF J!TagClosed
<1> QED
  BY <1>1, <1>2

-----------------------------------------------------------------------------
(* A document of which nothing is said yet: its innermost element has or   *)
(* has not ended a child, as mixed says, or, for a schema that allows      *)
(* nothing, all of it is skipped.  The message for an open element has     *)
(* been printed, if it was due.                                            *)
JInv ==
  /\ docno \in Nat /\ \A m \in printed : m[1] \in Int /\ m[1] <= docno
  /\ open = Idle => level = 0
  /\ Len(open) = 1 => txt = <<>>
  /\ open # Idle /\ docno \notin Rejected =>
       /\ current = notAllowed => level = Len(open) - 1
       /\ current # notAllowed /\ Reading => mixed = Between
  /\ \A i \in 2 .. Len(open) : open[i].at = lastpos => docno \in Rejected

(* What a message does to the documents rejected.                          *)
LEMMA Prints ==
  ASSUME NEW m, printed' = printed \cup {m}
  PROVE  Rejected' = IF m[2] = "invalid" THEN Rejected \cup {m[1]} ELSE Rejected
<1>1. ASSUME NEW x PROVE x \in Rejected' <=> x \in Rejected \/ (m[2] = "invalid" /\ x = m[1])
  <2>1. x \in Rejected' <=> \E n \in printed' : n[2] = "invalid" /\ x = n[1]
    BY DEF Rejected
  <2>2. x \in Rejected <=> \E n \in printed : n[2] = "invalid" /\ x = n[1]
    BY DEF Rejected
  <2> QED
    BY <2>1, <2>2
<1>2. CASE m[2] = "invalid"
  BY <1>1, <1>2
<1>3. CASE m[2] # "invalid"
  BY <1>1, <1>3
<1> QED
  BY <1>2, <1>3

LEMMA Messages ==
  ASSUME NEW kind, NEW p, Message(kind, p), JInv
  PROVE  /\ Rejected' = IF p # lastpos /\ kind = "invalid" THEN Rejected \cup {docno} ELSE Rejected
         /\ \A m \in printed' : m[1] \in Int /\ m[1] <= docno
<1>1. docno \in Nat /\ \A m \in printed : m[1] \in Int /\ m[1] <= docno
  BY DEF JInv
<1>2. CASE p = lastpos
  BY <1>1, <1>2 DEF Message, Rejected
<1>3. CASE p # lastpos
  <2> DEFINE n == <<docno, kind, IF xgfile = None THEN docno ELSE xgfile>>
  <2>1. printed' = printed \cup {n} /\ n[1] = docno /\ n[2] = kind
    BY <1>3 DEF Message
  <2> HIDE DEF n
  <2>2. Rejected' = IF n[2] = "invalid" THEN Rejected \cup {n[1]} ELSE Rejected
    BY <2>1, Prints
  <2> QED
    BY <1>1, <1>3, <2>1, <2>2
<1> QED
  BY <1>2, <1>3

(* The outcome of a handler of a document that is not rejected.            *)
LEMMA OutcomeJudged ==
  ASSUME JInv, NEW v, NEW q, Agree(v, q), NEW p, Outcome(v, p), p # lastpos \/ docno \in Rejected
  PROVE  /\ Rejected' = IF q = notAllowed THEN Rejected \cup {docno} ELSE Rejected
         /\ q # notAllowed => current' = q
         /\ \A m \in printed' : m[1] \in Int /\ m[1] <= docno
         /\ lastpos' = lastpos \/ (lastpos' = p /\ docno \in Rejected')
<1>1. CASE v.ok
  <2>1. q # notAllowed /\ v.cur = q
    BY <1>1 DEF Agree
  <2>2. current' = q /\ printed' = printed /\ lastpos' = lastpos
    BY <1>1, <2>1 DEF Outcome
  <2> QED
    BY <2>1, <2>2 DEF Rejected, JInv
<1>2. CASE ~v.ok
  <2>1. q = notAllowed
    BY <1>2 DEF Agree
  <2>2. Message("invalid", p) /\ lastpos' = p
    BY <1>2 DEF Outcome, Invalid, Report
  <2>3. /\ Rejected' = IF p # lastpos THEN Rejected \cup {docno} ELSE Rejected
        /\ \A m \in printed' : m[1] \in Int /\ m[1] <= docno
    BY <2>2, Messages
  <2>4. Rejected' = Rejected \cup {docno}
    BY <2>3
  <2> QED
    BY <2>1, <2>2, <2>3, <2>4
<1> QED
  BY <1>1, <1>2

(* ... or of any document that is already.                                 *)
LEMMA OutcomeRejected ==
  ASSUME JInv, NEW v, NEW p, Outcome(v, p), docno \in Rejected
  PROVE  /\ Rejected' = Rejected
         /\ \A m \in printed' : m[1] \in Int /\ m[1] <= docno
         /\ lastpos' \in {lastpos, p}
<1>1. CASE v.ok
  BY <1>1 DEF Outcome, Rejected, JInv
<1>2. CASE ~v.ok
  <2>1. Message("invalid", p) /\ lastpos' = p
    BY <1>2 DEF Outcome, Invalid, Report
  <2> QED
    BY <2>1, Messages
<1> QED
  BY <1>1, <1>2

-----------------------------------------------------------------------------
(* The text of the innermost element as pieces are added to it.            *)
LEMMA PieceAdds ==
  ASSUME NEW K, NEW kids \in Seq(K), NEW s \in Chunks
  PROVE  /\ LastText(Pieced(kids, s)) = LastText(kids) \o s
         /\ HasElement(Pieced(kids, s)) <=> HasElement(kids)
<1> DEFINE m == Len(kids)
           ks == Pieced(kids, s)
<1>1. m \in Nat /\ s \in Seq(Characters)
  BY LenProperties, TextAssumption
<1>2. /\ Len(ks) > 0 /\ IsText(ks[Len(ks)])
      /\ ks[Len(ks)].str = IF m > 0 /\ IsText(kids[m]) THEN kids[m].str \o s ELSE s
  BY Piecing
<1>3. LastText(ks) = IF m > 0 /\ IsText(kids[m]) THEN kids[m].str \o s ELSE s
  <2> HIDE DEF ks, m
  <2> QED
    BY <1>2, Zenon DEF LastText
<1>4. CASE m > 0 /\ IsText(kids[m])
  <2> DEFINE x == [kids[m] EXCEPT !.str = @ \o s]
  <2>1. ks = [kids EXCEPT ![m] = x]
    BY <1>4 DEF Pieced
  <2>2. IsText(x)
    BY <1>4 DEF IsText
  <2>3. m \in 1 .. m /\ x \in K \cup {x} /\ kids \in Seq(K \cup {x})
    BY <1>1, <1>4, SeqMonotonic
  <2>4. LastText(kids) = kids[m].str
    BY <1>4 DEF LastText
  <2>5. LastText(ks) = kids[m].str \o s
    BY <1>3, <1>4
  <2> DEFINE str == kids[m].str
  <2>6. LastText(kids) = str /\ LastText(ks) = str \o s
    BY <2>4, <2>5
  <2> HIDE DEF x, ks, m, str
  <2>7. /\ ks \in Seq(K \cup {x}) /\ Len(ks) = m
        /\ \A j \in 1 .. m : ks[j] = IF j = m THEN x ELSE kids[j]
    BY <2>1, <2>3, ExceptSeq DEF m
  <2>8. \A j \in 1 .. m : IsText(ks[j]) <=> IsText(kids[j])
    BY <1>4, <2>2, <2>7
  <2>9. HasElement(ks) <=> HasElement(kids)
    BY <2>7, <2>8 DEF HasElement, m
  <2>10. LastText(ks) = LastText(kids) \o s
    <3> HIDE DEF Last
    <3> QED
      BY <2>6
  <2> QED
    BY <2>9, <2>10 DEF ks
<1>5. CASE ~(m > 0 /\ IsText(kids[m]))
  <2> DEFINE x == [str |-> s]
  <2>1. ks = Append(kids, x)
    BY <1>5 DEF Pieced
  <2>2. IsText(x)
    BY DEF IsText
  <2>3. x \in K \cup {x} /\ kids \in Seq(K \cup {x})
    BY SeqMonotonic
  <2>4. LastText(kids) = <<>>
    BY <1>5 DEF LastText
  <2>5. LastText(ks) = s
    BY <1>3, <1>5
  <2> HIDE DEF x, ks, m
  <2>6. /\ Len(ks) = m + 1 /\ ks[m + 1] = x /\ \A j \in 1 .. m : ks[j] = kids[j]
    BY <2>1, <2>3, AppendProperties DEF m
  <2>7. HasElement(ks) <=> HasElement(kids)
    <3>1. \A j \in 1 .. m + 1 : j = m + 1 \/ j \in 1 .. m
      BY <1>1
    <3>2. \A j \in 1 .. m : j \in 1 .. m + 1
      BY <1>1
    <3>3. HasElement(ks) <=> \E j \in 1 .. m + 1 : ~IsText(ks[j])
      BY <2>6 DEF HasElement
    <3>4. HasElement(kids) <=> \E j \in 1 .. m : ~IsText(kids[j])
      BY DEF HasElement, m
    <3> QED
      BY <2>2, <2>6, <3>1, <3>2, <3>3, <3>4
  <2>8. LastText(ks) = LastText(kids) \o s
    <3>1. <<>> \o s = s
      BY <1>1, ConcatEmptySeq
    <3> HIDE DEF Last
    <3> QED
      BY <2>4, <2>5, <3>1
  <2> QED
    BY <2>7, <2>8 DEF ks
<1> QED
  BY <1>4, <1>5

LEMMA InitJInv == ASSUME Init PROVE JInv
<1>1. docno = 0 /\ printed = {} /\ open = <<>> /\ level = 0 /\ txt = <<>> /\ Len(open) = 0
  BY DEF Init, Idle
<1>2. open = Idle /\ 2 .. 0 = {}
  BY <1>1 DEF Idle
<1> QED
  BY <1>1, <1>2 DEF JInv

LEMMA InitJudge == ASSUME Init PROVE J!Init
<1>1. docno = 0 /\ printed = {} /\ open = <<>> /\ Len(open) = 0 /\ start \in Schemas
  BY DEF Init, Idle
<1>2. Plain = notAllowed /\ Text = <<>> /\ Between = FALSE /\ Rejected = {}
  BY <1>1 DEF Plain, Text, Between, Rejected, Idle
<1> QED
  BY <1>1, <1>2 DEF J!Init

(* What a step has to do, for JInv to last.                                *)
LEMMA JInvKept ==
  ASSUME JInv, open' # Idle, docno' = docno, Len(open') \in Nat,
         \A m \in printed' : m[1] \in Int /\ m[1] <= docno,
         Len(open') = 1 => txt' = <<>>,
         docno \notin Rejected' /\ current' = notAllowed => level' = Len(open') - 1,
         docno \notin Rejected' /\ current' # notAllowed => mixed' = Between',
         \A i \in 2 .. Len(open') : open'[i].at = lastpos' => docno \in Rejected'
  PROVE  JInv'
BY DEF JInv

(* A start tag.                                                            *)
LEMMA StartJudged ==
  ASSUME SInv, TInv, JInv, NEW tag \in Tags, start_element(tag[1], tag[2])
  PROVE  JInv' /\ J!start_tag(tag[1], tag[2])
<1> DEFINE qn == tag[1]
           atts == tag[2]
           q == J!StartTag(J!Mixed(Plain, Text), qn, atts)
<1>1. PICK Q, A, K : open \in Seq(Node(Q, A, K))
  BY DEF SInv, Shape
<1>2. /\ Len(open) \in Nat /\ Len(open) >= 1 /\ pos \in Nat /\ lastpos \in Int /\ lastpos <= pos
      /\ open # Idle /\ docno' = docno /\ start' = start /\ docno \in Nat
  BY <1>1, LenProperties DEF SInv, JInv, start_element, Reading, RootDue, Deliver, Idle
<1>3. Len(atts) \in Nat
  BY TextAssumption, LenProperties
<1>4. start_element(qn, atts)
  OBVIOUS
<1> HIDE DEF qn, atts
<1>5. /\ Len(open') = Len(open) + 1
      /\ \A j \in 1 .. Len(open) : open'[j] = open[j]
      /\ open'[Len(open) + 1].at = pos + 1 /\ open'[Len(open) + 1].kids = <<>>
  BY <1>1, <1>2, <1>4, Opening
<1>6. open' # Idle
  BY <1>2, <1>5 DEF Idle
<1>7. Text' = <<>> /\ Between' = FALSE
  <2>1. Top'.kids = <<>>
    BY <1>5 DEF Top
  <2>2. LastText(<<>>) = <<>> /\ ~HasElement(<<>>)
    BY DEF LastText, HasElement
  <2> QED
    BY <1>6, <2>1, <2>2 DEF Text, Between
<1>8. Len(open) > 1 \/ (Len(open) = 1 /\ Text = <<>> /\ ~Between)
  <2>1. CASE RootDue
    <3>1. Top.kids = <<>>
      BY <2>1 DEF RootDue, Top
    <3>2. LastText(<<>>) = <<>> /\ ~HasElement(<<>>)
      BY DEF LastText, HasElement
    <3> QED
      BY <1>2, <2>1, <3>1, <3>2 DEF Text, Between, RootDue
  <2> QED
    BY <1>4, <2>1 DEF start_element, Reading
<1>9. ASSUME Plain' = q,
             Rejected' = IF Plain # notAllowed /\ q = notAllowed THEN Rejected \cup {docno} ELSE Rejected,
             \A m \in printed' : m[1] \in Int /\ m[1] <= docno,
             docno \notin Rejected' /\ current' = notAllowed => level' = Len(open') - 1,
             docno \notin Rejected' /\ current' # notAllowed => mixed' = FALSE,
             lastpos' = lastpos \/ docno \in Rejected'
      PROVE  JInv' /\ J!start_tag(qn, atts)
  <2>1. J!start_tag(qn, atts)
    <3>1. J!Judged(q)
      BY <1>9 DEF J!Judged
    <3> QED
      BY <1>2, <1>5, <1>7, <1>8, <3>1 DEF J!start_tag
  <2>2. docno \in Rejected => docno \in Rejected'
    BY <1>9
  <2>3. ASSUME NEW i \in 2 .. Len(open'), open'[i].at = lastpos' PROVE docno \in Rejected'
    <3>1. CASE i = Len(open) + 1
      BY <1>2, <1>5, <1>9, <2>3, <3>1
    <3>2. CASE i \in 2 .. Len(open)
      <4>1. i \in 1 .. Len(open) /\ open'[i].at = open[i].at
        BY <1>2, <1>5, <3>2
      <4> QED
        BY <1>9, <2>2, <2>3, <3>2, <4>1 DEF JInv
    <3> QED
      BY <1>2, <1>5, <3>1, <3>2
  <2>4. Len(open') \in Nat /\ Len(open') # 1
    BY <1>2, <1>5
  <2> QED
    BY <1>2, <1>6, <1>7, <1>9, <2>1, <2>3, <2>4, JInvKept
<1>10. /\ current # notAllowed =>
            /\ Outcome(rnv_start_tag(rnv_text(Now, txt, TRUE), qn, atts), pos + 1)
            /\ mixed' = FALSE
       /\ current = notAllowed => level' = level + 1 /\ UNCHANGED <<current, lastpos, printed>>
  BY <1>4 DEF start_element
<1>11. pos + 1 \in Nat /\ pos + 1 # lastpos
  BY <1>2
<1> DEFINE v == rnv_start_tag(rnv_text(Now, txt, TRUE), qn, atts)
<1>12. JInv' /\ J!start_tag(qn, atts)
  <2>1. CASE docno \in Rejected
    <3>1. Plain = notAllowed /\ q = notAllowed
      BY <1>3, <2>1, NothingLeft DEF Plain
    <3>2. /\ Rejected' = Rejected /\ \A m \in printed' : m[1] \in Int /\ m[1] <= docno
      <4>1. CASE current # notAllowed
        <5> HIDE DEF v
        <5>1. Outcome(v, pos + 1)
          BY <1>10, <4>1 DEF v
        <5> QED
          BY <2>1, <5>1, OutcomeRejected
      <4>2. CASE current = notAllowed
        BY <1>10, <4>2 DEF Rejected, JInv
      <4> QED
        BY <4>1, <4>2
    <3>3. Plain' = notAllowed
      BY <1>2, <2>1, <3>2 DEF Plain
    <3> HIDE DEF q
    <3> QED
      BY <1>9, <2>1, <3>1, <3>2, <3>3
  <2>2. CASE docno \notin Rejected /\ current = notAllowed
    <3>1. Plain = notAllowed
      BY <2>2 DEF Plain
    <3>2. q = notAllowed
      BY <1>3, <3>1, NothingLeft
    <3>3. /\ Rejected' = Rejected /\ \A m \in printed' : m[1] \in Int /\ m[1] <= docno
          /\ current' = notAllowed /\ lastpos' = lastpos /\ level' = level + 1
      BY <1>10, <2>2 DEF Rejected, JInv
    <3>4. level' = Len(open') - 1
      <4>1. level = Len(open) - 1
        BY <1>2, <2>2 DEF JInv
      <4> QED
        BY <1>2, <1>5, <3>3, <4>1
    <3>5. Plain' = notAllowed
      BY <3>3 DEF Plain
    <3> HIDE DEF q
    <3> QED
      BY <1>9, <3>1, <3>2, <3>3, <3>4, <3>5
  <2>3. CASE docno \notin Rejected /\ current # notAllowed
    <3>1. Plain = current
      BY <1>2, <2>3 DEF Plain
    <3>2. txt = Text
      <4>1. CASE Len(open) > 1
        BY <1>2, <2>3, <4>1 DEF TInv, BufferHoldsText, Reading, Text
      <4>2. CASE Len(open) = 1 /\ Text = <<>>
        BY <4>2 DEF JInv
      <4> QED
        BY <1>8, <4>1, <4>2
    <3>3. Agree(Now, current)
      BY <2>3 DEF Agree, Now, Entered
    <3>4. Agree(v, q)
      <4> DEFINE w == rnv_text(Now, txt, TRUE)
                 r == J!Mixed(current, txt)
      <4>1. Agree(w, r)
        BY <3>3, TextAgrees
      <4>2. v = rnv_start_tag(w, qn, atts) /\ q = J!StartTag(r, qn, atts)
        BY <3>1, <3>2
      <4> HIDE DEF w, r, v, q
      <4> QED
        BY <1>3, <4>1, <4>2, StartTagAgrees
    <3> HIDE DEF v, q
    <3>5. Outcome(v, pos + 1)
      BY <1>10, <2>3 DEF v
    <3>6. /\ Rejected' = IF q = notAllowed THEN Rejected \cup {docno} ELSE Rejected
          /\ q # notAllowed => current' = q
          /\ \A m \in printed' : m[1] \in Int /\ m[1] <= docno
          /\ lastpos' = lastpos \/ (lastpos' = pos + 1 /\ docno \in Rejected')
      BY <1>11, <3>4, <3>5, OutcomeJudged
    <3>7. Plain' = q
      <4>1. CASE q = notAllowed
        BY <1>2, <3>6, <4>1 DEF Plain
      <4>2. CASE q # notAllowed
        BY <1>2, <1>6, <2>3, <3>6, <4>2 DEF Plain
      <4> QED
        BY <4>1, <4>2
    <3>8. docno \notin Rejected' => current' # notAllowed
      BY <3>6
    <3>9. Rejected' = IF Plain # notAllowed /\ q = notAllowed THEN Rejected \cup {docno} ELSE Rejected
      BY <2>3, <3>1, <3>6
    <3>10. mixed' = FALSE
      BY <1>10, <2>3
    <3> QED
      BY <1>9, <3>6, <3>7, <3>8, <3>9, <3>10 DEF q
  <2> QED
    BY <2>1, <2>2, <2>3
<1> QED
  BY <1>12 DEF qn, atts

(* An end tag; if it is that of an empty element that there was a message  *)
(* about, the document is rejected already.                                *)
LEMMA EndJudged ==
  ASSUME SInv, TInv, JInv, end_element
  PROVE  JInv' /\ J!end_tag
<1> DEFINE q == J!EndTag(Plain, Text, Between)
<1>1. PICK Q, A, K : open \in Seq(Node(Q, A, K))
  BY DEF SInv, Shape
<1>2. PICK p \in {pos + 1} \cup {n \in {pos} : Top.at = pos} :
        /\ Deliver(Closed, p)
        /\ IF current # notAllowed
           THEN /\ Outcome(rnv_end_tag(rnv_text(Now, txt, mixed)), p)
                /\ txt' = <<>>
                /\ mixed' = TRUE
                /\ UNCHANGED <<level, len_txt>>
           ELSE /\ EndOfSkipped
                /\ Quiet
                /\ UNCHANGED <<previous, mixed, txt, len_txt, ok, lastpos, printed>>
  BY DEF end_element
<1>3. /\ Len(open) \in Nat /\ Len(open) > 1 /\ pos \in Nat /\ lastpos \in Int /\ lastpos <= pos
      /\ open # Idle /\ docno' = docno /\ start' = start /\ docno \in Nat /\ open' = Closed
  BY <1>1, <1>2, LenProperties DEF SInv, JInv, end_element, Reading, Deliver, Idle
<1>4. /\ Len(open') = Len(open) - 1
      /\ \A j \in 1 .. Len(open) - 1 : open'[j].at = open[j].at
      /\ Text' = <<>> /\ Between' = TRUE
  <2>1. /\ Len(open') = Len(open) - 1
        /\ \A j \in 1 .. Len(open) - 1 : open'[j].at = open[j].at
        /\ \E L : /\ open'[Len(open')].kids \in Seq(L) /\ Len(open'[Len(open')].kids) > 0
                  /\ ~IsText(open'[Len(open')].kids[Len(open'[Len(open')].kids)])
    BY <1>1, <1>3, Closing DEF Reading
  <2> DEFINE kids == Top'.kids
  <2>2. PICK L : kids \in Seq(L) /\ Len(kids) > 0 /\ ~IsText(kids[Len(kids)])
    BY <2>1 DEF Top
  <2>3. open' # Idle
    BY <1>3, <2>1 DEF Idle
  <2>4. LastText(kids) = <<>> /\ HasElement(kids)
    <3> HIDE DEF kids
    <3>1. Len(kids) \in 1 .. Len(kids)
      BY <2>2, LenProperties
    <3> QED
      BY <2>2, <3>1 DEF LastText, HasElement
  <2>5. Text' = <<>> /\ Between' = TRUE
    BY <2>3, <2>4 DEF Text, Between
  <2> QED
    BY <2>1, <2>5
<1>5. open' # Idle /\ Len(open') \in Nat /\ Len(open') >= 1
  BY <1>3, <1>4 DEF Idle
<1>6. p # lastpos \/ docno \in Rejected
  <2>1. CASE p = lastpos
    <3>1. p = pos /\ Top.at = pos
      BY <1>2, <1>3, <2>1
    <3>2. Len(open) \in 2 .. Len(open) /\ open[Len(open)].at = lastpos
      BY <1>3, <2>1, <3>1 DEF Top
    <3> QED
      BY <3>2 DEF JInv
  <2> QED
    BY <2>1
<1>7. txt' = <<>>
  <2>1. CASE current # notAllowed
    BY <1>2, <2>1
  <2>2. CASE current = notAllowed
    BY <1>2, <2>2 DEF TInv
  <2> QED
    BY <2>1, <2>2
<1>8. ASSUME Plain' = q,
             Rejected' = IF Plain # notAllowed /\ q = notAllowed THEN Rejected \cup {docno} ELSE Rejected,
             \A m \in printed' : m[1] \in Int /\ m[1] <= docno,
             docno \notin Rejected' /\ current' = notAllowed => level' = Len(open') - 1,
             docno \notin Rejected' /\ current' # notAllowed => mixed' = TRUE,
             lastpos' = lastpos \/ docno \in Rejected'
      PROVE  JInv' /\ J!end_tag
  <2>1. J!end_tag
    <3>1. J!Judged(q)
      BY <1>8 DEF J!Judged
    <3> QED
      BY <1>3, <1>4, <3>1 DEF J!end_tag
  <2>2. docno \in Rejected => docno \in Rejected'
    BY <1>8
  <2>3. ASSUME NEW i \in 2 .. Len(open'), open'[i].at = lastpos' PROVE docno \in Rejected'
    <3>1. i \in 1 .. Len(open) - 1 /\ i \in 2 .. Len(open) /\ open'[i].at = open[i].at
      BY <1>3, <1>4
    <3> QED
      BY <1>8, <2>2, <2>3, <3>1 DEF JInv
  <2> QED
    BY <1>3, <1>4, <1>5, <1>7, <1>8, <2>1, <2>3, JInvKept
<1> DEFINE v == rnv_end_tag(rnv_text(Now, txt, mixed))
<1>9. p \in Nat
  BY <1>2, <1>3
<1>10. CASE docno \in Rejected
  <2>1. Plain = notAllowed
    BY <1>10 DEF Plain
  <2>2. q = notAllowed
    BY <2>1 DEF J!EndTag, J!Ended, J!Mixed, J!Read
  <2>3. /\ Rejected' = Rejected /\ \A m \in printed' : m[1] \in Int /\ m[1] <= docno
    <3>1. CASE current # notAllowed
      <4>1. Outcome(v, p)
        BY <1>2, <3>1
      <4> HIDE DEF v
      <4> QED
        BY <1>10, <4>1, OutcomeRejected
    <3>2. CASE current = notAllowed
      BY <1>2, <3>2 DEF Rejected, JInv
    <3> QED
      BY <3>1, <3>2
  <2>4. Plain' = notAllowed
    BY <1>3, <1>10, <2>3 DEF Plain
  <2> HIDE DEF q
  <2> QED
    BY <1>8, <1>10, <2>1, <2>2, <2>3, <2>4
<1>11. CASE docno \notin Rejected /\ current = notAllowed
  <2>1. Plain = notAllowed
    BY <1>11 DEF Plain
  <2>2. q = notAllowed
    BY <2>1 DEF J!EndTag, J!Ended, J!Mixed, J!Read
  <2>3. level = Len(open) - 1 /\ level # 0
    BY <1>3, <1>11 DEF JInv
  <2>4. /\ Rejected' = Rejected /\ \A m \in printed' : m[1] \in Int /\ m[1] <= docno
        /\ lastpos' = lastpos /\ EndOfSkipped
    BY <1>2, <1>11 DEF Rejected, JInv
  <2>5. current' = notAllowed /\ level' = level - 1
    BY <1>11, <2>3, <2>4 DEF EndOfSkipped
  <2>6. level' = Len(open') - 1
    BY <1>3, <1>4, <2>3, <2>5
  <2>7. Plain' = notAllowed
    BY <2>5 DEF Plain
  <2> HIDE DEF q
  <2> QED
    BY <1>8, <2>1, <2>2, <2>4, <2>5, <2>6, <2>7
<1>12. CASE docno \notin Rejected /\ current # notAllowed
  <2>1. Plain = current
    BY <1>3, <1>12 DEF Plain
  <2>2. txt = Text /\ mixed = Between /\ Between \in BOOLEAN
    BY <1>3, <1>12 DEF TInv, JInv, BufferHoldsText, Reading, Text, Between, HasElement
  <2>3. Agree(Now, current)
    BY <1>12 DEF Agree, Now, Entered
  <2>4. Agree(v, q)
    <3> DEFINE w == Now
    <3>1. v = rnv_end_tag(rnv_text(w, Text, Between)) /\ q = J!EndTag(current, Text, Between)
      BY <2>1, <2>2
    <3>2. Agree(w, current)
      BY <2>3
    <3> HIDE DEF w, v, q
    <3> QED
      BY <2>2, <3>1, <3>2, EndTagAgrees
  <2>5. Outcome(v, p) /\ mixed' = TRUE
    BY <1>2, <1>12
  <2> HIDE DEF v, q
  <2>6. /\ Rejected' = IF q = notAllowed THEN Rejected \cup {docno} ELSE Rejected
        /\ q # notAllowed => current' = q
        /\ \A m \in printed' : m[1] \in Int /\ m[1] <= docno
        /\ lastpos' = lastpos \/ (lastpos' = p /\ docno \in Rejected')
    BY <1>6, <1>9, <2>4, <2>5, OutcomeJudged
  <2>7. Plain' = q
    <3>1. CASE q = notAllowed
      BY <1>3, <2>6, <3>1 DEF Plain
    <3>2. CASE q # notAllowed
      BY <1>3, <1>5, <1>12, <2>6, <3>2 DEF Plain
    <3> QED
      BY <3>1, <3>2
  <2>8. docno \notin Rejected' => current' # notAllowed
    BY <2>6
  <2>9. Rejected' = IF Plain # notAllowed /\ q = notAllowed THEN Rejected \cup {docno} ELSE Rejected
    BY <1>12, <2>1, <2>6
  <2> QED
    BY <1>8, <2>5, <2>6, <2>7, <2>8, <2>9 DEF q
<1> QED
  BY <1>10, <1>11, <1>12

(* A piece of text. *)
LEMMA CharactersJudged ==
  ASSUME SInv, TInv, JInv, NEW s \in Chunks, characters(s)
  PROVE  JInv' /\ J!characters(s)
<1>1. PICK Q, A, K : open \in Seq(Node(Q, A, K))
  BY DEF SInv, Shape
<1>2. pos \in Nat /\ Len(open) \in Nat /\ docno \in Nat
  BY <1>1, LenProperties DEF SInv, JInv
<1>3. /\ Len(open') = Len(open) /\ Len(open) > 1
      /\ \A j \in 1 .. Len(open) : open'[j].at = open[j].at
      /\ Top.kids \in Seq(K)
      /\ Top'.kids = Pieced(Top.kids, s)
  BY <1>1, <1>2, Adding
<1>4. open # Idle /\ open' # Idle
  BY <1>3 DEF Idle
<1>5. UNCHANGED <<start, docno, current, mixed, level, lastpos, printed>>
  BY DEF characters, Deliver
<1>6. Rejected' = Rejected
  BY <1>5 DEF Rejected
<1>7. Plain' = Plain
  BY <1>4, <1>5, <1>6 DEF Plain
<1>8. Text' = Text \o s /\ Between' = Between
  <2> DEFINE kids == Top.kids
             ks == Top'.kids
             old == LastText(kids)
             new == LastText(ks)
  <2>1. ks = Pieced(kids, s) /\ kids \in Seq(K)
    BY <1>3
  <2>2. Text = old /\ Text' = new /\ Between' = HasElement(ks) /\ Between = HasElement(kids)
    BY <1>4 DEF Text, Between, HasElement
  <2> HIDE DEF ks, kids
  <2>3. new = old \o s /\ (HasElement(ks) <=> HasElement(kids))
    BY <2>1, PieceAdds
  <2> HIDE DEF old, new
  <2>4. Text' = Text \o s
    <3> HIDE DEF Last
    <3> QED
      BY <2>2, <2>3
  <2>5. HasElement(ks) = HasElement(kids)
    BY <2>3 DEF HasElement
  <2>6. Between' = Between
    BY <2>2, <2>5
  <2> QED
    BY <2>4, <2>6
<1>9. J!characters(s)
  BY <1>3, <1>5, <1>6, <1>7, <1>8 DEF J!characters
<1>10. JInv'
  <2>1. \A i \in 2 .. Len(open') : open'[i].at = lastpos' => docno \in Rejected'
    <3> TAKE i \in 2 .. Len(open')
    <3>1. i \in 1 .. Len(open) /\ i \in 2 .. Len(open)
      BY <1>2, <1>3
    <3> QED
      BY <1>3, <1>5, <1>6, <3>1 DEF JInv
  <2>2. docno \notin Rejected' /\ current' = notAllowed => level' = Len(open') - 1
    BY <1>3, <1>4, <1>5, <1>6 DEF JInv
  <2>3. docno \notin Rejected' /\ current' # notAllowed => mixed' = Between'
    <3>1. docno \notin Rejected /\ current # notAllowed => mixed = Between
      BY <1>3, <1>4 DEF JInv, Reading
    <3> QED
      BY <1>5, <1>6, <1>8, <3>1
  <2>4. \A m \in printed' : m[1] \in Int /\ m[1] <= docno
    BY <1>5 DEF JInv
  <2>5. Len(open') \in Nat /\ Len(open') # 1
    BY <1>2, <1>3
  <2> QED
    BY <1>4, <1>5, <2>1, <2>2, <2>3, <2>4, <2>5, JInvKept
<1> QED
  BY <1>9, <1>10

(* An external entity, or an annotation: the judgement stands still.       *)
LEMMA DTDJudged ==
  ASSUME SInv, TInv, JInv, externalEntityRef \/ processingInstruction
  PROVE  JInv' /\ UNCHANGED J!vars
<1>1. PICK Q, A, K : open \in Seq(Node(Q, A, K))
  BY DEF SInv, Shape
<1>2. /\ pos \in Nat /\ lastpos \in Int /\ lastpos <= pos /\ Len(open) \in Nat
      /\ \A i \in 1 .. Len(open) : open[i].at \in Nat /\ open[i].at <= pos
  <2>1. \A i \in 1 .. Len(open) : open[i] \in Node(Q, A, K)
    BY <1>1, ElementOfSeq
  <2>2. \A i \in 1 .. Len(open) : open[i].at \in Nat
    BY <2>1 DEF Node
  <2>3. Len(open) \in Nat
    BY <1>1, LenProperties
  <2> QED
    BY <2>2, <2>3 DEF SInv
<1>3. open # Idle /\ UNCHANGED <<start, open, docno, current, mixed, level, txt>>
  BY <1>2 DEF externalEntityRef, processingInstruction, Deliver, state, Reading, RootDue, Idle
<1>4. /\ Rejected' = Rejected
      /\ \A m \in printed' : m[1] \in Int /\ m[1] <= docno
      /\ lastpos' \in {lastpos, pos + 1}
  <2>1. CASE externalEntityRef
    <3>1. Message("entity", pos + 1) /\ lastpos' = pos + 1
      BY <2>1 DEF externalEntityRef, Report
    <3>2. \A m \in printed' : m[1] \in Int /\ m[1] <= docno
      BY <3>1, Messages
    <3>3. Rejected' = IF pos + 1 # lastpos /\ "entity" = "invalid" THEN Rejected \cup {docno} ELSE Rejected
      BY <3>1, Messages
    <3> QED
      BY <3>1, <3>2, <3>3
  <2>2. CASE processingInstruction
    <3>1. printed' = printed /\ lastpos' = lastpos
      BY <2>2 DEF processingInstruction
    <3> QED
      BY <3>1 DEF Rejected, JInv
  <2> QED
    BY <2>1, <2>2
<1>5. Plain' = Plain /\ Text' = Text /\ Between' = Between
  BY <1>3, <1>4 DEF Plain, Text, Between, Top
<1>6. UNCHANGED J!vars
  BY <1>3, <1>4, <1>5 DEF J!vars
<1>7. \A i \in 2 .. Len(open') : open'[i].at = lastpos' => docno \in Rejected'
  <2> TAKE i \in 2 .. Len(open')
  <2>1. i \in 1 .. Len(open) /\ i \in 2 .. Len(open)
    BY <1>2, <1>3
  <2>2. open[i].at # pos + 1
    BY <1>2, <2>1
  <2> QED
    BY <1>3, <1>4, <2>1, <2>2 DEF JInv
<1>8. docno \notin Rejected' /\ current' = notAllowed => level' = Len(open') - 1
  BY <1>3, <1>4 DEF JInv
<1>9. (Len(open') = 1 => txt' = <<>>) /\ docno' \in Nat
  BY <1>3 DEF JInv
<1>10. docno \notin Rejected' /\ current' # notAllowed /\ Reading' => mixed' = Between'
  BY <1>3, <1>4, <1>5 DEF JInv, Reading
<1>11. JInv'
  BY <1>3, <1>4, <1>7, <1>8, <1>9, <1>10 DEF JInv
<1> QED
  BY <1>6, <1>11

(* The next document. *)
LEMMA NextDocument ==
  ASSUME TInv, JInv, validate \/ not_opened
  PROVE  JInv' /\ (J!begin \/ J!not_opened)
<1>1. /\ open = Idle /\ docno' = docno + 1 /\ start' = start /\ Len(open) = 0
      /\ docno \in Nat /\ \A m \in printed : m[1] \in Int /\ m[1] <= docno
      /\ level' = 0 /\ txt' = <<>>
  BY DEF validate, not_opened, JInv, TInv, Idle, state
<1>2. docno + 1 \in Nat /\ \A m \in printed : m[1] <= docno + 1 /\ m[1] # docno + 1
  BY <1>1
<1>3. CASE validate
  <2>1. open' = <<Document>> /\ current' = start /\ printed' = printed
    BY <1>3 DEF validate
  <2>2. open' # Idle /\ Len(open') = 1 /\ Top' = Document
    BY <2>1 DEF Idle, Top
  <2>3. Rejected' = Rejected /\ docno' \notin Rejected'
    BY <1>1, <1>2, <2>1 DEF Rejected
  <2>4. LastText(<<>>) = <<>> /\ ~HasElement(<<>>) /\ Document.kids = <<>>
    BY DEF LastText, HasElement, Document
  <2>5. Plain' = start /\ Text' = <<>> /\ Between' = FALSE
    BY <2>1, <2>2, <2>3, <2>4 DEF Plain, Text, Between
  <2>6. J!begin
    BY <1>1, <2>2, <2>3, <2>5 DEF J!begin
  <2>7. \A m \in printed' : m[1] \in Int /\ m[1] <= docno'
    BY <1>1, <1>2, <2>1
  <2>8. 2 .. 1 = {} /\ level' = Len(open') - 1 /\ ~Reading'
    BY <1>1, <2>2 DEF Reading
  <2>9. JInv'
    BY <1>1, <1>2, <2>2, <2>7, <2>8 DEF JInv
  <2> QED
    BY <2>6, <2>9
<1>4. CASE not_opened
  <2>1. open' = open /\ UNCHANGED current
    BY <1>4 DEF not_opened, state
  <2> DEFINE n == <<docno + 1, "file", docno + 1>>
  <2>2. printed' = printed \cup {n} /\ n[1] = docno + 1 /\ n[2] = "file"
    BY <1>4 DEF not_opened
  <2> HIDE DEF n
  <2>3. Rejected' = Rejected
    <3>1. Rejected' = IF n[2] = "invalid" THEN Rejected \cup {n[1]} ELSE Rejected
      BY <2>2, Prints
    <3> QED
      BY <2>2, <3>1
  <2>4. /\ Plain = notAllowed /\ Plain' = notAllowed /\ Text = <<>> /\ Text' = <<>>
        /\ Between = FALSE /\ Between' = FALSE
    BY <1>1, <2>1 DEF Plain, Text, Between
  <2>5. J!not_opened
    BY <1>1, <2>1, <2>3, <2>4 DEF J!not_opened
  <2>6. \A m \in printed' : m[1] \in Int /\ m[1] <= docno'
    BY <1>1, <1>2, <2>2
  <2>7. 2 .. 0 = {} /\ open' = Idle /\ Len(open') = 0
    BY <1>1, <2>1
  <2>8. JInv'
    BY <1>1, <1>2, <2>6, <2>7 DEF JInv
  <2> QED
    BY <2>5, <2>8
<1> QED
  BY <1>3, <1>4

(* The end of one. *)
LEMMA EndOfDocument ==
  ASSUME SInv, JInv, process_failed \/ process_done
  PROVE  JInv' /\ J!end
<1>1. PICK Q, A, K : open \in Seq(Node(Q, A, K))
  BY DEF SInv, Shape
<1>2. Len(open) \in Nat /\ Len(open) > 0
  <2>1. Len(open) \in Nat /\ (Len(open) = 0 => open = <<>>)
    BY <1>1, EmptySeq, LenProperties
  <2> QED
    BY <2>1 DEF process_failed, process_done, Idle
<1>3. open' = Idle /\ Len(open') = 0 /\ UNCHANGED <<start, docno>> /\ level' = 0 /\ 2 .. 0 = {}
  BY DEF process_failed, process_done, clear, Idle
<1>4. Rejected' = Rejected /\ \A m \in printed' : m[1] \in Int /\ m[1] <= docno
  <2>1. CASE process_failed
    <3>1. Message("xml", pos + 1)
      BY <2>1 DEF process_failed
    <3>2. Rejected' = IF pos + 1 # lastpos /\ "xml" = "invalid" THEN Rejected \cup {docno} ELSE Rejected
      BY <3>1, Messages
    <3>3. \A m \in printed' : m[1] \in Int /\ m[1] <= docno
      BY <3>1, Messages
    <3> QED
      BY <3>2, <3>3
  <2>2. CASE process_done
    BY <2>2 DEF process_done, Rejected, JInv
  <2> QED
    BY <2>1, <2>2
<1>5. Plain' = notAllowed /\ Text' = <<>> /\ Between' = FALSE
  BY <1>3 DEF Plain, Text, Between
<1>6. J!end
  BY <1>2, <1>3, <1>4, <1>5 DEF J!end
<1>7. JInv'
  BY <1>3, <1>4 DEF JInv
<1> QED
  BY <1>6, <1>7

LEMMA StepJudged ==
  ASSUME SInv, TInv, JInv, [Next]_vars
  PROVE  JInv' /\ [J!Next]_(J!vars)
<1>1. ASSUME NEW tag \in Tags, start_element(tag[1], tag[2]) PROVE JInv' /\ J!Next
  <2>1. JInv' /\ J!start_tag(tag[1], tag[2])
    BY <1>1, StartJudged
  <2> QED
    BY <2>1 DEF J!Next
<1>2. ASSUME end_element PROVE JInv' /\ J!Next
  BY <1>2, EndJudged DEF J!Next
<1>3. ASSUME NEW s \in Chunks, characters(s) PROVE JInv' /\ J!Next
  <2>1. JInv' /\ J!characters(s)
    BY <1>3, CharactersJudged
  <2> QED
    BY <2>1 DEF J!Next
<1>4. ASSUME externalEntityRef \/ processingInstruction PROVE JInv' /\ UNCHANGED J!vars
  BY <1>4, DTDJudged
<1>5. ASSUME validate \/ not_opened PROVE JInv' /\ J!Next
  <2>1. JInv' /\ (J!begin \/ J!not_opened)
    BY <1>5, NextDocument
  <2> QED
    BY <2>1 DEF J!Next
<1>6. ASSUME process_failed \/ process_done PROVE JInv' /\ J!Next
  <2>1. JInv' /\ J!end
    BY <1>6, EndOfDocument
  <2> QED
    BY <2>1 DEF J!Next
<1>7. ASSUME UNCHANGED vars PROVE JInv' /\ UNCHANGED J!vars
  <2>1. UNCHANGED <<start, current, mixed, level, txt, lastpos, printed, docno, open>>
    BY <1>7 DEF vars, state
  <2>2. Rejected' = Rejected /\ Plain' = Plain /\ Text' = Text /\ Between' = Between /\ Reading' = Reading
    BY <2>1 DEF Rejected, Plain, Text, Between, Top, Reading
  <2> QED
    BY <2>1, <2>2 DEF JInv, J!vars
<1> QED
  BY <1>1, <1>2, <1>3, <1>4, <1>5, <1>6, <1>7 DEF Next

(* Whatever the schema and the documents, and however the parser cuts up   *)
(* the text: a document is complained of if, and only if, a derivative in  *)
(* which nothing was repaired is notAllowed; no repair, skipped element,   *)
(* leftover text or message for the same position makes or hides an error  *)
(* (xcl.c:55-154, rnv.c:80-173).                                           *)
THEOREM JudgedPlainly == Spec => JudgesPlainly
<1>1. Init => SInv /\ TInv /\ JInv /\ J!Init
  BY InitSInv, InitTInv, InitJInv, InitJudge
<1>2. SInv /\ TInv /\ JInv /\ [Next]_vars => SInv' /\ TInv' /\ JInv' /\ [J!Next]_(J!vars)
  <2>1. SInv => pos \in Nat
    BY DEF SInv
  <2> QED
    BY <2>1, StepSInv, StepTInv, StepJudged
<1> QED
  BY <1>1, <1>2, PTL DEF Spec, JudgesPlainly, J!Spec

=============================================================================
