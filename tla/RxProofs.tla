------------------------------ MODULE RxProofs ------------------------------
(***************************************************************************)
(* Proofs, for all patterns, expressions and sizes, that what rx.c keeps   *)
(* from one call to the next is right: the memo and the table of compiled  *)
(* expressions speak of the store there is, and drv, answering from the    *)
(* memo wherever it can, returns the derivative.                           *)
(*                                                                         *)
(* A call of drv in progress was made for a pattern of the store, and      *)
(* knows derivatives of the kids of that pattern and nothing else; it is   *)
(* this that must survive whatever the calls within it store, forget and   *)
(* return.  The store is cleared only between calls.                       *)
(***************************************************************************)
EXTENDS Rx, Counting, SequenceTheorems

-----------------------------------------------------------------------------
(* Storing a pattern: no index changes, and its parts are all stored.      *)
Extends(old, new) ==
  /\ old \in Seq(Patterns) /\ new \in Seq(Patterns)
  /\ Len(old) <= Len(new)
  /\ \A i \in 1 .. Len(old) : new[i] = old[i]

LEMMA Parted ==
  ASSUME NEW p \in Patterns
  PROVE  /\ Parts(p) \in Seq(Patterns) /\ p \in ToSet(Parts(p))
         /\ \A q \in ToSet(Parts(p)) : q \in Patterns /\ ToSet(Parts(q)) \subseteq ToSet(Parts(p))
         /\ Kids(p) \in Seq(Patterns) /\ \A k \in DOMAIN Kids(p) : Kids(p)[k] \in ToSet(Parts(p))
<1> DEFINE parts == ToSet(Parts(p))
<1>1. /\ Parts(p) \in Seq(parts) /\ p \in parts
      /\ \A q \in parts : ToSet(Parts(q)) \subseteq parts
      /\ Kids(p) \in Seq(parts)
  BY PatternAssumption
<1>2. parts \subseteq Patterns
  BY PatternAssumption
<1> HIDE DEF parts
<1>3. Parts(p) \in Seq(Patterns) /\ Kids(p) \in Seq(Patterns)
  BY <1>1, <1>2
<1>4. \A k \in DOMAIN Kids(p) : Kids(p)[k] \in parts
  BY <1>1
<1> QED
  BY <1>1, <1>2, <1>3, <1>4 DEF parts

LEMMA Members ==
  ASSUME NEW S, NEW s \in Seq(S)
  PROVE  ToSet(s) \subseteq S /\ \A x : x \in ToSet(s) <=> \E i \in 1 .. Len(s) : s[i] = x
BY DEF ToSet

LEMMA Accepted ==
  ASSUME NEW s \in Seq(Patterns), NEW p \in Patterns
  PROVE  /\ accept_p(s, p) \in Seq(Patterns) /\ Extends(s, accept_p(s, p))
         /\ ToSet(accept_p(s, p)) = ToSet(s) \cup {p}
<1>1. CASE p \in ToSet(s)
  BY <1>1 DEF accept_p, Extends
<1>2. CASE p \notin ToSet(s)
  <2>1. accept_p(s, p) = Append(s, p)
    BY <1>2 DEF accept_p
  <2>2. /\ Append(s, p) \in Seq(Patterns) /\ Len(Append(s, p)) = Len(s) + 1 /\ Len(s) \in Nat
        /\ \A i \in 1 .. Len(s) : Append(s, p)[i] = s[i] /\ Append(s, p)[Len(s) + 1] = p
    BY AppendProperties, LenProperties
  <2>3. ToSet(Append(s, p)) = ToSet(s) \cup {p}
    <3>1. \A x : x \in ToSet(Append(s, p)) <=> x \in ToSet(s) \/ x = p
      <4> TAKE x
      <4> DEFINE a == Append(s, p)
      <4>0. a \in Seq(Patterns) /\ Len(a) = Len(s) + 1
        BY <2>2
      <4> HIDE DEF a
      <4>1. x \in ToSet(a) <=> \E i \in 1 .. Len(s) + 1 : a[i] = x
        BY <4>0, Members
      <4>2. x \in ToSet(s) <=> \E i \in 1 .. Len(s) : s[i] = x
        BY Members
      <4> QED
        BY <2>2, <4>1, <4>2 DEF a
    <3> QED
      BY <3>1
  <2> QED
    BY <2>1, <2>2, <2>3 DEF Extends
<1> QED
  BY <1>1, <1>2

LEMMA ExtendsTwice ==
  ASSUME NEW a, NEW b, NEW c, Extends(a, b), Extends(b, c)
  PROVE  Extends(a, c)
BY LenProperties DEF Extends

(* After n of the parts.                                                   *)
StoredUpto(s, parts, t, n) ==
  /\ t[n] \in Seq(Patterns) /\ Extends(s, t[n])
  /\ ToSet(t[n]) = ToSet(s) \cup {parts[i] : i \in 1 .. n}

LEMMA Storing ==
  ASSUME NEW s \in Seq(Patterns), NEW p \in Patterns
  PROVE  /\ Stored(s, p) \in Seq(Patterns) /\ Extends(s, Stored(s, p))
         /\ ToSet(Stored(s, p)) = ToSet(s) \cup ToSet(Parts(p))
<1> DEFINE parts == Parts(p)
           m == Len(parts)
           S == Seq(Patterns)
           D == [n \in 1 .. m |-> [t \in S |-> accept_p(t, parts[n])]]
           Fills(f) == f = [n \in 0 .. m |-> IF n = 0 THEN s ELSE accept_p(f[n - 1], parts[n])]
<1>1. parts \in S /\ m \in Nat /\ \A n \in 1 .. m : parts[n] \in Patterns
  BY Parted, LenProperties, ElementOfSeq
<1> HIDE DEF m
<1>2. D \in Maps(S, m)
  <2>1. \A n \in 1 .. m, t \in S : accept_p(t, parts[n]) \in S
    BY <1>1, Accepted
  <2> HIDE DEF S, parts
  <2> QED
    BY <2>1 DEF Maps
<1>3. \A n \in 1 .. m, t \in S : D[n][t] = accept_p(t, parts[n])
  OBVIOUS
<1> HIDE DEF S, D, parts
<1>4a. PICK g \in Results(S, m) : Run(g, D, s, m)
  <2>1. s \in S
    BY DEF S
  <2>2. m \in Nat
    BY <1>1
  <2> QED
    BY <1>2, <2>1, <2>2, Runs
<1>4. g \in [0 .. m -> S] /\ g[0] = s /\ \A n \in 1 .. m : g[n] = D[n][g[n - 1]]
  BY <1>4a DEF Results, Run
<1>5. Fills(g)
  <2>1. ASSUME NEW n \in 0 .. m
        PROVE  g[n] = IF n = 0 THEN s ELSE accept_p(g[n - 1], parts[n])
    <3>1. CASE n = 0
      BY <1>4, <3>1
    <3>2. CASE n \in 1 .. m
      <4>1. n - 1 \in 0 .. m
        BY <1>1, <3>2
      <4>2. g[n - 1] \in S
        BY <1>4, <4>1
      <4> QED
        BY <1>3, <1>4, <3>2, <4>2
    <3> QED
      BY <1>1, <3>1, <3>2
  <2> QED
    BY <1>4, <2>1
<1> DEFINE t == CHOOSE f : Fills(f)
<1>6. Stored(s, p) = t[m]
  BY DEF Stored, m, parts
<1> HIDE DEF Fills
<1>7. Fills(t)
  BY <1>5
<1> HIDE DEF t
<1>8. t[0] = s /\ \A n \in 1 .. m : t[n] = accept_p(t[n - 1], parts[n])
  BY <1>1, <1>7 DEF Fills
<1> DEFINE K == {n \in 0 .. m : StoredUpto(s, parts, t, n)}
<1>9. 0 \in K
  <2>1. {parts[i] : i \in 1 .. 0} = {} /\ Extends(s, s) /\ 0 \in 0 .. m
    BY <1>1 DEF Extends
  <2> QED
    BY <1>8, <2>1 DEF StoredUpto
<1>10. ASSUME NEW n \in 0 .. m - 1, n \in K PROVE n + 1 \in K
  <2>1. n + 1 \in 1 .. m /\ n + 1 \in 0 .. m /\ (n + 1) - 1 = n /\ StoredUpto(s, parts, t, n)
    BY <1>1, <1>10
  <2>2. t[n + 1] = accept_p(t[n], parts[n + 1]) /\ parts[n + 1] \in Patterns
    BY <1>1, <1>8, <2>1
  <2>3. /\ t[n + 1] \in Seq(Patterns) /\ Extends(t[n], t[n + 1])
        /\ ToSet(t[n + 1]) = ToSet(t[n]) \cup {parts[n + 1]}
    <3>1. t[n] \in Seq(Patterns)
      BY <2>1 DEF StoredUpto
    <3>2. parts[n + 1] \in Patterns
      BY <2>2
    <3> DEFINE a == t[n]
               b == parts[n + 1]
    <3> HIDE DEF a, b
    <3>3. /\ accept_p(a, b) \in Seq(Patterns) /\ Extends(a, accept_p(a, b))
          /\ ToSet(accept_p(a, b)) = ToSet(a) \cup {b}
      BY <3>1, <3>2, Accepted DEF a, b
    <3> QED
      BY <2>2, <3>3 DEF a, b
  <2>4. {parts[i] : i \in 1 .. n + 1} = {parts[i] : i \in 1 .. n} \cup {parts[n + 1]}
    BY <1>1, <2>1
  <2>5. Extends(s, t[n + 1])
    BY <2>1, <2>3, ExtendsTwice DEF StoredUpto
  <2>6. ToSet(t[n + 1]) = ToSet(s) \cup {parts[i] : i \in 1 .. n + 1}
    BY <2>1, <2>3, <2>4 DEF StoredUpto
  <2> QED
    BY <2>1, <2>3, <2>5, <2>6 DEF StoredUpto
<1> HIDE DEF K
<1>11. m \in K
  <2>1. m \in Nat /\ m \in 0 .. m
    BY <1>1
  <2>2. \A n \in 0 .. m - 1 : n \in K => n + 1 \in K
    BY <1>10
  <2>3. 0 .. m \subseteq K
    BY <2>1, <1>9, <2>2, UpTo
  <2> QED
    BY <2>1, <2>3
<1>12. {parts[i] : i \in 1 .. m} = ToSet(parts)
  <2>1. DOMAIN parts = 1 .. m
    BY <1>1 DEF m, S
  <2> QED
    BY <2>1 DEF ToSet
<1> QED
  BY <1>6, <1>11, <1>12 DEF K, StoredUpto, parts

LEMMA ExtendsMembers ==
  ASSUME NEW a, NEW b, Extends(a, b)
  PROVE  ToSet(a) \subseteq ToSet(b)
<1>1. a \in Seq(Patterns) /\ b \in Seq(Patterns) /\ Len(a) \in Nat /\ Len(b) \in Nat
  BY LenProperties DEF Extends
<1>2. ASSUME NEW x \in ToSet(a) PROVE x \in ToSet(b)
  <2>1. PICK i \in 1 .. Len(a) : a[i] = x
    BY <1>1, Members
  <2>2. i \in 1 .. Len(b) /\ b[i] = x
    BY <1>1, <2>1 DEF Extends
  <2> QED
    BY <1>1, <2>2, Members
<1> QED
  BY <1>2

LEMMA Indexed ==
  ASSUME NEW s \in Seq(Patterns), NEW p \in ToSet(s)
  PROVE  Index(s, p) \in 1 .. Len(s) /\ s[Index(s, p)] = p
<1>1. DOMAIN s = 1 .. Len(s) /\ \E i \in DOMAIN s : s[i] = p
  BY DEF ToSet
<1> QED
  BY <1>1 DEF Index

-----------------------------------------------------------------------------
(* What is kept between the calls of the interface.                        *)
Whole(store) == \A p \in ToSet(store) : ToSet(Parts(p)) \subseteq ToSet(store)

Row == [p : Nat, c : Chars, ret : Nat]
Holds(store, m) ==
  /\ m.p \in 1 .. Len(store) /\ m.ret \in 1 .. Len(store)
  /\ store[m.ret] = after_char(store[m.p], m.c)

Kept ==
  /\ pattern \in Seq(Patterns) /\ Whole(pattern)
  /\ memo \in Seq(Row) /\ \A m \in ToSet(memo) : Holds(pattern, m)

(* The table of expressions runs in step with that of pairs.               *)
Texts == {e.rx : e \in session.expressions}
Compiled(store, rx, p) ==
  /\ p \in 1 .. Len(store)
  /\ \A e \in session.expressions : e.rx = rx => store[p] = e.parsed.p

Cached ==
  /\ session \in Sessions
  /\ regex \in Seq(Texts) /\ r2p \in Seq(Nat \X Nat) /\ Len(r2p) = Len(regex)
  /\ \A i \in 1 .. Len(r2p) : r2p[i][1] = i /\ Compiled(pattern, regex[i], r2p[i][2])

(* A call of a matching function in progress.                              *)
Reading ==
  call # None =>
    /\ call \in Running /\ call.p \in ToSet(pattern)
    /\ call.at = "word" => call.u \in Chars

(* The calls of drv in progress.                                           *)
Gots == {None} \cup {Known(p, c, ks) : p \in Patterns, c \in Chars, ks \in SUBSET Nat}
Frames(store) == [p : ToSet(store), c : Chars, at : Nat, got : Gots]

Informed(f) == \E ks \in SUBSET DOMAIN Kids(f.p) : f.got = Known(f.p, f.c, ks)

Awaits(f, g) ==
  /\ Informed(f)
  /\ f.at \in DOMAIN Kids(f.p) /\ g.p = Kids(f.p)[f.at] /\ g.c = f.c

Nested ==
  /\ stack \in Seq(Frames(pattern))
  /\ \A i \in 1 .. Len(stack) : stack[i].got = None \/ Informed(stack[i])
  /\ \A i \in 1 .. Len(stack) - 1 : Awaits(stack[i], stack[i + 1])
  /\ stack # <<>> => call # None /\ stack[1].p = call.p

IInv == Kept /\ Cached /\ Reading /\ Nested

(* The pattern a matching loop has, or will have when drv has returned to  *)
(* it.  A step of drv does not change it, nor the rest of the call.        *)
Outcome == IF stack = <<>> THEN call.p ELSE after_char(stack[1].p, stack[1].c)

Proceeds ==
  /\ call' # None /\ Outcome' = Outcome
  /\ call'.f = call.f /\ call'.e = call.e /\ call'.subject = call.subject
  /\ call'.s = call.s /\ call'.at = call.at /\ call'.u = call.u

-----------------------------------------------------------------------------
(* The four patterns known by number are whole, whatever else there is.    *)
LEMMA WindupWhole ==
  Windup \in Seq(Patterns) /\ Whole(Windup)
<1>1. Windup \in Seq({P_ERROR, P_EMPTY, P_NOT_ALLOWED, P_ANY})
  BY DEF Windup
<1>2. ToSet(Windup) \subseteq Patterns /\ \A p \in ToSet(Windup) : ToSet(Parts(p)) = {p}
  BY PatternAssumption
<1>3. {P_ERROR, P_EMPTY, P_NOT_ALLOWED, P_ANY} \subseteq ToSet(Windup)
  <2>1. /\ DOMAIN Windup = 1 .. 4 /\ Windup[1] = P_ERROR /\ Windup[2] = P_EMPTY
        /\ Windup[3] = P_NOT_ALLOWED /\ Windup[4] = P_ANY
    BY DEF Windup
  <2> QED
    BY <2>1 DEF ToSet
<1>4. Windup \in Seq(Patterns)
  BY <1>1, <1>2, <1>3
<1> QED
  BY <1>2, <1>4 DEF Whole

(* A store stays whole when a pattern is stored.                           *)
LEMMA StoredWhole ==
  ASSUME NEW s \in Seq(Patterns), Whole(s), NEW p \in Patterns, NEW t, t = Stored(s, p)
  PROVE  t \in Seq(Patterns) /\ Whole(t) /\ Extends(s, t) /\ p \in ToSet(t) /\ ToSet(s) \subseteq ToSet(t)
<1>1. t \in Seq(Patterns) /\ Extends(s, t) /\ ToSet(t) = ToSet(s) \cup ToSet(Parts(p))
  BY Storing
<1>2. p \in ToSet(Parts(p)) /\ \A q \in ToSet(Parts(p)) : ToSet(Parts(q)) \subseteq ToSet(Parts(p))
  BY Parted
<1>3. Whole(t)
  BY <1>1, <1>2 DEF Whole
<1> QED
  BY <1>1, <1>2, <1>3

(* ... and what the memo and the expressions say of it stays true.         *)
LEMMA HoldsStill ==
  ASSUME NEW s, NEW t, Extends(s, t), NEW m, Holds(s, m)
  PROVE  Holds(t, m)
BY LenProperties DEF Extends, Holds

LEMMA CompiledStill ==
  ASSUME NEW s, NEW t, Extends(s, t), NEW rx, NEW p, Compiled(s, rx, p)
  PROVE  Compiled(t, rx, p)
BY LenProperties DEF Extends, Compiled

LEMMA CachedStill ==
  ASSUME Cached, Extends(pattern, pattern'), UNCHANGED <<session, regex, r2p>>
  PROVE  Cached'
<1>1. \A i \in 1 .. Len(r2p) : Compiled(pattern', regex[i], r2p[i][2])
  BY CompiledStill DEF Cached
<1> QED
  BY <1>1 DEF Cached, Texts, Compiled

LEMMA FramesStill ==
  ASSUME NEW s, NEW t, Extends(s, t)
  PROVE  Frames(s) \subseteq Frames(t)
BY ExtendsMembers DEF Frames

LEMMA KnownType ==
  ASSUME NEW p \in Patterns, NEW c \in Chars, NEW ks \in SUBSET DOMAIN Kids(p)
  PROVE  Known(p, c, ks) \in Gots
<1>1. DOMAIN Kids(p) \subseteq Nat
  BY Parted
<1> QED
  BY <1>1 DEF Gots

(* The frame that awaits an answer, when it has it.                        *)
LEMMA InformedMore ==
  ASSUME NEW s \in Seq(Patterns), NEW f \in Frames(s), NEW g, Awaits(f, g),
         NEW h, h = [f EXCEPT !.got = [@ EXCEPT ![f.at] = after_char(g.p, g.c)]]
  PROVE  h \in Frames(s) /\ Informed(h) /\ h.p = f.p /\ h.c = f.c
<1>1. PICK ks \in SUBSET DOMAIN Kids(f.p) : f.got = Known(f.p, f.c, ks)
  BY DEF Awaits, Informed
<1> DEFINE new == ks \cup {f.at}
<1>2. [f.got EXCEPT ![f.at] = after_char(g.p, g.c)] = Known(f.p, f.c, new)
  <2> DEFINE k == f.at
  <2>1. k \in DOMAIN Kids(f.p) /\ after_char(g.p, g.c) = after_char(Kids(f.p)[k], f.c)
    BY DEF Awaits
  <2> HIDE DEF k
  <2>2. [Known(f.p, f.c, ks) EXCEPT ![k] = after_char(Kids(f.p)[k], f.c)]
          = Known(f.p, f.c, ks \cup {k})
    <3> DEFINE p == f.p
               c == f.c
    <3>1. ks \in SUBSET DOMAIN Kids(p)
      OBVIOUS
    <3>2. k \in DOMAIN Kids(p)
      BY <2>1
    <3> HIDE DEF p, c
    <3>3. [Known(p, c, ks) EXCEPT ![k] = after_char(Kids(p)[k], c)] = Known(p, c, ks \cup {k})
      BY <3>1, <3>2 DEF Known
    <3> QED
      BY <3>3 DEF p, c
  <2> QED
    BY <1>1, <2>1, <2>2 DEF k
<1>3. f.p \in Patterns /\ f.p \in ToSet(s) /\ f.c \in Chars /\ f.at \in Nat
  BY Members DEF Frames
<1>4. new \in SUBSET DOMAIN Kids(f.p)
  BY DEF Awaits
<1> HIDE DEF new
<1>5. h.p = f.p /\ h.c = f.c /\ h.at = f.at /\ h.got = Known(f.p, f.c, new)
  BY <1>2 DEF Frames
<1>6. Known(f.p, f.c, new) \in Gots
  BY <1>3, <1>4, KnownType
<1>7. h \in Frames(s)
  <2>1. h = [f EXCEPT !.got = Known(f.p, f.c, new)]
    BY <1>2
  <2> QED
    BY <1>6, <2>1 DEF Frames
<1> QED
  BY <1>4, <1>5, <1>7 DEF Informed

(* A call returns the derivative, and the store may have grown.            *)
LEMMA AnswerKeeps ==
  ASSUME IInv, stack # <<>>, NEW v, v = after_char(Top.p, Top.c), Answer(v),
         Extends(pattern, pattern'), v \in ToSet(pattern'), session' = session
  PROVE  Reading' /\ Nested' /\ Proceeds
<1>1. /\ pattern \in Seq(Patterns) /\ pattern' \in Seq(Patterns)
      /\ ToSet(pattern) \subseteq ToSet(pattern')
  BY ExtendsMembers DEF Extends
<1> DEFINE n == Len(stack)
           F == Frames(pattern)
           G == Frames(pattern')
<1>2. stack \in Seq(F) /\ n \in Nat /\ n >= 1
  BY LenProperties, EmptySeq DEF IInv, Nested
<1>3. stack \in Seq(G) /\ F \subseteq G
  BY <1>2, FramesStill
<1>4. /\ Pop \in Seq(F) /\ Pop \in Seq(G) /\ Len(Pop) = n - 1
      /\ \A i \in 1 .. n - 1 : Pop[i] = stack[i]
  <2>1. \A i \in 1 .. n - 1 : stack[i] \in F
    BY <1>2, ElementOfSeq
  <2>2. Pop \in Seq(F) /\ Len(Pop) = n - 1 /\ \A i \in 1 .. n - 1 : Pop[i] = stack[i]
    <3> DEFINE m == n - 1
               sub == SubSeq(stack, 1, m)
    <3>1. m \in Nat /\ 1 \in 1 .. Len(stack) + 1 /\ m \in 1 - 1 .. Len(stack)
      BY <1>2
    <3>2. \A i \in 1 .. m : stack[i] \in F
      BY <2>1
    <3> HIDE DEF m
    <3>3. /\ sub \in Seq(F) /\ Len(sub) = (IF 1 <= m THEN m - 1 + 1 ELSE 0)
          /\ \A i \in 1 .. m - 1 + 1 : sub[i] = stack[1 + i - 1]
      BY <3>1, <3>2, <1>2, SubSeqProperties
    <3>4. \A i \in 1 .. m : sub[i] = stack[i]
      BY <3>1, <3>3
    <3>5. Len(sub) = m
      BY <3>1, <3>3
    <3> QED
      BY <3>3, <3>4, <3>5 DEF m, Pop
  <2> QED
    BY <1>3, <2>2
<1>5. call # None
  BY DEF IInv, Nested
<1>6. CASE Pop = <<>>
  <2>1. stack' = <<>> /\ call' = [call EXCEPT !.p = v]
    BY <1>6 DEF Answer
  <2>2. call \in Running /\ v \in Patterns /\ (call.at = "word" => call.u \in Chars)
    BY <1>1, <1>5, Members DEF IInv, Reading, Kept
  <2>3. call' \in Running /\ call'.p = v /\ call'.at = call.at /\ call'.u = call.u
    BY <2>1, <2>2 DEF Running
  <2>5. Reading'
    BY <1>1, <2>2, <2>3 DEF Reading
  <2>6. Nested'
    BY <2>1 DEF Nested
  <2>7. Top = stack[1]
    <3>1. n = 1
      BY <1>2, <1>4, <1>6
    <3> QED
      BY <3>1 DEF Top
  <2>8. Outcome' = Outcome
    BY <2>1, <2>3, <2>7 DEF Outcome
  <2>9. Proceeds
    <3>1. call' # None
      BY <2>3, SessionAssumption
    <3> QED
      BY <2>1, <2>2, <2>8, <3>1 DEF Proceeds, Running
  <2> QED
    BY <2>5, <2>6, <2>9
<1>7. CASE Pop # <<>>
  <2>1. n - 1 \in 1 .. n /\ n - 1 \in 1 .. n - 1 /\ (n - 1) + 1 = n
    BY <1>2, <1>4, <1>7, EmptySeq
  <2> DEFINE f == stack[n - 1]
             h == [f EXCEPT !.got = [@ EXCEPT ![f.at] = v]]
  <2>2. Pop[n - 1] = f /\ f \in F /\ Awaits(f, Top)
    BY <1>2, <1>4, <2>1, ElementOfSeq DEF IInv, Nested, Top
  <2>3. stack' = [Pop EXCEPT ![n - 1] = h] /\ call' = call
    BY <1>4, <1>7, <2>2 DEF Answer
  <2>4. h \in F /\ Informed(h) /\ h.p = f.p /\ h.c = f.c
    BY <1>1, <2>2, InformedMore
  <2> HIDE DEF f, h
  <2>5. h \in G
    BY <1>3, <2>4
  <2>6. stack' \in Seq(G) /\ Len(stack') = n - 1 /\ stack'[n - 1] = h
        /\ \A i \in 1 .. n - 1 : i # n - 1 => stack'[i] = stack[i]
    BY <1>4, <2>1, <2>3, <2>5, ExceptSeq
  <2>7. Reading'
    BY <1>1, <2>3 DEF IInv, Reading
  <2>8. \A i \in 1 .. n - 1 : stack'[i].got = None \/ Informed(stack'[i])
    BY <2>4, <2>6 DEF IInv, Nested
  <2>9. \A i \in 1 .. n - 1 : stack'[i].p = stack[i].p /\ stack'[i].c = stack[i].c
    BY <2>2, <2>4, <2>6 DEF f
  <2>10. \A i \in 1 .. n - 2 : Awaits(stack'[i], stack'[i + 1])
    <3> TAKE i \in 1 .. n - 2
    <3>1. /\ i \in 1 .. n - 1 /\ i + 1 \in 1 .. n - 1 /\ i # n - 1
      BY <1>2
    <3>2. Awaits(stack[i], stack[i + 1]) /\ stack'[i] = stack[i]
      BY <2>6, <3>1 DEF IInv, Nested
    <3>3. stack'[i + 1].p = stack[i + 1].p /\ stack'[i + 1].c = stack[i + 1].c
      BY <2>9, <3>1
    <3> QED
      BY <3>2, <3>3 DEF Awaits
  <2>11. stack'[1].p = call'.p
    <3>1. 1 \in 1 .. n - 1
      BY <1>2, <2>1
    <3>2. stack'[1].p = stack[1].p
      BY <2>9, <3>1
    <3> QED
      BY <2>3, <3>2 DEF IInv, Nested
  <2>12. Nested'
    BY <1>2, <1>5, <2>3, <2>6, <2>8, <2>10, <2>11 DEF Nested
  <2>13. Proceeds
    <3>1. 1 \in 1 .. n - 1 /\ n - 1 # 0
      BY <1>2, <2>1
    <3>2. Len(stack') = n - 1
      BY <2>6
    <3>3. stack' # <<>>
      BY <3>1, <3>2
    <3>4. Outcome' = Outcome
      BY <2>9, <3>1, <3>3 DEF Outcome
    <3> QED
      BY <1>5, <2>3, <3>4 DEF Proceeds
  <2> QED
    BY <2>7, <2>12, <2>13
<1> QED
  BY <1>6, <1>7

-----------------------------------------------------------------------------
(* The steps of drv.                                                       *)
LEMMA Topmost ==
  ASSUME IInv, stack # <<>>
  PROVE  /\ Len(stack) \in Nat /\ Len(stack) >= 1 /\ stack \in Seq(Frames(pattern))
         /\ Top \in Frames(pattern) /\ Top = stack[Len(stack)]
         /\ Top.p \in ToSet(pattern) /\ Top.p \in Patterns /\ Top.c \in Chars
         /\ Top.got = None \/ Informed(Top)
<1>1. stack \in Seq(Frames(pattern)) /\ pattern \in Seq(Patterns)
  BY DEF IInv, Nested, Kept
<1>2. Len(stack) \in Nat /\ Len(stack) >= 1
  BY <1>1, LenProperties, EmptySeq
<1>3. Top \in Frames(pattern)
  BY <1>1, <1>2, ElementOfSeq DEF Top
<1>4. Top.p \in ToSet(pattern) /\ Top.c \in Chars
  BY <1>3 DEF Frames
<1>5. Top.p \in Patterns
  BY <1>1, <1>4, Members
<1>6. Top.got = None \/ Informed(Top)
  BY <1>2 DEF IInv, Nested, Top
<1> QED
  BY <1>1, <1>2, <1>3, <1>4, <1>5, <1>6 DEF Top

LEMMA NewMemo ==
  ASSUME IInv
  PROVE  new_memo \in Seq(Row) /\ ToSet(new_memo) \subseteq ToSet(memo)
<1>1. memo \in Seq(Row) /\ Len(memo) \in Nat
  BY LenProperties DEF IInv, Kept
<1>2. CASE Len(memo) = LIM_M
  <2>1. Len(memo) # 0
    BY <1>2, LimitAssumption
  <2>2. memo # <<>>
    BY <2>1, EmptySeq
  <2> DEFINE t == Tail(memo)
  <2>3. t \in Seq(Row) /\ Len(t) = Len(memo) - 1 /\ \A i \in 1 .. Len(t) : t[i] = memo[i + 1]
    BY <1>1, <2>2, HeadTailProperties
  <2>4. new_memo = t
    BY <1>2 DEF new_memo
  <2> HIDE DEF t
  <2>5. ASSUME NEW m \in ToSet(t) PROVE m \in ToSet(memo)
    <3>1. PICK i \in 1 .. Len(t) : t[i] = m
      BY <2>3, Members
    <3>2. i + 1 \in 1 .. Len(memo) /\ memo[i + 1] = m
      BY <1>1, <2>3, <3>1
    <3> QED
      BY <1>1, <3>2, Members
  <2> QED
    BY <2>3, <2>4, <2>5
<1>3. CASE Len(memo) # LIM_M
  BY <1>1, <1>3 DEF new_memo
<1> QED
  BY <1>2, <1>3

LEMMA FoundKeeps ==
  ASSUME IInv, drv_found
  PROVE  IInv' /\ Proceeds
<1>1. stack # <<>> /\ UNCHANGED <<session, regex, r2p, pattern>> /\ memo' = new_memo
  BY DEF drv_found, Entering, Deriving
<1>2. PICK m \in Rows(Top.p, Top.c) : Answer(pattern[m.ret])
  BY DEF drv_found
<1>3. m \in ToSet(memo) /\ m.p = Index(pattern, Top.p) /\ m.c = Top.c
  BY NewMemo DEF Rows
<1>4. Holds(pattern, m) /\ pattern \in Seq(Patterns)
  BY <1>3 DEF IInv, Kept
<1>5. Top.p \in ToSet(pattern)
  BY <1>1, Topmost
<1>6. pattern[m.p] = Top.p
  BY <1>3, <1>4, <1>5, Indexed
<1> DEFINE v == pattern[m.ret]
<1>7. v = after_char(Top.p, Top.c) /\ v \in ToSet(pattern)
  BY <1>3, <1>4, <1>6, Members DEF Holds
<1>8. Extends(pattern, pattern') /\ v \in ToSet(pattern')
  BY <1>1, <1>4, <1>7 DEF Extends
<1>9. Answer(v)
  BY <1>2
<1> HIDE DEF v
<1>10. Reading' /\ Nested' /\ Proceeds
  BY <1>1, <1>7, <1>8, <1>9, AnswerKeeps
<1>11. Kept'
  BY <1>1, NewMemo DEF IInv, Kept
<1>12. Cached'
  BY <1>1, <1>8, CachedStill DEF IInv
<1> QED
  BY <1>10, <1>11, <1>12 DEF IInv

(* Nothing but the last frame changes, and that only in what it knows.     *)
LEMMA TopKeeps ==
  ASSUME IInv, stack # <<>>, UNCHANGED <<session, regex, r2p, pattern, call>>,
         memo' \in Seq(Row), ToSet(memo') \subseteq ToSet(memo),
         NEW g, g \in Frames(pattern), g.p = Top.p, g.c = Top.c, g.got = None \/ Informed(g),
         stack' = [stack EXCEPT ![Len(stack)] = g]
  PROVE  IInv' /\ Proceeds
<1> DEFINE n == Len(stack)
<1>1. n \in Nat /\ n >= 1 /\ stack \in Seq(Frames(pattern)) /\ Top = stack[n]
  BY Topmost
<1>2. /\ stack' \in Seq(Frames(pattern)) /\ Len(stack') = n /\ stack'[n] = g
      /\ \A i \in 1 .. n : i # n => stack'[i] = stack[i]
  BY <1>1, ExceptSeq
<1>3. \A i \in 1 .. n : stack'[i].p = stack[i].p /\ stack'[i].c = stack[i].c
  BY <1>1, <1>2
<1>4. \A i \in 1 .. n : stack'[i].got = None \/ Informed(stack'[i])
  BY <1>1, <1>2 DEF IInv, Nested
<1>5. \A i \in 1 .. n - 1 : Awaits(stack'[i], stack'[i + 1])
  <2> TAKE i \in 1 .. n - 1
  <2>1. i \in 1 .. n /\ i + 1 \in 1 .. n /\ i # n
    BY <1>1
  <2>2. Awaits(stack[i], stack[i + 1]) /\ stack'[i] = stack[i]
    BY <1>2, <2>1 DEF IInv, Nested
  <2> QED
    BY <1>3, <2>1, <2>2 DEF Awaits
<1>6. stack' # <<>> => call' # None /\ stack'[1].p = call'.p
  BY <1>1, <1>3 DEF IInv, Nested
<1>7. Proceeds
  <2>1. 1 \in 1 .. n /\ n # 0
    BY <1>1
  <2>2. Len(stack') = n
    BY <1>2
  <2>3. stack' # <<>>
    BY <2>1, <2>2
  <2>4. Outcome' = Outcome
    BY <1>3, <2>1, <2>3 DEF Outcome
  <2> QED
    BY <2>4 DEF Proceeds, IInv, Nested
<1> HIDE DEF n
<1>8. Nested'
  BY <1>2, <1>4, <1>5, <1>6 DEF Nested
<1>9. Kept' /\ Cached' /\ Reading'
  BY DEF IInv, Kept, Cached, Reading, Texts, Compiled
<1> QED
  BY <1>7, <1>8, <1>9 DEF IInv

LEMMA EntersKeeps ==
  ASSUME IInv, drv_enters
  PROVE  IInv' /\ Proceeds
<1>1. stack # <<>> /\ UNCHANGED <<session, regex, r2p, pattern, call>> /\ memo' = new_memo
  BY DEF drv_enters, Entering, Deriving
<1> DEFINE known == [k \in DOMAIN Kids(Top.p) |-> None]
           g == [Top EXCEPT !.got = known]
<1>2. stack' = [stack EXCEPT ![Len(stack)] = g]
  BY DEF drv_enters, Top
<1>3. /\ Top \in Frames(pattern) /\ Top.p \in Patterns /\ Top.c \in Chars
      /\ memo' \in Seq(Row) /\ ToSet(memo') \subseteq ToSet(memo)
  BY <1>1, Topmost, NewMemo
<1>4. known = Known(Top.p, Top.c, {})
  BY DEF Known
<1>5. known \in Gots
  BY <1>3, <1>4, KnownType
<1> HIDE DEF known
<1>6. g \in Frames(pattern) /\ g.p = Top.p /\ g.c = Top.c /\ g.got = known
  BY <1>3, <1>5 DEF Frames
<1> HIDE DEF g
<1>7. Informed(g)
  BY <1>4, <1>6 DEF Informed
<1> QED
  BY <1>1, <1>2, <1>3, <1>6, <1>7, TopKeeps

LEMMA AsksKeeps ==
  ASSUME IInv, drv_asks
  PROVE  IInv' /\ Proceeds
<1>1. stack # <<>> /\ Top.got # None /\ UNCHANGED <<session, regex, r2p, pattern, memo, call>>
  BY DEF drv_asks, Switching, Deriving
<1>2. PICK k \in Due : stack' = Append([stack EXCEPT ![Len(stack)].at = k],
                                       Called(Kids(Top.p)[k], Top.c))
  BY DEF drv_asks
<1> DEFINE n == Len(stack)
           F == Frames(pattern)
           g == [Top EXCEPT !.at = k]
           s == [stack EXCEPT ![n] = g]
           new == Called(Kids(Top.p)[k], Top.c)
<1>3. /\ n \in Nat /\ n >= 1 /\ stack \in Seq(F) /\ Top = stack[n] /\ Top \in F
      /\ Top.p \in Patterns /\ Top.p \in ToSet(pattern) /\ Top.c \in Chars
      /\ pattern \in Seq(Patterns) /\ Whole(pattern)
  BY <1>1, Topmost DEF IInv, Kept
<1>4. stack' = Append(s, new)
  BY <1>2, <1>3
<1>5. k \in DOMAIN Kids(Top.p) /\ k \in Nat /\ Informed(Top)
  BY <1>1, <1>3, Parted, Topmost DEF Due
<1>6. Kids(Top.p)[k] \in ToSet(pattern)
  BY <1>3, <1>5, Parted DEF Whole
<1>7. new \in F /\ new.p = Kids(Top.p)[k] /\ new.c = Top.c /\ new.got = None
  BY <1>3, <1>6 DEF Called, Frames, Gots
<1>8. g \in F /\ g.p = Top.p /\ g.c = Top.c /\ g.at = k /\ g.got = Top.got
  BY <1>3, <1>5 DEF Frames
<1> HIDE DEF g, new
<1>9. Informed(g) /\ Awaits(g, new)
  BY <1>5, <1>7, <1>8 DEF Informed, Awaits
<1>10. /\ s \in Seq(F) /\ Len(s) = n /\ s[n] = g
       /\ \A i \in 1 .. n : i # n => s[i] = stack[i]
  BY <1>3, <1>8, ExceptSeq
<1> HIDE DEF s
<1>11. /\ stack' \in Seq(F) /\ Len(stack') = n + 1 /\ stack'[n + 1] = new
       /\ \A i \in 1 .. n : stack'[i] = s[i]
  BY <1>4, <1>7, <1>10, AppendProperties
<1>12. \A i \in 1 .. n : stack'[i].p = stack[i].p /\ stack'[i].c = stack[i].c
  BY <1>3, <1>8, <1>10, <1>11
<1>13. \A i \in 1 .. n + 1 : stack'[i].got = None \/ Informed(stack'[i])
  <2> TAKE i \in 1 .. n + 1
  <2>1. CASE i = n + 1
    BY <1>7, <1>11, <2>1
  <2>2. CASE i = n
    BY <1>3, <1>9, <1>10, <1>11, <2>2
  <2>3. CASE i \in 1 .. n /\ i # n
    BY <1>10, <1>11, <2>3 DEF IInv, Nested
  <2> QED
    BY <1>3, <2>1, <2>2, <2>3
<1>14. \A i \in 1 .. n : Awaits(stack'[i], stack'[i + 1])
  <2> TAKE i \in 1 .. n
  <2>1. CASE i = n
    BY <1>3, <1>9, <1>10, <1>11, <2>1
  <2>2. CASE i # n
    <3>1. i \in 1 .. n - 1 /\ i + 1 \in 1 .. n
      BY <1>3, <2>2
    <3>2. Awaits(stack[i], stack[i + 1]) /\ stack'[i] = stack[i]
      BY <1>10, <1>11, <2>2, <3>1 DEF IInv, Nested
    <3> QED
      BY <1>12, <3>1, <3>2 DEF Awaits
  <2> QED
    BY <2>1, <2>2
<1>15. stack' # <<>> => call' # None /\ stack'[1].p = call'.p
  <2>1. 1 \in 1 .. n
    BY <1>3
  <2>2. stack'[1].p = stack[1].p
    BY <1>12, <2>1
  <2> QED
    BY <1>1, <2>2 DEF IInv, Nested
<1>16. Proceeds
  <2>1. stack' # <<>> /\ 1 \in 1 .. n
    BY <1>3, <1>11, EmptySeq
  <2>2. Outcome' = Outcome
    BY <1>1, <1>12, <2>1 DEF Outcome
  <2> QED
    BY <1>1, <2>2 DEF Proceeds, IInv, Nested
<1>17. (n + 1) - 1 = n
  BY <1>3
<1> HIDE DEF n, F
<1>18. Nested'
  <2>1. stack' \in Seq(Frames(pattern'))
    BY <1>1, <1>11 DEF F
  <2> QED
    BY <1>11, <1>13, <1>14, <1>15, <1>17, <2>1 DEF Nested
<1>19. Kept' /\ Cached' /\ Reading'
  BY <1>1 DEF IInv, Kept, Cached, Reading, Texts, Compiled
<1> QED
  BY <1>16, <1>18, <1>19 DEF IInv

(* When nothing is left to ask for, what is made is the derivative.        *)
LEMMA MadeRight ==
  ASSUME IInv, Switching, Due = {}
  PROVE  Made(Top.p, Top.c, Top.got) = after_char(Top.p, Top.c)
<1>1. stack # <<>> /\ Top.got # None
  BY DEF Switching
<1>2. Top.p \in Patterns /\ Top.c \in Chars /\ Informed(Top)
  BY <1>1, Topmost
<1>3. PICK ks \in SUBSET DOMAIN Kids(Top.p) : Top.got = Known(Top.p, Top.c, ks)
  BY <1>2 DEF Informed
<1> DEFINE p == Top.p
           c == Top.c
           got == Known(p, c, ks)
<1>4. ASSUME NEW k \in DOMAIN Kids(p) \ ks PROVE ~Asks(p, k, got)
  <2>1. got[k] = None
    BY DEF Known
  <2> QED
    BY <1>3, <2>1 DEF Due
<1> HIDE DEF p, c
<1>5. (\A k \in DOMAIN Kids(p) \ ks : ~Asks(p, k, got)) => Made(p, c, got) = after_char(p, c)
  BY <1>2, <1>3, DerivativeAssumption DEF p, c
<1> QED
  BY <1>3, <1>4, <1>5 DEF p, c

LEMMA ReturnsKeeps ==
  ASSUME IInv, drv_returns
  PROVE  IInv' /\ Proceeds
<1>1. stack # <<>> /\ UNCHANGED <<session, regex, r2p>>
  BY DEF drv_returns, Switching, Deriving
<1> DEFINE p == Top.p
           c == Top.c
           v == after_char(p, c)
           m == [p |-> Index(pattern, p), c |-> c, ret |-> Index(pattern', v)]
<1>2. Made(Top.p, Top.c, Top.got) = v
  BY MadeRight DEF drv_returns
<1>3. pattern' = Stored(pattern, v) /\ memo' = Append(new_memo, m) /\ Answer(v)
  BY <1>2 DEF drv_returns
<1>4. p \in Patterns /\ p \in ToSet(pattern) /\ c \in Chars /\ pattern \in Seq(Patterns) /\ Whole(pattern)
  BY <1>1, Topmost DEF IInv, Kept
<1>5. v \in Patterns
  BY <1>4, DerivativeAssumption
<1>6. v = after_char(Top.p, Top.c)
  OBVIOUS
<1> HIDE DEF p, v
<1>7. /\ pattern' \in Seq(Patterns) /\ Whole(pattern') /\ Extends(pattern, pattern')
      /\ v \in ToSet(pattern')
  BY <1>3, <1>4, <1>5, StoredWhole
<1>8. m \in Row /\ Holds(pattern', m)
  <2> DEFINE i == Index(pattern, p)
             j == Index(pattern', v)
  <2>1. i \in 1 .. Len(pattern) /\ pattern[i] = p /\ j \in 1 .. Len(pattern') /\ pattern'[j] = v
    BY <1>4, <1>7, Indexed
  <2> HIDE DEF i, j
  <2>2. i \in 1 .. Len(pattern') /\ pattern'[i] = p
    BY <1>7, <2>1, LenProperties DEF Extends
  <2>3. m = [p |-> i, c |-> c, ret |-> j]
    BY DEF i, j
  <2>4. i \in Nat /\ j \in Nat
    BY <1>7, <2>1, <2>2, LenProperties
  <2> QED
    BY <1>4, <2>1, <2>2, <2>3, <2>4 DEF Row, Holds, v
<1> HIDE DEF m
<1>9. Kept'
  <2>1. memo' \in Seq(Row)
    BY <1>3, <1>8, NewMemo, AppendProperties
  <2>2. ASSUME NEW x \in ToSet(memo') PROVE Holds(pattern', x)
    <3>1. PICK i \in 1 .. Len(memo') : memo'[i] = x
      BY <2>1, Members
    <3>2. /\ new_memo \in Seq(Row) /\ Len(new_memo) \in Nat
          /\ Len(memo') = Len(new_memo) + 1 /\ memo'[Len(new_memo) + 1] = m
          /\ \A k \in 1 .. Len(new_memo) : memo'[k] = new_memo[k]
      BY <1>3, <1>8, NewMemo, AppendProperties, LenProperties
    <3>3. CASE i = Len(new_memo) + 1
      BY <1>8, <3>1, <3>2, <3>3
    <3>4. CASE i \in 1 .. Len(new_memo)
      <4>1. x \in ToSet(new_memo)
        BY <3>1, <3>2, <3>4, Members
      <4>2. Holds(pattern, x)
        BY <4>1, NewMemo DEF IInv, Kept
      <4> QED
        BY <1>7, <4>2, HoldsStill
    <3> QED
      BY <3>1, <3>2, <3>3, <3>4
  <2> QED
    BY <1>7, <2>1, <2>2 DEF Kept
<1>10. Reading' /\ Nested' /\ Proceeds
  BY <1>1, <1>3, <1>6, <1>7, AnswerKeeps
<1>11. Cached'
  BY <1>1, <1>7, CachedStill DEF IInv
<1> QED
  BY <1>9, <1>10, <1>11 DEF IInv

-----------------------------------------------------------------------------
(* Compilation: what compile starts from, with or without clearing.        *)
Fit(o) ==
  /\ o.pattern \in Seq(Patterns) /\ Whole(o.pattern)
  /\ o.memo \in Seq(Row) /\ \A m \in ToSet(o.memo) : Holds(o.pattern, m)
  /\ o.regex \in Seq(Texts) /\ o.r2p \in Seq(Nat \X Nat) /\ Len(o.r2p) = Len(o.regex)
  /\ \A i \in 1 .. Len(o.r2p) : o.r2p[i][1] = i /\ Compiled(o.pattern, o.regex[i], o.r2p[i][2])

LEMMA ClearFits == Fit(rx_clear)
<1>1. /\ rx_clear.pattern = Windup /\ rx_clear.regex = <<>> /\ rx_clear.r2p = <<>>
      /\ rx_clear.memo = <<>>
  BY DEF rx_clear
<1>2. ToSet(<<>>) = {} /\ Len(<<>>) = 0
  BY DEF ToSet
<1> QED
  BY <1>1, <1>2, WindupWhole DEF Fit

LEMMA TablesFit ==
  ASSUME IInv
  PROVE  Fit(Tables)
<1>1. Tables.pattern = pattern /\ Tables.regex = regex /\ Tables.r2p = r2p /\ Tables.memo = memo
  BY DEF Tables
<1> QED
  BY <1>1 DEF IInv, Kept, Cached, Fit

LEMMA FoundRight ==
  ASSUME IInv, NEW e \in session.expressions, e.rx \in ToSet(regex)
  PROVE  Compiles(e) = e.parsed.p /\ e.parsed.p \in ToSet(pattern)
<1>1. /\ regex \in Seq(Texts) /\ r2p \in Seq(Nat \X Nat) /\ Len(r2p) = Len(regex)
      /\ pattern \in Seq(Patterns)
  BY DEF IInv, Cached, Kept
<1> DEFINE P(x) == x \in ToSet(r2p) /\ regex[x[1]] = e.rx
<1>2. \E x : P(x)
  <2>1. PICK i \in 1 .. Len(regex) : regex[i] = e.rx
    BY <1>1, Members
  <2>2. r2p[i] \in ToSet(r2p)
    BY <1>1, <2>1, Members
  <2>3. r2p[i][1] = i
    BY <1>1, <2>1 DEF IInv, Cached
  <2> QED
    BY <2>1, <2>2, <2>3
<1> DEFINE x == CHOOSE x \in ToSet(r2p) : regex[x[1]] = e.rx
<1>3. P(x)
  BY <1>2
<1>4. Compiles(e) = pattern[x[2]]
  BY DEF Compiles
<1> HIDE DEF x
<1>5. PICK i \in 1 .. Len(r2p) : r2p[i] = x
  BY <1>1, <1>3, Members
<1>6. x[1] = i /\ Compiled(pattern, regex[i], x[2])
  BY <1>5 DEF IInv, Cached
<1>7. regex[i] = e.rx
  BY <1>3, <1>6
<1>8. x[2] \in 1 .. Len(pattern) /\ pattern[x[2]] = e.parsed.p
  BY <1>6, <1>7 DEF Compiled
<1> QED
  BY <1>1, <1>4, <1>8, Members

LEMMA CompileNew ==
  ASSUME IInv, NEW e \in session.expressions, compile_new(e), session' = session
  PROVE  Kept' /\ Cached' /\ e.parsed.p \in ToSet(pattern')
<1>1. PICK o : Fit(o) /\ pattern' = Stored(o.pattern, e.parsed.p) /\ regex' = Append(o.regex, e.rx)
                /\ r2p' = Append(o.r2p, <<Len(regex'), Index(pattern', e.parsed.p)>>)
                /\ memo' = o.memo
  <2> DEFINE old == IF rx_compact /\ Len(pattern) >= LIM_P THEN rx_clear ELSE Tables
  <2>1. Fit(old)
    BY ClearFits, TablesFit
  <2>2. /\ pattern' = Stored(old.pattern, e.parsed.p) /\ regex' = Append(old.regex, e.rx)
        /\ r2p' = Append(old.r2p, <<Len(regex'), Index(pattern', e.parsed.p)>>)
        /\ memo' = old.memo
    BY DEF compile_new
  <2> HIDE DEF old
  <2> QED
    BY <2>1, <2>2
<1> DEFINE p == e.parsed.p
           s == o.pattern
           t == pattern'
           i == Index(t, p)
<1>2. p \in Patterns
  BY SessionAssumption DEF IInv, Cached
<1>3. s \in Seq(Patterns) /\ Whole(s) /\ t = Stored(s, p)
  BY <1>1 DEF Fit
<1> HIDE DEF p, s, t
<1>4. t \in Seq(Patterns) /\ Whole(t) /\ Extends(s, t) /\ p \in ToSet(t)
  BY <1>2, <1>3, StoredWhole
<1>5. i \in 1 .. Len(t) /\ t[i] = p /\ i \in Nat
  BY <1>4, Indexed, LenProperties
<1> HIDE DEF i
<1>6. Kept'
  <2>1. \A m \in ToSet(o.memo) : Holds(t, m)
    BY <1>1, <1>4, HoldsStill DEF Fit, s
  <2> QED
    BY <1>1, <1>4, <2>1 DEF Kept, Fit, t
<1>7. e.rx \in Texts
  BY DEF Texts
<1> DEFINE n == Len(o.regex)
<1>8. /\ n \in Nat /\ regex' \in Seq(Texts) /\ Len(regex') = n + 1 /\ regex'[n + 1] = e.rx
      /\ \A k \in 1 .. n : regex'[k] = o.regex[k]
  BY <1>1, <1>7, AppendProperties, LenProperties DEF Fit
<1>9. r2p' = Append(o.r2p, <<n + 1, i>>) /\ o.r2p \in Seq(Nat \X Nat) /\ Len(o.r2p) = n
  BY <1>1, <1>8 DEF Fit, i, t, p
<1>10. /\ r2p' \in Seq(Nat \X Nat) /\ Len(r2p') = n + 1 /\ r2p'[n + 1] = <<n + 1, i>>
       /\ \A k \in 1 .. n : r2p'[k] = o.r2p[k]
  <2>1. <<n + 1, i>> \in Nat \X Nat
    BY <1>5, <1>8
  <2> QED
    BY <1>9, <2>1, AppendProperties
<1>11. \A k \in 1 .. n + 1 : r2p'[k][1] = k /\ Compiled(t, regex'[k], r2p'[k][2])
  <2> TAKE k \in 1 .. n + 1
  <2>1. CASE k = n + 1
    <3>1. \A f \in session.expressions : f.rx = e.rx => f.parsed.p = p
      <4>1. session \in Sessions
        BY DEF IInv, Cached
      <4>2. \A f \in session.expressions : f.rx = e.rx => f.parsed = e.parsed
        BY <4>1, SessionAssumption
      <4> QED
        BY <4>2 DEF p
    <3>2. Compiled(t, e.rx, i)
      BY <1>5, <3>1 DEF Compiled
    <3> QED
      BY <1>8, <1>10, <2>1, <3>2
  <2>2. CASE k \in 1 .. n
    <3>1. o.r2p[k][1] = k /\ Compiled(s, o.regex[k], o.r2p[k][2])
      BY <1>1, <1>9, <2>2 DEF Fit, s
    <3>2. Compiled(t, o.regex[k], o.r2p[k][2])
      BY <1>4, <3>1, CompiledStill
    <3> QED
      BY <1>8, <1>10, <2>2, <3>1, <3>2
  <2> QED
    BY <1>8, <2>1, <2>2
<1> HIDE DEF n
<1>12. Cached'
  BY <1>8, <1>10, <1>11 DEF IInv, Cached, Texts, Compiled, t
<1> QED
  BY <1>4, <1>6, <1>12 DEF t, p

LEMMA CompileKeeps ==
  ASSUME IInv, NEW e \in session.expressions, compile(e), session' = session
  PROVE  Kept' /\ Cached' /\ Compiles(e) = e.parsed.p /\ e.parsed.p \in ToSet(pattern')
<1>1. CASE compile_found(e)
  <2>1. e.rx \in ToSet(regex) /\ UNCHANGED tables
    BY <1>1 DEF compile_found
  <2>2. Kept' /\ Cached'
    BY <2>1 DEF tables, IInv, Kept, Cached, Texts, Compiled
  <2> QED
    BY <2>1, <2>2, FoundRight DEF tables
<1>2. CASE compile_new(e)
  <2>1. Compiles(e) = e.parsed.p
    BY <1>2 DEF compile_new, Compiles
  <2> QED
    BY <1>2, <2>1, CompileNew
<1> QED
  BY <1>1, <1>2 DEF compile

-----------------------------------------------------------------------------
(* The calls of the interface, and the loops.                              *)
LEMMA BetweenCalls ==
  ASSUME IInv, call = None
  PROVE  stack = <<>>
BY DEF IInv, Nested

LEMMA CheckKeeps ==
  ASSUME IInv, rx_check
  PROVE  IInv'
<1>1. call = None /\ UNCHANGED <<session, stack, call>>
  BY DEF rx_check, Begin
<1>2. PICK e \in session.expressions : compile(e)
  BY DEF rx_check
<1>3. Kept' /\ Cached'
  BY <1>1, <1>2, CompileKeeps
<1>4. stack = <<>>
  BY <1>1, BetweenCalls
<1>5. Reading' /\ Nested'
  BY <1>1, <1>4 DEF Reading, Nested
<1> QED
  BY <1>3, <1>5 DEF IInv

LEMMA Entered ==
  ASSUME IInv, NEW f \in session.functions, NEW e \in session.expressions,
         NEW s \in session.subjects, NEW p, NEW x, x = Enter(f, e, s, p)
  PROVE  /\ x.p = p /\ x.e = e /\ x.f = f /\ x.s = s /\ x.subject = s /\ x.at # "word"
         /\ p \in Patterns => x \in Running
<1>1. s \in Seq(Chars)
  BY SessionAssumption DEF IInv, Cached
<1>2. PICK at : at = IF f = "rx_cmatch" THEN "skip" ELSE "loop"
  OBVIOUS
<1>3. at \in Places /\ at # "word"
  BY <1>2 DEF Places
<1>4. x = [f |-> f, e |-> e, subject |-> s, p |-> p, s |-> s, u |-> None, at |-> at]
  BY <1>2 DEF Enter
<1>5. /\ f \in UNION {t.functions : t \in Sessions}
      /\ e \in UNION {t.expressions : t \in Sessions}
  BY DEF IInv, Cached
<1> QED
  BY <1>1, <1>3, <1>4, <1>5 DEF Running

LEMMA StartKeeps ==
  ASSUME IInv, start_match
  PROVE  IInv'
<1>1. call = None /\ UNCHANGED <<session, stack>>
  BY DEF start_match, Begin
<1>2. PICK f \in session.functions \ {"rx_check"}, e \in session.expressions,
           s \in session.subjects :
        /\ compile(e)
        /\ call' = Enter(f, e, s, Compiles(e)) \/ call' = None
  BY DEF start_match
<1>3. Kept' /\ Cached' /\ Compiles(e) \in ToSet(pattern')
  BY <1>1, <1>2, CompileKeeps
<1>4. stack = <<>>
  BY <1>1, BetweenCalls
<1>5. Nested'
  BY <1>1, <1>4 DEF Nested
<1>6. Reading'
  <2> DEFINE x == Enter(f, e, s, Compiles(e))
  <2>1. x.at # "word" /\ x \in Running /\ x.p \in ToSet(pattern')
    <3>1. Compiles(e) \in Patterns
      BY <1>3, Members DEF Kept
    <3> QED
      BY <1>3, <3>1, Entered
  <2> HIDE DEF x
  <2>2. call' = x \/ call' = None
    BY <1>2 DEF x
  <2> QED
    BY <1>1, <2>1, <2>2 DEF Reading
<1> QED
  BY <1>3, <1>5, <1>6 DEF IInv

(* A matching loop between two derivatives: what it may do to its call.    *)
Moves ==
  /\ stack = <<>> /\ call # None
  /\ \/ call' = None
     \/ \E s \in Seq(Chars), at \in Places, u \in Chars \cup {None} :
          /\ call' = [call EXCEPT !.s = s, !.at = at, !.u = u]
          /\ at = "word" => u \in Chars
  /\ \/ stack' = <<>>
     \/ call' # None /\ \E c \in Chars : stack' = <<Called(call.p, c)>>

LEMMA MovesKeep ==
  ASSUME IInv, Moves, Looping
  PROVE  IInv'
<1>1. UNCHANGED <<session, pattern, regex, r2p, memo>>
  BY DEF Looping, tables
<1>2. Kept' /\ Cached'
  BY <1>1 DEF IInv, Kept, Cached, Texts, Compiled
<1>3. Reading' /\ (call' # None => call'.p = call.p /\ call.p \in ToSet(pattern))
  <2>1. CASE call' = None
    BY <2>1 DEF Reading
  <2>2. CASE call' # None
    <3>1. PICK s \in Seq(Chars), at \in Places, u \in Chars \cup {None} :
            /\ call' = [call EXCEPT !.s = s, !.at = at, !.u = u]
            /\ at = "word" => u \in Chars
      BY <2>2 DEF Moves
    <3>2. call \in Running /\ call.p \in ToSet(pattern)
      BY DEF Moves, IInv, Reading
    <3>3. /\ call' \in Running
          /\ call'.at = at /\ call'.u = u /\ call'.p = call.p
      BY <3>1, <3>2 DEF Running
    <3> QED
      BY <1>1, <3>1, <3>2, <3>3 DEF Reading
  <2> QED
    BY <2>1, <2>2
<1>4. Nested'
  <2>1. CASE stack' = <<>>
    BY <2>1 DEF Nested
  <2>2. CASE stack' # <<>>
    <3>1. PICK c \in Chars : call' # None /\ stack' = <<Called(call.p, c)>>
      BY <2>2 DEF Moves
    <3> DEFINE g == Called(call.p, c)
    <3>2. g.got = None /\ g.p = call.p /\ g \in Frames(pattern)
      BY <1>3, <3>1 DEF Called, Frames, Gots
    <3> HIDE DEF g
    <3>3. stack' = <<g>>
      BY <3>1 DEF g
    <3>4. stack' \in Seq(Frames(pattern')) /\ Len(stack') = 1 /\ stack'[1] = g
      BY <1>1, <3>2, <3>3
    <3> QED
      BY <1>3, <3>1, <3>2, <3>4 DEF Nested
  <2> QED
    BY <2>1, <2>2
<1> QED
  BY <1>2, <1>3, <1>4 DEF IInv

(* The characters a loop derives by, and those it has still to read.       *)
LEMMA Spaced ==
  ASSUME NEW u \in Chars
  PROVE  Space(u) \in Chars
BY LimitAssumption DEF Space

LEMMA Remaining ==
  ASSUME IInv, call # None
  PROVE  /\ call.s \in Seq(Chars)
         /\ call.s # <<>> => Head(call.s) \in Chars /\ Tail(call.s) \in Seq(Chars)
         /\ call.at = "word" => call.u \in Chars
<1>1. call.s \in Seq(Chars) /\ (call.at = "word" => call.u \in Chars)
  BY DEF IInv, Reading, Running
<1>2. call.s # <<>> => Head(call.s) \in Chars /\ Tail(call.s) \in Seq(Chars)
  BY <1>1, HeadTailProperties
<1> QED
  BY <1>1, <1>2

Gone(s, at, u) ==
  s \in Seq(Chars) /\ at \in Places /\ u \in Chars \cup {None} /\ (at = "word" => u \in Chars)

LEMMA MoveOn ==
  ASSUME stack = <<>>, call # None, NEW s, NEW at, NEW u, Gone(s, at, u), Going(s, at, u),
         NEW c \in Chars, stack' = <<>> \/ (stack' = <<Called(call.p, c)>> /\ call' # None)
  PROVE  Moves
BY DEF Gone, Going, Moves

LEMMA MoveOut ==
  ASSUME stack = <<>>, call # None, NEW v, Return(v), UNCHANGED stack
  PROVE  Moves
BY DEF Return, Moves

LEMMA Recorded ==
  ASSUME IInv, call # None, NEW s, NEW at, NEW u, Gone(s, at, u), Going(s, at, u)
  PROVE  call' # None
<1>1. call \in Running /\ session \in Sessions
  BY DEF IInv, Reading, Cached
<1>2. call' = [call EXCEPT !.s = s, !.at = at, !.u = u]
  BY DEF Going
<1>3. call' \in Running
  BY <1>1, <1>2 DEF Gone, Running
<1> QED
  BY <1>1, <1>3, SessionAssumption

LEMMA LoopMoves ==
  ASSUME IInv,
         \/ match_end \/ match_next
         \/ skip_space \/ cmatch_fail \/ cmatch_space \/ cmatch_spaced \/ cmatch_trail
         \/ cmatch_next \/ cmatch_derived
  PROVE  Moves /\ Looping
<1>1. stack = <<>> /\ call # None
  BY DEF match_end, match_next, skip_space, cmatch_fail, cmatch_space, cmatch_spaced,
         cmatch_trail, cmatch_next, cmatch_derived, In
<1>2. /\ call.s \in Seq(Chars)
      /\ call.s # <<>> => Head(call.s) \in Chars /\ Tail(call.s) \in Seq(Chars)
      /\ call.at = "word" => call.u \in Chars
  BY <1>1, Remaining
<1>3. /\ "loop" \in Places /\ "skip" \in Places /\ "spaced" \in Places /\ "word" \in Places
      /\ "trail" \in Places /\ "derived" \in Places /\ " " \in Chars
  BY LimitAssumption DEF Places
(* What is left to show of each step: where it goes, and by which          *)
(* character it derives, if any.                                           *)
<1>4. ASSUME NEW s, NEW at, NEW u, Gone(s, at, u), Going(s, at, u), Underived
      PROVE  Moves
  <2>1. stack' = <<>>
    BY <1>1, <1>4 DEF Underived
  <2> QED
    BY <1>1, <1>3, <1>4, <2>1, MoveOn
<1>5. ASSUME NEW s, NEW at, NEW u, Gone(s, at, u), Going(s, at, u), NEW c \in Chars, Derive(c)
      PROVE  Moves
  <2>1. stack' = <<Called(call.p, c)>>
    BY <1>5 DEF Derive
  <2>2. call' # None
    BY <1>1, <1>5, Recorded
  <2> QED
    BY <1>1, <1>5, <2>1, <2>2, MoveOn
<1>6. ASSUME NEW v, Return(v), Underived
      PROVE  Moves
  BY <1>1, <1>6, MoveOut DEF Underived
<1>7. CASE match_end
  BY <1>6, <1>7 DEF match_end
<1>8. CASE match_next
  <2>1. call.s # <<>> /\ Looping /\ Going(Tail(call.s), "loop", None)
    BY <1>8 DEF match_next
  <2>2. PICK c : c = (IF call.f = "rx_rmatch" THEN Space(Head(call.s)) ELSE Head(call.s))
    OBVIOUS
  <2>3. c \in Chars /\ Derive(c)
    BY <1>2, <1>8, <2>1, <2>2, Spaced DEF match_next
  <2>4. Gone(Tail(call.s), "loop", None)
    BY <1>2, <1>3, <2>1 DEF Gone
  <2> QED
    BY <1>5, <2>1, <2>3, <2>4
<1>9. CASE skip_space
  <2>1. CASE call.s = <<>>
    BY <1>6, <1>9, <2>1 DEF skip_space
  <2>2. CASE call.s # <<>>
    <3>1. PICK at : at = IF Head(call.s) \in White THEN "skip" ELSE "word"
      OBVIOUS
    <3>2. Going(Tail(call.s), at, Head(call.s)) /\ Underived /\ Looping
      BY <1>9, <2>2, <3>1 DEF skip_space
    <3>3. Gone(Tail(call.s), at, Head(call.s))
      BY <1>2, <1>3, <2>2, <3>1 DEF Gone
    <3> QED
      BY <1>4, <3>2, <3>3
  <2> QED
    BY <2>1, <2>2
<1>10. CASE cmatch_fail
  BY <1>6, <1>10 DEF cmatch_fail
<1>11. CASE cmatch_space
  <2>1. Gone(call.s, "spaced", None)
    BY <1>2, <1>3 DEF Gone
  <2> QED
    BY <1>3, <1>5, <1>11, <2>1 DEF cmatch_space
<1>12. CASE cmatch_spaced
  <2>1. PICK at : at = IF call.p # P_NOT_ALLOWED THEN "skip" ELSE "trail"
    OBVIOUS
  <2>2. Going(call.s, at, None) /\ Underived /\ Looping
    BY <1>12, <2>1 DEF cmatch_spaced
  <2>3. Gone(call.s, at, None)
    BY <1>2, <1>3, <2>1 DEF Gone
  <2> QED
    BY <1>4, <2>2, <2>3
<1>13. CASE cmatch_trail
  <2>1. Underived /\ Looping
    BY <1>13 DEF cmatch_trail
  <2>2. CASE call.s # <<>> /\ Head(call.s) \in White
    <3>1. Going(Tail(call.s), "trail", None)
      BY <1>13, <2>2 DEF cmatch_trail
    <3>2. Gone(Tail(call.s), "trail", None)
      BY <1>2, <1>3, <2>2 DEF Gone
    <3> QED
      BY <1>4, <2>1, <3>1, <3>2
  <2>3. CASE ~(call.s # <<>> /\ Head(call.s) \in White)
    <3>1. Return(1) \/ Return(0)
      BY <1>13, <2>3 DEF cmatch_trail
    <3> QED
      BY <1>6, <2>1, <3>1
  <2> QED
    BY <2>2, <2>3
<1>14. CASE cmatch_next
  <2>1. Gone(call.s, "derived", None) /\ call.u \in Chars
    BY <1>2, <1>3, <1>14 DEF Gone, cmatch_next, In
  <2> QED
    BY <1>5, <1>14, <2>1 DEF cmatch_next
<1>15. CASE cmatch_derived
  <2>1. CASE call.s = <<>>
    <3>1. Going(<<>>, "skip", None) /\ Underived /\ Looping
      BY <1>15, <2>1 DEF cmatch_derived
    <3>2. Gone(<<>>, "skip", None)
      BY <1>2, <1>3, <2>1 DEF Gone
    <3> QED
      BY <1>4, <3>1, <3>2
  <2>2. CASE call.s # <<>>
    <3>1. Going(Tail(call.s), "word", Head(call.s)) /\ Underived /\ Looping
      BY <1>15, <2>2 DEF cmatch_derived
    <3>2. Gone(Tail(call.s), "word", Head(call.s))
      BY <1>2, <1>3, <2>2 DEF Gone
    <3> QED
      BY <1>4, <3>1, <3>2
  <2> QED
    BY <2>1, <2>2
<1> QED
  BY <1>7, <1>8, <1>9, <1>10, <1>11, <1>12, <1>13, <1>14, <1>15

LEMMA InitIInv == Init => IInv
<1> SUFFICES ASSUME Init PROVE IInv
  OBVIOUS
<1>1. /\ pattern = Windup /\ regex = <<>> /\ r2p = <<>> /\ memo = <<>> /\ session \in Sessions
      /\ call = None /\ stack = <<>>
  BY DEF Init
<1>2. Kept /\ Cached
  BY <1>1, ClearFits, WindupWhole DEF Fit, rx_clear, Kept, Cached
<1>3. Reading /\ Nested
  BY <1>1 DEF Reading, Nested
<1> QED
  BY <1>2, <1>3 DEF IInv

LEMMA StepIInv == IInv /\ [Next]_vars => IInv'
<1> SUFFICES ASSUME IInv, [Next]_vars PROVE IInv'
  OBVIOUS
<1>1. CASE rx_check
  BY <1>1, CheckKeeps
<1>2. CASE start_match
  BY <1>2, StartKeeps
<1>3. CASE \/ match_end \/ match_next
           \/ skip_space \/ cmatch_fail \/ cmatch_space \/ cmatch_spaced \/ cmatch_trail
           \/ cmatch_next \/ cmatch_derived
  BY <1>3, LoopMoves, MovesKeep
<1>4. CASE drv_found
  BY <1>4, FoundKeeps
<1>5. CASE drv_enters
  BY <1>5, EntersKeeps
<1>6. CASE drv_asks
  BY <1>6, AsksKeeps
<1>7. CASE drv_returns
  BY <1>7, ReturnsKeeps
<1>8. CASE UNCHANGED vars
  BY <1>8 DEF vars, IInv, Kept, Cached, Texts, Compiled, Reading, Running, Nested, Top, Pop, Awaits
<1> QED
  BY <1>1, <1>2, <1>3, <1>4, <1>5, <1>6, <1>7, <1>8 DEF Next

-----------------------------------------------------------------------------
(* However the calls of the interface and those of drv follow each other,  *)
(* the store is whole, what is kept is about it, and every call of drv in  *)
(* progress knows derivatives only.                                        *)
THEOREM InvariantKept == Spec => []IInv
BY InitIInv, StepIInv, PTL DEF Spec

(* Whatever was compiled, matched, forgotten or cleared before, a row of   *)
(* the memo of drv gives the derivative of the pattern that has its index  *)
(* now.                                                                    *)
THEOREM MemoKept == Spec => []MemoOfThisStore
<1>1. IInv => MemoOfThisStore
  <2> SUFFICES ASSUME IInv, NEW m \in ToSet(memo)
               PROVE  /\ {m.p, m.ret} \subseteq DOMAIN pattern
                      /\ pattern[m.ret] = after_char(pattern[m.p], m.c)
    BY DEF MemoOfThisStore
  <2>1. Holds(pattern, m) /\ DOMAIN pattern = 1 .. Len(pattern)
    BY DEF IInv, Kept
  <2> QED
    BY <2>1 DEF Holds
<1> QED
  BY <1>1, InvariantKept, PTL

(* ... and an expression that is found among the compiled ones is answered *)
(* with the pattern that compiling it again would give.                    *)
THEOREM CacheKept == Spec => []CacheOfThisStore
<1>1. IInv => CacheOfThisStore
  <2> SUFFICES ASSUME IInv, NEW x \in ToSet(r2p)
               PROVE  /\ x[1] \in DOMAIN regex /\ x[2] \in DOMAIN pattern
                      /\ \A e \in session.expressions :
                           e.rx = regex[x[1]] => pattern[x[2]] = e.parsed.p
    BY DEF CacheOfThisStore
  <2>1. /\ regex \in Seq(Texts) /\ r2p \in Seq(Nat \X Nat) /\ Len(r2p) = Len(regex)
        /\ pattern \in Seq(Patterns)
    BY DEF IInv, Cached, Kept
  <2>2. PICK i \in 1 .. Len(r2p) : r2p[i] = x
    BY <2>1, Members
  <2>3. x[1] = i /\ Compiled(pattern, regex[i], x[2])
    BY <2>2 DEF IInv, Cached
  <2> QED
    BY <2>1, <2>2, <2>3 DEF Compiled
<1> QED
  BY <1>1, InvariantKept, PTL

-----------------------------------------------------------------------------
(* rx_match and rx_rmatch: the characters as they read them, and the       *)
(* derivatives of an expression by the first n of them, one after another. *)
Read(f, u) == IF f = "rx_rmatch" THEN Space(u) ELSE u

Chain(c, n, d) ==
  /\ n \in 0 .. Len(c.subject) /\ d \in [0 .. n -> Patterns]
  /\ d[0] = c.e.parsed.p
  /\ \A i \in 1 .. n : d[i] = after_char(d[i - 1], Read(c.f, c.subject[i]))

(* The loop has the pattern that is left when the characters before those  *)
(* it has not read are taken away.                                         *)
Rest(c, n) ==
  Len(c.s) = Len(c.subject) - n /\ \A i \in 1 .. Len(c.s) : c.s[i] = c.subject[n + i]

Follows(n, d) ==
  Chain(call, n, d) /\ Rest(call, n) /\ d[n] = Outcome

Followed ==
  call # None /\ call.f # "rx_cmatch" =>
    /\ call.at = "loop"
    /\ \E n \in Nat : \E d \in [0 .. n -> Patterns] : Follows(n, d)

LEMMA ProceedsFollowed ==
  ASSUME IInv, Followed, stack # <<>>, Proceeds
  PROVE  Followed'
<1>1. call # None
  BY DEF IInv, Nested
<1>2. CASE call.f = "rx_cmatch"
  BY <1>2 DEF Proceeds, Followed
<1>3. CASE call.f # "rx_cmatch"
  <2>1. PICK n \in Nat : call.at = "loop" /\ \E d \in [0 .. n -> Patterns] : Follows(n, d)
    BY <1>1, <1>3 DEF Followed
  <2>2. PICK d \in [0 .. n -> Patterns] : Follows(n, d)
    BY <2>1
  <2>3. Follows(n, d)' /\ call'.at = "loop"
    BY <2>1, <2>2 DEF Proceeds, Follows, Chain, Rest
  <2> QED
    BY <2>3 DEF Followed
<1> QED
  BY <1>2, <1>3

LEMMA StartFollowed ==
  ASSUME IInv, start_match
  PROVE  Followed'
<1>1. call = None /\ UNCHANGED <<session, stack>>
  BY DEF start_match, Begin
<1>2. PICK f \in session.functions \ {"rx_check"}, e \in session.expressions,
           s \in session.subjects :
        /\ compile(e)
        /\ call' = Enter(f, e, s, Compiles(e)) \/ call' = None
  BY DEF start_match
<1> DEFINE x == Enter(f, e, s, Compiles(e))
<1>3. /\ Compiles(e) = e.parsed.p /\ e.parsed.p \in Patterns
      /\ s \in Seq(Chars)
  BY <1>1, <1>2, CompileKeeps, SessionAssumption DEF IInv, Cached
<1>4. /\ x.f = f /\ x.e = e /\ x.p = e.parsed.p /\ x.s = s /\ x.subject = s
      /\ f # "rx_cmatch" => x.at = "loop"
  BY <1>3 DEF Enter
<1> HIDE DEF x
<1>5. call' = x \/ call' = None
  BY <1>2 DEF x
<1>6. CASE call' = None \/ f = "rx_cmatch"
  BY <1>4, <1>5, <1>6 DEF Followed
<1>7. CASE call' # None /\ f # "rx_cmatch"
  <2> DEFINE d == [i \in 0 .. 0 |-> e.parsed.p]
  <2>1. call' = x /\ call'.at = "loop"
    BY <1>4, <1>5, <1>7
  <2>2. d \in [0 .. 0 -> Patterns] /\ d[0] = e.parsed.p /\ Len(s) \in Nat
    BY <1>3, LenProperties
  <2> HIDE DEF d
  <2>3. Chain(x, 0, d) /\ Rest(x, 0)
    BY <1>4, <2>2 DEF Chain, Rest
  <2>4. Outcome' = e.parsed.p
    BY <1>1, <1>4, <2>1, BetweenCalls DEF Outcome
  <2>5. Follows(0, d)'
    BY <2>1, <2>2, <2>3, <2>4 DEF Follows
  <2> QED
    BY <2>1, <2>2, <2>5 DEF Followed
<1> QED
  BY <1>6, <1>7

LEMMA NextFollowed ==
  ASSUME IInv, Followed, match_next
  PROVE  Followed'
<1>1. /\ call # None /\ stack = <<>> /\ call.s # <<>> /\ call \in Running
      /\ Going(Tail(call.s), "loop", None)
  BY DEF match_next, In, IInv, Reading
<1>2. PICK u : u = Read(call.f, Head(call.s))
  OBVIOUS
<1>3. stack' = <<Called(call.p, u)>>
  BY <1>2 DEF match_next, Derive, Read
<1>4. /\ call.s \in Seq(Chars) /\ Head(call.s) \in Chars /\ call.p \in Patterns
  BY <1>1, Remaining DEF Running
<1>5. u \in Chars
  BY <1>2, <1>4, Spaced DEF Read
<1>6. /\ call'.f = call.f /\ call'.e = call.e /\ call'.subject = call.subject
      /\ call'.s = Tail(call.s) /\ call'.at = "loop" /\ call'.p = call.p
  BY <1>1 DEF Going, Running
<1>7. CASE call.f = "rx_cmatch"
  BY <1>6, <1>7 DEF Followed
<1>8. CASE call.f # "rx_cmatch"
  <2>1. PICK n \in Nat : \E d \in [0 .. n -> Patterns] : Follows(n, d)
    BY <1>1, <1>8 DEF Followed
  <2>2. PICK d \in [0 .. n -> Patterns] : Follows(n, d)
    BY <2>1
  <2>3. d[n] = call.p
    BY <1>1, <2>2 DEF Follows, Outcome
  <2> DEFINE v == after_char(call.p, u)
  <2>4. v \in Patterns
    BY <1>4, <1>5, DerivativeAssumption
  <2>5. Outcome' = v
    BY <1>3 DEF Outcome, Called
  <2>6. /\ Len(call.s) \in Nat /\ Len(call.s) >= 1 /\ Tail(call.s) \in Seq(Chars)
        /\ Len(Tail(call.s)) = Len(call.s) - 1 /\ Head(call.s) = call.s[1]
        /\ \A i \in 1 .. Len(call.s) - 1 : Tail(call.s)[i] = call.s[i + 1]
    BY <1>1, <1>4, HeadTailProperties, LenProperties, EmptySeq
  <2>7. /\ Len(call.subject) \in Nat /\ Len(call.s) = Len(call.subject) - n
        /\ \A i \in 1 .. Len(call.s) : call.s[i] = call.subject[n + i]
    BY <1>1, <2>2, LenProperties DEF Follows, Rest, Running
  <2> HIDE DEF v
  <2>8. PICK x \in [0 .. n + 1 -> Patterns] : x[n + 1] = v /\ \A i \in 0 .. n : x[i] = d[i]
    <3> DEFINE y == [i \in 0 .. n + 1 |-> IF i = n + 1 THEN v ELSE d[i]]
    <3>1. y \in [0 .. n + 1 -> Patterns] /\ y[n + 1] = v /\ \A i \in 0 .. n : y[i] = d[i]
      BY <2>4
    <3> HIDE DEF y
    <3> QED
      BY <3>1
  <2>9. n + 1 \in 0 .. Len(call.subject) /\ u = Read(call.f, call.subject[n + 1])
    BY <1>2, <2>6, <2>7
  <2>10. \A i \in 1 .. n + 1 : x[i] = after_char(x[i - 1], Read(call.f, call.subject[i]))
    <3> TAKE i \in 1 .. n + 1
    <3>1. CASE i = n + 1
      BY <2>3, <2>8, <2>9, <3>1 DEF v
    <3>2. CASE i \in 1 .. n
      <4>1. i \in 0 .. n /\ i - 1 \in 0 .. n
        BY <3>2
      <4>2. d[i] = after_char(d[i - 1], Read(call.f, call.subject[i]))
        BY <2>2, <3>2 DEF Follows, Chain
      <4> QED
        BY <2>8, <4>1, <4>2
    <3> QED
      BY <3>1, <3>2
  <2>11. x[0] = call.e.parsed.p
    BY <2>2, <2>8 DEF Follows, Chain
  <2>12. Chain(call', n + 1, x)
    BY <1>6, <2>8, <2>9, <2>10, <2>11 DEF Chain
  <2>13. Rest(call', n + 1)
    <3>1. Len(call'.s) = Len(call.subject) - (n + 1)
      BY <1>6, <2>6, <2>7
    <3>2. \A i \in 1 .. Len(call'.s) : call'.s[i] = call.subject[(n + 1) + i]
      <4> TAKE i \in 1 .. Len(call'.s)
      <4>1. i \in 1 .. Len(call.s) - 1 /\ i + 1 \in 1 .. Len(call.s) /\ n + (i + 1) = (n + 1) + i
        BY <1>6, <2>6
      <4> QED
        BY <1>6, <2>6, <2>7, <4>1
    <3> QED
      BY <1>6, <3>1, <3>2 DEF Rest
  <2>14. Follows(n + 1, x)'
    BY <2>5, <2>8, <2>12, <2>13 DEF Follows
  <2> QED
    BY <1>6, <2>8, <2>14 DEF Followed
<1> QED
  BY <1>7, <1>8

LEMMA StepFollowed ==
  ASSUME IInv, Followed, [Next]_vars
  PROVE  Followed'
<1>1. CASE drv_found \/ drv_enters \/ drv_asks \/ drv_returns
  <2>1. stack # <<>>
    BY <1>1 DEF drv_found, drv_enters, drv_asks, drv_returns, Entering, Switching
  <2>2. Proceeds
    BY <1>1, FoundKeeps, EntersKeeps, AsksKeeps, ReturnsKeeps
  <2> QED
    BY <2>1, <2>2, ProceedsFollowed
<1>2. CASE rx_check
  BY <1>2 DEF rx_check, Begin, Followed
<1>3. CASE start_match
  BY <1>3, StartFollowed
<1>4. CASE match_end
  BY <1>4 DEF match_end, Return, Followed
<1>5. CASE match_next
  BY <1>5, NextFollowed
<1>6. CASE \/ skip_space \/ cmatch_fail \/ cmatch_space \/ cmatch_spaced \/ cmatch_trail
           \/ cmatch_next \/ cmatch_derived
  <2>1. call # None /\ call.at # "loop"
    BY <1>6 DEF skip_space, cmatch_fail, cmatch_space, cmatch_spaced, cmatch_trail, cmatch_next,
                cmatch_derived, In
  <2>2. call.f = "rx_cmatch"
    BY <2>1 DEF Followed
  <2>3. call' = None \/ \E s, at, u : call' = [call EXCEPT !.s = s, !.at = at, !.u = u]
    BY <1>6, LoopMoves DEF Moves
  <2>4. call \in Running
    BY <2>1 DEF IInv, Reading
  <2>5. call' = None \/ call'.f = call.f
    BY <2>3, <2>4 DEF Running
  <2> QED
    BY <2>2, <2>5 DEF Followed
<1>7. CASE UNCHANGED vars
  BY <1>7 DEF vars, Followed, Follows, Chain, Rest, Outcome
<1> QED
  BY <1>1, <1>2, <1>3, <1>4, <1>5, <1>6, <1>7 DEF Next

(* What rx_match and rx_rmatch answer.                                     *)
Answered ==
  call # None /\ call.f # "rx_cmatch" /\ call' = None =>
    \E n \in Nat : \E d \in [0 .. n -> Patterns] :
      /\ Chain(call, n, d)
      /\ n = Len(call.subject) \/ d[n] = P_NOT_ALLOWED
      /\ ret' = Returned(call, Verdict(d[n]))

LEMMA StepAnswered ==
  ASSUME IInv, Followed, [Next]_vars
  PROVE  Answered
<1> SUFFICES ASSUME call # None, call.f # "rx_cmatch", call' = None
             PROVE  \E n \in Nat : \E d \in [0 .. n -> Patterns] :
                      /\ Chain(call, n, d)
                      /\ n = Len(call.subject) \/ d[n] = P_NOT_ALLOWED
                      /\ ret' = Returned(call, Verdict(d[n]))
  BY DEF Answered
<1>1. call.at = "loop"
  BY DEF Followed
<1>2. match_end
  <2>1. CASE drv_found \/ drv_enters \/ drv_asks \/ drv_returns
    BY <2>1, FoundKeeps, EntersKeeps, AsksKeeps, ReturnsKeeps DEF Proceeds
  <2>2. CASE rx_check \/ start_match
    BY <2>2 DEF rx_check, start_match, Begin
  <2>3. CASE match_next
    <3>1. In("loop") /\ Going(Tail(call.s), "loop", None) /\ call.s # <<>>
      BY <2>3 DEF match_next
    <3>2. Gone(Tail(call.s), "loop", None)
      BY <3>1, Remaining DEF Gone, Places
    <3> QED
      BY <3>1, <3>2, Recorded
  <2>4. CASE \/ skip_space \/ cmatch_fail \/ cmatch_space \/ cmatch_spaced \/ cmatch_trail
             \/ cmatch_next \/ cmatch_derived
    BY <1>1, <2>4 DEF skip_space, cmatch_fail, cmatch_space, cmatch_spaced, cmatch_trail,
                      cmatch_next, cmatch_derived, In
  <2>5. CASE UNCHANGED vars
    BY <2>5 DEF vars
  <2> QED
    BY <2>1, <2>2, <2>3, <2>4, <2>5 DEF Next
<1>3. PICK n \in Nat : \E d \in [0 .. n -> Patterns] : Follows(n, d)
  BY DEF Followed
<1>4. PICK d \in [0 .. n -> Patterns] : Follows(n, d)
  BY <1>3
<1>5. stack = <<>> /\ (call.p = P_NOT_ALLOWED \/ call.s = <<>>) /\ ret' = Returned(call, Verdict(call.p))
  BY <1>2 DEF match_end, In, Return
<1>6. d[n] = call.p /\ Chain(call, n, d) /\ Len(call.s) = Len(call.subject) - n
  BY <1>4, <1>5 DEF Follows, Outcome, Rest
<1>7. call.s = <<>> => n = Len(call.subject)
  <2>1. Len(call.subject) \in Nat
    BY LenProperties DEF IInv, Reading, Running
  <2> QED
    BY <1>6, <2>1, EmptySeq
<1> QED
  BY <1>5, <1>6, <1>7

(* A call of rx_match or rx_rmatch that compiles answers whether the empty *)
(* text is in the derivative of its expression by all characters of its    *)
(* subject, or ends before with the pattern that nothing matches; that the *)
(* derivatives come from the memo, and the pattern of the expression from  *)
(* the table, where they can, makes no difference.                         *)
THEOREM AnswerOfDerivatives == Spec => [][Answered]_vars
<1>1. Init => IInv /\ Followed
  BY InitIInv DEF Init, Followed
<1>2. IInv /\ Followed /\ [Next]_vars => (IInv /\ Followed)'
  BY StepIInv, StepFollowed
<1>3. IInv /\ Followed /\ [Next]_vars => [Answered]_vars
  BY StepAnswered
<1> QED
  BY <1>1, <1>2, <1>3, PTL DEF Spec

-----------------------------------------------------------------------------
(* rx_cmatch: the derivatives of an expression e by the first m characters *)
(* of s, where a character is taken if it is not white space, or follows   *)
(* one that is not, and is then read as a space.                           *)
Keeps(s, i) == s[i] \notin White \/ (i > 1 /\ s[i - 1] \notin White)
Taken(s, i, p) == IF Keeps(s, i) THEN after_char(p, Space(s[i])) ELSE p

Collapse(e, s, m, d) ==
  /\ m \in 0 .. Len(s) /\ d \in [0 .. m -> Patterns]
  /\ d[0] = e.parsed.p
  /\ \A i \in 1 .. m : d[i] = Taken(s, i, d[i - 1])

(* Nothing matches any more, from the k-th character on.                   *)
Lost(d, k) == d[k - 1] # P_NOT_ALLOWED /\ d[k] = P_NOT_ALLOWED
Clean(s, m, d) == \A k \in 1 .. m : Lost(d, k) => s[k] \notin White

(* Where the function is when m characters of the subject are taken or     *)
(* dropped, and o is the pattern that it has or waits for.                 *)
Skips(s, m, d) == Clean(s, m, d) /\ (m = 0 \/ s[m] \in White \/ m = Len(s))
InWord(s, m, d, u) ==
  /\ Clean(s, m, d) /\ m + 1 \in 1 .. Len(s) /\ u = s[m + 1]
  /\ u \in White => m > 0 /\ s[m] \notin White
SpaceRead(s, m, d) ==
  m > 0 /\ s[m] \in White /\ d[m - 1] # P_NOT_ALLOWED /\ Clean(s, m - 1, d)
Trails(s, m, d) ==
  /\ m > 0 /\ s[m] \in White /\ d[m] = P_NOT_ALLOWED
  /\ \E k \in 1 .. m : Lost(d, k) /\ \A j \in k .. m : s[j] \in White
WordRead(s, m, d) == m > 0 /\ s[m] \notin White /\ Clean(s, m, d)

Stage(c, o, m, d) ==
  /\ Collapse(c.e, c.subject, m, d) /\ d[m] = o
  /\ Rest(c, IF c.at = "word" THEN m + 1 ELSE m)
  /\ c.at \in {"skip", "word", "spaced", "trail", "derived"}
  /\ c.at = "skip" => Skips(c.subject, m, d)
  /\ c.at = "word" => InWord(c.subject, m, d, c.u)
  /\ c.at = "spaced" => SpaceRead(c.subject, m, d)
  /\ c.at = "trail" => Trails(c.subject, m, d)
  /\ c.at = "derived" => WordRead(c.subject, m, d)

Staged(c, o) == \E m \in Nat : \E d \in [0 .. m -> Patterns] : Stage(c, o, m, d)

Collapsed == call # None /\ call.f = "rx_cmatch" => Staged(call, Outcome)

(* One more character, taken or dropped.                                   *)
Longer(e, s, m, d, x) ==
  /\ Collapse(e, s, m + 1, x) /\ x[m + 1] = Taken(s, m + 1, d[m])
  /\ \A i \in 0 .. m : x[i] = d[i]

LEMMA OneMore ==
  ASSUME NEW s \in Seq(Chars), NEW e, NEW m \in Nat, NEW d, Collapse(e, s, m, d), m + 1 \in 1 .. Len(s)
  PROVE  \E x \in [0 .. m + 1 -> Patterns] : Longer(e, s, m, d, x)
<1>1. d \in [0 .. m -> Patterns] /\ d[m] \in Patterns /\ m + 1 \in 0 .. Len(s)
  BY DEF Collapse
<1>2. s[m + 1] \in Chars
  BY ElementOfSeq
<1>3. Space(s[m + 1]) \in Chars
  BY <1>2, Spaced
<1>4. PICK v \in Patterns : v = Taken(s, m + 1, d[m])
  BY <1>1, <1>3, DerivativeAssumption DEF Taken
<1>5. PICK x \in [0 .. m + 1 -> Patterns] : x[m + 1] = v /\ \A i \in 0 .. m : x[i] = d[i]
  <2> DEFINE y == [i \in 0 .. m + 1 |-> IF i = m + 1 THEN v ELSE d[i]]
  <2>1. y \in [0 .. m + 1 -> Patterns] /\ y[m + 1] = v /\ \A i \in 0 .. m : y[i] = d[i]
    BY <1>1
  <2> HIDE DEF y
  <2> QED
    BY <2>1
<1>6. \A i \in 1 .. m + 1 : x[i] = Taken(s, i, x[i - 1])
  <2> TAKE i \in 1 .. m + 1
  <2>1. CASE i = m + 1
    <3>1. i - 1 = m /\ m \in 0 .. m
      BY <2>1
    <3> QED
      BY <1>4, <1>5, <2>1, <3>1
  <2>2. CASE i \in 1 .. m
    <3>1. i \in 0 .. m /\ i - 1 \in 0 .. m
      BY <2>2
    <3>2. d[i] = Taken(s, i, d[i - 1])
      BY <2>2 DEF Collapse
    <3> QED
      BY <1>5, <3>1, <3>2
  <2> QED
    BY <2>1, <2>2
<1>7. x[0] = e.parsed.p
  BY <1>5 DEF Collapse
<1>8. Collapse(e, s, m + 1, x)
  BY <1>1, <1>5, <1>6, <1>7 DEF Collapse
<1> QED
  BY <1>4, <1>5, <1>8 DEF Longer

(* What was clean stays so, and is while nothing is lost by a space.       *)
LEMMA CleanStill ==
  ASSUME NEW s, NEW m \in Nat, NEW d, NEW x, Clean(s, m, d), \A i \in 0 .. m : x[i] = d[i]
  PROVE  Clean(s, m, x)
<1> SUFFICES ASSUME NEW k \in 1 .. m, Lost(x, k) PROVE s[k] \notin White
  BY DEF Clean
<1>1. k \in 0 .. m /\ k - 1 \in 0 .. m
  OBVIOUS
<1> QED
  BY <1>1 DEF Clean, Lost

LEMMA CleanMore ==
  ASSUME NEW s, NEW m \in Nat, NEW d, Clean(s, m, d), Lost(d, m + 1) => s[m + 1] \notin White
  PROVE  Clean(s, m + 1, d)
<1> SUFFICES ASSUME NEW k \in 1 .. m + 1, Lost(d, k) PROVE s[k] \notin White
  BY DEF Clean
<1>1. k = m + 1 \/ k \in 1 .. m
  OBVIOUS
<1> QED
  BY <1>1 DEF Clean

(* The next character that a call in progress reads.                       *)
LEMMA ReadsNext ==
  ASSUME NEW c \in Running, NEW r \in Nat, Rest(c, r)
  PROVE  /\ Len(c.subject) \in Nat /\ c.subject \in Seq(Chars)
         /\ c.s = <<>> <=> r = Len(c.subject)
         /\ c.s # <<>> => /\ r + 1 \in 1 .. Len(c.subject) /\ Head(c.s) = c.subject[r + 1]
                          /\ \A t : t.subject = c.subject /\ t.s = Tail(c.s) => Rest(t, r + 1)
<1>1. c.s \in Seq(Chars) /\ c.subject \in Seq(Chars)
  BY DEF Running
<1>2. Len(c.s) \in Nat /\ Len(c.subject) \in Nat /\ (c.s = <<>> <=> Len(c.s) = 0)
  BY <1>1, LenProperties, EmptySeq
<1>3. Len(c.s) = Len(c.subject) - r /\ \A i \in 1 .. Len(c.s) : c.s[i] = c.subject[r + i]
  BY DEF Rest
<1>4. ASSUME c.s # <<>>
      PROVE  /\ r + 1 \in 1 .. Len(c.subject) /\ Head(c.s) = c.subject[r + 1]
             /\ \A t : t.subject = c.subject /\ t.s = Tail(c.s) => Rest(t, r + 1)
  <2>1. Len(c.s) >= 1
    BY <1>2, <1>4
  <2>2. r + 1 \in 1 .. Len(c.subject) /\ 1 \in 1 .. Len(c.s)
    BY <1>2, <1>3, <2>1
  <2>3. /\ Head(c.s) = c.s[1] /\ Len(Tail(c.s)) = Len(c.s) - 1
        /\ \A i \in 1 .. Len(c.s) - 1 : Tail(c.s)[i] = c.s[i + 1]
    BY <1>1, <1>4, HeadTailProperties
  <2>4. ASSUME NEW t, t.subject = c.subject, t.s = Tail(c.s)
        PROVE  Rest(t, r + 1)
    <3>1. Len(t.s) = Len(t.subject) - (r + 1)
      BY <1>2, <1>3, <2>3, <2>4
    <3>2. ASSUME NEW i \in 1 .. Len(t.s) PROVE t.s[i] = t.subject[(r + 1) + i]
      <4>1. i \in 1 .. Len(c.s) - 1 /\ i + 1 \in 1 .. Len(c.s) /\ r + (i + 1) = (r + 1) + i
        BY <1>2, <2>1, <2>3, <2>4, <3>2
      <4> QED
        BY <1>3, <2>3, <2>4, <4>1
    <3> QED
      BY <3>1, <3>2 DEF Rest
  <2> QED
    BY <1>3, <2>2, <2>3, <2>4
<1> QED
  BY <1>1, <1>2, <1>3, <1>4

(* A step of drv leaves the call where it is; a new call has read nothing. *)
LEMMA ProceedsCollapsed ==
  ASSUME IInv, Collapsed, stack # <<>>, Proceeds
  PROVE  Collapsed'
<1>1. call # None
  BY DEF IInv, Nested
<1>2. CASE call.f # "rx_cmatch"
  BY <1>2 DEF Proceeds, Collapsed
<1>3. CASE call.f = "rx_cmatch"
  <2>1. PICK m \in Nat : \E d \in [0 .. m -> Patterns] : Stage(call, Outcome, m, d)
    BY <1>1, <1>3 DEF Collapsed, Staged
  <2>2. PICK d \in [0 .. m -> Patterns] : Stage(call, Outcome, m, d)
    BY <2>1
  <2>3. Stage(call', Outcome', m, d)
    BY <2>2 DEF Proceeds, Stage, Rest
  <2> QED
    BY <2>3 DEF Collapsed, Staged
<1> QED
  BY <1>2, <1>3

LEMMA StartCollapsed ==
  ASSUME IInv, start_match
  PROVE  Collapsed'
<1>1. call = None /\ UNCHANGED <<session, stack>>
  BY DEF start_match, Begin
<1>2. PICK f \in session.functions \ {"rx_check"}, e \in session.expressions,
           s \in session.subjects :
        /\ compile(e)
        /\ call' = Enter(f, e, s, Compiles(e)) \/ call' = None
  BY DEF start_match
<1> DEFINE x == Enter(f, e, s, Compiles(e))
<1>3. /\ Compiles(e) = e.parsed.p /\ e.parsed.p \in Patterns
      /\ s \in Seq(Chars)
  BY <1>1, <1>2, CompileKeeps, SessionAssumption DEF IInv, Cached
<1>4. /\ x.f = f /\ x.e = e /\ x.p = e.parsed.p /\ x.s = s /\ x.subject = s
      /\ f = "rx_cmatch" => x.at = "skip"
  BY <1>3 DEF Enter
<1> HIDE DEF x
<1>5. call' = x \/ call' = None
  BY <1>2 DEF x
<1>6. CASE call' = None \/ f # "rx_cmatch"
  BY <1>4, <1>5, <1>6 DEF Collapsed
<1>7. CASE call' # None /\ f = "rx_cmatch"
  <2> DEFINE d == [i \in 0 .. 0 |-> e.parsed.p]
  <2>1. call' = x /\ call'.at = "skip"
    BY <1>4, <1>5, <1>7
  <2>2. d \in [0 .. 0 -> Patterns] /\ d[0] = e.parsed.p /\ Len(s) \in Nat
    BY <1>3, LenProperties
  <2> HIDE DEF d
  <2>3. Collapse(x.e, x.subject, 0, d) /\ Rest(x, 0) /\ Skips(x.subject, 0, d)
    BY <1>4, <2>2 DEF Collapse, Rest, Skips, Clean
  <2>4. Outcome' = e.parsed.p
    BY <1>1, <1>4, <2>1, BetweenCalls DEF Outcome
  <2>5. Stage(call', Outcome', 0, d)
    BY <2>1, <2>2, <2>3, <2>4 DEF Stage
  <2> QED
    BY <2>2, <2>5 DEF Collapsed, Staged
<1> QED
  BY <1>6, <1>7

(* What a step of a loop does to the call, and to what it waits for.       *)
LEMMA Goes ==
  ASSUME IInv, call # None, stack = <<>>, NEW s, NEW at, NEW u, Going(s, at, u)
  PROVE  /\ call'.f = call.f /\ call'.e = call.e /\ call'.subject = call.subject
         /\ call'.s = s /\ call'.at = at /\ call'.u = u /\ call'.p = call.p
         /\ Underived => Outcome' = call.p
         /\ \A c : Derive(c) => Outcome' = after_char(call.p, c)
<1>1. call \in Running
  BY DEF IInv, Reading
<1>2. /\ call'.f = call.f /\ call'.e = call.e /\ call'.subject = call.subject
      /\ call'.s = s /\ call'.at = at /\ call'.u = u /\ call'.p = call.p
  BY <1>1 DEF Going, Running
<1>3. Underived => Outcome' = call.p
  BY <1>2 DEF Underived, Outcome
<1>4. ASSUME NEW c, Derive(c) PROVE Outcome' = after_char(call.p, c)
  BY <1>4 DEF Derive, Outcome, Called
<1> QED
  BY <1>2, <1>3, <1>4

LEMMA StillCollapsed ==
  ASSUME NEW m \in Nat, NEW d, Stage(call', Outcome', m, d)
  PROVE  Collapsed'
<1>1. d \in [0 .. m -> Patterns]
  BY DEF Stage, Collapse
<1> QED
  BY <1>1 DEF Collapsed, Staged

(* The call between two derivatives, before a step of rx_cmatch.           *)
Halts(m, d) ==
  /\ IInv /\ call # None /\ stack = <<>> /\ call \in Running
  /\ Stage(call, call.p, m, d)

LEMMA SkipCollapsed ==
  ASSUME NEW m \in Nat, NEW d, Halts(m, d), skip_space
  PROVE  Collapsed'
<1>1. CASE call.s = <<>>
  BY <1>1 DEF skip_space, Return, Collapsed
<1>2. CASE call.s # <<>>
  <2> DEFINE s == call.subject
             u == Head(call.s)
             at == IF u \in White THEN "skip" ELSE "word"
  <2>1. call.at = "skip" /\ Going(Tail(call.s), at, u) /\ Underived
    BY <1>2 DEF skip_space, In
  <2>2. Rest(call, m) /\ Collapse(call.e, s, m, d) /\ d[m] = call.p /\ Skips(s, m, d)
    BY <2>1 DEF Halts, Stage
  <2>3. /\ Len(s) \in Nat /\ s \in Seq(Chars) /\ m + 1 \in 1 .. Len(s) /\ u = s[m + 1]
        /\ \A t : t.subject = s /\ t.s = Tail(call.s) => Rest(t, m + 1)
    BY <1>2, <2>2, ReadsNext DEF Halts
  <2>4. /\ call'.e = call.e /\ call'.subject = s
        /\ call'.s = Tail(call.s) /\ call'.at = at /\ call'.u = u /\ Outcome' = call.p
    BY <2>1, Goes DEF Halts
  <2>5. Rest(call', m + 1) /\ Clean(s, m, d) /\ (m = 0 \/ s[m] \in White)
    BY <2>2, <2>3, <2>4 DEF Skips
  <2> HIDE DEF s
  <2>6. CASE u \in White
    <3>1a. PICK x \in [0 .. m + 1 -> Patterns] : Longer(call.e, s, m, d, x)
      BY <2>2, <2>3, OneMore
    <3>1. /\ Collapse(call.e, s, m + 1, x) /\ x[m + 1] = Taken(s, m + 1, d[m])
          /\ \A i \in 0 .. m : x[i] = d[i]
      BY <3>1a DEF Longer
    <3>2. ~Keeps(s, m + 1)
      BY <2>3, <2>5, <2>6 DEF Keeps
    <3>3. x[m + 1] = call.p /\ x[m] = call.p
      BY <2>2, <3>1, <3>2 DEF Taken
    <3>4. Clean(s, m + 1, x)
      <4>1. Clean(s, m, x)
        BY <2>5, <3>1, CleanStill
      <4>2. ~Lost(x, m + 1)
        BY <3>3 DEF Lost
      <4> QED
        BY <4>1, <4>2, CleanMore
    <3>5. call'.at = "skip" /\ Skips(s, m + 1, x)
      BY <2>3, <2>4, <2>6, <3>4 DEF Skips
    <3>6. Stage(call', Outcome', m + 1, x)
      BY <2>4, <2>5, <3>1, <3>3, <3>5 DEF Stage
    <3> QED
      BY <3>6, StillCollapsed
  <2>7. CASE u \notin White
    <3>1. call'.at = "word" /\ InWord(s, m, d, u)
      BY <2>3, <2>4, <2>5, <2>7 DEF InWord
    <3>2. Stage(call', Outcome', m, d)
      BY <2>2, <2>4, <2>5, <3>1 DEF Stage
    <3> QED
      BY <3>2, StillCollapsed
  <2> QED
    BY <2>6, <2>7
<1> QED
  BY <1>1, <1>2

(* The derivative by the character that was read, white space or not.      *)
LEMMA TakeCollapsed ==
  ASSUME NEW m \in Nat, NEW d, Halts(m, d), cmatch_space \/ cmatch_next
  PROVE  Collapsed'
<1> DEFINE s == call.subject
           u == call.u
<1>1. call.at = "word" /\ call.p # P_NOT_ALLOWED
  BY DEF cmatch_space, cmatch_next, In
<1>2. /\ Rest(call, m + 1) /\ Collapse(call.e, s, m, d) /\ d[m] = call.p
      /\ Clean(s, m, d) /\ m + 1 \in 1 .. Len(s) /\ u = s[m + 1]
      /\ u \in White => m > 0 /\ s[m] \notin White
  BY <1>1 DEF Halts, Stage, InWord
<1>3. s \in Seq(Chars)
  BY DEF Halts, Running
<1>4a. PICK x \in [0 .. m + 1 -> Patterns] : Longer(call.e, s, m, d, x)
  BY <1>2, <1>3, OneMore
<1>4. /\ Collapse(call.e, s, m + 1, x) /\ x[m + 1] = Taken(s, m + 1, d[m])
      /\ \A i \in 0 .. m : x[i] = d[i]
  BY <1>4a DEF Longer
<1>5. Keeps(s, m + 1)
  BY <1>2 DEF Keeps
<1>6. x[m + 1] = after_char(call.p, Space(u)) /\ x[m] = call.p /\ (m + 1) - 1 = m
  BY <1>2, <1>4, <1>5 DEF Taken
<1>7. Clean(s, m, x)
  BY <1>2, <1>4, CleanStill
<1>8. CASE cmatch_space
  <2>1. u \in White /\ Derive(" ") /\ Going(call.s, "spaced", None)
    BY <1>8 DEF cmatch_space
  <2>2. /\ call'.e = call.e /\ call'.subject = s /\ call'.s = call.s /\ call'.at = "spaced"
        /\ Outcome' = after_char(call.p, " ")
    BY <2>1, Goes DEF Halts
  <2>3. Rest(call', m + 1)
    BY <1>2, <2>2 DEF Rest
  <2>4. SpaceRead(s, m + 1, x)
    <3>0. s[m + 1] \in White
      BY <1>2, <2>1, Zenon
    <3>1. m + 1 > 0
      OBVIOUS
    <3>2. x[(m + 1) - 1] # P_NOT_ALLOWED /\ Clean(s, (m + 1) - 1, x)
      BY <1>1, <1>6, <1>7, Zenon
    <3> QED
      BY <3>0, <3>1, <3>2 DEF SpaceRead
  <2>5. Stage(call', Outcome', m + 1, x)
    BY <1>4, <1>6, <2>1, <2>2, <2>3, <2>4 DEF Stage, Space
  <2> QED
    BY <2>5, StillCollapsed
<1>9. CASE cmatch_next
  <2>1. u \notin White /\ Derive(u) /\ Going(call.s, "derived", None)
    BY <1>9 DEF cmatch_next
  <2>2. /\ call'.e = call.e /\ call'.subject = s /\ call'.s = call.s /\ call'.at = "derived"
        /\ Outcome' = after_char(call.p, u)
    BY <2>1, Goes DEF Halts
  <2>3. Rest(call', m + 1)
    BY <1>2, <2>2 DEF Rest
  <2>4. Clean(s, m + 1, x)
    BY <1>2, <1>7, <2>1, CleanMore
  <2>5. WordRead(s, m + 1, x)
    BY <1>2, <2>1, <2>4 DEF WordRead
  <2>6. Stage(call', Outcome', m + 1, x)
    BY <1>4, <1>6, <2>1, <2>2, <2>3, <2>5 DEF Stage, Space
  <2> QED
    BY <2>6, StillCollapsed
<1> QED
  BY <1>8, <1>9

LEMMA SpacedCollapsed ==
  ASSUME NEW m \in Nat, NEW d, Halts(m, d), cmatch_spaced
  PROVE  Collapsed'
<1> DEFINE s == call.subject
           at == IF call.p # P_NOT_ALLOWED THEN "skip" ELSE "trail"
<1>1. call.at = "spaced" /\ Going(call.s, at, None) /\ Underived
  BY DEF cmatch_spaced, In
<1>2. Rest(call, m) /\ Collapse(call.e, s, m, d) /\ d[m] = call.p /\ SpaceRead(s, m, d)
  BY <1>1 DEF Halts, Stage
<1>3. /\ call'.e = call.e /\ call'.subject = s /\ call'.s = call.s /\ call'.at = at
      /\ Outcome' = call.p
  BY <1>1, Goes DEF Halts
<1>4. Rest(call', m)
  BY <1>2, <1>3 DEF Rest
<1> HIDE DEF s
<1>5. CASE call.p # P_NOT_ALLOWED
  <2>1. m - 1 \in Nat /\ (m - 1) + 1 = m
    BY <1>2 DEF SpaceRead
  <2>2. ~Lost(d, m)
    BY <1>2, <1>5 DEF Lost
  <2>3. Clean(s, (m - 1) + 1, d)
    BY <1>2, <2>1, <2>2, CleanMore DEF SpaceRead
  <2>4. Skips(s, m, d)
    BY <1>2, <2>1, <2>3 DEF Skips, SpaceRead
  <2>5. Stage(call', Outcome', m, d)
    BY <1>2, <1>3, <1>4, <1>5, <2>4 DEF Stage
  <2> QED
    BY <2>5, StillCollapsed
<1>6. CASE call.p = P_NOT_ALLOWED
  <2>1. m \in 1 .. m /\ Lost(d, m) /\ \A j \in m .. m : s[j] \in White
    BY <1>2, <1>6 DEF SpaceRead, Lost
  <2>2. Trails(s, m, d)
    BY <1>2, <1>6, <2>1 DEF SpaceRead, Trails
  <2>3. Stage(call', Outcome', m, d)
    BY <1>2, <1>3, <1>4, <1>6, <2>2 DEF Stage
  <2> QED
    BY <2>3, StillCollapsed
<1> QED
  BY <1>5, <1>6

LEMMA TrailCollapsed ==
  ASSUME NEW m \in Nat, NEW d, Halts(m, d), cmatch_trail
  PROVE  Collapsed'
<1>1. CASE ~(call.s # <<>> /\ Head(call.s) \in White)
  BY <1>1 DEF cmatch_trail, Return, Collapsed
<1>2. CASE call.s # <<>> /\ Head(call.s) \in White
  <2> DEFINE s == call.subject
  <2>1. call.at = "trail" /\ Going(Tail(call.s), "trail", None) /\ Underived
    BY <1>2 DEF cmatch_trail, In
  <2>2. Rest(call, m) /\ Collapse(call.e, s, m, d) /\ d[m] = call.p /\ Trails(s, m, d)
    BY <2>1 DEF Halts, Stage
  <2>3. /\ Len(s) \in Nat /\ s \in Seq(Chars) /\ m + 1 \in 1 .. Len(s) /\ Head(call.s) = s[m + 1]
        /\ \A t : t.subject = s /\ t.s = Tail(call.s) => Rest(t, m + 1)
    BY <1>2, <2>2, ReadsNext DEF Halts
  <2>4. /\ call'.e = call.e /\ call'.subject = s /\ call'.s = Tail(call.s) /\ call'.at = "trail"
        /\ Outcome' = call.p
    BY <2>1, Goes DEF Halts
  <2>5a. PICK x \in [0 .. m + 1 -> Patterns] : Longer(call.e, s, m, d, x)
    BY <2>2, <2>3, OneMore
  <2>5. /\ Collapse(call.e, s, m + 1, x) /\ x[m + 1] = Taken(s, m + 1, d[m])
        /\ \A i \in 0 .. m : x[i] = d[i]
    BY <2>5a DEF Longer
  <2>6. ~Keeps(s, m + 1)
    BY <1>2, <2>2, <2>3 DEF Keeps, Trails
  <2>7. x[m + 1] = call.p /\ d[m] = P_NOT_ALLOWED
    BY <2>2, <2>5, <2>6 DEF Taken, Trails
  <2>8. PICK k \in 1 .. m : Lost(d, k) /\ \A j \in k .. m : s[j] \in White
    BY <2>2 DEF Trails
  <2>9. Lost(x, k)
    <3>1. k \in 0 .. m /\ k - 1 \in 0 .. m
      OBVIOUS
    <3> QED
      BY <2>5, <2>8, <3>1 DEF Lost
  <2>10. k \in 1 .. m + 1 /\ \A j \in k .. m + 1 : s[j] \in White
    <3>1. \A j \in k .. m + 1 : j = m + 1 \/ j \in k .. m
      OBVIOUS
    <3> QED
      BY <1>2, <2>3, <2>8, <3>1
  <2>11. Trails(s, m + 1, x)
    <3>1. m + 1 > 0 /\ s[m + 1] \in White /\ x[m + 1] = P_NOT_ALLOWED
      BY <1>2, <2>2, <2>3, <2>7
    <3>2. \E i \in 1 .. m + 1 : Lost(x, i) /\ \A j \in i .. m + 1 : s[j] \in White
      BY <2>9, <2>10
    <3> QED
      BY <3>1, <3>2 DEF Trails
  <2>12. Rest(call', m + 1)
    BY <2>3, <2>4
  <2>13. Stage(call', Outcome', m + 1, x)
    BY <2>4, <2>5, <2>7, <2>11, <2>12 DEF Stage
  <2> QED
    BY <2>13, StillCollapsed
<1> QED
  BY <1>1, <1>2

LEMMA DerivedCollapsed ==
  ASSUME NEW m \in Nat, NEW d, Halts(m, d), cmatch_derived
  PROVE  Collapsed'
<1> DEFINE s == call.subject
<1>1. call.at = "derived" /\ Underived
  BY DEF cmatch_derived, In
<1>2. Rest(call, m) /\ Collapse(call.e, s, m, d) /\ d[m] = call.p /\ WordRead(s, m, d)
  BY <1>1 DEF Halts, Stage
<1>3. CASE call.s = <<>>
  <2>1. Going(<<>>, "skip", None)
    BY <1>3 DEF cmatch_derived
  <2>2. /\ call'.e = call.e /\ call'.subject = s /\ call'.s = <<>> /\ call'.at = "skip"
        /\ Outcome' = call.p
    BY <1>1, <2>1, Goes DEF Halts
  <2>3. Rest(call', m)
    BY <1>2, <1>3, <2>2 DEF Rest
  <2>4. m = Len(s)
    BY <1>2, <1>3, ReadsNext DEF Halts
  <2>5. Skips(s, m, d)
    BY <1>2, <2>4 DEF Skips, WordRead
  <2>6. Stage(call', Outcome', m, d)
    BY <1>2, <2>2, <2>3, <2>5 DEF Stage
  <2> QED
    BY <2>6, StillCollapsed
<1>4. CASE call.s # <<>>
  <2>1. Going(Tail(call.s), "word", Head(call.s))
    BY <1>4 DEF cmatch_derived
  <2>2. /\ call'.e = call.e /\ call'.subject = s /\ call'.s = Tail(call.s) /\ call'.at = "word"
        /\ call'.u = Head(call.s) /\ Outcome' = call.p
    BY <1>1, <2>1, Goes DEF Halts
  <2>3. /\ m + 1 \in 1 .. Len(s) /\ Head(call.s) = s[m + 1]
        /\ \A t : t.subject = s /\ t.s = Tail(call.s) => Rest(t, m + 1)
    BY <1>2, <1>4, ReadsNext DEF Halts
  <2>4. Rest(call', m + 1)
    BY <2>2, <2>3
  <2>5. InWord(s, m, d, Head(call.s))
    BY <1>2, <2>3 DEF InWord, WordRead
  <2>6. Stage(call', Outcome', m, d)
    BY <1>2, <2>2, <2>4, <2>5 DEF Stage
  <2> QED
    BY <2>6, StillCollapsed
<1> QED
  BY <1>3, <1>4

LEMMA Halted ==
  ASSUME IInv, Followed, Collapsed, call # None, stack = <<>>, call.at # "loop"
  PROVE  \E m \in Nat : \E d \in [0 .. m -> Patterns] : Halts(m, d)
<1>1. call.f = "rx_cmatch" /\ Outcome = call.p /\ call \in Running
  BY DEF Followed, Outcome, IInv, Reading
<1>2. PICK m \in Nat : \E d \in [0 .. m -> Patterns] : Stage(call, call.p, m, d)
  BY <1>1 DEF Collapsed, Staged
<1>3. PICK d \in [0 .. m -> Patterns] : Stage(call, call.p, m, d)
  BY <1>2
<1>4. Halts(m, d)
  BY <1>1, <1>3 DEF Halts
<1> QED
  BY <1>4

CmatchStep ==
  \/ skip_space \/ cmatch_fail \/ cmatch_space \/ cmatch_spaced \/ cmatch_trail
  \/ cmatch_next \/ cmatch_derived

LEMMA StepCollapsed ==
  ASSUME IInv, Followed, Collapsed, [Next]_vars
  PROVE  Collapsed'
<1>1. CASE drv_found \/ drv_enters \/ drv_asks \/ drv_returns
  <2>1. stack # <<>>
    BY <1>1 DEF drv_found, drv_enters, drv_asks, drv_returns, Entering, Switching
  <2>2. Proceeds
    BY <1>1, FoundKeeps, EntersKeeps, AsksKeeps, ReturnsKeeps
  <2> QED
    BY <2>1, <2>2, ProceedsCollapsed
<1>2. CASE rx_check
  BY <1>2 DEF rx_check, Begin, Collapsed
<1>3. CASE start_match
  BY <1>3, StartCollapsed
<1>4. CASE match_end
  BY <1>4 DEF match_end, Return, Collapsed
<1>5. CASE match_next
  <2>1. /\ call # None /\ stack = <<>> /\ call.at = "loop"
        /\ Going(Tail(call.s), "loop", None)
    BY <1>5 DEF match_next, In
  <2>2. call.f # "rx_cmatch"
    BY <2>1 DEF Collapsed, Staged, Stage
  <2>3. call'.f = call.f
    BY <2>1, Goes
  <2> QED
    BY <2>2, <2>3 DEF Collapsed
<1>6. CASE CmatchStep
  <2>1. call # None /\ stack = <<>> /\ call.at # "loop"
    BY <1>6 DEF CmatchStep, skip_space, cmatch_fail, cmatch_space, cmatch_spaced, cmatch_trail,
                cmatch_next, cmatch_derived, In
  <2>2. PICK m \in Nat : \E d \in [0 .. m -> Patterns] : Halts(m, d)
    BY <2>1, Halted
  <2>3. PICK d \in [0 .. m -> Patterns] : Halts(m, d)
    BY <2>2
  <2>4. CASE cmatch_fail
    BY <2>4 DEF cmatch_fail, Return, Collapsed
  <2> QED
    BY <1>6, <2>3, <2>4, SkipCollapsed, TakeCollapsed, SpacedCollapsed, TrailCollapsed,
       DerivedCollapsed DEF CmatchStep
<1>7. CASE UNCHANGED vars
  BY <1>7 DEF vars, Collapsed, Staged, Stage, Rest, Outcome
<1> QED
  BY <1>1, <1>2, <1>3, <1>4, <1>5, <1>6, <1>7 DEF Next, CmatchStep

(* What rx_cmatch answers.  White space that ends the subject is not taken *)
(* for a space that no word follows, but for the end, whatever is left.    *)
LostAtTheEnd(s, m, d) ==
  \E k \in 1 .. m : Lost(d, k) /\ \A j \in k .. Len(s) : s[j] \in White

CollapsedAnswer(c, m, d) ==
  /\ Collapse(c.e, c.subject, m, d)
  /\ m = Len(c.subject) \/ d[m] = P_NOT_ALLOWED
  /\ ret' = Returned(c, IF LostAtTheEnd(c.subject, m, d) THEN 1 ELSE Verdict(d[m]))

CollapsedAnswered ==
  call # None /\ call.f = "rx_cmatch" /\ call' = None =>
    \E m \in Nat : \E d \in [0 .. m -> Patterns] : CollapsedAnswer(call, m, d)

(* A word is not the end.                                                  *)
LEMMA NotAtTheEnd ==
  ASSUME NEW s, Len(s) \in Nat, NEW m \in 0 .. Len(s), NEW d, Clean(s, m, d)
  PROVE  ~LostAtTheEnd(s, m, d)
<1> SUFFICES ASSUME NEW k \in 1 .. m, Lost(d, k), \A j \in k .. Len(s) : s[j] \in White PROVE FALSE
  BY DEF LostAtTheEnd
<1>1. k \in k .. Len(s) /\ s[k] \notin White
  BY DEF Clean
<1> QED
  BY <1>1

LEMMA StepCollapsedAnswered ==
  ASSUME IInv, Followed, Collapsed, [Next]_vars
  PROVE  CollapsedAnswered
<1> SUFFICES ASSUME call # None, call.f = "rx_cmatch", call' = None
             PROVE  \E m \in Nat : \E d \in [0 .. m -> Patterns] : CollapsedAnswer(call, m, d)
  BY DEF CollapsedAnswered
<1>1. call.at # "loop"
  BY DEF Collapsed, Staged, Stage
<1>2. \A s, at, u : ~(Gone(s, at, u) /\ Going(s, at, u))
  BY Recorded
<1>3. /\ call.s \in Seq(Chars)
      /\ call.s # <<>> => Head(call.s) \in Chars /\ Tail(call.s) \in Seq(Chars)
      /\ call.at = "word" => call.u \in Chars
  BY Remaining
<1>4. {"skip", "spaced", "word", "trail", "derived"} \subseteq Places
  BY DEF Places
<1>5. skip_space \/ cmatch_fail \/ cmatch_trail
  <2>1. CASE drv_found \/ drv_enters \/ drv_asks \/ drv_returns
    BY <2>1, FoundKeeps, EntersKeeps, AsksKeeps, ReturnsKeeps DEF Proceeds
  <2>2. CASE rx_check \/ start_match
    BY <2>2 DEF rx_check, start_match, Begin
  <2>3. CASE match_end \/ match_next
    BY <1>1, <2>3 DEF match_end, match_next, In
  <2>4. CASE cmatch_space
    <3>1. Gone(call.s, "spaced", None) /\ Going(call.s, "spaced", None)
      BY <1>3, <1>4, <2>4 DEF Gone, cmatch_space
    <3> QED
      BY <1>2, <3>1
  <2>5. CASE cmatch_next
    <3>1. Gone(call.s, "derived", None) /\ Going(call.s, "derived", None)
      BY <1>3, <1>4, <2>5 DEF Gone, cmatch_next
    <3> QED
      BY <1>2, <3>1
  <2>6. CASE cmatch_spaced
    <3>1. PICK at : at = IF call.p # P_NOT_ALLOWED THEN "skip" ELSE "trail"
      OBVIOUS
    <3>2. Gone(call.s, at, None) /\ Going(call.s, at, None)
      BY <1>3, <1>4, <2>6, <3>1 DEF Gone, cmatch_spaced
    <3> QED
      BY <1>2, <3>2
  <2>7. CASE cmatch_derived
    <3>1. CASE call.s = <<>>
      <4>1. Gone(<<>>, "skip", None) /\ Going(<<>>, "skip", None)
        BY <1>3, <1>4, <2>7, <3>1 DEF Gone, cmatch_derived
      <4> QED
        BY <1>2, <4>1
    <3>2. CASE call.s # <<>>
      <4>1. Going(Tail(call.s), "word", Head(call.s))
        BY <2>7, <3>2 DEF cmatch_derived
      <4>2. Gone(Tail(call.s), "word", Head(call.s))
        BY <1>3, <1>4, <3>2 DEF Gone
      <4> QED
        BY <1>2, <4>1, <4>2
    <3> QED
      BY <3>1, <3>2
  <2>8. CASE UNCHANGED vars
    BY <2>8 DEF vars
  <2> QED
    BY <2>1, <2>2, <2>3, <2>4, <2>5, <2>6, <2>7, <2>8 DEF Next
<1>6. stack = <<>>
  BY <1>5 DEF skip_space, cmatch_fail, cmatch_trail, In
<1>7. PICK m \in Nat : \E d \in [0 .. m -> Patterns] : Halts(m, d)
  BY <1>1, <1>6, Halted
<1>8. PICK d \in [0 .. m -> Patterns] : Halts(m, d)
  BY <1>7
<1> DEFINE s == call.subject
<1>9. /\ Collapse(call.e, s, m, d) /\ d[m] = call.p /\ m \in 0 .. Len(s)
      /\ Rest(call, IF call.at = "word" THEN m + 1 ELSE m) /\ call \in Running
  BY <1>8 DEF Halts, Stage, Collapse
<1>10. Len(s) \in Nat /\ Verdict(P_NOT_ALLOWED) = 0
  BY <1>9, LenProperties, PatternAssumption DEF Running, Verdict
<1>11. CollapsedAnswer(call, m, d)
  <2>1. CASE skip_space
    <3>1. call.at = "skip"
      BY <2>1 DEF skip_space, In
    <3>2. call.s = <<>>
      <4>1. SUFFICES ASSUME call.s # <<>> PROVE FALSE
        OBVIOUS
      <4>2. PICK at : at = IF Head(call.s) \in White THEN "skip" ELSE "word"
        OBVIOUS
      <4>3. Going(Tail(call.s), at, Head(call.s))
        BY <2>1, <4>1, <4>2 DEF skip_space
      <4>4. Gone(Tail(call.s), at, Head(call.s))
        BY <1>3, <1>4, <4>1, <4>2 DEF Gone
      <4> QED
        BY <1>2, <4>3, <4>4
    <3>3. ret' = Returned(call, Verdict(call.p))
      BY <2>1, <3>2 DEF skip_space, Return
    <3>4. m = Len(s)
      BY <1>9, <3>1, <3>2, ReadsNext
    <3>5. Clean(s, m, d)
      BY <1>8, <3>1 DEF Halts, Stage, Skips
    <3>6. ~LostAtTheEnd(s, m, d)
      BY <1>9, <1>10, <3>5, NotAtTheEnd
    <3> QED
      BY <1>9, <3>3, <3>4, <3>6 DEF CollapsedAnswer
  <2>2. CASE cmatch_fail
    <3>1. call.at = "word" /\ call.p = P_NOT_ALLOWED /\ ret' = Returned(call, 0)
      BY <2>2 DEF cmatch_fail, In, Return
    <3>2. Clean(s, m, d)
      BY <1>8, <3>1 DEF Halts, Stage, InWord
    <3>3. ~LostAtTheEnd(s, m, d)
      BY <1>9, <1>10, <3>2, NotAtTheEnd
    <3> QED
      BY <1>9, <1>10, <3>1, <3>3 DEF CollapsedAnswer
  <2>3. CASE cmatch_trail
    <3>1. call.at = "trail"
      BY <2>3 DEF cmatch_trail, In
    <3>2. Trails(s, m, d) /\ Rest(call, m)
      BY <1>8, <1>9, <3>1 DEF Halts, Stage
    <3>3. d[m] = P_NOT_ALLOWED
      BY <3>2 DEF Trails
    <3>4. CASE call.s = <<>>
      <4>1. ret' = Returned(call, 1)
        BY <2>3, <3>4 DEF cmatch_trail, Return
      <4>2. m = Len(s)
        BY <1>9, <3>2, <3>4, ReadsNext
      <4>3. LostAtTheEnd(s, m, d)
        BY <3>2, <4>2 DEF Trails, LostAtTheEnd
      <4> QED
        BY <1>9, <4>1, <4>2, <4>3 DEF CollapsedAnswer
    <3>5. CASE call.s # <<>>
      <4>1. Head(call.s) \notin White
        <5>1. SUFFICES ASSUME Head(call.s) \in White PROVE FALSE
          OBVIOUS
        <5>2. Going(Tail(call.s), "trail", None)
          BY <2>3, <3>5, <5>1 DEF cmatch_trail
        <5>3. Gone(Tail(call.s), "trail", None)
          BY <1>3, <1>4, <3>5 DEF Gone
        <5> QED
          BY <1>2, <5>2, <5>3
      <4>2. ret' = Returned(call, 0)
        BY <2>3, <3>5, <4>1 DEF cmatch_trail, Return
      <4>3. m + 1 \in 1 .. Len(s) /\ s[m + 1] \notin White
        BY <1>9, <3>2, <3>5, <4>1, ReadsNext
      <4>4. ~LostAtTheEnd(s, m, d)
        <5>1. SUFFICES ASSUME NEW k \in 1 .. m, \A j \in k .. Len(s) : s[j] \in White PROVE FALSE
          BY DEF LostAtTheEnd
        <5>2. m + 1 \in k .. Len(s)
          BY <4>3
        <5> QED
          BY <4>3, <5>1, <5>2
      <4> QED
        BY <1>9, <1>10, <3>3, <4>2, <4>4 DEF CollapsedAnswer
    <3> QED
      BY <3>4, <3>5
  <2> QED
    BY <1>5, <2>1, <2>2, <2>3
<1> QED
  BY <1>8, <1>11

(* A call of rx_cmatch that compiles answers whether the empty text is in  *)
(* the derivative of its expression by its subject, read with the white    *)
(* space before its first word left out and each other run of white space  *)
(* as one space, or ends before with the pattern that nothing matches.     *)
(* The exception: if all that is left of the subject is white space, and   *)
(* no space may follow there, the answer is 1 whatever the word before it  *)
(* lacks.                                                                  *)
THEOREM AnswerOfCollapsed == Spec => [][CollapsedAnswered]_vars
<1>1. Init => IInv /\ Followed /\ Collapsed
  BY InitIInv DEF Init, Followed, Collapsed
<1>2. IInv /\ Followed /\ Collapsed /\ [Next]_vars => (IInv /\ Followed /\ Collapsed)'
  BY StepIInv, StepFollowed, StepCollapsed
<1>3. IInv /\ Followed /\ Collapsed /\ [Next]_vars => [CollapsedAnswered]_vars
  BY StepCollapsedAnswered
<1> QED
  BY <1>1, <1>2, <1>3, PTL DEF Spec

=============================================================================
