------------------------------ MODULE RvpProofs -----------------------------
(***************************************************************************)
(* Proofs, for every set of queries, every schema and all sizes, of three  *)
(* properties of the server: a read never runs past the buffer of queries; *)
(* the pipe for messages is empty whenever a query is waited for; and the  *)
(* k-th answer is the one due to the k-th query, however the bytes are cut *)
(* into reads and whatever is sent ahead.                                  *)
(*                                                                         *)
(* The first needs that the buffer is stretched before each read; the      *)
(* second, that messages are read until there are none before the answer   *)
(* is ended.  Both are inductive together with the ranges of the           *)
(* variables they speak of.                                                *)
(*                                                                         *)
(* For the third, at any time d queries have been answered.  What was      *)
(* written is cut into d answers, each ended by a zero byte, and the       *)
(* beginning of the next; the bytes in the buffer, followed by those in    *)
(* the pipe, spell all the queries after the d-th.  Both are stated with a *)
(* function from the number of a query to the place of its end.            *)
(***************************************************************************)
EXTENDS Rvp, Counting, SequenceTheorems, TLAPS

Byte == Query \X Nat
Message == {"said"} \X Query

IInv ==
  /\ in \in Seq(Byte) /\ quebuf \in Seq(Byte) /\ erp \in Seq(Message)
  /\ len_q \in Nat /\ n \in 0 .. n_q
  /\ BufferFits
  /\ pc \in {"query", "handle", "resp", "drain", "exited"}
  /\ pc \in {"query", "handle", "exited"} => erp = <<>>
  /\ pc = "handle" => n > 0

-----------------------------------------------------------------------------
(* The bytes of a query. *)
LEMMA BytesType ==
  ASSUME NEW q \in Query
  PROVE  Bytes(q) \in Seq(Byte)
<1>1. Size[q] \in Nat
  BY QueryAssumption
<1>2. \A k \in 1 .. Size[q] : <<q, k>> \in Byte
  BY <1>1 DEF Byte
<1> QED
  BY <1>1, <1>2 DEF Bytes

(* What a query prints. *)
LEMMA PrintedType ==
  ASSUME NEW q \in Query
  PROVE  Printed(q) \in Seq(Message)
<1> DEFINE k == Verdict(q).said
<1>1. PIPE \in Nat /\ k \in 0 .. PIPE
  BY PipeAssumption
<1>2. Printed(q) = [i \in 1 .. k |-> <<"said", q>>]
  BY DEF Printed
<1>3. <<"said", q>> \in Message
  BY DEF Message
<1> HIDE DEF k
<1> QED
  BY <1>1, <1>2, <1>3

(* What is left of a sequence without its first k members. *)
LEMMA DropType ==
  ASSUME NEW S, NEW s \in Seq(S), NEW k \in Nat
  PROVE  /\ Drop(s, k) \in Seq(S)
         /\ k <= Len(s) => Len(Drop(s, k)) = Len(s) - k
<1>1. \A i \in k + 1 .. Len(s) : s[i] \in S
  BY ElementOfSeq
<1> QED
  BY <1>1, SubSeqProperties DEF Drop

(* The smaller of two numbers, as for the bytes that a read returns. *)
LEMMA SmallerOne ==
  ASSUME NEW a \in Nat, NEW b \in Nat
  PROVE  Min({a, b}) \in {a, b} /\ Min({a, b}) \in Nat /\ Min({a, b}) <= a /\ Min({a, b}) <= b
<1>1. PICK m \in {a, b} : \A y \in {a, b} : m <= y
  <2>1. CASE a <= b
    BY <2>1
  <2>2. CASE ~(a <= b)
    BY <2>2
  <2> QED
    BY <2>1, <2>2
<1>2. Min({a, b}) \in {a, b} /\ \A y \in {a, b} : Min({a, b}) <= y
  BY <1>1 DEF Min
<1> QED
  BY <1>2

-----------------------------------------------------------------------------
(* IInv holds at the start and is kept by every step. *)
LEMMA InitIInv == Init => IInv
<1> SUFFICES ASSUME Init PROVE IInv
  OBVIOUS
<1> QED
  BY PipeAssumption DEF Init, IInv, BufferFits, n_q

(* The client only adds to its end of the pipe; of the server, read and    *)
(* resp_done touch the buffer, handle and resp_read the messages.          *)
LEMMA StepIInv ==
  ASSUME IInv, [Next]_vars
  PROVE  IInv'
<1> USE DEF IInv, BufferFits, n_q
<1>0. LEN_B \in Nat \ {0}
  BY PipeAssumption
<1>1. ASSUME NEW q \in Query, send(q) PROVE IInv'
  <2>1. in' \in Seq(Byte)
    BY <1>1, BytesType, ConcatProperties DEF send
  <2> QED
    BY <1>1, <2>1 DEF send
<1>2. CASE close
  BY <1>2 DEF close
<1>3. CASE read
  <2>1. PICK dn \in 1 .. Min({LEN_B, Len(in)}) :
          quebuf' = quebuf \o SubSeq(in, 1, dn) /\ in' = Drop(in, dn)
    BY <1>3 DEF read
  <2>2. dn \in Nat /\ dn <= LEN_B /\ dn <= Len(in)
    <3>1. Len(in) \in Nat
      BY LenProperties
    <3> DEFINE least == Min({LEN_B, Len(in)})
    <3>2. least \in Nat /\ least <= LEN_B /\ least <= Len(in)
      BY <1>0, <3>1, SmallerOne
    <3>3. dn \in 1 .. least
      OBVIOUS
    <3> HIDE DEF least
    <3> QED
      BY <1>0, <3>1, <3>2, <3>3
  <2>3. SubSeq(in, 1, dn) \in Seq(Byte) /\ Len(SubSeq(in, 1, dn)) = dn
    <3>1. \A i \in 1 .. dn : in[i] \in Byte
      BY <2>2, ElementOfSeq
    <3> QED
      BY <2>2, <3>1, SubSeqProperties
  <2>4. quebuf' \in Seq(Byte) /\ Len(quebuf') = Len(quebuf) + dn
    BY <2>1, <2>3, ConcatProperties
  <2>5. in' \in Seq(Byte)
    BY <2>1, <2>2, DropType
  <2>6. len_q' \in Nat /\ Len(quebuf) + LEN_B <= len_q'
    BY <1>0, <1>3, LenProperties DEF read, Stretched
  <2> QED
    BY <1>0, <1>3, <2>2, <2>4, <2>5, <2>6, LenProperties DEF read, Server
<1>4. CASE scan
  BY <1>4, LenProperties DEF scan, Server
<1>5. CASE eof
  BY <1>5 DEF eof, Server
<1>6. CASE handle
  <2> DEFINE q == Understood(SubSeq(quebuf, 1, n))
  <2>1. q \in Query
    <3>1. SubSeq(quebuf, 1, n) \in Seq(Byte) /\ SubSeq(quebuf, 1, n) # <<>>
      <4>1. \A i \in 1 .. n : quebuf[i] \in Byte
        BY ElementOfSeq
      <4> QED
        BY <1>6, <4>1, SubSeqProperties DEF handle
    <3>2. Head(SubSeq(quebuf, 1, n)) \in Byte
      BY <3>1, HeadTailProperties
    <3>3. Head(SubSeq(quebuf, 1, n))[1] \in Query
      BY <3>2 DEF Byte
    <3>4. (CHOOSE odd \in Query : odd.kwd \notin kwdtab) \in Query
      BY QueryAssumption
    <3> QED
      BY <3>3, <3>4 DEF Understood
  <2>2. erp = <<>>
    BY <1>6 DEF handle
  <2>3. erp' = <<>> \o Printed(q)
    BY <1>6, <2>2 DEF handle
  <2>4. Printed(q) \in Seq(Message)
    BY <2>1, PrintedType
  <2>5. erp' \in Seq(Message)
    BY <2>3, <2>4, ConcatProperties
  <2> QED
    BY <1>6, <2>5 DEF handle, Server
<1>7. CASE resp
  BY <1>7 DEF resp, Server
<1>8. CASE resp_read
  <2>1. erp' \in Seq(Message)
    BY <1>0, <1>8, DropType DEF resp_read
  <2> QED
    BY <1>8, <2>1 DEF resp_read, Server
<1>9. CASE resp_done
  <2>1. /\ Drop(quebuf, n) \in Seq(Byte)
        /\ Len(Drop(quebuf, n)) = Len(quebuf) - n
    BY DropType, LenProperties
  <2> QED
    BY <1>9, <2>1, LenProperties DEF resp_done, Finish, Server
<1>10. CASE UNCHANGED vars
  BY <1>10 DEF vars
<1> QED
  BY <1>1, <1>2, <1>3, <1>4, <1>5, <1>6, <1>7, <1>8, <1>9, <1>10 DEF Next, serving

(* So it holds always. *)
LEMMA Invariance == Spec => []IInv
  BY InitIInv, StepIInv, PTL DEF Spec

(* A read never runs past the end of the buffer of queries, however they   *)
(* are cut into pieces and however many are on their way (rvp.c:165).      *)
THEOREM BufferAlwaysFits == Spec => []BufferFits
<1>1. IInv => BufferFits
  BY DEF IInv
<1> QED
  BY <1>1, Invariance, PTL

(* The messages of a query are all read before the next query is looked    *)
(* at, and none explains another's error (rvp.c:150-155).                  *)
THEOREM NoMessageLeftOver == Spec => []NothingLeftOver
<1>1. IInv => NothingLeftOver
  BY DEF IInv, NothingLeftOver
<1> QED
  BY <1>1, Invariance, PTL

-----------------------------------------------------------------------------
(* The ends of answers: o is cut at e[1] < ... < e[d], its zero bytes.     *)
Cut(o, d, e) ==
  /\ e \in [0 .. d -> Nat] /\ e[0] = 0
  /\ \A i, j \in 0 .. d : i < j => e[i] < e[j]
  /\ \A k \in 1 .. d : e[k] \in 1 .. Len(o) /\ o[e[k]] = Z
  /\ \A i \in 1 .. Len(o) : o[i] = Z => \E k \in 1 .. d : i = e[k]

(* The ends of queries: s is what is spelt by the queries of qs after the  *)
(* d-th, and f[k] is where the k-th ends in it.                            *)
Spelt(s, qs, d, f) ==
  /\ f \in [d .. Len(qs) -> Nat] /\ f[d] = 0 /\ f[Len(qs)] = Len(s)
  /\ \A i, j \in d .. Len(qs) : i <= j => f[i] <= f[j]
  /\ \A k \in d + 1 .. Len(qs) : f[k] = f[k - 1] + Size[qs[k]]
  /\ \A k \in d + 1 .. Len(qs) : \A i \in 1 .. Size[qs[k]] : s[f[k - 1] + i] = <<qs[k], i>>

Spells(s, qs, d) == \E f : Spelt(s, qs, d, f)

-----------------------------------------------------------------------------
(* A place in a part that ends by the end of the whole is one in the whole. *)
LEMMA Within ==
  ASSUME NEW a \in Nat, NEW z \in Nat, NEW m \in Nat, a + z <= m, NEW i \in 1 .. z
  PROVE  a + i \in 1 .. m
OBVIOUS

(* Dropping from a concatenation no more than its first part.              *)
LEMMA DropConcat ==
  ASSUME NEW S, NEW s \in Seq(S), NEW t \in Seq(S), NEW k \in 0 .. Len(s)
  PROVE  Drop(s \o t, k) = Drop(s, k) \o t
<1>1. s \o t \in Seq(S) /\ Len(s \o t) = Len(s) + Len(t)
  BY ConcatProperties
<1>2. Len(s) \in Nat /\ Len(t) \in Nat
  BY LenProperties
<1> DEFINE whole == s \o t
           left == Drop(s, k)
<1>3. Drop(whole, k) \in Seq(S) /\ Len(Drop(whole, k)) = Len(s) + Len(t) - k
  <2>1. whole \in Seq(S) /\ k \in Nat /\ k <= Len(whole) /\ Len(whole) = Len(s) + Len(t)
    BY <1>1, <1>2
  <2> HIDE DEF whole
  <2>2. /\ Drop(whole, k) \in Seq(S)
        /\ k <= Len(whole) => Len(Drop(whole, k)) = Len(whole) - k
    BY <2>1, DropType
  <2> QED
    BY <2>1, <2>2
<1>4. left \in Seq(S) /\ Len(left) = Len(s) - k
  BY <1>2, DropType
<1>5. /\ left \o t \in Seq(S)
      /\ Len(left \o t) = Len(s) - k + Len(t)
      /\ \A i \in 1 .. Len(s) - k + Len(t) :
           (left \o t)[i] = IF i <= Len(s) - k THEN left[i] ELSE t[i - (Len(s) - k)]
  <2> HIDE DEF left
  <2>1. /\ left \o t \in Seq(S)
        /\ Len(left \o t) = Len(left) + Len(t)
        /\ \A i \in 1 .. Len(left) + Len(t) :
             (left \o t)[i] = IF i <= Len(left) THEN left[i] ELSE t[i - Len(left)]
    BY <1>4, ConcatProperties
  <2> QED
    BY <1>4, <2>1
<1>6. ASSUME NEW i \in 1 .. Len(s) + Len(t) - k
      PROVE  Drop(s \o t, k)[i] = (Drop(s, k) \o t)[i]
  <2>1. \A j \in k + 1 .. Len(s \o t) : (s \o t)[j] \in S
    BY <1>1, ElementOfSeq
  <2>2. Drop(s \o t, k)[i] = (s \o t)[k + i]
    BY <1>1, <1>2, <2>1, SubSeqProperties DEF Drop
  <2>3. (s \o t)[k + i] = IF k + i <= Len(s) THEN s[k + i] ELSE t[k + i - Len(s)]
    BY <1>2, ConcatProperties
  <2>4. \A j \in k + 1 .. Len(s) : s[j] \in S
    BY ElementOfSeq
  <2>5. i <= Len(s) - k => Drop(s, k)[i] = s[k + i]
    BY <1>2, <2>4, SubSeqProperties DEF Drop
  <2> QED
    BY <1>2, <1>5, <2>2, <2>3, <2>5
<1>7. Len(Drop(s \o t, k)) = Len(Drop(s, k) \o t)
  BY <1>2, <1>3, <1>5
<1> QED
  BY <1>3, <1>5, <1>6, <1>7, SeqEqual

(* The members of a sequence after the first k.                            *)
LEMMA DropMembers ==
  ASSUME NEW S, NEW s \in Seq(S), NEW k \in 0 .. Len(s)
  PROVE  \A i \in 1 .. Len(s) - k : Drop(s, k)[i] = s[k + i]
<1>1. \A j \in k + 1 .. Len(s) : s[j] \in S
  BY ElementOfSeq
<1>2. Len(s) \in Nat
  BY LenProperties
<1> QED
  BY <1>1, <1>2, SubSeqProperties DEF Drop

-----------------------------------------------------------------------------
(* A cut determines how many answers there are and where each ends.        *)
LEMMA CutEnds ==
  ASSUME NEW S, out \in Seq(S), NEW d \in Nat, NEW e, Cut(out, d, e)
  PROVE  Answers = d /\ \A k \in 0 .. d : End(k) = e[k]
<1> DEFINE Upto(i) == {j \in Ends : j <= i}
<1>1. Ends = {e[k] : k \in 1 .. d}
  BY LenProperties DEF Ends, Cut
<1>2. ASSUME NEW m \in 0 .. d, NEW T, T = {e[k] : k \in 1 .. m}
      PROVE  IsFiniteSet(T) /\ Cardinality(T) = m
  <2> DEFINE g == [k \in 1 .. m |-> e[k]]
  <2>1. g \in Bijection(1 .. m, T)
    <3>1. g \in [1 .. m -> T]
      BY <1>2
    <3>2. \A a, b \in 1 .. m : g[a] = g[b] => a = b
      BY DEF Cut
    <3>3. \A t \in T : \E a \in 1 .. m : g[a] = t
      BY <1>2
    <3>4. DOMAIN g = 1 .. m
      OBVIOUS
    <3> HIDE DEF g
    <3>5. g \in Injection(1 .. m, T)
      BY <3>1, <3>2, <3>4 DEF Injection, IsInjective
    <3>6. g \in Surjection(1 .. m, T)
      BY <3>1, <3>3 DEF Surjection
    <3> QED
      BY <3>5, <3>6 DEF Bijection
  <2>2. ExistsBijection(1 .. m, T)
    BY <2>1 DEF ExistsBijection
  <2>3. IsFiniteSet(1 .. m) /\ Cardinality(1 .. m) = m
    BY FS_Interval
  <2> QED
    BY <2>2, <2>3, FS_Bijection
<1>3. Answers = d
  BY <1>1, <1>2 DEF Answers
<1>4. ASSUME NEW m \in 1 .. d PROVE Cardinality(Upto(e[m])) = m
  <2>1. Upto(e[m]) = {e[k] : k \in 1 .. m}
    <3>1. \A k \in 1 .. d : e[k] <= e[m] <=> k <= m
      <4> TAKE k \in 1 .. d
      <4>1. e[k] \in Nat /\ e[m] \in Nat
        BY DEF Cut
      <4>2. k < m => e[k] < e[m]
        BY DEF Cut
      <4>3. m < k => e[m] < e[k]
        BY DEF Cut
      <4> QED
        BY <4>1, <4>2, <4>3
    <3> QED
      BY <1>1, <3>1
  <2> QED
    BY <1>2, <2>1
<1>5. ASSUME NEW m \in 1 .. d PROVE End(m) = e[m]
  <2>1. e[m] \in Ends /\ Cardinality(Upto(e[m])) = m
    BY <1>1, <1>4
  <2>2. ASSUME NEW i \in Ends, Cardinality(Upto(i)) = m PROVE i = e[m]
    <3>1. PICK k \in 1 .. d : i = e[k]
      BY <1>1
    <3>2. Cardinality(Upto(e[k])) = k
      BY <1>4
    <3> QED
      BY <2>2, <3>1, <3>2
  <2> DEFINE i == CHOOSE i \in Ends : Cardinality(Upto(i)) = m
  <2>3. i \in Ends /\ Cardinality(Upto(i)) = m
    BY <2>1
  <2>4. End(m) = i
    <3>1. m # 0
      OBVIOUS
    <3> QED
      BY <3>1 DEF End
  <2> HIDE DEF i, Upto
  <2> QED
    BY <2>2, <2>3, <2>4
<1>6. End(0) = e[0]
  BY DEF End, Cut
<1> QED
  BY <1>3, <1>5, <1>6

(* Nothing but a zero byte changes the cut.                                *)
LEMMA CutMore ==
  ASSUME NEW S, NEW o \in Seq(S), NEW t \in Seq(S), NEW d \in Nat, NEW e, Cut(o, d, e),
         \A i \in 1 .. Len(t) : t[i] # Z
  PROVE  Cut(o \o t, d, e)
<1>1. Len(o) \in Nat /\ Len(t) \in Nat
  BY LenProperties
<1>2. /\ Len(o \o t) = Len(o) + Len(t)
      /\ \A i \in 1 .. Len(o) + Len(t) : (o \o t)[i] = IF i <= Len(o) THEN o[i] ELSE t[i - Len(o)]
  BY ConcatProperties
<1>3. \A k \in 1 .. d : e[k] \in 1 .. Len(o \o t) /\ (o \o t)[e[k]] = Z
  <2> TAKE k \in 1 .. d
  <2>1. e[k] \in 1 .. Len(o) /\ o[e[k]] = Z
    BY DEF Cut
  <2> QED
    BY <1>1, <1>2, <2>1
<1>4. ASSUME NEW i \in 1 .. Len(o \o t), (o \o t)[i] = Z PROVE \E k \in 1 .. d : i = e[k]
  <2>1. CASE i <= Len(o)
    <3>1. i \in 1 .. Len(o) /\ o[i] = Z
      BY <1>1, <1>2, <1>4, <2>1
    <3> QED
      BY <3>1 DEF Cut
  <2>2. CASE ~(i <= Len(o))
    <3>1. i - Len(o) \in 1 .. Len(t) /\ t[i - Len(o)] = Z
      BY <1>1, <1>2, <1>4, <2>2
    <3> QED
      BY <3>1
  <2> QED
    BY <2>1, <2>2
<1> QED
  BY <1>3, <1>4 DEF Cut

(* A zero byte adds an answer.                                             *)
Extended(o, d, e) == [k \in 0 .. d + 1 |-> IF k = d + 1 THEN Len(o) + 1 ELSE e[k]]

LEMMA CutEnded ==
  ASSUME NEW S, NEW o \in Seq(S), Z \in S, NEW d \in Nat, NEW e, Cut(o, d, e)
  PROVE  Cut(Append(o, Z), d + 1, Extended(o, d, e))
<1> DEFINE p == Append(o, Z)
           g == Extended(o, d, e)
<1>1. Len(o) \in Nat
  BY LenProperties
<1>2. /\ Len(p) = Len(o) + 1 /\ p[Len(o) + 1] = Z
      /\ \A i \in 1 .. Len(o) : p[i] = o[i]
  BY AppendProperties
<1>3. /\ g \in [0 .. d + 1 -> Nat] /\ g[d + 1] = Len(o) + 1
      /\ \A k \in 0 .. d : g[k] = e[k]
  BY <1>1 DEF Extended, Cut
<1> HIDE DEF g, p
<1>4. \A k \in 0 .. d : e[k] \in Nat /\ e[k] < Len(o) + 1
  <2> TAKE k \in 0 .. d
  <2>1. CASE k = 0
    BY <1>1, <2>1 DEF Cut
  <2>2. CASE k \in 1 .. d
    BY <1>1, <2>2 DEF Cut
  <2> QED
    BY <2>1, <2>2
<1>5. g[0] = 0
  BY <1>3 DEF Cut
<1>6. ASSUME NEW i \in 0 .. d + 1, NEW j \in 0 .. d + 1, i < j PROVE g[i] < g[j]
  <2>1. CASE j = d + 1
    BY <1>3, <1>4, <1>6, <2>1
  <2>2. CASE j \in 0 .. d
    <3>1. i \in 0 .. d /\ e[i] < e[j]
      BY <1>6, <2>2 DEF Cut
    <3> QED
      BY <1>3, <2>2, <3>1
  <2> QED
    BY <2>1, <2>2
<1>7. ASSUME NEW k \in 1 .. d + 1 PROVE g[k] \in 1 .. Len(p) /\ p[g[k]] = Z
  <2>1. CASE k = d + 1
    BY <1>1, <1>2, <1>3, <2>1
  <2>2. CASE k \in 1 .. d
    <3>1. e[k] \in 1 .. Len(o) /\ o[e[k]] = Z /\ k \in 0 .. d
      BY <2>2 DEF Cut
    <3>2. g[k] = e[k] /\ p[e[k]] = o[e[k]]
      BY <1>2, <1>3, <3>1
    <3> QED
      BY <1>1, <1>2, <3>1, <3>2
  <2> QED
    BY <2>1, <2>2
<1>8. ASSUME NEW i \in 1 .. Len(p), p[i] = Z PROVE \E k \in 1 .. d + 1 : i = g[k]
  <2>1. CASE i = Len(o) + 1
    BY <1>3, <2>1
  <2>2. CASE i \in 1 .. Len(o)
    <3>1. PICK k \in 1 .. d : i = e[k]
      BY <1>2, <1>8, <2>2 DEF Cut
    <3> QED
      BY <1>3, <3>1
  <2> QED
    BY <1>1, <1>2, <2>1, <2>2
<1>9. Cut(p, d + 1, g)
  BY <1>3, <1>5, <1>6, <1>7, <1>8 DEF Cut
<1> QED
  BY <1>9 DEF g, p

-----------------------------------------------------------------------------
(* A query that is sent is spelt after those on their way.                 *)
Longer(f, d, qs, q) ==
  [k \in d .. Len(qs) + 1 |-> IF k = Len(qs) + 1 THEN f[Len(qs)] + Size[q] ELSE f[k]]

LEMMA SpeltMore ==
  ASSUME NEW s \in Seq(Byte), NEW qs \in Seq(Query), NEW q \in Query,
         NEW d \in 0 .. Len(qs), NEW f, Spelt(s, qs, d, f)
  PROVE  Spelt(s \o Bytes(q), Append(qs, q), d, Longer(f, d, qs, q))
<1> DEFINE L == Len(qs)
           t == s \o Bytes(q)
           ps == Append(qs, q)
           g == Longer(f, d, qs, q)
<1>1. L \in Nat /\ Len(s) \in Nat /\ d \in Nat /\ d <= L
  BY LenProperties
<1>2. Len(ps) = L + 1 /\ ps[L + 1] = q /\ \A k \in 1 .. L : ps[k] = qs[k]
  BY AppendProperties
<1>3. Size[q] \in Nat /\ \A k \in 1 .. L : Size[qs[k]] \in Nat
  BY QueryAssumption, ElementOfSeq
<1>4. /\ Len(Bytes(q)) = Size[q] /\ \A i \in 1 .. Size[q] : Bytes(q)[i] = <<q, i>>
  BY <1>3 DEF Bytes
<1>5. /\ Len(t) = Len(s) + Size[q]
      /\ \A i \in 1 .. Len(s) : t[i] = s[i]
      /\ \A i \in 1 .. Size[q] : t[Len(s) + i] = <<q, i>>
  <2> DEFINE b == Bytes(q)
  <2>1. b \in Seq(Byte)
    BY BytesType
  <2>2. Len(b) = Size[q] /\ \A i \in 1 .. Size[q] : b[i] = <<q, i>>
    BY <1>4
  <2> HIDE DEF b
  <2>3. /\ Len(s \o b) = Len(s) + Len(b)
        /\ \A i \in 1 .. Len(s) + Len(b) : (s \o b)[i] = IF i <= Len(s) THEN s[i] ELSE b[i - Len(s)]
    BY <2>1, ConcatProperties
  <2>4. ASSUME NEW i \in 1 .. Size[q] PROVE (s \o b)[Len(s) + i] = <<q, i>>
    <3>1. Len(s) + i \in 1 .. Len(s) + Len(b) /\ ~(Len(s) + i <= Len(s)) /\ Len(s) + i - Len(s) = i
      BY <1>1, <1>3, <2>2
    <3> QED
      BY <2>2, <2>3, <3>1
  <2>5. t = s \o b
    BY DEF b
  <2> HIDE DEF t
  <2> QED
    BY <1>1, <1>3, <2>2, <2>3, <2>4, <2>5
<1>6. /\ f \in [d .. L -> Nat] /\ f[d] = 0 /\ f[L] = Len(s)
      /\ \A i, j \in d .. L : i <= j => f[i] <= f[j]
      /\ \A k \in d + 1 .. L : f[k] = f[k - 1] + Size[qs[k]]
      /\ \A k \in d + 1 .. L : \A i \in 1 .. Size[qs[k]] : s[f[k - 1] + i] = <<qs[k], i>>
  BY DEF Spelt
<1>7. /\ g \in [d .. L + 1 -> Nat] /\ g[L + 1] = Len(s) + Size[q]
      /\ \A k \in d .. L : g[k] = f[k]
  BY <1>1, <1>3, <1>6 DEF Longer
<1> HIDE DEF g, t, ps, L
<1>8. g[d] = 0
  BY <1>1, <1>6, <1>7
<1>9. ASSUME NEW i \in d .. L + 1, NEW j \in d .. L + 1, i <= j PROVE g[i] <= g[j]
  <2>1. \A k \in d .. L : f[k] \in Nat /\ f[k] <= Len(s)
    BY <1>1, <1>6
  <2>2. CASE j = L + 1 /\ i = L + 1
    BY <1>1, <1>3, <1>7, <2>2
  <2>3. CASE j = L + 1 /\ i \in d .. L
    BY <1>1, <1>3, <1>7, <2>1, <2>3
  <2>4. CASE j \in d .. L
    <3>1. i \in d .. L
      BY <1>1, <1>9, <2>4
    <3> QED
      BY <1>6, <1>7, <1>9, <2>4, <3>1
  <2> QED
    BY <1>1, <2>2, <2>3, <2>4
<1>10. ASSUME NEW k \in d + 1 .. L + 1
       PROVE  g[k] = g[k - 1] + Size[ps[k]] /\ \A i \in 1 .. Size[ps[k]] : t[g[k - 1] + i] = <<ps[k], i>>
  <2>1. CASE k = L + 1
    <3>1. k - 1 \in d .. L /\ k - 1 = L /\ g[k - 1] = Len(s) /\ ps[k] = q
      BY <1>1, <1>2, <1>6, <1>7, <2>1
    <3> QED
      BY <1>5, <1>7, <2>1, <3>1
  <2>2. CASE k \in d + 1 .. L
    <3>1. k \in 1 .. L /\ k \in d .. L /\ k - 1 \in d .. L
      BY <1>1, <2>2
    <3>2. ps[k] = qs[k] /\ g[k] = f[k] /\ g[k - 1] = f[k - 1] /\ Size[qs[k]] \in Nat
      BY <1>2, <1>3, <1>7, <3>1
    <3>3. f[k] = f[k - 1] + Size[qs[k]] /\ f[k] <= Len(s) /\ f[k - 1] \in Nat
      BY <1>1, <1>6, <2>2, <3>1
    <3>4. ASSUME NEW i \in 1 .. Size[qs[k]] PROVE t[f[k - 1] + i] = <<qs[k], i>>
      <4>1. s[f[k - 1] + i] = <<qs[k], i>>
        BY <1>6, <2>2
      <4>2. f[k - 1] + i \in 1 .. Len(s)
        <5>1. /\ f[k - 1] \in Nat /\ Size[qs[k]] \in Nat /\ Len(s) \in Nat
              /\ f[k - 1] + Size[qs[k]] <= Len(s)
          BY <1>1, <3>2, <3>3
        <5> QED
          BY <5>1, Within
      <4> QED
        BY <1>5, <4>1, <4>2
    <3> QED
      BY <3>2, <3>3, <3>4
  <2>3. k = L + 1 \/ k \in d + 1 .. L
    BY <1>1
  <2> QED
    BY <2>1, <2>2, <2>3
<1>11. g[Len(ps)] = Len(t)
  BY <1>2, <1>5, <1>7
<1>12. Spelt(t, ps, d, g)
  BY <1>2, <1>7, <1>8, <1>9, <1>10, <1>11 DEF Spelt
<1> QED
  BY <1>12 DEF g, t, ps

(* The first query on its way is spelt at the front, and the others after  *)
(* it; a query is on its way if there are any bytes.                       *)
Later(f, d, qs) == [k \in d + 1 .. Len(qs) |-> f[k] - f[d + 1]]

LEMMA SpeltFirst ==
  ASSUME NEW s \in Seq(Byte), NEW qs \in Seq(Query), NEW d \in 0 .. Len(qs) - 1,
         NEW f, Spelt(s, qs, d, f)
  PROVE  /\ Size[qs[d + 1]] \in 1 .. Len(s)
         /\ \A i \in 1 .. Size[qs[d + 1]] : s[i] = <<qs[d + 1], i>>
         /\ Spelt(Drop(s, Size[qs[d + 1]]), qs, d + 1, Later(f, d, qs))
<1> DEFINE L == Len(qs)
           q == qs[d + 1]
           m == Size[q]
           t == Drop(s, m)
           g == Later(f, d, qs)
<1>1. L \in Nat /\ Len(s) \in Nat /\ d \in Nat /\ d + 1 \in 1 .. L
  BY LenProperties
<1>2. \A k \in 1 .. L : Size[qs[k]] \in Nat \ {0}
  BY QueryAssumption, ElementOfSeq
<1>3. /\ f \in [d .. L -> Nat] /\ f[d] = 0 /\ f[L] = Len(s)
      /\ \A i, j \in d .. L : i <= j => f[i] <= f[j]
      /\ \A k \in d + 1 .. L : f[k] = f[k - 1] + Size[qs[k]]
      /\ \A k \in d + 1 .. L : \A i \in 1 .. Size[qs[k]] : s[f[k - 1] + i] = <<qs[k], i>>
  BY DEF Spelt
<1>4. m \in Nat \ {0} /\ f[d + 1] = m
  <2>1. m \in Nat \ {0} /\ d + 1 \in d + 1 .. L /\ d + 1 - 1 = d
    BY <1>1, <1>2
  <2>2. f[d + 1] = f[d + 1 - 1] + m
    BY <1>3, <2>1
  <2> HIDE DEF m
  <2> QED
    BY <1>3, <2>1, <2>2
<1>5. \A i \in 1 .. m : s[i] = <<q, i>>
  <2> TAKE i \in 1 .. m
  <2>1. PICK k \in d + 1 .. L : k = d + 1
    BY <1>1
  <2>2. k - 1 = d /\ 0 + i = i /\ i \in 1 .. Size[qs[k]]
    BY <1>1, <1>4, <2>1
  <2>3. s[f[k - 1] + i] = <<qs[k], i>>
    BY <1>3, <2>2
  <2> QED
    BY <1>3, <2>1, <2>2, <2>3
<1>6. m \in 1 .. Len(s)
  <2>1. f[d + 1] <= f[L]
    BY <1>1, <1>3
  <2> HIDE DEF m
  <2> QED
    BY <1>1, <1>3, <1>4, <2>1
<1>7. Len(t) = Len(s) - m /\ \A i \in 1 .. Len(s) - m : t[i] = s[m + i]
  <2> HIDE DEF m
  <2>1. m \in 0 .. Len(s) /\ m \in Nat /\ m <= Len(s)
    BY <1>1, <1>6
  <2>2. m <= Len(s) => Len(Drop(s, m)) = Len(s) - m
    BY <2>1, DropType
  <2>3. \A i \in 1 .. Len(s) - m : Drop(s, m)[i] = s[m + i]
    BY <2>1, DropMembers
  <2> QED
    BY <2>1, <2>2, <2>3
<1>8. \A k \in d + 1 .. L : f[k] \in Nat /\ f[k] >= m /\ f[k] <= Len(s) /\ g[k] = f[k] - m
  <2> TAKE k \in d + 1 .. L
  <2>1. k \in d .. L /\ d + 1 \in d .. L /\ L \in d .. L
    BY <1>1
  <2>2. f[d + 1] <= f[k] /\ f[k] <= f[L] /\ f[k] \in Nat
    <3>1. d + 1 <= k /\ k <= L
      BY <1>1
    <3>2. \A i, j \in d .. L : i <= j => f[i] <= f[j]
      BY <1>3
    <3> HIDE DEF L
    <3> QED
      BY <1>3, <2>1, <3>1, <3>2
  <2>3. g[k] = f[k] - f[d + 1]
    BY DEF Later
  <2> HIDE DEF m, g
  <2> QED
    BY <1>1, <1>3, <1>4, <2>2, <2>3
<1>9. g \in [d + 1 .. L -> Nat]
  <2>1. \A k \in d + 1 .. L : f[k] - f[d + 1] \in Nat
    <3> HIDE DEF m
    <3> QED
      BY <1>4, <1>8
  <2> QED
    BY <2>1 DEF Later
<1> HIDE DEF g, t, m, L
<1>10. g[d + 1] = 0 /\ g[L] = Len(t)
  BY <1>1, <1>3, <1>4, <1>7, <1>8
<1>11. \A i, j \in d + 1 .. L : i <= j => g[i] <= g[j]
  BY <1>1, <1>3, <1>4, <1>8
<1>12. ASSUME NEW k \in d + 2 .. L
       PROVE  g[k] = g[k - 1] + Size[qs[k]] /\ \A i \in 1 .. Size[qs[k]] : t[g[k - 1] + i] = <<qs[k], i>>
  <2>1. k \in d + 1 .. L /\ k - 1 \in d + 1 .. L /\ k \in 1 .. L
    BY <1>1
  <2>2. Size[qs[k]] \in Nat /\ f[k] = f[k - 1] + Size[qs[k]]
    BY <1>2, <1>3, <2>1
  <2>3. g[k] = f[k] - m /\ g[k - 1] = f[k - 1] - m /\ f[k] <= Len(s) /\ f[k - 1] \in Nat /\ m <= f[k - 1]
    BY <1>8, <2>1
  <2>4. ASSUME NEW i \in 1 .. Size[qs[k]] PROVE t[g[k - 1] + i] = <<qs[k], i>>
    <3>1. s[f[k - 1] + i] = <<qs[k], i>>
      BY <1>3, <2>1
    <3> DEFINE a == f[k - 1]
               w == Size[qs[k]]
    <3>2. /\ a \in Nat /\ w \in Nat /\ m \in Nat /\ Len(s) \in Nat /\ i \in 1 .. w
          /\ a + w <= Len(s) /\ m <= a /\ g[k - 1] = a - m
      BY <1>1, <1>4, <2>2, <2>3
    <3> HIDE DEF a, w
    <3>3. (a - m) + i \in 1 .. Len(s) - m /\ m + ((a - m) + i) = a + i
      BY <3>2
    <3>4. t[(a - m) + i] = s[a + i]
      BY <1>7, <3>3
    <3> QED
      BY <3>1, <3>2, <3>4 DEF a
  <2>5. g[k] = g[k - 1] + Size[qs[k]]
    <3> DEFINE a == f[k - 1]
               w == Size[qs[k]]
    <3>1. /\ a \in Nat /\ w \in Nat /\ m \in Nat /\ g[k - 1] = a - m /\ g[k] = (a + w) - m
      BY <1>4, <2>2, <2>3
    <3> HIDE DEF a
    <3> QED
      BY <3>1
  <2> QED
    BY <2>4, <2>5
<1>13. (d + 1) + 1 = d + 2
  BY <1>1
<1>14. Spelt(t, qs, d + 1, g)
  BY <1>9, <1>10, <1>11, <1>12, <1>13 DEF Spelt, L
<1> QED
  BY <1>5, <1>6, <1>14 DEF g, t, m, L

(* No bytes, no query on its way.                                          *)
LEMMA SpeltNone ==
  ASSUME NEW s \in Seq(Byte), s # <<>>, NEW qs \in Seq(Query), NEW d \in 0 .. Len(qs),
         NEW f, Spelt(s, qs, d, f)
  PROVE  d < Len(qs)
<1>1. Len(s) \in Nat \ {0} /\ Len(qs) \in Nat
  BY EmptySeq, LenProperties
<1> QED
  BY <1>1 DEF Spelt

-----------------------------------------------------------------------------
(* The first word of the answer due to a query, and what makes an answer   *)
(* right.                                                                  *)
Status(q, verbose) ==
  IF Verdict(q).ok THEN <<"ok", Verdict(q).patno>>
  ELSE <<IF verbose THEN "error" ELSE "er", Verdict(q).patno, Verdict(q).erno>>

Right(q, a) ==
  LET v == Verdict(q)
      text == Tail(a)
  IN IF v.ok THEN a = << <<"ok", v.patno>> >>
     ELSE /\ a[1] = <<IF explain THEN "error" ELSE "er", v.patno, v.erno>>
          /\ text \in {<<>>, Printed(q)}
          /\ v.prev # Unset => (text = <<>> <=> ~explain \/ v.prev)

Output == {Z} \cup Message \cup {Status(q, verbose) : q \in Query, verbose \in BOOLEAN}

Typed ==
  /\ asked \in Seq(Query) /\ out \in Seq(Output)
  /\ explain \in BOOLEAN /\ prevno \in BOOLEAN

(* What has been said of the query in hand.                                *)
Carried(q) ==
  /\ said.q = q /\ said.ok = Verdict(q).ok /\ said.patno = Verdict(q).patno
  /\ Verdict(q).prev # Unset => prevno = Verdict(q).prev

Shown(text) == IF Written THEN text ELSE <<>>

(* The k-th piece of o cut at e, without the zero byte at its end.          *)
Piece(o, e, k) == SubSeq(o, e[k - 1] + 1, e[k] - 1)

(* d queries have been answered: e are the ends of the answers, f those of *)
(* the queries on their way.  The d + 1st is in hand once it has been read *)
(* to its end.                                                             *)
Progress(d, e, f) ==
  /\ Cut(out, d, e)
  /\ \A k \in 1 .. d : Right(asked[k], Piece(out, e, k))
  /\ pc # "exited" => Spelt(quebuf \o in, asked, d, f)
  /\ pc \in {"query", "handle", "resp"} => e[d] = Len(out)
  /\ pc = "query" => \A i \in 1 .. n : ~IsZero(quebuf[i])
  /\ pc \in {"handle", "resp", "drain"} => d < Len(asked) /\ n = Size[asked[d + 1]]
  /\ pc \in {"resp", "drain"} => Carried(asked[d + 1])
  /\ pc = "resp" => erp = Printed(asked[d + 1]) /\ (~said.ok => lasterr = Verdict(asked[d + 1]).erno)
  /\ pc = "drain" => Drop(out, e[d]) \o Shown(erp)
                       = <<Status(asked[d + 1], explain)>> \o Shown(Printed(asked[d + 1]))

(* Concatenation of texts is associative.                                  *)
LEMMA Assoc ==
  ASSUME NEW a \in Seq(Byte), NEW b \in Seq(Byte), NEW c \in Seq(Byte)
  PROVE  (a \o b) \o c = a \o (b \o c)
BY ConcatAssociative

OInv == IInv /\ Typed /\ \E d \in 0 .. Len(asked) : \E e, f : Progress(d, e, f)

-----------------------------------------------------------------------------
(* The verdict on a query: whatever is wrong is printed, unless it was not *)
(* understood.                                                             *)
LEMMA VerdictType ==
  ASSUME NEW q \in Query
  PROVE  /\ Verdict(q).ok \in BOOLEAN /\ Verdict(q).prev \in BOOLEAN \cup {Unset}
         /\ Verdict(q).said \in Nat
         /\ ~Verdict(q).ok /\ Verdict(q).prev # Unset => Verdict(q).said > 0
<1>1. Verdict(q).said \in Nat
  <2>1. PIPE \in Nat /\ Verdict(q).said \in 0 .. PIPE
    BY PipeAssumption
  <2> QED
    BY <2>1
<1>2. CASE Quits(q)
  <2>1. Verdict(q) = Quiet(0)
    BY <1>2 DEF Verdict, Spurned, Quits, kwdtab, Events
  <2> QED
    BY <1>1, <2>1 DEF Quiet
<1>3. CASE Spurned(q) /\ ~Quits(q)
  <2>1. Verdict(q) = PROTER
    BY <1>3 DEF Verdict
  <2> QED
    BY <1>1, <2>1 DEF PROTER
<1>4. CASE ~Spurned(q) /\ ~Quits(q) /\ q.kwd = "start"
  <2>1. Verdict(q) = Quiet(starts[q.no + 1])
    BY <1>4 DEF Verdict, Events
  <2> QED
    BY <1>1, <2>1 DEF Quiet
<1>5. CASE ~Spurned(q) /\ ~Quits(q) /\ q.kwd \in Events
  <2>1. Verdict(q) = Rnv[q]
    BY <1>5 DEF Verdict, Events
  <2> QED
    BY <1>1, <1>5, <2>1, QueryAssumption
<1>6. ~Spurned(q) /\ ~Quits(q) => q.kwd \in Events \/ q.kwd = "start"
  BY DEF Spurned, Quits, kwdtab
<1> QED
  BY <1>2, <1>3, <1>4, <1>5, <1>6

(* What is written is either a zero byte or a word that is none.           *)
LEMMA OutputType ==
  /\ Z \in Output
  /\ \A q \in Query, verbose \in BOOLEAN : Status(q, verbose) \in Output /\ Status(q, verbose) # Z
  /\ Message \subseteq Output /\ Z \notin Message
<1>1. Z \in Output /\ Message \subseteq Output
  BY DEF Output
<1>2. ASSUME NEW q \in Query, NEW verbose \in BOOLEAN
      PROVE  Status(q, verbose) \in Output /\ Status(q, verbose) # Z
  <2>1. Status(q, verbose) \in Output
    BY DEF Output
  <2>2. Status(q, verbose)[1] \in {"ok", "error", "er"}
    BY DEF Status
  <2>3. Z[1] = "z"
    BY DEF Z
  <2> QED
    BY <2>1, <2>2, <2>3
<1>3. Z \notin Message
  BY DEF Z, Message
<1> QED
  BY <1>1, <1>2, <1>3

(* An answer made of the first word and what is shown is right.            *)
LEMMA RightAnswer ==
  ASSUME NEW q \in Query, Typed, Carried(q), NEW a, a = <<Status(q, explain)>> \o Shown(Printed(q))
  PROVE  Right(q, a)
<1> DEFINE w == Status(q, explain)
           x == Printed(q)
<1>1. Verdict(q).ok \in BOOLEAN /\ Verdict(q).prev \in BOOLEAN \cup {Unset}
  BY VerdictType
<1>2. x \in Seq(Message) /\ Len(x) = Verdict(q).said /\ Verdict(q).said \in Nat
  BY PrintedType, VerdictType DEF Printed
<1>3. <<w>> \in Seq(Output) /\ Shown(x) \in Seq(Output) /\ <<w>> # <<>> /\ Len(<<w>>) = 1
  <2>1. x \in Seq(Output)
    BY <1>2, OutputType, SeqMonotonic
  <2>2. <<>> \in Seq(Output)
    OBVIOUS
  <2>3. w \in Output
    BY OutputType DEF Typed
  <2> HIDE DEF w, x
  <2> QED
    BY <2>1, <2>2, <2>3 DEF Shown
<1>4. a[1] = w /\ Tail(a) = Shown(x)
  <2> DEFINE y == Shown(x)
  <2>1. y \in Seq(Output) /\ <<w>> \in Seq(Output) /\ Len(y) \in Nat
    BY <1>3, LenProperties
  <2>2. a = <<w>> \o y
    OBVIOUS
  <2> HIDE DEF w, y
  <2>3. /\ a \in Seq(Output) /\ Len(a) = 1 + Len(y)
        /\ \A i \in 1 .. 1 + Len(y) : a[i] = IF i <= 1 THEN w ELSE y[i - 1]
    <3>1. /\ <<w>> \o y \in Seq(Output) /\ Len(<<w>> \o y) = Len(<<w>>) + Len(y)
          /\ \A i \in 1 .. Len(<<w>>) + Len(y) :
               (<<w>> \o y)[i] = IF i <= Len(<<w>>) THEN <<w>>[i] ELSE y[i - Len(<<w>>)]
      BY <2>1, ConcatProperties
    <3> QED
      BY <1>3, <2>1, <2>2, <3>1
  <2>4. a # <<>>
    BY <2>1, <2>3
  <2>5. /\ Tail(a) \in Seq(Output) /\ Len(Tail(a)) = Len(a) - 1
        /\ \A i \in 1 .. Len(Tail(a)) : Tail(a)[i] = a[i + 1]
    BY <2>3, <2>4, HeadTailProperties
  <2>6. Tail(a) = y
    <3>1. Len(Tail(a)) = Len(y)
      BY <2>1, <2>3, <2>5
    <3>2. ASSUME NEW i \in 1 .. Len(y) PROVE Tail(a)[i] = y[i]
      <4>1. i + 1 \in 1 .. 1 + Len(y) /\ ~(i + 1 <= 1) /\ i + 1 - 1 = i
        BY <2>1
      <4>2. Tail(a)[i] = a[i + 1]
        BY <2>5, <3>1
      <4>3. a[i + 1] = y[i + 1 - 1]
        BY <2>3, <4>1
      <4> QED
        BY <4>1, <4>2, <4>3
    <3> DEFINE v == Tail(a)
    <3>3. v \in Seq(Output) /\ Len(v) = Len(y) /\ \A i \in 1 .. Len(v) : v[i] = y[i]
      BY <2>5, <3>1, <3>2
    <3>4. y \in Seq(Output)
      BY <2>1
    <3> HIDE DEF v
    <3>5. v = y
      BY <3>3, <3>4, SeqEqual
    <3> QED
      BY <3>5 DEF v
  <2>7. a[1] = w
    BY <2>1, <2>3
  <2> QED
    BY <2>6, <2>7 DEF y
<1>5. CASE Verdict(q).ok
  <2>1. Shown(x) = <<>>
    BY <1>5 DEF Shown, Written, Carried
  <2>2. a = <<w>>
    BY <1>3, <2>1, ConcatEmptySeq
  <2> QED
    BY <1>5, <2>2 DEF Right, Status
<1>6. CASE ~Verdict(q).ok
  <2>1. a[1] = <<IF explain THEN "error" ELSE "er", Verdict(q).patno, Verdict(q).erno>>
    BY <1>4, <1>6 DEF Status
  <2>2. Tail(a) \in {<<>>, Printed(q)}
    BY <1>4 DEF Shown
  <2>3. ASSUME Verdict(q).prev # Unset PROVE Tail(a) = <<>> <=> ~explain \/ Verdict(q).prev
    <3>1. x # <<>>
      BY <1>2, <1>6, <2>3, VerdictType
    <3>2. prevno = Verdict(q).prev /\ ~said.ok
      BY <1>6, <2>3 DEF Carried
    <3> HIDE DEF x
    <3> QED
      BY <1>4, <3>1, <3>2 DEF Shown, Written
  <2> QED
    BY <1>6, <2>1, <2>2, <2>3 DEF Right
<1> QED
  BY <1>1, <1>5, <1>6

-----------------------------------------------------------------------------
(* Each step keeps a progress, and with it the types.                      *)
LEMMA SendKeeps ==
  ASSUME IInv, Typed, NEW d \in 0 .. Len(asked), NEW e, NEW f, Progress(d, e, f),
         NEW q \in Query, send(q), NEW g, g = Longer(f, d, asked, q)
  PROVE  Typed' /\ d \in 0 .. Len(asked') /\ Progress(d, e, g)'
<1>1. asked \in Seq(Query) /\ Len(asked) \in Nat /\ d \in Nat /\ d <= Len(asked)
  BY LenProperties DEF Typed
<1>2. /\ asked' \in Seq(Query) /\ Len(asked') = Len(asked) + 1
      /\ \A k \in 1 .. Len(asked) : asked'[k] = asked[k]
  BY <1>1, AppendProperties DEF send
<1>3. Typed'
  BY <1>2 DEF send, Typed
<1>4. pc' # "exited" => Spelt((quebuf \o in)', asked', d, g)
  <2> SUFFICES ASSUME pc # "exited" PROVE Spelt((quebuf \o in)', asked', d, g)
    BY DEF send
  <2> DEFINE s == quebuf \o in
             b == Bytes(q)
  <2>1. quebuf \in Seq(Byte) /\ in \in Seq(Byte) /\ b \in Seq(Byte)
    BY BytesType DEF IInv
  <2>2. s \in Seq(Byte)
    BY <2>1, ConcatProperties
  <2>3. (quebuf \o in)' = s \o b
    <3>1. (quebuf \o in)' = quebuf \o (in \o b)
      BY DEF send
    <3> HIDE DEF b
    <3>2. (quebuf \o in) \o b = quebuf \o (in \o b)
      BY <2>1, Assoc
    <3> QED
      BY <3>1, <3>2
  <2>4. Spelt(s, asked, d, f)
    BY DEF Progress
  <2> HIDE DEF s
  <2>5. Spelt(s \o Bytes(q), Append(asked, q), d, Longer(f, d, asked, q))
    BY <1>1, <2>2, <2>4, SpeltMore
  <2>6. asked' = Append(asked, q)
    BY DEF send
  <2> QED
    BY <2>3, <2>5, <2>6
<1>5. \A k \in 1 .. d : Right(asked[k], Piece(out, e, k))'
  <2> TAKE k \in 1 .. d
  <2>1. asked'[k] = asked[k]
    BY <1>1, <1>2
  <2>2. Right(asked[k], Piece(out, e, k))
    BY DEF Progress
  <2> QED
    BY <2>1, <2>2 DEF send, Right
<1>6. d < Len(asked) => asked'[d + 1] = asked[d + 1]
  BY <1>1, <1>2
<1>7. d < Len(asked) => d < Len(asked') 
  BY <1>1, <1>2
<1>8. UNCHANGED <<pc, out, n, erp, lasterr, prevno, said, explain, quebuf>>
  BY DEF send
<1>9. pc' \in {"handle", "resp", "drain"} => (d < Len(asked) /\ n = Size[asked[d + 1]])'
  BY <1>6, <1>7, <1>8 DEF Progress
<1>10. pc' \in {"resp", "drain"} => Carried(asked[d + 1])'
  BY <1>6, <1>8 DEF Progress, Carried
<1>11. pc' = "resp" => (erp = Printed(asked[d + 1]) /\ (~said.ok => lasterr = Verdict(asked[d + 1]).erno))'
  BY <1>6, <1>8 DEF Progress
<1>12. pc' = "drain" => (Drop(out, e[d]) \o Shown(erp)
                           = <<Status(asked[d + 1], explain)>> \o Shown(Printed(asked[d + 1])))'
  BY <1>6, <1>8 DEF Progress, Shown, Written
<1>13. pc' = "query" => \A i \in 1 .. n' : ~IsZero(quebuf[i])'
  BY <1>8 DEF Progress, IsZero
<1>14. (Cut(out, d, e) /\ (pc \in {"query", "handle", "resp"} => e[d] = Len(out)))'
  BY <1>8 DEF Progress
<1>15. (pc # "exited" => Spelt(quebuf \o in, asked, d, g))'
  BY <1>4, <1>8
<1>16. Progress(d, e, g)'
  BY <1>5, <1>9, <1>10, <1>11, <1>12, <1>13, <1>14, <1>15, Zenon DEF Progress
<1> QED
  BY <1>1, <1>2, <1>3, <1>16

LEMMA ReadKeeps ==
  ASSUME IInv, Typed, NEW d \in 0 .. Len(asked), NEW e, NEW f, Progress(d, e, f), read
  PROVE  Typed' /\ d \in 0 .. Len(asked') /\ Progress(d, e, f)'
<1>1. quebuf \in Seq(Byte) /\ in \in Seq(Byte) /\ n \in 0 .. n_q /\ n_q \in Nat /\ Len(in) \in Nat
  BY LenProperties DEF IInv, n_q
<1>2. PICK dn \in 1 .. Min({LEN_B, Len(in)}) :
        quebuf' = quebuf \o SubSeq(in, 1, dn) /\ in' = Drop(in, dn)
  BY DEF read
<1>3. dn \in 1 .. Len(in)
  <2> DEFINE least == Min({LEN_B, Len(in)})
  <2>1. LEN_B \in Nat
    BY PipeAssumption
  <2>2. least \in Nat /\ least <= Len(in)
    BY <1>1, <2>1, SmallerOne
  <2>3. dn \in 1 .. least
    OBVIOUS
  <2> HIDE DEF least
  <2> QED
    BY <1>1, <2>2, <2>3
<1>4. SubSeq(in, 1, dn) \in Seq(Byte)
  <2>1. \A i \in 1 .. dn : in[i] \in Byte
    BY <1>1, <1>3, ElementOfSeq
  <2> QED
    BY <1>3, <2>1, SubSeqProperties
<1>5. (quebuf \o in)' = quebuf \o in
  <2> DEFINE x == SubSeq(in, 1, dn)
             y == Drop(in, dn)
  <2>1. x \o y = in
    <3>1. 1 \in 1 .. Len(in) + 1 /\ dn \in 1 - 1 .. Len(in) /\ Len(in) \in dn .. Len(in)
      BY <1>1, <1>3
    <3>2. SubSeq(in, 1, dn) \o SubSeq(in, dn + 1, Len(in)) = SubSeq(in, 1, Len(in))
      BY <1>1, <3>1, ConcatAdjacentSubSeq
    <3>3. SubSeq(in, 1, Len(in)) = in
      BY <1>1, SubSeqFull
    <3> QED
      BY <3>2, <3>3 DEF Drop
  <2>2. y \in Seq(Byte)
    BY <1>1, <1>3, DropType
  <2>3. (quebuf \o in)' = (quebuf \o x) \o y
    BY <1>2
  <2>4. x \in Seq(Byte)
    BY <1>4
  <2> HIDE DEF x, y
  <2>5. (quebuf \o x) \o y = quebuf \o (x \o y)
    <3>1. quebuf \in Seq(Byte)
      BY <1>1
    <3> QED
      BY <2>2, <2>4, <3>1, Assoc
  <2> QED
    BY <2>1, <2>3, <2>5
<1>6. \A i \in 1 .. n : quebuf'[i] = quebuf[i]
  <2> DEFINE x == SubSeq(in, 1, dn)
  <2>1. x \in Seq(Byte) /\ quebuf' = quebuf \o x
    BY <1>2, <1>4
  <2> HIDE DEF x
  <2>2. \A i \in 1 .. Len(quebuf) + Len(x) : (quebuf \o x)[i] = IF i <= Len(quebuf) THEN quebuf[i] ELSE x[i - Len(quebuf)]
    BY <1>1, <2>1, ConcatProperties
  <2>3. Len(x) \in Nat
    BY <2>1, LenProperties
  <2> QED
    BY <1>1, <2>1, <2>2, <2>3 DEF n_q
<1>7. Typed' /\ d \in 0 .. Len(asked')
  BY DEF read, Server, Typed
<1>8. \A k \in 1 .. d : Right(asked[k], Piece(out, e, k))'
  BY DEF Progress, read, Server, Right
<1>9. pc' = "query" => \A i \in 1 .. n' : ~IsZero(quebuf[i])'
  BY <1>6 DEF Progress, read, Server, IsZero
<1>10. pc' # "exited" => Spelt((quebuf \o in)', asked', d, f)
  BY <1>5 DEF Progress, read, Server
<1>11. pc' = "query" /\ pc = "query" /\ out' = out
  BY DEF read
<1> QED
  BY <1>7, <1>8, <1>9, <1>10, <1>11 DEF Progress

LEMMA ScanKeeps ==
  ASSUME IInv, Typed, NEW d \in 0 .. Len(asked), NEW e, NEW f, Progress(d, e, f), scan
  PROVE  Typed' /\ d \in 0 .. Len(asked') /\ Progress(d, e, f)'
<1>1. /\ quebuf \in Seq(Byte) /\ in \in Seq(Byte) /\ n \in 0 .. n_q /\ n_q \in Nat /\ n < n_q
      /\ n_q = Len(quebuf) /\ Len(in) \in Nat /\ asked \in Seq(Query) /\ Len(asked) \in Nat
  BY LenProperties DEF IInv, n_q, scan, Typed
<1> DEFINE s == quebuf \o in
<1>2. s \in Seq(Byte) /\ Len(s) = n_q + Len(in) /\ \A i \in 1 .. n_q : s[i] = quebuf[i]
  <2>1. /\ s \in Seq(Byte) /\ Len(s) = Len(quebuf) + Len(in)
        /\ \A i \in 1 .. Len(quebuf) + Len(in) : s[i] = IF i <= Len(quebuf) THEN quebuf[i] ELSE in[i - Len(quebuf)]
    BY <1>1, ConcatProperties
  <2> HIDE DEF s
  <2> QED
    BY <1>1, <2>1
<1>3. Spelt(s, asked, d, f)
  BY DEF Progress, scan
<1> HIDE DEF s
<1>4. d \in 0 .. Len(asked) - 1
  <2>1. s # <<>>
    BY <1>1, <1>2
  <2>2. d < Len(asked)
    BY <1>1, <1>2, <1>3, <2>1, SpeltNone
  <2> QED
    BY <1>1, <2>2
<1> DEFINE q == asked[d + 1]
<1>5. Size[q] \in 1 .. Len(s) /\ \A i \in 1 .. Size[q] : s[i] = <<q, i>>
  BY <1>1, <1>2, <1>3, <1>4, SpeltFirst
<1> HIDE DEF q
<1>6. \A i \in 1 .. n : ~IsZero(quebuf[i])
  BY DEF Progress, scan
<1>7. Typed' /\ d \in 0 .. Len(asked')
  BY DEF scan, Server, Typed
<1>8. \A k \in 1 .. d : Right(asked[k], Piece(out, e, k))'
  BY DEF Progress, scan, Server, Right
<1>9. Spelt((quebuf \o in)', asked', d, f)
  BY <1>3 DEF scan, Server, s
<1>10. Cut(out, d, e)' /\ (e[d] = Len(out))'
  BY DEF Progress, scan
<1>11. CASE n' = n_q /\ pc' = "query" /\ \A k \in n + 1 .. n_q : ~IsZero(quebuf[k])
  <2>1. \A i \in 1 .. n' : ~IsZero(quebuf[i])'
    <3> SUFFICES ASSUME NEW i \in 1 .. n_q PROVE ~IsZero(quebuf[i])
      BY <1>11 DEF scan, IsZero
    <3>1. i \in 1 .. n \/ i \in n + 1 .. n_q
      BY <1>1
    <3> QED
      BY <1>6, <1>11, <3>1
  <2> QED
    BY <1>7, <1>8, <1>9, <1>10, <1>11, <2>1 DEF Progress
<1>12. ASSUME NEW k \in n + 1 .. n_q, IsZero(quebuf[k]),
              \A j \in n + 1 .. k - 1 : ~IsZero(quebuf[j]), n' = k, pc' = "handle"
       PROVE  Typed' /\ d \in 0 .. Len(asked') /\ Progress(d, e, f)'
  <2>1. k = Size[q]
    <3>1. ASSUME NEW i \in 1 .. Size[q], i <= n_q PROVE IsZero(quebuf[i]) <=> i = Size[q]
      <4>1. quebuf[i] = <<q, i>>
        BY <1>1, <1>2, <1>5, <3>1
      <4> QED
        BY <4>1 DEF IsZero
    <3>2. CASE k > Size[q]
      <4>1. Size[q] \in 1 .. n \/ Size[q] \in n + 1 .. k - 1
        BY <1>1, <1>5, <3>2
      <4>2. Size[q] \in 1 .. Size[q] /\ Size[q] <= n_q
        BY <1>1, <1>2, <1>5, <3>2
      <4> QED
        BY <1>6, <1>12, <3>1, <4>1, <4>2
    <3>3. CASE k <= Size[q]
      <4>1. k \in 1 .. Size[q] /\ k <= n_q
        BY <1>1, <1>5, <3>3
      <4> QED
        BY <1>12, <3>1, <4>1
    <3> QED
      BY <1>1, <1>2, <1>5, <3>2, <3>3
  <2>2. (d < Len(asked) /\ n = Size[asked[d + 1]])'
    BY <1>1, <1>4, <1>12, <2>1 DEF scan, Server, q
  <2> QED
    BY <1>7, <1>8, <1>9, <1>10, <1>12, <2>2 DEF Progress
<1> QED
  BY <1>11, <1>12 DEF scan

LEMMA HandleKeeps ==
  ASSUME IInv, Typed, NEW d \in 0 .. Len(asked), NEW e, NEW f, Progress(d, e, f), handle
  PROVE  Typed' /\ d \in 0 .. Len(asked') /\ Progress(d, e, f)'
<1>1. /\ quebuf \in Seq(Byte) /\ in \in Seq(Byte) /\ n \in 0 .. n_q /\ n_q \in Nat
      /\ n_q = Len(quebuf) /\ Len(in) \in Nat /\ asked \in Seq(Query) /\ Len(asked) \in Nat
      /\ erp = <<>>
  BY LenProperties DEF IInv, n_q, handle, Typed
<1> DEFINE s == quebuf \o in
           q == asked[d + 1]
           v == Verdict(q)
<1>2. d \in 0 .. Len(asked) - 1 /\ n = Size[q] /\ Spelt(s, asked, d, f)
  BY <1>1 DEF Progress, handle
<1>3. q \in Query
  BY <1>1, <1>2, ElementOfSeq
<1>4. SubSeq(quebuf, 1, n) = Bytes(q)
  <2>1. s \in Seq(Byte) /\ \A i \in 1 .. n_q : s[i] = quebuf[i]
    <3>1. /\ s \in Seq(Byte)
          /\ \A i \in 1 .. Len(quebuf) + Len(in) : s[i] = IF i <= Len(quebuf) THEN quebuf[i] ELSE in[i - Len(quebuf)]
      BY <1>1, ConcatProperties
    <3> HIDE DEF s
    <3> QED
      BY <1>1, <3>1
  <2> HIDE DEF s
  <2>2. \A i \in 1 .. Size[q] : s[i] = <<q, i>>
    BY <1>1, <1>2, <2>1, SpeltFirst
  <2>3. /\ SubSeq(quebuf, 1, n) \in Seq(Byte) /\ Len(SubSeq(quebuf, 1, n)) = n
        /\ \A i \in 1 .. n : SubSeq(quebuf, 1, n)[i] = quebuf[i]
    <3>1. \A i \in 1 .. n : quebuf[i] \in Byte
      BY <1>1, ElementOfSeq
    <3> QED
      BY <1>1, <3>1, SubSeqProperties
  <2> DEFINE b == Bytes(q)
  <2>4. b \in Seq(Byte) /\ Len(b) = Size[q] /\ \A i \in 1 .. Size[q] : b[i] = <<q, i>>
    <3>1. Size[q] \in Nat
      BY <1>3, QueryAssumption
    <3> HIDE DEF q
    <3> QED
      BY <1>3, <3>1, BytesType DEF Bytes
  <2> HIDE DEF b, q
  <2>5. \A i \in 1 .. n : SubSeq(quebuf, 1, n)[i] = b[i]
    <3> TAKE i \in 1 .. n
    <3>1. i \in 1 .. n_q /\ i \in 1 .. Size[q]
      BY <1>1, <1>2
    <3> QED
      BY <2>1, <2>2, <2>3, <2>4, <3>1
  <2>6. SubSeq(quebuf, 1, n) = b
    BY <1>2, <2>3, <2>4, <2>5, SeqEqual
  <2> QED
    BY <2>6 DEF b
<1>5. Understood(SubSeq(quebuf, 1, n)) = q
  <2> HIDE DEF q
  <2>1. Size[q] \in Nat \ {0}
    BY <1>3, QueryAssumption
  <2>2. Head(Bytes(q))[1] = q
    BY <2>1 DEF Bytes
  <2> QED
    BY <1>4, <2>2 DEF Understood
<1>6. /\ erp' = erp \o Printed(q)
      /\ lasterr' = IF v.ok /\ v.said = 0 THEN lasterr ELSE v.erno
      /\ prevno' \in IF v.prev = Unset THEN BOOLEAN ELSE {v.prev}
      /\ said' = [q |-> q, ok |-> v.ok, patno |-> v.patno]
      /\ pc' = "resp" /\ UNCHANGED <<Server, in, out, quebuf, len_q, n>>
  <2> HIDE DEF q
  <2> QED
    BY <1>5 DEF handle
<1>7. v.ok \in BOOLEAN /\ v.prev \in BOOLEAN \cup {Unset} /\ Printed(q) \in Seq(Message)
  BY <1>3, VerdictType, PrintedType
<1> HIDE DEF q, s
<1>8. erp' = Printed(q)
  BY <1>1, <1>6, <1>7, ConcatEmptySeq
<1>9. Typed' /\ d \in 0 .. Len(asked')
  BY <1>6, <1>7 DEF Server, Typed
<1>10. \A k \in 1 .. d : Right(asked[k], Piece(out, e, k))'
  BY <1>6 DEF Progress, Server, Right
<1>11. Spelt((quebuf \o in)', asked', d, f)
  BY <1>2, <1>6 DEF Server, s
<1>12. Cut(out, d, e)' /\ (e[d] = Len(out))'
  BY <1>6 DEF Progress, handle
<1>13. (d < Len(asked) /\ n = Size[asked[d + 1]])'
  BY <1>1, <1>2, <1>6 DEF Server, q
<1>14. Carried(asked[d + 1])'
  BY <1>6, <1>7 DEF Server, q, Carried
<1>15. (erp = Printed(asked[d + 1]) /\ (~said.ok => lasterr = Verdict(asked[d + 1]).erno))'
  BY <1>6, <1>8 DEF Server, q
<1> QED
  BY <1>6, <1>9, <1>10, <1>11, <1>12, <1>13, <1>14, <1>15 DEF Progress

(* The answers stay where they are when more is written.                   *)
LEMMA AnswersStay ==
  ASSUME NEW S, NEW o \in Seq(S), NEW t \in Seq(S), NEW d \in Nat, NEW e, Cut(o, d, e)
  PROVE  /\ \A k \in 0 .. d : e[k] \in 0 .. Len(o)
         /\ \A k \in 1 .. d : Piece(o \o t, e, k) = Piece(o, e, k)
<1>1. Len(o) \in Nat
  BY LenProperties
<1>2. \A k \in 0 .. d : e[k] \in 0 .. Len(o)
  <2> TAKE k \in 0 .. d
  <2>1. CASE k = 0
    BY <1>1, <2>1 DEF Cut
  <2>2. CASE k \in 1 .. d
    BY <1>1, <2>2 DEF Cut
  <2> QED
    BY <2>1, <2>2
<1>3. ASSUME NEW k \in 1 .. d
      PROVE  Piece(o \o t, e, k) = Piece(o, e, k)
  <2> DEFINE a == e[k - 1] + 1
             b == e[k] - 1
  <2> SUFFICES SubSeq(o \o t, a, b) = SubSeq(o, a, b)
    BY DEF Piece
  <2>1. e[k] \in 1 .. Len(o) /\ e[k - 1] \in 0 .. Len(o)
    BY <1>2 DEF Cut
  <2>2. CASE b < a
    <3>1. a \in Int /\ b \in Int
      BY <1>1, <2>1
    <3> HIDE DEF a, b
    <3> QED
      BY <2>2, <3>1, SubSeqEmpty
  <2>3. CASE ~(b < a)
    <3>1. a \in 1 .. Len(o) /\ b \in 1 .. Len(o)
      BY <1>1, <2>1, <2>3
    <3> HIDE DEF a, b
    <3> QED
      BY <3>1, SubSeqOfConcat1
  <2> QED
    BY <2>2, <2>3
<1> QED
  BY <1>2, <1>3

LEMMA RespKeeps ==
  ASSUME IInv, Typed, NEW d \in 0 .. Len(asked), NEW e, NEW f, Progress(d, e, f), resp
  PROVE  Typed' /\ d \in 0 .. Len(asked') /\ Progress(d, e, f)'
<1>1. asked \in Seq(Query) /\ Len(asked) \in Nat /\ out \in Seq(Output) /\ Len(out) \in Nat /\ d \in Nat
  BY LenProperties DEF Typed
<1> DEFINE q == asked[d + 1]
           w == Status(q, explain)
<1>2. /\ d < Len(asked) /\ Carried(q) /\ erp = Printed(q) /\ e[d] = Len(out) /\ Cut(out, d, e)
      /\ ~said.ok => lasterr = Verdict(q).erno
  BY DEF Progress, resp
<1>3. q \in Query
  BY <1>1, <1>2, ElementOfSeq
<1> HIDE DEF q
<1>4. out' = Append(out, w)
  BY <1>2 DEF resp, Status, Carried
<1>5. w \in Output /\ w # Z
  BY <1>3, OutputType DEF Typed
<1> HIDE DEF w
<1> DEFINE t == <<w>>
<1>6. t \in Seq(Output) /\ out' = out \o t /\ \A i \in 1 .. Len(t) : t[i] # Z
  BY <1>1, <1>4, <1>5, AppendIsConcat
<1>7. UNCHANGED <<asked, explain, in, erp, quebuf, len_q, n, lasterr, prevno, said>> /\ pc' = "drain"
  BY DEF resp, Server
<1>8. t = <<w>>
  OBVIOUS
<1> HIDE DEF t
<1>9. Cut(out', d, e)
  BY <1>1, <1>2, <1>6, CutMore
<1>10. Typed' /\ d \in 0 .. Len(asked')
  BY <1>1, <1>6, <1>7, ConcatProperties DEF Typed
<1>11. \A k \in 1 .. d : Right(asked[k], Piece(out, e, k))'
  <2> TAKE k \in 1 .. d
  <2>1. \A i \in 1 .. d : Piece(out \o t, e, i) = Piece(out, e, i)
    BY <1>1, <1>2, <1>6, AnswersStay
  <2>2. Right(asked[k], Piece(out, e, k))
    BY DEF Progress
  <2> QED
    BY <1>6, <1>7, <2>1, <2>2 DEF Right
<1>12. Drop(out', e[d]) = t
  <2>1. Drop(out \o t, Len(out)) = Drop(out, Len(out)) \o t
    BY <1>1, <1>6, DropConcat
  <2>2. Drop(out, Len(out)) = <<>>
    BY <1>1, SubSeqEmpty DEF Drop
  <2> QED
    BY <1>2, <1>6, <2>1, <2>2, ConcatEmptySeq
<1>13. (Drop(out, e[d]) \o Shown(erp) = <<Status(asked[d + 1], explain)>> \o Shown(Printed(asked[d + 1])))'
  BY <1>2, <1>7, <1>8, <1>12 DEF q, w, Shown, Written
<1>14. Carried(asked[d + 1])'
  BY <1>2, <1>7 DEF q, Carried
<1>15. Spelt(quebuf \o in, asked, d, f)' /\ (d < Len(asked) /\ n = Size[asked[d + 1]])'
  BY <1>7 DEF Progress, resp
<1> QED
  BY <1>7, <1>9, <1>10, <1>11, <1>13, <1>14, <1>15 DEF Progress

LEMMA RespReadKeeps ==
  ASSUME IInv, Typed, NEW d \in 0 .. Len(asked), NEW e, NEW f, Progress(d, e, f), resp_read
  PROVE  Typed' /\ d \in 0 .. Len(asked') /\ Progress(d, e, f)'
<1>1. /\ asked \in Seq(Query) /\ Len(asked) \in Nat /\ out \in Seq(Output) /\ Len(out) \in Nat /\ d \in Nat
      /\ erp \in Seq(Message) /\ Len(erp) \in Nat
  BY LenProperties DEF Typed, IInv
<1>2. UNCHANGED <<asked, explain, in, pc, quebuf, len_q, n, lasterr, prevno, said>> /\ pc = "drain"
  BY DEF resp_read, Server
<1>3. Written' <=> Written
  BY <1>2 DEF Written
<1>4. /\ Cut(out, d, e) /\ d < Len(asked) /\ n = Size[asked[d + 1]] /\ Carried(asked[d + 1])
      /\ Spelt(quebuf \o in, asked, d, f)
      /\ Drop(out, e[d]) \o Shown(erp) = <<Status(asked[d + 1], explain)>> \o Shown(Printed(asked[d + 1]))
      /\ \A k \in 1 .. d : Right(asked[k], Piece(out, e, k))
  BY <1>2 DEF Progress
<1> SUFFICES /\ out' \in Seq(Output) /\ Cut(out', d, e)
             /\ \A k \in 1 .. d : Piece(out', e, k) = Piece(out, e, k)
             /\ Drop(out', e[d]) \o Shown(erp)' = Drop(out, e[d]) \o Shown(erp)
  <2>1. Typed' /\ d \in 0 .. Len(asked')
    BY <1>1, <1>2 DEF Typed
  <2>2. \A k \in 1 .. d : Right(asked[k], Piece(out, e, k))'
    BY <1>2, <1>4 DEF Right
  <2>3. (Drop(out, e[d]) \o Shown(erp) = <<Status(asked[d + 1], explain)>> \o Shown(Printed(asked[d + 1])))'
    BY <1>2, <1>3, <1>4 DEF Shown
  <2>4. Carried(asked[d + 1])' /\ Spelt(quebuf \o in, asked, d, f)' /\ (d < Len(asked) /\ n = Size[asked[d + 1]])'
    BY <1>2, <1>4 DEF Carried
  <2>5. Cut(out, d, e)' /\ pc' = "drain"
    BY <1>2
  <2> QED
    BY <2>1, <2>2, <2>3, <2>4, <2>5 DEF Progress
<1>5. CASE ~Written
  BY <1>1, <1>3, <1>4, <1>5 DEF resp_read, Shown
<1>6. CASE Written
  <2> DEFINE m == Min({LEN_B, Len(erp)})
             x == SubSeq(erp, 1, m)
             y == Drop(erp, m)
             l == Drop(out, e[d])
  <2>1. m \in 0 .. Len(erp) /\ m \in {LEN_B, Len(erp)} /\ m <= LEN_B /\ LEN_B \in Nat
    <3>1. LEN_B \in Nat
      BY PipeAssumption
    <3>2. m \in {LEN_B, Len(erp)} /\ m \in Nat /\ m <= LEN_B /\ m <= Len(erp)
      BY <1>1, <3>1, SmallerOne
    <3> HIDE DEF m
    <3> QED
      BY <1>1, <3>1, <3>2
  <2>2. out' = out \o x
    BY <1>6 DEF resp_read
  <2>3. erp' = Drop(erp, LEN_B)
    BY DEF resp_read
  <2> HIDE DEF m
  <2>4. erp' = y
    <3>1. CASE m = LEN_B
      BY <2>3, <3>1
    <3>2. CASE m = Len(erp)
      <4>1. Drop(erp, LEN_B) = <<>> /\ Drop(erp, m) = <<>>
        BY <1>1, <2>1, <3>2, SubSeqEmpty DEF Drop
      <4> QED
        BY <2>3, <4>1
    <3> QED
      BY <2>1, <3>1, <3>2
  <2>5. x \o y = erp
    <3>1. CASE Len(erp) = 0
      <4>1. x = <<>> /\ y = <<>> /\ erp = <<>>
        BY <1>1, <2>1, <3>1, SubSeqEmpty, EmptySeq DEF Drop
      <4> HIDE DEF x, y
      <4> QED
        BY <1>1, <4>1, ConcatEmptySeq
    <3>2. CASE Len(erp) > 0
      <4>1. 1 \in 1 .. Len(erp) + 1 /\ m \in 1 - 1 .. Len(erp) /\ Len(erp) \in m .. Len(erp)
        BY <1>1, <2>1, <3>2
      <4>2. SubSeq(erp, 1, m) \o SubSeq(erp, m + 1, Len(erp)) = SubSeq(erp, 1, Len(erp))
        BY <1>1, <4>1, ConcatAdjacentSubSeq
      <4>3. SubSeq(erp, 1, Len(erp)) = erp
        BY <1>1, SubSeqFull
      <4> QED
        BY <4>2, <4>3 DEF Drop
    <3>3. Len(erp) = 0 \/ Len(erp) > 0
      BY <1>1
    <3> QED
      BY <3>1, <3>2, <3>3
  <2>6. x \in Seq(Message) /\ y \in Seq(Message)
    <3>1. \A i \in 1 .. m : erp[i] \in Message
      BY <1>1, <2>1, ElementOfSeq
    <3>2. m \in Nat /\ 1 \in Int /\ m \in Int
      BY <1>1, <2>1
    <3>3. x \in Seq(Message)
      BY <3>1, <3>2, SubSeqProperties
    <3>4. y \in Seq(Message)
      BY <1>1, <3>2, DropType
    <3> QED
      BY <3>3, <3>4
  <2> HIDE DEF x, y
  <2>7. x \in Seq(Output) /\ y \in Seq(Output) /\ \A i \in 1 .. Len(x) : x[i] # Z
    <3>1. \A i \in 1 .. Len(x) : x[i] \in Message
      BY <2>6, ElementOfSeq
    <3> QED
      BY <2>6, <3>1, OutputType, SeqMonotonic
  <2>8. out' \in Seq(Output)
    BY <1>1, <2>2, <2>7, ConcatProperties
  <2>9. Cut(out', d, e)
    BY <1>1, <1>4, <2>2, <2>7, CutMore
  <2>10. /\ \A k \in 0 .. d : e[k] \in 0 .. Len(out)
         /\ \A k \in 1 .. d : Piece(out \o x, e, k) = Piece(out, e, k)
    BY <1>1, <1>4, <2>7, AnswersStay
  <2>11. Drop(out', e[d]) = l \o x /\ l \in Seq(Output)
    <3>1. e[d] \in 0 .. Len(out) /\ e[d] \in Nat
      BY <1>1, <2>10
    <3> QED
      BY <1>1, <2>2, <2>7, <3>1, DropConcat, DropType
  <2> HIDE DEF l
  <2>12. (l \o x) \o y = l \o (x \o y)
    BY <2>7, <2>11, ConcatAssociative
  <2>13. Shown(erp)' = y /\ Shown(erp) = erp
    BY <1>3, <1>6, <2>4 DEF Shown
  <2> QED
    BY <2>2, <2>5, <2>8, <2>9, <2>10, <2>11, <2>12, <2>13 DEF l
<1> QED
  BY <1>5, <1>6

LEMMA RespDoneKeeps ==
  ASSUME IInv, Typed, NEW d \in 0 .. Len(asked), NEW e, NEW f, Progress(d, e, f), resp_done,
         NEW g, g = Extended(out, d, e), NEW h, h = Later(f, d, asked)
  PROVE  Typed' /\ d + 1 \in 0 .. Len(asked') /\ Progress(d + 1, g, h)'
<1>1. /\ asked \in Seq(Query) /\ Len(asked) \in Nat /\ out \in Seq(Output) /\ Len(out) \in Nat /\ d \in Nat
      /\ quebuf \in Seq(Byte) /\ in \in Seq(Byte) /\ n \in 0 .. Len(quebuf) /\ Z \in Output
  BY LenProperties, OutputType DEF Typed, IInv, n_q
<1> DEFINE q == asked[d + 1]
           a == Drop(out, e[d])
<1>2. /\ Cut(out, d, e) /\ d < Len(asked) /\ n = Size[q] /\ Carried(q)
      /\ Spelt(quebuf \o in, asked, d, f)
      /\ Drop(out, e[d]) \o Shown(erp) = <<Status(q, explain)>> \o Shown(Printed(q))
      /\ \A k \in 1 .. d : Right(asked[k], Piece(out, e, k))
  BY DEF Progress, resp_done, Finish
<1>3. q \in Query
  BY <1>1, <1>2, ElementOfSeq
<1>4. erp = <<>> /\ out' = Append(out, Z) /\ UNCHANGED <<asked, explain, in, prevno>>
  BY DEF resp_done, Finish, Server
<1>5. Typed' /\ d + 1 \in 0 .. Len(asked')
  BY <1>1, <1>2, <1>4, AppendProperties DEF Typed
<1>6. \A k \in 0 .. d : e[k] \in 0 .. Len(out)
  <2>1. <<>> \in Seq(Output)
    OBVIOUS
  <2> QED
    BY <1>1, <1>2, <2>1, AnswersStay
<1>7. Right(q, a)
  <2>1. a \in Seq(Output)
    <3>1. e[d] \in Nat
      BY <1>1, <1>6
    <3> QED
      BY <1>1, <3>1, DropType
  <2> HIDE DEF a
  <2>2. a \o Shown(erp) = a
    BY <1>4, <2>1, ConcatEmptySeq DEF Shown
  <2> HIDE DEF q
  <2>3. a = <<Status(q, explain)>> \o Shown(Printed(q))
    BY <1>2, <2>2 DEF a
  <2> QED
    BY <1>2, <1>3, <2>3, RightAnswer
<1>8. Cut(out', d + 1, g)
  BY <1>1, <1>2, <1>4, CutEnded
<1>9. /\ Len(out') = Len(out) + 1 /\ g[d + 1] = Len(out) + 1
      /\ \A k \in 0 .. d : g[k] = e[k]
  BY <1>1, <1>4, AppendProperties DEF Extended
<1>10. ASSUME NEW k \in 1 .. d + 1 PROVE Right(asked[k], Piece(out, g, k))'
  <2> DEFINE t == <<Z>>
  <2>1. t \in Seq(Output) /\ out' = out \o t
    BY <1>1, <1>4, AppendIsConcat
  <2> HIDE DEF t
  <2>2. CASE k \in 1 .. d
    <3>1. k \in 0 .. d /\ k - 1 \in 0 .. d
      BY <1>1, <2>2
    <3>2. \A i \in 1 .. d : Piece(out \o t, e, i) = Piece(out, e, i)
      BY <1>1, <1>2, <2>1, AnswersStay
    <3>3. Right(asked[k], Piece(out, e, k))
      BY <1>2, <2>2
    <3> QED
      BY <1>4, <1>9, <2>1, <2>2, <3>1, <3>2, <3>3 DEF Right, Piece
  <2>3. CASE k = d + 1
    <3>1. e[d] \in 0 .. Len(out) /\ g[k - 1] = e[d] /\ g[k] - 1 = Len(out)
      BY <1>1, <1>6, <1>9, <2>3
    <3>2. SubSeq(out', e[d] + 1, Len(out)) = SubSeq(out, e[d] + 1, Len(out))
      <4>1. CASE e[d] = Len(out)
        <5>1. e[d] + 1 \in Int /\ Len(out) \in Int /\ Len(out) < e[d] + 1
          BY <1>1, <4>1
        <5> QED
          BY <5>1, SubSeqEmpty
      <4>2. CASE e[d] # Len(out)
        <5>1. e[d] + 1 \in 1 .. Len(out) /\ Len(out) \in 1 .. Len(out)
          BY <1>1, <3>1, <4>2
        <5> QED
          BY <1>1, <2>1, <5>1, SubSeqOfConcat1
      <4> QED
        BY <4>1, <4>2
    <3>3. Piece(out', g, k) = a
      BY <3>1, <3>2 DEF Drop, Piece
    <3> HIDE DEF a
    <3> QED
      BY <1>4, <1>7, <2>3, <3>3 DEF Right
  <2> QED
    BY <2>2, <2>3
<1>11. CASE pc' = "exited"
  BY <1>5, <1>8, <1>10, <1>11 DEF Progress
<1>12. CASE pc' = "query" /\ quebuf' = Drop(quebuf, n) /\ n' = 0
  <2>1. Spelt((quebuf \o in)', asked', d + 1, h)
    <3> DEFINE s == quebuf \o in
    <3>1. s \in Seq(Byte)
      BY <1>1, ConcatProperties
    <3>2. (quebuf \o in)' = Drop(s, n)
      BY <1>1, <1>4, <1>12, DropConcat
    <3> HIDE DEF s
    <3>3. Spelt(s, asked, d, f)
      BY <1>2 DEF s
    <3>4. d \in 0 .. Len(asked) - 1
      BY <1>1, <1>2
    <3>5. Spelt(Drop(s, Size[asked[d + 1]]), asked, d + 1, Later(f, d, asked))
      BY <1>1, <3>1, <3>3, <3>4, SpeltFirst
    <3> QED
      BY <1>2, <1>4, <3>2, <3>5
  <2>2. \A i \in 1 .. n' : ~IsZero(quebuf[i])'
    BY <1>12
  <2>3. pc' = "query" /\ g[d + 1] = Len(out')
    BY <1>9, <1>12
  <2> QED
    BY <1>5, <1>8, <1>10, <2>1, <2>2, <2>3 DEF Progress
<1> QED
  BY <1>11, <1>12 DEF resp_done, Finish

(* The end of the input, the client's end of sending, and a stutter.       *)
LEMMA OthersKeep ==
  ASSUME Typed, NEW d \in 0 .. Len(asked), NEW e, NEW f, Progress(d, e, f),
         eof \/ close \/ UNCHANGED vars
  PROVE  Typed' /\ d \in 0 .. Len(asked') /\ Progress(d, e, f)'
<1>1. UNCHANGED <<asked, in, erp, out, quebuf, len_q, n, explain, lasterr, prevno, said>>
  BY DEF eof, close, vars, Server
<1>2. pc' = "exited" \/ pc' = pc
  BY DEF eof, close, vars
<1>3. Typed' /\ d \in 0 .. Len(asked')
  BY <1>1 DEF Typed
<1>4. \A k \in 1 .. d : Right(asked[k], Piece(out, e, k))'
  BY <1>1 DEF Progress, Right
<1>5. Cut(out, d, e)'
  BY <1>1 DEF Progress
<1>6. CASE pc' = "exited"
  BY <1>3, <1>4, <1>5, <1>6 DEF Progress
<1>7. CASE pc' = pc
  <2>1. (\A i \in 1 .. n : ~IsZero(quebuf[i]))' <=> \A i \in 1 .. n : ~IsZero(quebuf[i])
    BY <1>1 DEF IsZero
  <2>2. Carried(asked[d + 1])' <=> Carried(asked[d + 1])
    BY <1>1 DEF Carried
  <2>3. Shown(erp)' = Shown(erp) /\ Shown(Printed(asked[d + 1]))' = Shown(Printed(asked[d + 1]))
    BY <1>1 DEF Shown, Written
  <2> QED
    BY <1>1, <1>3, <1>4, <1>5, <1>7, <2>1, <2>2, <2>3 DEF Progress
<1> QED
  BY <1>2, <1>6, <1>7

-----------------------------------------------------------------------------
LEMMA InitOInv == Init => OInv
<1> SUFFICES ASSUME Init PROVE OInv
  OBVIOUS
<1>1. IInv
  BY InitIInv
<1>2. Typed /\ asked = <<>> /\ Len(asked) = 0
  BY DEF Init, Typed
<1> DEFINE e == [k \in 0 .. 0 |-> 0]
<1>3. e \in [0 .. 0 -> Nat] /\ e[0] = 0
  OBVIOUS
<1> HIDE DEF e
<1>4. out = <<>> /\ Len(out) = 0
  BY DEF Init
<1>5. Cut(out, 0, e)
  BY <1>3, <1>4 DEF Cut
<1>6. Spelt(quebuf \o in, asked, 0, e)
  <2>1. quebuf \o in = <<>>
    BY DEF Init
  <2> QED
    BY <1>2, <1>3, <2>1 DEF Spelt
<1>7. Progress(0, e, e)
  <2>1. pc = "query" /\ n = 0
    BY DEF Init
  <2>2. \A i \in 1 .. 0 : ~IsZero(quebuf[i])
    OBVIOUS
  <2>3. \A k \in 1 .. 0 : Right(asked[k], Piece(out, e, k))
    OBVIOUS
  <2> QED
    BY <1>3, <1>4, <1>5, <1>6, <2>1, <2>2, <2>3 DEF Progress
<1>8. 0 \in 0 .. Len(asked)
  BY <1>2
<1> QED
  BY <1>1, <1>2, <1>7, <1>8 DEF OInv

LEMMA StepOInv ==
  ASSUME OInv, [Next]_vars
  PROVE  OInv'
<1>1. IInv /\ Typed
  BY DEF OInv
<1>2. PICK d \in 0 .. Len(asked) : \E e, f : Progress(d, e, f)
  BY DEF OInv
<1>3. PICK e, f : Progress(d, e, f)
  BY <1>2
<1>4. IInv'
  BY <1>1, StepIInv
<1> DEFINE Same == Typed' /\ d \in 0 .. Len(asked') /\ Progress(d, e, f)'
<1>5. ASSUME Same PROVE OInv'
  BY <1>4, <1>5 DEF OInv
<1>6. ASSUME NEW q \in Query, send(q) PROVE OInv'
  <2>1. PICK g : g = Longer(f, d, asked, q)
    OBVIOUS
  <2>2. Typed' /\ d \in 0 .. Len(asked') /\ Progress(d, e, g)'
    BY <1>1, <1>3, <1>6, <2>1, SendKeeps
  <2> QED
    BY <1>4, <2>2 DEF OInv
<1>7. CASE read
  BY <1>1, <1>3, <1>5, <1>7, ReadKeeps
<1>8. CASE scan
  BY <1>1, <1>3, <1>5, <1>8, ScanKeeps
<1>9. CASE handle
  BY <1>1, <1>3, <1>5, <1>9, HandleKeeps
<1>10. CASE resp
  BY <1>1, <1>3, <1>5, <1>10, RespKeeps
<1>11. CASE resp_read
  BY <1>1, <1>3, <1>5, <1>11, RespReadKeeps
<1>12. CASE resp_done
  <2>1. PICK g : g = Extended(out, d, e)
    OBVIOUS
  <2>2. PICK h : h = Later(f, d, asked)
    OBVIOUS
  <2>3. Typed' /\ d + 1 \in 0 .. Len(asked') /\ Progress(d + 1, g, h)'
    BY <1>1, <1>3, <1>12, <2>1, <2>2, RespDoneKeeps
  <2> QED
    BY <1>4, <2>3 DEF OInv
<1>13. CASE eof \/ close \/ UNCHANGED vars
  BY <1>1, <1>3, <1>5, <1>13, OthersKeep
<1> HIDE DEF Same
<1> QED
  BY <1>6, <1>7, <1>8, <1>9, <1>10, <1>11, <1>12, <1>13 DEF Next, serving

(* The queries are answered in the order in which they were sent, each by  *)
(* its own verdict and its own messages (rvp.c:134-218).                   *)
THEOREM OrderKept == Spec => []AnsweredInOrder
<1>1. ASSUME OInv PROVE AnsweredInOrder
  <2>1. PICK d \in 0 .. Len(asked) : \E e, f : Progress(d, e, f)
    BY <1>1 DEF OInv
  <2>2. PICK e, f : Progress(d, e, f)
    BY <2>1
  <2>3. d \in Nat /\ out \in Seq(Output) /\ Cut(out, d, e)
    BY <1>1, <2>2 DEF OInv, Typed, Progress
  <2>4. Answers = d /\ \A k \in 0 .. d : End(k) = e[k]
    BY <2>3, CutEnds
  <2>5. ASSUME NEW k \in 1 .. Answers PROVE Right(asked[k], Answer(k))
    <3>1. k \in 1 .. d /\ k \in 0 .. d /\ k - 1 \in 0 .. d
      BY <2>3, <2>4
    <3>2. Answer(k) = Piece(out, e, k)
      BY <2>4, <3>1 DEF Answer, Piece
    <3> QED
      BY <2>2, <3>1, <3>2 DEF Progress
  <2> QED
    BY <2>5 DEF AnsweredInOrder, Right
<1> QED
  BY <1>1, InitOInv, StepOInv, PTL DEF Spec

=============================================================================
