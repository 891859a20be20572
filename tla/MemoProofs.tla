----------------------------- MODULE MemoProofs -----------------------------
(***************************************************************************)
(* Proofs, for every derivative, every pattern and every size of the memo, *)
(* of the safety properties of Memo.                                       *)
(*                                                                         *)
(* None of them is inductive alone.  That registered rows are right needs  *)
(* that the results collected by the calls in progress are right, which    *)
(* needs that each call on the stack was made for the slot its caller is   *)
(* waiting on (CallFor), which needs that answers are right.  StackRight   *)
(* is that missing part.                                                   *)
(***************************************************************************)
EXTENDS Memo, SequenceTheorems, TLAPS

(* The caller on top of callers is waiting for the result of key k. *)
CallFor(k, callers) ==
  callers # <<>> =>
    LET f == callers[Len(callers)]
    IN f.at \in DOMAIN Sub[f.key] /\ k = Sub[f.key][f.at]

(* The results collected by a call are those of its recursive calls. *)
FrameRight(f) ==
  /\ DOMAIN f.got = DOMAIN Sub[f.key]
  /\ \A c \in DOMAIN Sub[f.key] : f.got[c] \in {Pending, Deriv[Sub[f.key][c]]}

StackRight(calls) ==
  /\ calls \in Seq(Frames)
  /\ \A n \in 1 .. Len(calls) : FrameRight(calls[n])
  /\ \A n \in 1 .. Len(calls) - 1 :
       /\ calls[n].at \in DOMAIN Sub[calls[n].key]
       /\ calls[n + 1].key = Sub[calls[n].key][calls[n].at]

(* Two stacks of calls for the same keys. *)
SameKeys(a, b) ==
  /\ Len(a) = Len(b)
  /\ \A n \in 1 .. Len(b) : a[n].key = b[n].key

AnswerRight(a) == a = NoAnswer \/ (\E k \in Key : a = [key |-> k, val |-> Deriv[k]])

(* The memo with its scratch row and its registered rows. *)
TableRight(compact, m, len, scratch, r) ==
  /\ compact \in BOOLEAN
  /\ len \in Nat \ {0}
  /\ scratch \in 0 .. len - 1
  /\ m \in [0 .. len - 1 -> Row]
  /\ r \subseteq 0 .. len - 1
  /\ compact => scratch < LIM_M /\ \A s \in r : s < LIM_M
  /\ ~compact => \A s \in r : s < scratch
  /\ \A s \in r : m[s].key \in Key /\ m[s].ret = Deriv[m[s].key]
  /\ \A s, t \in r : m[s].key = m[t].key => s = t

IInv ==
  /\ TableRight(drv_compact, memo, len_m, i_m, reg)
  /\ StackRight(stack)
  /\ AnswerRight(answer)

-----------------------------------------------------------------------------
(* Facts about the stack as a sequence. *)

LEMMA TopInRange ==
  ASSUME NEW S, NEW s \in Seq(S), s # <<>>
  PROVE  Len(s) \in 1 .. Len(s) /\ s[Len(s)] \in S
<1>1. Len(s) \in Nat \ {0}
  BY EmptySeq
<1>2. Len(s) \in 1 .. Len(s)
  BY <1>1
<1> QED BY <1>2, ElementOfSeq

LEMMA PopFacts ==
  ASSUME NEW S, NEW s \in Seq(S), s # <<>>
  PROVE  LET p == SubSeq(s, 1, Len(s) - 1)
         IN /\ p \in Seq(S)
            /\ Len(p) = Len(s) - 1
            /\ \A n \in 1 .. Len(p) : p[n] = s[n]
<1> DEFINE p == SubSeq(s, 1, Len(s) - 1)
<1>1. Len(s) \in Nat \ {0}
  BY EmptySeq
<1>2. 1 \in Int /\ Len(s) - 1 \in Int
  BY <1>1
<1>3. \A i \in 1 .. Len(s) - 1 : s[i] \in S
  <2> TAKE i \in 1 .. Len(s) - 1
  <2>1. i \in 1 .. Len(s)
    BY <1>1
  <2> QED BY <2>1, ElementOfSeq
<1>4. /\ p \in Seq(S)
      /\ Len(p) = IF 1 <= Len(s) - 1 THEN (Len(s) - 1) - 1 + 1 ELSE 0
      /\ \A i \in 1 .. (Len(s) - 1) - 1 + 1 : p[i] = s[1 + i - 1]
  BY <1>2, <1>3, SubSeqProperties
<1> HIDE DEF p
<1>5. Len(p) = Len(s) - 1
  <2>1. \A l \in Nat \ {0} : (IF 1 <= l - 1 THEN (l - 1) - 1 + 1 ELSE 0) = l - 1
    OBVIOUS
  <2> QED BY <1>1, <1>4, <2>1
<1>6. \A n \in 1 .. Len(p) : p[n] = s[n]
  <2> TAKE n \in 1 .. Len(p)
  <2>1. n \in 1 .. (Len(s) - 1) - 1 + 1 /\ 1 + n - 1 = n
    BY <1>1, <1>5
  <2> QED BY <2>1, <1>4
<1> QED BY <1>4, <1>5, <1>6 DEF p

-----------------------------------------------------------------------------
(* The stack. *)

LEMMA NewFrame ==
  ASSUME NEW k \in Key
  PROVE  Frame(k) \in Frames /\ FrameRight(Frame(k))
<1> DEFINE D == 1 .. Len(Sub[k])
           got == [c \in D |-> Pending]
<1>1. Sub[k] \in Seq(Key)
  BY KeyAssumption
<1>2. Len(Sub[k]) \in Nat /\ DOMAIN Sub[k] = D
  BY <1>1, LenProperties
<1>3. got \in [D -> Value \cup {Pending}] /\ DOMAIN got = D
  OBVIOUS
<1>4. got \in Seq(Value \cup {Pending})
  BY <1>2, <1>3, SeqDef
<1>5. Frame(k) \in Frames /\ Frame(k).got = got /\ Frame(k).key = k
  BY <1>4 DEF Frame, Frames
<1> HIDE DEF got
<1>6. \A c \in D : got[c] = Pending
  BY DEF got
<1> QED BY <1>2, <1>3, <1>5, <1>6 DEF FrameRight

(* A call of k made by the frame on top leaves the stack right. *)
LEMMA PushRight ==
  ASSUME NEW callers, StackRight(callers), NEW k \in Key, CallFor(k, callers)
  PROVE  StackRight(Append(callers, Frame(k)))
<1> DEFINE new == Append(callers, Frame(k))
<1>1. callers \in Seq(Frames) /\ Frame(k) \in Frames /\ FrameRight(Frame(k))
  BY NewFrame DEF StackRight
<1>2. /\ new \in Seq(Frames) /\ Len(new) = Len(callers) + 1
      /\ new[Len(callers) + 1] = Frame(k)
      /\ \A n \in 1 .. Len(callers) : new[n] = callers[n]
  BY <1>1, AppendProperties
<1>3. Len(callers) \in Nat
  BY <1>1
<1>4. Frame(k).key = k
  BY DEF Frame
<1> HIDE DEF new
<1>5. \A n \in 1 .. Len(new) : FrameRight(new[n])
  <2> TAKE n \in 1 .. Len(new)
  <2>1. CASE n = Len(callers) + 1
    BY <2>1, <1>1, <1>2
  <2>2. CASE n # Len(callers) + 1
    <3>1. n \in 1 .. Len(callers)
      BY <2>2, <1>2, <1>3
    <3> QED BY <3>1, <1>2 DEF StackRight
  <2> QED BY <2>1, <2>2
<1>6. ASSUME NEW n \in 1 .. Len(new) - 1
      PROVE  /\ new[n].at \in DOMAIN Sub[new[n].key]
             /\ new[n + 1].key = Sub[new[n].key][new[n].at]
  <2>1. n \in 1 .. Len(callers) /\ new[n] = callers[n]
    BY <1>2, <1>3
  <2>2. CASE n = Len(callers)
    <3>1. callers # <<>>
      BY <2>1
    <3>2. /\ callers[n].at \in DOMAIN Sub[callers[n].key]
          /\ k = Sub[callers[n].key][callers[n].at]
      BY <2>2, <3>1 DEF CallFor
    <3> QED BY <2>1, <2>2, <3>2, <1>2, <1>4
  <2>3. CASE n # Len(callers)
    <3>1. n \in 1 .. Len(callers) - 1 /\ n + 1 \in 1 .. Len(callers)
      BY <2>1, <2>3, <1>3
    <3> QED BY <2>1, <3>1, <1>2 DEF StackRight
  <2> QED BY <2>2, <2>3
<1> QED BY <1>2, <1>5, <1>6 DEF StackRight, new

(* Returning the derivative of k to the frame that asked for it leaves the *)
(* stack right, and to the outside world gives the right answer.           *)
LEMMA ReturnRight ==
  ASSUME NEW callers, StackRight(callers), NEW k \in Key, CallFor(k, callers),
         AnswerRight(answer), Return(k, Deriv[k], callers)
  PROVE  StackRight(stack') /\ AnswerRight(answer') /\ SameKeys(stack', callers)
<1>1. CASE callers = <<>>
  BY <1>1 DEF Return, StackRight, AnswerRight, SameKeys
<1>2. CASE callers # <<>>
  <2> DEFINE L == Len(callers)
             f == callers[L]
             g == [f EXCEPT !.got = [@ EXCEPT ![f.at] = Deriv[k]]]
             new == [callers EXCEPT ![L] = g]
  <2>1. callers \in Seq(Frames) /\ L \in 1 .. L /\ f \in Frames /\ L \in Nat
    BY <1>2, TopInRange DEF StackRight
  <2>2. f.at \in DOMAIN Sub[f.key] /\ k = Sub[f.key][f.at] /\ FrameRight(f)
    BY <1>2, <2>1 DEF CallFor, StackRight
  <2>3. /\ g \in Frames /\ g.key = f.key /\ g.at = f.at
        /\ g.got = [f.got EXCEPT ![f.at] = Deriv[k]]
    <3>1. f.got \in Seq(Value \cup {Pending}) /\ f.at \in 1 .. Len(f.got)
      <4>1. f.got \in Seq(Value \cup {Pending})
        BY <2>1 DEF Frames
      <4> QED BY <4>1, <2>2, LenProperties DEF FrameRight
    <3>2. Deriv[k] \in Value \cup {Pending}
      BY DerivAssumption
    <3>3. [f.got EXCEPT ![f.at] = Deriv[k]] \in Seq(Value \cup {Pending})
      BY <3>1, <3>2, ExceptSeq
    <3> HIDE DEF f
    <3> QED BY <2>1, <3>3 DEF Frames
  <2>4. FrameRight(g)
    <3> HIDE DEF f, g
    <3> QED BY <2>2, <2>3 DEF FrameRight
  <2>5. stack' = new /\ answer' = answer
    BY <1>2 DEF Return
  <2> HIDE DEF g
  <2>6. /\ new \in Seq(Frames) /\ Len(new) = L /\ new[L] = g
        /\ \A n \in 1 .. L : n # L => new[n] = callers[n]
    BY <2>1, <2>3, ExceptSeq
  <2> HIDE DEF new, f
  <2>7. \A n \in 1 .. Len(new) : FrameRight(new[n])
    BY <2>1, <2>4, <2>6 DEF StackRight
  <2>8. ASSUME NEW n \in 1 .. Len(new) - 1
        PROVE  /\ new[n].at \in DOMAIN Sub[new[n].key]
               /\ new[n + 1].key = Sub[new[n].key][new[n].at]
    <3>1. n \in 1 .. L - 1 /\ n # L /\ n \in 1 .. L /\ n + 1 \in 1 .. L
      BY <2>1, <2>6
    <3>2. new[n] = callers[n]
      BY <3>1, <2>6
    <3>3. new[n + 1].key = callers[n + 1].key
      BY <3>1, <2>3, <2>6 DEF f
    <3> QED BY <3>1, <3>2, <3>3 DEF StackRight
  <2>9. SameKeys(new, callers)
    BY <2>3, <2>6 DEF SameKeys, f
  <2> QED BY <2>5, <2>6, <2>7, <2>8, <2>9 DEF StackRight
<1> QED BY <1>1, <1>2

-----------------------------------------------------------------------------
(* The rows. *)

LEMMA ReleasedFacts ==
  ASSUME IInv, NEW k \in Key
  PROVE  /\ i_m \notin Released
         /\ TableRight(drv_compact, WithKey(k), len_m, i_m, Released)
         /\ WithKey(k)[i_m].key = k
         /\ \A s \in Released : WithKey(k)[s] = memo[s] /\ s \in reg
<1>1. /\ i_m \in 0 .. len_m - 1 /\ memo \in [0 .. len_m - 1 -> Row]
      /\ drv_compact \in BOOLEAN /\ reg \subseteq 0 .. len_m - 1
  BY DEF IInv, TableRight
<1>2. i_m \notin Released /\ Released \subseteq reg
  BY <1>1 DEF IInv, TableRight, Released
<1>3. WithKey(k) \in [0 .. len_m - 1 -> Row] /\ WithKey(k)[i_m].key = k
  BY <1>1 DEF WithKey, Row
<1>4. \A s \in Released : WithKey(k)[s] = memo[s] /\ s \in reg
  BY <1>1, <1>2 DEF WithKey
<1> QED
  BY <1>1, <1>2, <1>3, <1>4 DEF IInv, TableRight

(* accept_m on a memory whose scratch row holds the derivative of k. *)
LEMMA AcceptRight ==
  ASSUME NEW m, NEW r, NEW k \in Key,
         TableRight(drv_compact, m, len_m, i_m, r), i_m \notin r,
         m[i_m].key = k, m[i_m].ret = Deriv[k],
         accept_m(m, r, k), UNCHANGED drv_compact
  PROVE  /\ TableRight(drv_compact, memo, len_m, i_m, reg)'
         /\ \A s \in reg' : (s = i_m \/ s \in r) /\ memo'[s] = m[s]
<1> DEFINE equal == Matches(m, r, k)
           nxt == IF drv_compact /\ i_m + 1 = LIM_M THEN 0 ELSE i_m + 1
           kept == (r \ equal) \cup {i_m}
<1>1. CASE equal # {} /\ ~drv_compact
  BY <1>1 DEF accept_m, TableRight
<1>2. CASE ~(equal # {} /\ ~drv_compact)
  <2>1. reg' = kept /\ i_m' = nxt
    BY <1>2 DEF accept_m
  <2>2. /\ m \in [0 .. len_m - 1 -> Row] /\ len_m \in Nat \ {0} /\ i_m \in 0 .. len_m - 1
        /\ r \subseteq 0 .. len_m - 1 /\ drv_compact \in BOOLEAN
    BY DEF TableRight
  <2>3. kept \subseteq 0 .. len_m - 1 /\ nxt \in 0 .. len_m
    BY <2>2
  <2>4. \A s \in kept : m[s].key \in Key /\ m[s].ret = Deriv[m[s].key]
    BY DEF TableRight
  <2>5. \A s, t \in kept : m[s].key = m[t].key => s = t
    <3>1. \A s \in r \ equal : m[s].key # k
      BY DEF Matches
    <3> QED BY <3>1 DEF TableRight
  <2>6. /\ drv_compact => nxt < LIM_M /\ \A s \in kept : s < LIM_M
        /\ ~drv_compact => \A s \in kept : s < nxt
    <3>1. CASE drv_compact
      <4>1. i_m < LIM_M /\ \A s \in r : s < LIM_M
        BY <3>1 DEF TableRight
      <4>2. nxt < LIM_M
        BY <4>1, <2>2, <3>1, SizeAssumption
      <4>3. \A s \in kept : s < LIM_M
        BY <4>1
      <4> QED BY <3>1, <4>2, <4>3
    <3>2. CASE ~drv_compact
      <4>1. \A s \in r : s < i_m
        BY <3>2 DEF TableRight
      <4>2. nxt = i_m + 1
        BY <3>2
      <4>3. \A s \in kept : s < nxt
        BY <4>1, <4>2, <2>2
      <4> QED BY <3>2, <4>3
    <3> QED BY <3>1, <3>2
  <2> HIDE DEF kept, nxt
  <2>7. CASE nxt = len_m
    <3>1. /\ len_m' = 2 * nxt
          /\ memo' = [s \in 0 .. 2 * nxt - 1 |-> IF s < len_m THEN m[s] ELSE Garbage]
      BY <1>2, <2>7 DEF accept_m, nxt
    <3>2. Garbage \in Row
      BY DEF Garbage, Row
    <3>3. memo' \in [0 .. len_m' - 1 -> Row]
      <4> SUFFICES ASSUME NEW s \in 0 .. 2 * nxt - 1
                   PROVE  (IF s < len_m THEN m[s] ELSE Garbage) \in Row
        BY <3>1
      <4> QED BY <3>2, <2>2, <2>7
    <3>4. \A s \in kept : memo'[s] = m[s]
      BY <3>1, <2>2, <2>3, <2>7
    <3>5. nxt \in 0 .. len_m' - 1 /\ kept \subseteq 0 .. len_m' - 1 /\ len_m' \in Nat \ {0}
      BY <3>1, <2>2, <2>3, <2>7
    <3>6. TableRight(drv_compact, memo', len_m', nxt, kept)
      BY <2>2, <2>4, <2>5, <2>6, <3>3, <3>4, <3>5, Zenon DEF TableRight
    <3> QED BY <2>1, <3>4, <3>6 DEF kept
  <2>8. CASE nxt # len_m
    <3>1. memo' = m /\ len_m' = len_m
      BY <1>2, <2>8 DEF accept_m, nxt
    <3>2. nxt \in 0 .. len_m - 1
      BY <2>2, <2>3, <2>8
    <3>3. TableRight(drv_compact, m, len_m, nxt, kept)
      BY <2>2, <2>3, <2>4, <2>5, <2>6, <3>2, Zenon DEF TableRight
    <3> QED BY <2>1, <3>1, <3>3 DEF kept
  <2> QED BY <2>7, <2>8
<1> QED BY <1>1, <1>2

-----------------------------------------------------------------------------
(* The steps. *)

LEMMA EnterRight ==
  ASSUME IInv, NEW k \in Key, NEW callers, StackRight(callers), CallFor(k, callers),
         Enter(k, callers)
  PROVE  IInv'
<1> DEFINE hit == Matches(WithKey(k), Released, k)
<1>1. TableRight(drv_compact, memo, len_m, i_m, reg)'
  <2>1. TableRight(drv_compact, WithKey(k), len_m, i_m, Released)
    BY ReleasedFacts
  <2> QED BY <2>1 DEF Enter
<1>2. StackRight(stack') /\ AnswerRight(answer')
  <2>1. CASE hit # {}
    <3>1. PICK m \in hit : Return(k, WithKey(k)[m].ret, callers)
      BY <2>1 DEF Enter
    <3>2. WithKey(k)[m].ret = Deriv[k]
      <4>1. m \in Released /\ WithKey(k)[m].key = k
        BY DEF Matches
      <4> QED BY <4>1, ReleasedFacts DEF TableRight
    <3> QED BY <3>1, <3>2, ReturnRight DEF IInv
  <2>2. CASE hit = {}
    <3>1. stack' = Append(callers, Frame(k))
      BY <2>2 DEF Enter
    <3>2. answer' = NoAnswer \/ answer' = answer
      BY <2>2 DEF Enter
    <3>3. AnswerRight(answer')
      BY <3>2 DEF IInv, AnswerRight
    <3> QED BY <3>1, <3>3, PushRight
  <2> QED BY <2>1, <2>2
<1> QED BY <1>1, <1>2 DEF IInv

LEMMA CallRight ==
  ASSUME IInv, NEW k \in Key, drv_call(k)
  PROVE  IInv'
<1>1. StackRight(<<>>) /\ CallFor(k, <<>>)
  BY DEF StackRight, CallFor
<1> QED BY <1>1, EnterRight DEF drv_call

(* Pointing the frame on top at one of its recursive calls. *)
LEMMA AtRight ==
  ASSUME IInv, stack # <<>>, NEW c \in DOMAIN Sub[Top.key]
  PROVE  LET callers == [stack EXCEPT ![Len(stack)].at = c]
         IN /\ StackRight(callers)
            /\ SameKeys(callers, stack)
            /\ Sub[Top.key][c] \in Key
            /\ CallFor(Sub[Top.key][c], callers)
<1> DEFINE L == Len(stack)
           f == stack[L]
           g == [f EXCEPT !.at = c]
           new == [stack EXCEPT ![L] = g]
<1>1. stack \in Seq(Frames) /\ L \in 1 .. L /\ f \in Frames /\ FrameRight(f) /\ L \in Nat
  BY TopInRange DEF IInv, StackRight
<1>2. Sub[f.key] \in Seq(Key) /\ Sub[f.key][c] \in Key /\ c \in Nat
  <2>1. Sub[f.key] \in Seq(Key)
    BY <1>1, KeyAssumption DEF Frames
  <2> QED BY <2>1, LenProperties, ElementOfSeq DEF Top
<1>3. g \in Frames /\ g.key = f.key /\ g.got = f.got /\ g.at = c
  BY <1>1, <1>2 DEF Frames
<1>4. FrameRight(g)
  BY <1>1, <1>3 DEF FrameRight
<1> HIDE DEF g
<1>5. /\ new \in Seq(Frames) /\ Len(new) = L /\ new[L] = g
      /\ \A n \in 1 .. L : n # L => new[n] = stack[n]
  BY <1>1, <1>3, ExceptSeq
<1> HIDE DEF new
<1>6. \A n \in 1 .. Len(new) : FrameRight(new[n])
  BY <1>1, <1>4, <1>5 DEF IInv, StackRight
<1>7. ASSUME NEW n \in 1 .. Len(new) - 1
      PROVE  /\ new[n].at \in DOMAIN Sub[new[n].key]
             /\ new[n + 1].key = Sub[new[n].key][new[n].at]
  <2>1. n \in 1 .. L - 1 /\ n # L /\ n \in 1 .. L /\ n + 1 \in 1 .. L
    BY <1>1, <1>5
  <2>2. new[n] = stack[n]
    BY <2>1, <1>5
  <2>3. new[n + 1].key = stack[n + 1].key
    BY <2>1, <1>3, <1>5
  <2> QED BY <2>1, <2>2, <2>3 DEF IInv, StackRight
<1>8. StackRight(new)
  BY <1>5, <1>6, <1>7 DEF StackRight
<1>9. CallFor(Sub[f.key][c], new)
  <2>1. Top = f
    BY DEF Top
  <2> QED BY <1>3, <1>5, <2>1 DEF CallFor
<1>10. new = [stack EXCEPT ![Len(stack)].at = c]
  BY DEF new, g
<1>11. SameKeys(new, stack)
  BY <1>3, <1>5 DEF SameKeys
<1> QED BY <1>2, <1>8, <1>9, <1>10, <1>11 DEF Top

LEMMA RecursiveCallRight ==
  ASSUME IInv, NEW c \in DOMAIN Sub[Top.key], recursive_call(c)
  PROVE  IInv'
<1> DEFINE callers == [stack EXCEPT ![Len(stack)].at = c]
<1>1. stack # <<>> /\ Enter(Sub[Top.key][c], callers)
  BY DEF recursive_call
<1>2. /\ StackRight(callers) /\ Sub[Top.key][c] \in Key
      /\ CallFor(Sub[Top.key][c], callers)
  BY <1>1, AtRight
<1> HIDE DEF callers
<1> QED BY <1>1, <1>2, EnterRight

(* With all results collected, what the frame on top builds is its         *)
(* derivative, and its caller is waiting for it.                           *)
LEMMA TopComplete ==
  ASSUME IInv, stack # <<>>, \A c \in DOMAIN Top.got : Top.got[c] # Pending
  PROVE  /\ Top.key \in Key
         /\ Combine(Top.key, Top.got) = Deriv[Top.key]
         /\ StackRight(Pop)
         /\ CallFor(Top.key, Pop)
<1>1. stack \in Seq(Frames) /\ Len(stack) \in 1 .. Len(stack) /\ Top \in Frames
      /\ FrameRight(Top)
  BY TopInRange DEF IInv, StackRight, Top
<1>2. Top.key \in Key
  BY <1>1 DEF Frames
<1>3. Combine(Top.key, Top.got) = Deriv[Top.key]
  <2> DEFINE right == [c \in DOMAIN Sub[Top.key] |-> Deriv[Sub[Top.key][c]]]
  <2>1. DOMAIN Top.got = DOMAIN Sub[Top.key]
    BY <1>1 DEF FrameRight
  <2>2. \A c \in DOMAIN Sub[Top.key] : Top.got[c] = Deriv[Sub[Top.key][c]]
    BY <1>1, <2>1 DEF FrameRight
  <2>3. Top.got \in Seq(Value \cup {Pending})
    BY <1>1 DEF Frames
  <2>4. Top.got = [c \in DOMAIN Top.got |-> Top.got[c]]
    BY <2>3, LenProperties
  <2>5. Top.got = right
    BY <2>1, <2>2, <2>4
  <2> HIDE DEF right
  <2>6. Deriv[Top.key] = Combine(Top.key, right)
    BY <1>2, DerivAssumption DEF right
  <2> QED BY <2>5, <2>6
<1>4. /\ Pop \in Seq(Frames) /\ Len(Pop) = Len(stack) - 1
      /\ \A n \in 1 .. Len(Pop) : Pop[n] = stack[n]
  BY <1>1, PopFacts DEF Pop
<1>5. StackRight(Pop)
  <2>1. \A n \in 1 .. Len(Pop) : n \in 1 .. Len(stack)
    BY <1>1, <1>4
  <2>2. \A n \in 1 .. Len(Pop) : FrameRight(Pop[n])
    BY <1>4, <2>1 DEF IInv, StackRight
  <2>3. ASSUME NEW n \in 1 .. Len(Pop) - 1
        PROVE  /\ Pop[n].at \in DOMAIN Sub[Pop[n].key]
               /\ Pop[n + 1].key = Sub[Pop[n].key][Pop[n].at]
    <3>1. n \in 1 .. Len(Pop) /\ n + 1 \in 1 .. Len(Pop) /\ n \in 1 .. Len(stack) - 1
      BY <1>1, <1>4
    <3> QED BY <3>1, <1>4 DEF IInv, StackRight
  <2> QED BY <1>4, <2>2, <2>3 DEF StackRight
<1>6. CallFor(Top.key, Pop)
  <2> SUFFICES ASSUME Pop # <<>>
               PROVE  LET f == Pop[Len(Pop)]
                      IN f.at \in DOMAIN Sub[f.key] /\ Top.key = Sub[f.key][f.at]
    BY DEF CallFor
  <2>1. Len(Pop) \in 1 .. Len(Pop) /\ Len(Pop) \in 1 .. Len(stack) - 1
        /\ Len(Pop) + 1 = Len(stack)
    BY <1>1, <1>4, TopInRange
  <2>2. Pop[Len(Pop)] = stack[Len(Pop)]
    BY <1>4, <2>1
  <2> QED BY <2>1, <2>2 DEF IInv, StackRight, Top
<1> QED BY <1>2, <1>3, <1>5, <1>6

LEMMA DoneRight ==
  ASSUME IInv, derivative_done
  PROVE  IInv'
<1> DEFINE k == Top.key
           v == Combine(k, Top.got)
           m == [WithKey(k) EXCEPT ![i_m].ret = v]
<1>1. /\ k \in Key /\ v = Deriv[k] /\ StackRight(Pop) /\ CallFor(k, Pop)
  BY TopComplete DEF derivative_done
<1>2. /\ accept_m(m, Released, k) /\ Return(k, v, Pop) /\ UNCHANGED drv_compact
  BY DEF derivative_done
<1> HIDE DEF k, v
<1>3. /\ i_m \notin Released /\ TableRight(drv_compact, WithKey(k), len_m, i_m, Released)
      /\ WithKey(k)[i_m].key = k
  BY <1>1, ReleasedFacts
<1>4. WithKey(k) \in [0 .. len_m - 1 -> Row] /\ i_m \in 0 .. len_m - 1
      /\ Released \subseteq 0 .. len_m - 1
  BY <1>3 DEF TableRight
<1>5. v \in Value
  BY <1>1, DerivAssumption
<1>6. /\ m \in [0 .. len_m - 1 -> Row] /\ m[i_m].key = k /\ m[i_m].ret = Deriv[k]
      /\ \A s \in Released : m[s] = WithKey(k)[s]
  BY <1>1, <1>3, <1>4, <1>5 DEF Row
<1> HIDE DEF m
<1>7. TableRight(drv_compact, m, len_m, i_m, Released)
  BY <1>3, <1>6 DEF TableRight
<1>8. TableRight(drv_compact, memo, len_m, i_m, reg)'
  BY <1>1, <1>2, <1>3, <1>6, <1>7, AcceptRight
<1>9. StackRight(stack') /\ AnswerRight(answer')
  BY <1>1, <1>2, ReturnRight DEF IInv
<1> QED BY <1>8, <1>9 DEF IInv

LEMMA InitRight == Init => IInv
<1> SUFFICES ASSUME Init PROVE IInv
  OBVIOUS
<1>1. Garbage \in Row
  BY DEF Garbage, Row
<1>2. TableRight(drv_compact, memo, len_m, i_m, reg)
  BY <1>1, SizeAssumption DEF Init, TableRight
<1>3. StackRight(stack) /\ AnswerRight(answer)
  BY DEF Init, StackRight, AnswerRight
<1> QED BY <1>2, <1>3 DEF IInv

LEMMA StepRight == IInv /\ [Next]_vars => IInv'
<1> SUFFICES ASSUME IInv, [Next]_vars PROVE IInv'
  OBVIOUS
<1>1. CASE \E k \in Key : drv_call(k)
  BY <1>1, CallRight
<1>2. CASE \E c \in DOMAIN Sub[Top.key] : recursive_call(c)
  BY <1>2, RecursiveCallRight
<1>3. CASE derivative_done
  BY <1>3, DoneRight
<1>4. CASE drv_clear
  BY <1>4 DEF drv_clear, IInv, TableRight
<1>5. CASE UNCHANGED vars
  BY <1>5 DEF vars, IInv
<1> QED BY <1>1, <1>2, <1>3, <1>4, <1>5 DEF Next, computing

LEMMA Invariance == Spec => []IInv
  BY InitRight, StepRight, PTL DEF Spec

-----------------------------------------------------------------------------
(* Every variable keeps its type: in particular the scratch row, the rows  *)
(* the table refers to and the stack of calls stay what drv.c's C types    *)
(* and array bounds require.                                               *)
THEOREM TypeCorrect == Spec => []TypeOK
<1>1. ASSUME IInv PROVE TypeOK
  <2>1. stack \in Seq(Frames)
    BY <1>1 DEF IInv, StackRight
  <2>2. answer \in [key : Key, val : Value] \cup {NoAnswer}
    <3>1. CASE answer = NoAnswer
      BY <3>1
    <3>2. ASSUME NEW k \in Key, answer = [key |-> k, val |-> Deriv[k]]
          PROVE  answer \in [key : Key, val : Value]
      <4>1. Deriv[k] \in Value
        BY DerivAssumption
      <4> QED BY <3>2, <4>1
    <3>3. AnswerRight(answer)
      BY <1>1 DEF IInv
    <3> QED BY <3>1, <3>2, <3>3 DEF AnswerRight
  <2>3. /\ drv_compact \in BOOLEAN /\ len_m \in Nat \ {0} /\ i_m \in Nat
        /\ memo \in [0 .. len_m - 1 -> Row] /\ reg \subseteq 0 .. len_m - 1
    BY <1>1 DEF IInv, TableRight
  <2> QED BY <2>1, <2>2, <2>3, Zenon DEF TypeOK
<1> QED BY <1>1, Invariance, PTL

(* accept_m's stretching and wrapping keep the scratch row inside the      *)
(* array, within the limit under compaction, and off the registered rows   *)
(* without it.                                                             *)
THEOREM ScratchRowCorrect == Spec => []ScratchRowInside
<1>1. IInv => ScratchRowInside
  BY DEF IInv, TableRight, ScratchRowInside
<1> QED BY <1>1, Invariance, PTL

(* No registered row is ever wrong, although every call in the recursion   *)
(* writes the scratch row of all the others and, under compaction, takes   *)
(* the place of older rows.                                                *)
THEOREM MemoCorrect == Spec => []MemoSound
<1>1. IInv => MemoSound
  BY DEF IInv, TableRight, MemoSound
<1> QED BY <1>1, Invariance, PTL

(* ht_put is never called with a row equal to a registered one. *)
THEOREM RowsDistinct == Spec => []OneRowPerKey
<1>1. IInv => OneRowPerKey
  BY DEF IInv, TableRight, OneRowPerKey
<1> QED BY <1>1, Invariance, PTL

-----------------------------------------------------------------------------
(* That no derivative is computed twice at a time also needs that the      *)
(* calls get smaller on the way up the stack: the key a finished call      *)
(* registers is then none of those still being computed.                   *)

RanksFall(calls) ==
  \A i, j \in 1 .. Len(calls) : i < j => Rank[calls[j].key] < Rank[calls[i].key]

TInv == IInv /\ RanksFall(stack) /\ NothingComputedTwice

(* No row in r' of m' holds a key of calls. *)
NoneKnown(calls, m, r) == \A n \in 1 .. Len(calls) : Matches(m, r, calls[n].key) = {}

LEMMA TInvSplit ==
  ASSUME stack \in Seq(Frames)
  PROVE  NothingComputedTwice <=> NoneKnown(stack, memo, reg)
  BY LenProperties DEF NothingComputedTwice, NoneKnown

LEMMA EnterTwice ==
  ASSUME TInv, NEW k \in Key, NEW callers, StackRight(callers), CallFor(k, callers),
         SameKeys(callers, stack), Enter(k, callers)
  PROVE  RanksFall(stack') /\ NoneKnown(stack', memo', reg')
<1> DEFINE hit == Matches(WithKey(k), Released, k)
<1>0. IInv /\ callers \in Seq(Frames) /\ Len(callers) \in Nat /\ stack \in Seq(Frames)
      /\ Len(stack) = Len(callers)
  BY LenProperties DEF TInv, IInv, StackRight, SameKeys
<1>1. RanksFall(callers)
  BY <1>0 DEF TInv, RanksFall, SameKeys
<1>2. memo' = WithKey(k) /\ reg' = Released
  BY DEF Enter
<1>3. NoneKnown(callers, memo', reg')
  <2>1. NoneKnown(stack, memo, reg)
    BY <1>0, TInvSplit DEF TInv
  <2>2. \A s \in reg' : memo'[s] = memo[s] /\ s \in reg
    BY <1>0, <1>2, ReleasedFacts
  <2> QED BY <1>0, <2>1, <2>2 DEF NoneKnown, Matches, SameKeys
<1>4. CASE hit # {}
  <2>1. PICK m \in hit : Return(k, WithKey(k)[m].ret, callers)
    BY <1>4 DEF Enter
  <2>2. WithKey(k)[m].ret = Deriv[k]
    <3>1. m \in Released /\ WithKey(k)[m].key = k
      BY DEF Matches
    <3> QED BY <1>0, <3>1, ReleasedFacts DEF TableRight
  <2>3. SameKeys(stack', callers)
    BY <1>0, <2>1, <2>2, ReturnRight DEF IInv
  <2> QED BY <1>1, <1>3, <2>3 DEF RanksFall, NoneKnown, SameKeys
<1>5. CASE hit = {}
  <2> DEFINE L == Len(callers)
             new == Append(callers, Frame(k))
  <2>1. stack' = new
    BY <1>5 DEF Enter
  <2>2. Len(new) = L + 1 /\ new[L + 1].key = k /\ \A n \in 1 .. L : new[n] = callers[n]
    <3>1. Frame(k).key = k /\ Frame(k) \in Frames
      BY NewFrame DEF Frame
    <3> QED BY <1>0, <3>1, AppendProperties
  <2> HIDE DEF new
  <2>3. NoneKnown(new, memo', reg')
    <3> SUFFICES ASSUME NEW n \in 1 .. L + 1
                 PROVE  Matches(memo', reg', new[n].key) = {}
      BY <2>2 DEF NoneKnown
    <3>1. CASE n = L + 1
      BY <3>1, <1>2, <1>5, <2>2
    <3>2. CASE n # L + 1
      <4>1. n \in 1 .. L
        BY <3>2, <1>0
      <4> QED BY <4>1, <1>3, <2>2 DEF NoneKnown
    <3> QED BY <3>1, <3>2
  <2>4. callers # <<>> => Rank[k] < Rank[callers[L].key]
    <3> SUFFICES ASSUME callers # <<>> PROVE Rank[k] < Rank[callers[L].key]
      OBVIOUS
    <3>1. callers[L] \in Frames
      BY <1>0, TopInRange
    <3>2. callers[L].key \in Key
      BY <3>1 DEF Frames
    <3> QED BY <3>2, RankAssumption DEF CallFor
  <2>5. RanksFall(new)
    <3> SUFFICES ASSUME NEW i \in 1 .. L + 1, NEW j \in 1 .. L + 1, i < j
                 PROVE  Rank[new[j].key] < Rank[new[i].key]
      BY <2>2 DEF RanksFall
    <3>1. i \in 1 .. L /\ new[i] = callers[i]
      BY <1>0, <2>2
    <3>2. CASE j # L + 1
      <4>1. j \in 1 .. L
        BY <3>2, <1>0
      <4> QED BY <3>1, <4>1, <1>1, <2>2 DEF RanksFall
    <3>3. CASE j = L + 1 /\ i = L
      <4>1. callers # <<>>
        BY <3>1, <3>3, <1>0
      <4> QED BY <3>1, <3>3, <4>1, <2>2, <2>4
    <3>4. CASE j = L + 1 /\ i # L
      <4>1. callers # <<>> /\ L \in 1 .. L /\ i < L
        BY <3>1, <3>4, <1>0
      <4>2. Rank[k] < Rank[callers[L].key] /\ Rank[callers[L].key] < Rank[callers[i].key]
        BY <3>1, <4>1, <1>1, <2>4 DEF RanksFall
      <4>3. callers[i].key \in Key /\ callers[L].key \in Key
        <5>1. callers[i] \in Frames /\ callers[L] \in Frames
          BY <3>1, <4>1, <1>0, ElementOfSeq
        <5> QED BY <5>1 DEF Frames
      <4>4. Rank[k] \in Nat /\ Rank[callers[L].key] \in Nat /\ Rank[callers[i].key] \in Nat
        BY <4>3, RankAssumption
      <4>5. Rank[k] < Rank[callers[i].key]
        BY <4>2, <4>4
      <4> QED BY <3>1, <3>4, <4>5, <2>2
    <3> QED BY <3>2, <3>3, <3>4
  <2> QED BY <2>1, <2>3, <2>5
<1> QED BY <1>4, <1>5

LEMMA DoneTwice ==
  ASSUME TInv, derivative_done
  PROVE  RanksFall(stack') /\ NoneKnown(stack', memo', reg')
<1> DEFINE k == Top.key
           v == Combine(k, Top.got)
           m == [WithKey(k) EXCEPT ![i_m].ret = v]
           L == Len(stack)
<1>1. IInv /\ stack # <<>> /\ stack \in Seq(Frames) /\ L \in Nat \ {0}
  BY EmptySeq DEF TInv, IInv, StackRight, derivative_done
<1>2. /\ k \in Key /\ v = Deriv[k] /\ StackRight(Pop) /\ CallFor(k, Pop)
  BY <1>1, TopComplete DEF derivative_done
<1>3. /\ accept_m(m, Released, k) /\ Return(k, v, Pop) /\ UNCHANGED drv_compact
  BY DEF derivative_done
<1>4. SameKeys(stack', Pop)
  BY <1>1, <1>2, <1>3, ReturnRight DEF IInv
<1>5. Len(Pop) = L - 1 /\ \A n \in 1 .. Len(Pop) : Pop[n] = stack[n] /\ n \in 1 .. L /\ n < L
  BY <1>1, PopFacts DEF Pop
<1>6. RanksFall(stack')
  BY <1>4, <1>5 DEF TInv, RanksFall, SameKeys
<1>7. \A s \in reg' : memo'[s].key = k \/ (s \in reg /\ memo'[s].key = memo[s].key)
  <2> HIDE DEF k, v
  <2>1. /\ i_m \notin Released /\ TableRight(drv_compact, WithKey(k), len_m, i_m, Released)
        /\ WithKey(k)[i_m].key = k
        /\ \A s \in Released : WithKey(k)[s] = memo[s] /\ s \in reg
    BY <1>1, <1>2, ReleasedFacts
  <2>2. WithKey(k) \in [0 .. len_m - 1 -> Row] /\ i_m \in 0 .. len_m - 1
        /\ Released \subseteq 0 .. len_m - 1
    BY <2>1 DEF TableRight
  <2>3. v \in Value
    BY <1>2, DerivAssumption
  <2>4. /\ m \in [0 .. len_m - 1 -> Row] /\ m[i_m].key = k /\ m[i_m].ret = Deriv[k]
        /\ \A s \in Released : m[s] = WithKey(k)[s]
    BY <1>2, <2>1, <2>2, <2>3 DEF Row
  <2> HIDE DEF m
  <2>5. TableRight(drv_compact, m, len_m, i_m, Released)
    BY <2>1, <2>4 DEF TableRight
  <2>6. \A s \in reg' : (s = i_m \/ s \in Released) /\ memo'[s] = m[s]
    BY <1>2, <1>3, <2>1, <2>4, <2>5, AcceptRight
  <2> QED BY <2>1, <2>4, <2>6
<1>8. NoneKnown(stack, memo, reg)
  BY <1>1, TInvSplit DEF TInv
<1>9. ASSUME NEW n \in 1 .. Len(Pop)
      PROVE  Matches(memo', reg', stack[n].key) = {}
  <2>1. n \in 1 .. L /\ n < L /\ L \in 1 .. L
    BY <1>1, <1>5
  <2>2. Rank[k] < Rank[stack[n].key]
    BY <2>1 DEF TInv, RanksFall, Top
  <2>3. stack[n].key # k
    <3>1. Rank[k] \in Nat
      BY <1>2, RankAssumption
    <3> QED BY <2>2, <3>1
  <2>4. Matches(memo, reg, stack[n].key) = {}
    BY <1>8, <2>1 DEF NoneKnown
  <2> QED BY <1>7, <2>3, <2>4 DEF Matches
<1> QED BY <1>4, <1>5, <1>6, <1>9 DEF NoneKnown, SameKeys

LEMMA StepTwice == TInv /\ [Next]_vars => TInv'
<1> SUFFICES ASSUME TInv, [Next]_vars PROVE TInv'
  OBVIOUS
<1>1. IInv /\ IInv' /\ stack' \in Seq(Frames) /\ stack \in Seq(Frames)
  BY StepRight DEF TInv, IInv, StackRight
<1> SUFFICES RanksFall(stack') /\ NoneKnown(stack', memo', reg')
  <2>1. DOMAIN stack' = 1 .. Len(stack')
    BY <1>1, LenProperties
  <2> QED BY <1>1, <2>1 DEF TInv, RanksFall, NoneKnown, NothingComputedTwice
<1>2. NoneKnown(stack, memo, reg) /\ RanksFall(stack)
  BY <1>1, TInvSplit DEF TInv
<1>3. ASSUME NEW k \in Key, drv_call(k)
      PROVE  RanksFall(stack') /\ NoneKnown(stack', memo', reg')
  <2>1. StackRight(<<>>) /\ CallFor(k, <<>>) /\ SameKeys(<<>>, stack)
    BY <1>3 DEF StackRight, CallFor, SameKeys, drv_call
  <2> QED BY <1>3, <2>1, EnterTwice DEF drv_call
<1>4. ASSUME NEW c \in DOMAIN Sub[Top.key], recursive_call(c)
      PROVE  RanksFall(stack') /\ NoneKnown(stack', memo', reg')
  <2> DEFINE callers == [stack EXCEPT ![Len(stack)].at = c]
  <2>1. stack # <<>> /\ Enter(Sub[Top.key][c], callers)
    BY <1>4 DEF recursive_call
  <2>2. /\ StackRight(callers) /\ SameKeys(callers, stack) /\ Sub[Top.key][c] \in Key
        /\ CallFor(Sub[Top.key][c], callers)
    BY <1>1, <2>1, AtRight
  <2> HIDE DEF callers
  <2> QED BY <2>1, <2>2, EnterTwice
<1>5. CASE derivative_done
  BY <1>5, DoneTwice
<1>6. CASE drv_clear
  BY <1>2, <1>6 DEF drv_clear, NoneKnown, Matches, RanksFall
<1>7. CASE UNCHANGED vars
  BY <1>2, <1>7 DEF vars, NoneKnown, Matches, RanksFall
<1> QED BY <1>3, <1>4, <1>5, <1>6, <1>7 DEF Next, computing

(* A derivative under computation is never in the memo at the same time:   *)
(* accept_m never meets an equal row, with or without compaction.          *)
THEOREM NeverComputedTwice == Spec => []NothingComputedTwice
<1>1. Init => TInv
  BY InitRight DEF Init, TInv, RanksFall, NothingComputedTwice
<1>2. TInv => NothingComputedTwice
  BY DEF TInv
<1> QED BY <1>1, <1>2, StepTwice, PTL DEF Spec

-----------------------------------------------------------------------------
(* Refinement. *)

LEMMA FirstCall ==
  ASSUME NEW a, NEW b, SameKeys(a, b), a \in Seq(Frames), b \in Seq(Frames)
  PROVE  (a = <<>>) = (b = <<>>) /\ (b # <<>> => a[1].key = b[1].key)
<1>1. Len(a) = Len(b) /\ (b # <<>> => 1 \in 1 .. Len(b))
  BY EmptySeq DEF SameKeys
<1>2. (a = <<>>) = (Len(a) = 0) /\ (b = <<>>) = (Len(b) = 0)
  BY EmptySeq
<1> QED BY <1>1, <1>2 DEF SameKeys

LEMMA EnterOracle ==
  ASSUME IInv, NEW k \in Key, NEW callers, callers # <<>>, StackRight(callers),
         CallFor(k, callers), SameKeys(callers, stack), Enter(k, callers)
  PROVE  UNCHANGED Oracle!vars
<1> DEFINE hit == Matches(WithKey(k), Released, k)
<1>1. callers \in Seq(Frames) /\ stack \in Seq(Frames)
  BY DEF IInv, StackRight
<1>2. stack # <<>> /\ stack[1].key = callers[1].key
  BY <1>1, FirstCall
<1>3. /\ answer' = answer /\ stack' # <<>> /\ stack'[1].key = callers[1].key
  <2>1. CASE hit # {}
    <3>1. PICK m \in hit : Return(k, WithKey(k)[m].ret, callers)
      BY <2>1 DEF Enter
    <3>2. WithKey(k)[m].ret = Deriv[k]
      <4>1. m \in Released /\ WithKey(k)[m].key = k
        BY DEF Matches
      <4> QED BY <4>1, ReleasedFacts DEF TableRight
    <3>3. SameKeys(stack', callers) /\ StackRight(stack')
      BY <3>1, <3>2, ReturnRight DEF IInv
    <3>4. stack' # <<>> /\ stack'[1].key = callers[1].key
      BY <1>1, <3>3, FirstCall DEF StackRight
    <3> QED BY <3>1, <3>4 DEF Return
  <2>2. CASE hit = {}
    <3>1. stack' = Append(callers, Frame(k)) /\ answer' = answer
      BY <2>2 DEF Enter
    <3>2. 1 \in 1 .. Len(callers) /\ Frame(k) \in Frames
      BY <1>1, EmptySeq, NewFrame
    <3> QED BY <1>1, <3>1, <3>2, AppendProperties
  <2> QED BY <2>1, <2>2
<1> QED BY <1>2, <1>3 DEF Oracle!vars

LEMMA CallOracle ==
  ASSUME IInv, NEW k \in Key, drv_call(k)
  PROVE  Oracle!Ask(k) \/ Oracle!AskAndReply(k)
<1> DEFINE hit == Matches(WithKey(k), Released, k)
<1>1. stack = <<>> /\ Enter(k, <<>>)
  BY DEF drv_call
<1>2. CASE hit # {}
  <2>1. PICK m \in hit : Return(k, WithKey(k)[m].ret, <<>>)
    BY <1>1, <1>2 DEF Enter
  <2>2. WithKey(k)[m].ret = Deriv[k]
    <3>1. m \in Released /\ WithKey(k)[m].key = k
      BY DEF Matches
    <3> QED BY <3>1, ReleasedFacts DEF TableRight
  <2> QED BY <1>1, <2>1, <2>2 DEF Return, Oracle!AskAndReply, Oracle!Answer
<1>3. CASE hit = {}
  <2>1. stack' = Append(<<>>, Frame(k)) /\ answer' = NoAnswer
    BY <1>1, <1>3 DEF Enter
  <2>2. stack' = <<Frame(k)>>
    BY <2>1
  <2>3. stack' # <<>> /\ stack'[1].key = k
    BY <2>2 DEF Frame
  <2> QED BY <1>1, <2>1, <2>3 DEF Oracle!Ask
<1> QED BY <1>2, <1>3

LEMMA DoneOracle ==
  ASSUME IInv, derivative_done
  PROVE  Oracle!Reply \/ UNCHANGED Oracle!vars
<1> DEFINE k == Top.key
           v == Combine(k, Top.got)
<1>1. stack # <<>> /\ Return(k, v, Pop)
  BY DEF derivative_done
<1>2. k \in Key /\ v = Deriv[k] /\ StackRight(Pop) /\ CallFor(k, Pop)
  BY <1>1, TopComplete DEF derivative_done
<1>3. stack \in Seq(Frames) /\ Len(stack) \in Nat \ {0}
  BY <1>1, EmptySeq DEF IInv, StackRight
<1>4. /\ Pop \in Seq(Frames) /\ Len(Pop) = Len(stack) - 1
      /\ \A n \in 1 .. Len(Pop) : Pop[n] = stack[n]
  BY <1>1, <1>3, PopFacts DEF Pop
<1>5. CASE Pop = <<>>
  <2>1. Len(stack) = 1
    BY <1>3, <1>4, <1>5
  <2>2. stack[1].key = k
    BY <2>1 DEF Top
  <2>3. stack' = <<>> /\ answer' = [key |-> k, val |-> Deriv[k]]
    BY <1>1, <1>2, <1>5 DEF Return
  <2>4. k # NoKey
    BY <1>2, KeyAssumption
  <2> QED BY <1>1, <2>2, <2>3, <2>4 DEF Oracle!Reply, Oracle!Answer
<1>6. CASE Pop # <<>>
  <2>1. SameKeys(stack', Pop) /\ StackRight(stack')
    BY <1>1, <1>2, ReturnRight DEF IInv
  <2>2. stack' # <<>> /\ stack'[1].key = Pop[1].key
    BY <1>4, <1>6, <2>1, FirstCall DEF StackRight
  <2>3. 1 \in 1 .. Len(Pop)
    BY <1>4, <1>6, EmptySeq
  <2>4. answer' = answer
    BY <1>1, <1>6 DEF Return
  <2> QED BY <1>1, <1>4, <2>2, <2>3, <2>4 DEF Oracle!vars
<1> QED BY <1>5, <1>6

LEMMA StepOracle == IInv /\ [Next]_vars => [Oracle!Next]_(Oracle!vars)
<1> SUFFICES ASSUME IInv, [Next]_vars PROVE [Oracle!Next]_(Oracle!vars)
  OBVIOUS
<1>1. ASSUME NEW k \in Key, drv_call(k) PROVE Oracle!Next
  BY <1>1, CallOracle DEF Oracle!Next
<1>2. ASSUME NEW c \in DOMAIN Sub[Top.key], recursive_call(c) PROVE UNCHANGED Oracle!vars
  <2> DEFINE callers == [stack EXCEPT ![Len(stack)].at = c]
  <2>1. stack # <<>> /\ Enter(Sub[Top.key][c], callers)
    BY <1>2 DEF recursive_call
  <2>2. /\ StackRight(callers) /\ SameKeys(callers, stack) /\ Sub[Top.key][c] \in Key
        /\ CallFor(Sub[Top.key][c], callers)
    BY <2>1, AtRight
  <2> HIDE DEF callers
  <2>3. callers # <<>>
    BY <2>1, <2>2, FirstCall DEF IInv, StackRight
  <2> QED BY <2>1, <2>2, <2>3, EnterOracle
<1>3. CASE derivative_done
  BY <1>3, DoneOracle DEF Oracle!Next
<1>4. CASE drv_clear
  BY <1>4 DEF drv_clear, Oracle!vars
<1>5. CASE UNCHANGED vars
  BY <1>5 DEF vars, Oracle!vars
<1> QED BY <1>1, <1>2, <1>3, <1>4, <1>5 DEF Next, computing

(* Seen from the validator, drv.c with its memo, compacted or not, only    *)
(* ever gives the answers of the memo-less DerivativeOracle.               *)
THEOREM MemoIsInvisible == Spec => Oracle!Spec
<1>1. Init => Oracle!Init
  BY DEF Init, Oracle!Init
<1> QED BY <1>1, Invariance, StepOracle, PTL DEF Spec, Oracle!Spec

=============================================================================
