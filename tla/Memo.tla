-------------------------------- MODULE Memo --------------------------------
(***************************************************************************)
(* The memo of derivatives in drv.c (new_memo, the new*() lookups,         *)
(* accept_m, drv_clear) under the recursion of the derivative functions.   *)
(* rx.c keeps the same structure for the derivatives of regular            *)
(* expressions, always in the compact mode.                                *)
(*                                                                         *)
(* A derivative function that is not in the memo calls itself on parts of  *)
(* its pattern, and all these calls write the SAME scratch row memo[i_m]:  *)
(* by the time a function returns, its key in that row is gone, i_m has    *)
(* moved on and, in the compact mode, the ring may have come round any     *)
(* number of times and reused rows other calls were answered from.  Hence  *)
(* the second new*() before M_SET.                                         *)
(*                                                                         *)
(* What a derivative is does not matter here: a key stands for a function  *)
(* with its arguments, Sub for the recursive calls it makes, Combine for   *)
(* what it builds from their results.  Each step runs from one call or     *)
(* return to the next; in between nothing else can run.                    *)
(***************************************************************************)
EXTENDS Integers, Sequences

CONSTANTS
  Key,            \* the four key columns of a row
  Value,          \* the last column
  Sub,            \* [Key -> Seq(Key)]: the recursive calls a key needs
  Combine(_, _),  \* the result for a key, given the results of these calls
  Deriv,          \* [Key -> Value]: the derivatives
  Rank,           \* [Key -> Nat]: how deep the recursion can go
  LEN_M,          \* rows allocated at first
  LIM_M,          \* rows used at most in the compact mode
  NoKey, Pending, NoAnswer

ASSUME KeyAssumption ==
  /\ Sub \in [Key -> Seq(Key)]
  /\ NoKey \notin Key
  /\ Pending \notin Value

ASSUME DerivAssumption ==
  /\ Deriv \in [Key -> Value]
  /\ \A k \in Key : Deriv[k] = Combine(k, [c \in DOMAIN Sub[k] |-> Deriv[Sub[k][c]]])

(* A derivative function calls itself on proper parts of its pattern, and  *)
(* never goes into an element; rnd_fixup rejects the schemas in which a    *)
(* pattern contains itself without an element in between.                  *)
ASSUME RankAssumption ==
  /\ Rank \in [Key -> Nat]
  /\ \A k \in Key : \A c \in DOMAIN Sub[k] : Rank[Sub[k][c]] < Rank[k]

ASSUME SizeAssumption == LEN_M \in Nat \ {0} /\ LIM_M \in Nat \ {0}

VARIABLES
  drv_compact,    \* the command line's choice, fixed before the first call
  memo,           \* [0 .. len_m-1 -> rows]
  len_m, i_m,     \* rows allocated; the scratch row
  reg,            \* the rows registered in ht_m (see IndexSet)
  stack,          \* the calls in progress, the outermost first
  answer          \* what the last outermost call returned

vars == <<drv_compact, memo, len_m, i_m, reg, stack, answer>>

-----------------------------------------------------------------------------
Row == [key : Key \cup {NoKey}, ret : Value \cup {Pending}]
Garbage == [key |-> NoKey, ret |-> Pending]

(* A call in progress: its key, which of its recursive calls is being      *)
(* computed, and what the ones made so far have returned.  C leaves the    *)
(* order of the two recursive calls in an argument list open.              *)
Frames == [key : Key, at : Nat, got : Seq(Value \cup {Pending})]

Frame(k) == [key |-> k, at |-> 0, got |-> [c \in 1 .. Len(Sub[k]) |-> Pending]]

Top == stack[Len(stack)]
Pop == SubSeq(stack, 1, Len(stack) - 1)

Matches(m, r, k) == {s \in r : m[s].key = k}

-----------------------------------------------------------------------------
(* new_memo and the key columns: the scratch row leaves the table before   *)
(* its key is overwritten, if it can be in the table at all.               *)
Released_never == reg    \* slip: the scratch row stays in the table

Released == IF drv_compact THEN reg \ {i_m} ELSE reg
WithKey(k) == [memo EXCEPT ![i_m].key = k]

(* A value is returned to the caller with these calls still in progress.   *)
Return(k, v, callers) ==
  IF callers = <<>>
  THEN /\ stack' = <<>>
       /\ answer' = [key |-> k, val |-> v]
  ELSE /\ stack' = [callers EXCEPT ![Len(callers)].got =
                      [@ EXCEPT ![callers[Len(callers)].at] = v]]
       /\ UNCHANGED answer

(* Slip: what the lookup finds is ignored. *)
Enter_afresh(k, callers) ==
  /\ memo' = WithKey(k)
  /\ reg' = Released
  /\ stack' = Append(callers, Frame(k))
  /\ answer' = IF callers = <<>> THEN NoAnswer ELSE answer
  /\ UNCHANGED <<drv_compact, len_m, i_m>>

(* The head of a derivative function: look the key up, answer from the     *)
(* memo, or go on to the recursive calls.                                  *)
Enter(k, callers) ==
  /\ memo' = WithKey(k)
  /\ reg' = Released
  /\ LET hit == Matches(WithKey(k), Released, k) IN
     IF hit # {}
     THEN \E m \in hit : Return(k, WithKey(k)[m].ret, callers)
     ELSE /\ stack' = Append(callers, Frame(k))
          /\ answer' = IF callers = <<>> THEN NoAnswer ELSE answer
  /\ UNCHANGED <<drv_compact, len_m, i_m>>

drv_call(k) ==
  /\ stack = <<>>
  /\ Enter(k, <<>>)

recursive_call(c) ==
  /\ stack # <<>>
  /\ c \in DOMAIN Sub[Top.key] /\ Top.got[c] = Pending
  /\ Enter(Sub[Top.key][c], [stack EXCEPT ![Len(stack)].at = c])

(* Slip: wraps around one row late. *)
accept_m_late(m, r, k) ==
  LET next == IF drv_compact /\ i_m = LIM_M THEN 0 ELSE i_m + 1
  IN /\ reg' = (r \ Matches(m, r, k)) \cup {i_m}
     /\ i_m' = next
     /\ len_m' = IF next = len_m THEN 2 * next ELSE len_m
     /\ memo' = [s \in 0 .. len_m' - 1 |-> IF s < len_m THEN m[s] ELSE Garbage]

(* Slip: the new length is noted, the array left as it is. *)
accept_m_short(m, r, k) ==
  LET next == IF drv_compact /\ i_m + 1 = LIM_M THEN 0 ELSE i_m + 1
  IN /\ reg' = (r \ Matches(m, r, k)) \cup {i_m}
     /\ i_m' = next
     /\ len_m' = IF next = len_m THEN 2 * next ELSE len_m
     /\ memo' = m

(* accept_m on memory m and registered rows r, the scratch row holding k:  *)
(* without compaction an equal row makes it give up, with compaction it    *)
(* replaces the equal row.                                                 *)
accept_m(m, r, k) ==
  LET equal == Matches(m, r, k)
      next  == IF drv_compact /\ i_m + 1 = LIM_M THEN 0 ELSE i_m + 1
  IN IF equal # {} /\ ~drv_compact
     THEN /\ memo' = m /\ reg' = r
          /\ UNCHANGED <<len_m, i_m>>
     ELSE /\ reg' = (r \ equal) \cup {i_m}
          /\ i_m' = next
          /\ IF next = len_m
             THEN /\ len_m' = 2 * next
                  /\ memo' = [s \in 0 .. 2 * next - 1 |-> IF s < len_m THEN m[s] ELSE Garbage]
             ELSE /\ memo' = m
                  /\ UNCHANGED len_m

(* Slip: the scratch row is taken to hold the key still. *)
derivative_done_keyless ==
  /\ stack # <<>>
  /\ \A c \in DOMAIN Top.got : Top.got[c] # Pending
  /\ LET k == Top.key
         v == Combine(k, Top.got)
     IN /\ accept_m([memo EXCEPT ![i_m].ret = v], reg, memo[i_m].key)
        /\ Return(k, v, Pop)
  /\ UNCHANGED drv_compact

(* The tail of a derivative function: the key again, M_SET, accept_m.      *)
derivative_done ==
  /\ stack # <<>>
  /\ \A c \in DOMAIN Top.got : Top.got[c] # Pending
  /\ LET k == Top.key
         v == Combine(k, Top.got)
     IN /\ accept_m([WithKey(k) EXCEPT ![i_m].ret = v], Released, k)
        /\ Return(k, v, Pop)
  /\ UNCHANGED drv_compact

(* Slip: the table is not cleared. *)
drv_clear_rows ==
  /\ stack = <<>>
  /\ i_m' = 0
  /\ UNCHANGED <<drv_compact, memo, len_m, reg, stack, answer>>

drv_clear ==
  /\ stack = <<>>
  /\ reg' = {}
  /\ i_m' = 0
  /\ UNCHANGED <<drv_compact, memo, len_m, stack, answer>>

Init ==
  /\ drv_compact \in BOOLEAN
  /\ memo = [s \in 0 .. LEN_M - 1 |-> Garbage]
  /\ len_m = LEN_M
  /\ i_m = 0
  /\ reg = {}
  /\ stack = <<>>
  /\ answer = NoAnswer

computing ==
  \/ stack # <<>> /\ \E c \in DOMAIN Sub[Top.key] : recursive_call(c)
  \/ derivative_done

Next ==
  \/ \E k \in Key : drv_call(k)
  \/ computing
  \/ drv_clear

Spec == Init /\ [][Next]_vars

(* The processor runs on: a call in progress takes its next step. *)
FairSpec == Spec /\ WF_vars(computing)

-----------------------------------------------------------------------------
TypeOK ==
  /\ drv_compact \in BOOLEAN
  /\ len_m \in Nat \ {0}
  /\ i_m \in Nat
  /\ memo \in [0 .. len_m - 1 -> Row]
  /\ reg \subseteq 0 .. len_m - 1
  /\ stack \in Seq(Frames)
  /\ answer \in [key : Key, val : Value] \cup {NoAnswer}

(* The scratch row is a row of the array, although nothing checks i_m when *)
(* it is used: accept_m stretches the array or wraps around in time.  In   *)
(* the compact mode the memo stays within its limit; without compaction    *)
(* nothing takes the scratch row out of the table, and it is never in it.  *)
ScratchRowInside ==
  /\ i_m < len_m
  /\ drv_compact => i_m < LIM_M /\ \A s \in reg : s < LIM_M
  /\ ~drv_compact => \A s \in reg : s < i_m

(* Whatever rows the recursion wrote and reused, a row that can be found   *)
(* in the memo holds the derivative its key asks for.                      *)
MemoSound == \A s \in reg : memo[s].key \in Key /\ memo[s].ret = Deriv[memo[s].key]

(* No two registered rows are equal: the assertion in ht_put's probe loop, *)
(* and what makes the result of ht_get and the victim of ht_del unique.    *)
OneRowPerKey == \A s, t \in reg : memo[s].key = memo[t].key => s = t

(* While a derivative is being computed its key is not in the memo: no     *)
(* recursive call adds it, so the branch of accept_m that finds an equal   *)
(* row is never needed and no derivative is computed while it is known.    *)
NothingComputedTwice ==
  \A n \in DOMAIN stack : Matches(memo, reg, stack[n].key) = {}

(* drv.c is indistinguishable from an oracle without a memo, and a call    *)
(* that was started is answered.                                           *)
Oracle == INSTANCE DerivativeOracle WITH
            asked <- IF stack = <<>> THEN NoKey ELSE stack[1].key
Refines == Oracle!FairSpec

=============================================================================
