-------------------------- MODULE DerivativeOracle --------------------------
(***************************************************************************)
(* What drv.c promises the validator: asked for a derivative it answers    *)
(* with that derivative, and whether it remembers earlier answers cannot   *)
(* be told from outside.                                                   *)
(***************************************************************************)
CONSTANTS
  Key,       \* the questions: a derivative function with its arguments
  Deriv,     \* [Key -> values]: the derivatives
  NoKey, NoAnswer

VARIABLES asked, answer

vars == <<asked, answer>>

Init == asked = NoKey /\ answer = NoAnswer

Answer(k) == answer' = [key |-> k, val |-> Deriv[k]]

Ask(k) ==
  /\ asked = NoKey
  /\ asked' = k
  /\ answer' = NoAnswer

Reply ==
  /\ asked # NoKey
  /\ Answer(asked)
  /\ asked' = NoKey

(* A question that is answered at once. *)
AskAndReply(k) ==
  /\ asked = NoKey
  /\ Answer(k)
  /\ UNCHANGED asked

Next == Reply \/ \E k \in Key : Ask(k) \/ AskAndReply(k)

Spec == Init /\ [][Next]_vars

FairSpec == Spec /\ WF_vars(Reply)

=============================================================================
