--------------------------------- MODULE Rx ---------------------------------
(***************************************************************************)
(* rx.c: compiled expressions, the store of patterns and the memo, all     *)
(* kept from one call to the next, under rx_check, rx_match, rx_rmatch and *)
(* rx_cmatch.                                                              *)
(*                                                                         *)
(* What a pattern is, and what an expression is compiled to, does not      *)
(* matter here; module Matching says it.  A step is a call with its        *)
(* compilation, one turn of a matching loop, or a call or return of drv.   *)
(***************************************************************************)
EXTENDS Integers, Sequences, SequencesExt

CONSTANTS
  Patterns, P_ERROR, P_EMPTY, P_NOT_ALLOWED, P_ANY,
  Parts(_),          \* what is stored with a pattern, itself last, in the order of storing
  Nullable(_),
  Kids(_),           \* the patterns a pattern refers to
  Asks(_, _, _),     \* whether drv of a pattern needs that of a kid, given those it has
  Made(_, _, _),     \* the derivative of a pattern by a character, given those
  after_char(_, _),  \* the derivative of a pattern by a character
  Chars, White,      \* the characters, and those that are white space
  Sessions,  \* what a caller may do: expressions, functions, subjects, number of calls
  LIM_P,     \* patterns kept at most when rx_compact is set
  LIM_M,     \* rows of the memo
  None

ASSUME LimitAssumption == {LIM_P, LIM_M} \subseteq Nat \ {0} /\ " " \in White \cap Chars

Windup == <<P_ERROR, P_EMPTY, P_NOT_ALLOWED, P_ANY>>

(* Patterns are built from parts that are stored before them; the pattern  *)
(* that nothing matches does not match the empty text.                     *)
ASSUME PatternAssumption ==
  /\ ToSet(Windup) \subseteq Patterns /\ None \notin Patterns
  /\ ~Nullable(P_NOT_ALLOWED)
  /\ UNION {ToSet(Parts(p)) : p \in Patterns} \subseteq Patterns
  /\ \A p \in ToSet(Windup) : ToSet(Parts(p)) = {p}
  /\ \A p \in Patterns :
       LET parts == ToSet(Parts(p))
       IN  /\ Parts(p) \in Seq(parts) /\ p \in parts
           /\ \A q \in parts : ToSet(Parts(q)) \subseteq parts
           /\ Kids(p) \in Seq(parts)

(* What drv knows when the derivatives of some of the kids have been       *)
(* computed.                                                               *)
Known(p, c, ks) == [k \in DOMAIN Kids(p) |-> IF k \in ks THEN after_char(Kids(p)[k], c) ELSE None]

(* The derivative of a pattern is made of those of its kids, and can be as *)
(* soon as none of the others is asked for.                                *)
ASSUME DerivativeAssumption ==
  /\ {after_char(p, c) : p \in Patterns, c \in Chars} \subseteq Patterns
  /\ \A p \in Patterns, c \in Chars : \A ks \in SUBSET DOMAIN Kids(p) :
       (\A k \in DOMAIN Kids(p) \ ks : ~Asks(p, k, Known(p, c, ks)))
         => Made(p, c, Known(p, c, ks)) = after_char(p, c)

(* A call of a matching function in progress, and where it is; None is not *)
(* one.                                                                    *)
Places == {"loop", "skip", "word", "spaced", "trail", "derived"}
Running ==
  [f : UNION {s.functions : s \in Sessions}, e : UNION {s.expressions : s \in Sessions},
   subject : Seq(Chars), p : Patterns, s : Seq(Chars), u : Chars \cup {None}, at : Places]

(* What an expression is compiled to depends on its text only.             *)
ASSUME SessionAssumption ==
  /\ UNION {{e.parsed.p : e \in s.expressions} : s \in Sessions} \subseteq Patterns
  /\ None \notin Running
  /\ \A s \in Sessions :
       /\ s.subjects \subseteq Seq(Chars)
       /\ \A e, f \in s.expressions : f.rx = e.rx => f.parsed = e.parsed

VARIABLES
  session, calls,      \* the caller: one of Sessions, calls made so far
  rx_compact,
  pattern,             \* the store; a pattern's index is its place in it
  regex, r2p,          \* expressions; pairs of an expression's and a pattern's index
  memo,                \* rows of the memo that can be found, the oldest first
  errors,              \* static: errors of the last compilation
  call,                \* the call in progress, or None
  stack,               \* the calls of drv in progress, the outermost first
  ret                  \* the last call that returned, with its answer, or None

vars == <<session, calls, rx_compact, pattern, regex, r2p, memo, errors, call, stack, ret>>
tables == <<pattern, regex, r2p, memo>>

-----------------------------------------------------------------------------
(* accept_p: a pattern is stored once.                                     *)
accept_p(store, p) == IF p \in ToSet(store) THEN store ELSE Append(store, p)

Stored(store, p) ==
  LET parts == Parts(p)
      upto[n \in 0 .. Len(parts)] ==
        IF n = 0 THEN store ELSE accept_p(upto[n - 1], parts[n])
  IN  upto[Len(parts)]

Index(store, p) == CHOOSE i \in DOMAIN store : store[i] = p

Tables == [pattern |-> pattern, regex |-> regex, r2p |-> r2p, memo |-> memo]

(* Slips: the memo, or the table of compiled expressions, is forgotten.    *)
rx_clear_m == [pattern |-> Windup, regex |-> <<>>, r2p |-> <<>>, memo |-> memo]
rx_clear_2 == [pattern |-> Windup, regex |-> regex, r2p |-> r2p, memo |-> <<>>]

rx_clear == [pattern |-> Windup, regex |-> <<>>, r2p |-> <<>>, memo |-> <<>>]

(* What compile returns, and what it does.  An expression found among the  *)
(* compiled ones leaves errors as it is.                                   *)
Compiles(e) ==
  IF e.rx \in ToSet(regex)
  THEN pattern[(CHOOSE x \in ToSet(r2p) : regex[x[1]] = e.rx)[2]]
  ELSE e.parsed.p

compile_found(e) ==
  /\ e.rx \in ToSet(regex)
  /\ UNCHANGED <<tables, errors>>

compile_new(e) ==
  LET old == IF rx_compact /\ Len(pattern) >= LIM_P THEN rx_clear ELSE Tables
  IN  /\ e.rx \notin ToSet(regex)
      /\ errors' = e.parsed.errors
      /\ pattern' = Stored(old.pattern, e.parsed.p)
      /\ regex' = Append(old.regex, e.rx)
      /\ r2p' = Append(old.r2p, <<Len(regex'), Index(pattern', e.parsed.p)>>)
      /\ memo' = old.memo

compile(e) == compile_found(e) \/ compile_new(e)

-----------------------------------------------------------------------------
Returned(c, val) == [f |-> c.f, e |-> c.e, s |-> c.subject, val |-> val]
Return(val) == call' = None /\ ret' = Returned(call, val)
Going(s, at, u) ==
  call' = [call EXCEPT !.s = s, !.at = at, !.u = u] /\ UNCHANGED ret

-----------------------------------------------------------------------------
(* drv.  A frame has just been called, and its kids are None, or is in the *)
(* switch: computing the derivative of one of its kids, or between two.    *)
Called(p, c) == [p |-> p, c |-> c, at |-> 0, got |-> None]

Top == stack[Len(stack)]
Pop == SubSeq(stack, 1, Len(stack) - 1)

(* A call returns to the one that made it, or to a matching loop.          *)
Answer(v) ==
  IF Pop = <<>>
  THEN stack' = <<>> /\ call' = [call EXCEPT !.p = v]
  ELSE /\ stack' = [Pop EXCEPT ![Len(Pop)].got = [@ EXCEPT ![Pop[Len(Pop)].at] = v]]
       /\ UNCHANGED call

(* The program ends where drv asserts that its pattern is not P_ERROR.     *)
Entering == stack # <<>> /\ Top.got = None /\ Top.p # P_ERROR
Switching == stack # <<>> /\ Top.got # None
Deriving == UNCHANGED <<session, calls, rx_compact, regex, r2p, errors>>

(* new_memo: looking for a row drops the oldest one if there is no other   *)
(* place for a new one.                                                    *)
new_memo == IF Len(memo) = LIM_M THEN Tail(memo) ELSE memo

Rows(p, c) == {m \in ToSet(new_memo) : m.p = Index(pattern, p) /\ m.c = c}

drv_found ==
  /\ Entering
  /\ \E m \in Rows(Top.p, Top.c) : Answer(pattern[m.ret])
  /\ memo' = new_memo
  /\ Deriving /\ UNCHANGED <<pattern, ret>>

drv_enters ==
  /\ Entering
  /\ Rows(Top.p, Top.c) = {}
  /\ memo' = new_memo
  /\ stack' = [stack EXCEPT ![Len(stack)].got = [k \in DOMAIN Kids(Top.p) |-> None]]
  /\ Deriving /\ UNCHANGED <<pattern, call, ret>>

Due == {k \in DOMAIN Kids(Top.p) : Top.got[k] = None /\ Asks(Top.p, k, Top.got)}

(* C leaves the order of the two calls in an argument list open.           *)
drv_asks ==
  /\ Switching
  /\ \E k \in Due : stack' = Append([stack EXCEPT ![Len(stack)].at = k],
                                     Called(Kids(Top.p)[k], Top.c))
  /\ Deriving /\ UNCHANGED <<pattern, memo, call, ret>>

(* accept_m: no row of this pattern and character is there (module Memo).  *)
drv_returns ==
  /\ Switching /\ Due = {}
  /\ LET made == Made(Top.p, Top.c, Top.got)
     IN  /\ pattern' = Stored(pattern, made)
         /\ memo' = Append(new_memo, [p |-> Index(pattern, Top.p), c |-> Top.c,
                                      ret |-> Index(pattern', made)])
         /\ Answer(made)
  /\ Deriving /\ UNCHANGED ret

-----------------------------------------------------------------------------
Enter(f, e, s, p) ==
  [f |-> f, e |-> e, subject |-> s, p |-> p, s |-> s, u |-> None,
   at |-> IF f = "rx_cmatch" THEN "skip" ELSE "loop"]

Begin ==
  /\ call = None
  /\ calls < session.calls
  /\ calls' = calls + 1
  /\ UNCHANGED <<session, rx_compact, stack>>

rx_check ==
  /\ Begin
  /\ "rx_check" \in session.functions
  /\ \E e \in session.expressions :
       /\ compile(e)
       /\ ret' = [f |-> "rx_check", e |-> e, s |-> <<>>, val |-> IF errors' = 0 THEN 1 ELSE 0]
  /\ UNCHANGED call

(* The matching functions compile, and give up if there are errors.        *)
start_match ==
  /\ Begin
  /\ \E f \in session.functions \ {"rx_check"}, e \in session.expressions,
        s \in session.subjects :
       LET new == Enter(f, e, s, Compiles(e))
       IN  /\ compile(e)
           /\ IF errors' = 0
              THEN call' = new /\ UNCHANGED ret
              ELSE call' = None /\ ret' = Returned(new, 0)

In(at) == call # None /\ stack = <<>> /\ call.at = at
Verdict(p) == IF Nullable(p) THEN 1 ELSE 0
Space(u) == IF u \in White THEN " " ELSE u

Looping == UNCHANGED <<session, calls, rx_compact, tables, errors>>
Derive(u) == stack' = <<Called(call.p, u)>>
Underived == UNCHANGED stack

-----------------------------------------------------------------------------
(* The loop of rx_match and rx_rmatch.                                     *)
match_end ==
  /\ In("loop")
  /\ call.p = P_NOT_ALLOWED \/ call.s = <<>>
  /\ Return(Verdict(call.p))
  /\ Underived /\ Looping

match_next ==
  /\ In("loop")
  /\ call.p # P_NOT_ALLOWED /\ call.s # <<>>
  /\ Derive(IF call.f = "rx_rmatch" THEN Space(Head(call.s)) ELSE Head(call.s))
  /\ Going(Tail(call.s), "loop", None)
  /\ Looping

(* rx_cmatch.  SKIP_SPACE: white space before a word is dropped.           *)
skip_space ==
  /\ In("skip")
  /\ IF call.s = <<>>
     THEN Return(Verdict(call.p))
     ELSE LET u == Head(call.s)
          IN  Going(Tail(call.s), IF u \in White THEN "skip" ELSE "word", u)
  /\ Underived /\ Looping

cmatch_fail ==
  /\ In("word")
  /\ call.p = P_NOT_ALLOWED
  /\ Return(0)
  /\ Underived /\ Looping

(* White space after a word is one space if one may follow; if not, there  *)
(* must be nothing else.                                                   *)
cmatch_space ==
  /\ In("word")
  /\ call.p # P_NOT_ALLOWED /\ call.u \in White
  /\ Derive(" ")
  /\ Going(call.s, "spaced", None)
  /\ Looping

cmatch_spaced ==
  /\ In("spaced")
  /\ Going(call.s, IF call.p # P_NOT_ALLOWED THEN "skip" ELSE "trail", None)
  /\ Underived /\ Looping

cmatch_trail ==
  /\ In("trail")
  /\ CASE call.s = <<>> -> Return(1)
       [] call.s # <<>> /\ Head(call.s) \in White -> Going(Tail(call.s), "trail", None)
       [] OTHER -> Return(0)
  /\ Underived /\ Looping

cmatch_next ==
  /\ In("word")
  /\ call.p # P_NOT_ALLOWED /\ call.u \notin White
  /\ Derive(call.u)
  /\ Going(call.s, "derived", None)
  /\ Looping

cmatch_derived ==
  /\ In("derived")
  /\ IF call.s = <<>>
     THEN Going(<<>>, "skip", None)
     ELSE Going(Tail(call.s), "word", Head(call.s))
  /\ Underived /\ Looping

-----------------------------------------------------------------------------
Init ==
  /\ session \in Sessions /\ calls = 0
  /\ rx_compact \in BOOLEAN
  /\ pattern = Windup
  /\ regex = <<>> /\ r2p = <<>> /\ memo = <<>>
  /\ errors = 0
  /\ call = None /\ stack = <<>> /\ ret = None

Next ==
  \/ rx_check \/ start_match
  \/ match_end \/ match_next
  \/ skip_space \/ cmatch_fail \/ cmatch_space \/ cmatch_spaced \/ cmatch_trail
  \/ cmatch_next \/ cmatch_derived
  \/ drv_found \/ drv_enters \/ drv_asks \/ drv_returns

Spec == Init /\ [][Next]_vars

-----------------------------------------------------------------------------
(* The memo refers to nothing that rx_clear has swept away: a row holds    *)
(* the derivative of the pattern that now has its index.                   *)
MemoOfThisStore ==
  \A m \in ToSet(memo) :
    /\ {m.p, m.ret} \subseteq DOMAIN pattern
    /\ pattern[m.ret] = after_char(pattern[m.p], m.c)

(* ... and an expression that was compiled before is answered with the     *)
(* pattern a new compilation would give.                                   *)
CacheOfThisStore ==
  \A x \in ToSet(r2p) :
    /\ x[1] \in DOMAIN regex /\ x[2] \in DOMAIN pattern
    /\ \A e \in session.expressions : e.rx = regex[x[1]] => pattern[x[2]] = e.parsed.p

=============================================================================
