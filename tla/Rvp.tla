--------------------------------- MODULE Rvp ---------------------------------
(***************************************************************************)
(* rvp.c: the validator as a server behind a pair of pipes.  A query comes *)
(* as bytes up to a zero byte, in whatever pieces read returns, and several *)
(* may be on their way; each is answered before the next is looked at.     *)
(* Error messages are printed to file descriptor 2, which main has turned  *)
(* into a pipe to the server itself; resp reads them back and puts them    *)
(* into the answer or throws them away.                                    *)
(*                                                                         *)
(* The client is external: tools/rvp.py sends a query and waits, but       *)
(* nothing stops another from sending ahead.  Patterns are numbers to it,  *)
(* and it takes them from earlier answers.  What a step of validation      *)
(* makes of a pattern is module Validation's subject; here it is a         *)
(* constant.                                                               *)
(***************************************************************************)
EXTENDS Integers, Sequences, FiniteSets, FiniteSetsExt

CONSTANTS
  Query,                    \* records [kwd, no, name, text], as tok and endtok cut them out:
                            \* no is 0 if there is no number, name and text may be Missing
  Missing, Unset,
  Size,                     \* [Query -> bytes, with the zero byte]
  starts,                   \* the start patterns of the grammars, <<0-th, 1st, ...>>
  Rnv,                      \* what rnv.c answers to the queries that reach it:
                            \* [ok, patno, prev, erno, said]; prev is whether the pattern was
                            \* rn_notAllowed before, or Unset; said is the length of what
                            \* is printed
  COMPLAINT,                \* the length of "protocol error"
  LEN_B,                    \* bytes read at once
  PIPE,                     \* the capacity of the pipe for messages
  MaxQueries

n_st == Len(starts)
Events == {"start-tag-open", "attribute", "start-tag-close", "text", "mixed", "end-tag"}
kwdtab == Events \cup {"start", "quit"}
Quits(q) == q.kwd = "quit"

(* The switch of query.  The number 0 is ERROR, which is not allowed; an   *)
(* attribute has a value, if only an empty one.                            *)
PROTER == [ok |-> FALSE, patno |-> 0, prev |-> Unset, erno |-> 0, said |-> COMPLAINT]
Quiet(no) == [ok |-> TRUE, patno |-> no, prev |-> Unset, erno |-> 0, said |-> 0]

Spurned(q) ==
  \/ q.kwd \notin kwdtab
  \/ q.kwd = "start" /\ q.no >= n_st
  \/ q.kwd \in Events /\ q.no = 0
  \/ q.kwd \in Events \ {"text", "mixed"} /\ q.name = Missing
  \/ q.kwd = "attribute" /\ q.text = Missing

Verdict(q) ==
  CASE Quits(q) -> Quiet(0)
    [] Spurned(q) -> PROTER
    [] ~Spurned(q) /\ q.kwd = "start" -> Quiet(starts[q.no + 1])
    [] ~Spurned(q) /\ q.kwd \in Events -> Rnv[q]

(* Whatever is not allowed is an error, which is printed, and was found    *)
(* after prevno had been assigned.                                         *)
ASSUME QueryAssumption ==
  /\ Size \in [Query -> Nat \ {0}]
  /\ \E q \in Query : q.kwd \notin kwdtab
  /\ starts \in Seq(Nat \ {0}) /\ n_st > 0
  /\ \A q \in Query : q.kwd \in Events /\ ~Spurned(q) =>
       /\ q \in DOMAIN Rnv
       /\ Rnv[q].ok \in BOOLEAN /\ Rnv[q].prev \in BOOLEAN \cup {Unset}
       /\ ~Rnv[q].ok => Rnv[q].prev # Unset /\ Rnv[q].said > 0

(* Nobody reads the messages while they are printed. *)
ASSUME PipeAssumption ==
  /\ {LEN_B, PIPE, MaxQueries} \subseteq Nat \ {0}
  /\ \A q \in Query : Verdict(q).said \in 0 .. PIPE

VARIABLES
  asked, closed,       \* the client: queries sent, and no more to come
  in, erp, out,        \* the pipes; out is all that was ever written
  pc,                  \* where query() is: "query", "handle", "resp", "drain", "exited"
  quebuf, len_q, n,    \* the buffer, n_q bytes long, its size, and how far it is read
  explain, lasterr,
  prevno,              \* query()'s local: was the pattern rn_notAllowed?
  said                 \* the query in hand with its ok and patno

vars == <<asked, closed, in, erp, out, pc, quebuf, len_q, n, explain, lasterr, prevno, said>>

n_q == Len(quebuf)
Bytes(q) == [k \in 1 .. Size[q] |-> <<q, k>>]
IsZero(b) == b[2] = Size[b[1]]
Drop(s, k) == SubSeq(s, k + 1, Len(s))

Z == <<"z">>
Printed(q) == [k \in 1 .. Verdict(q).said |-> <<"said", q>>]

-----------------------------------------------------------------------------
Told == {out[i][2] : i \in {j \in DOMAIN out : out[j][1] \in {"ok", "er", "error"}}}

send(q) ==
  /\ ~closed
  /\ q.kwd \in Events => q.no \in Told \cup {0}
  /\ Len(asked) < MaxQueries
  /\ asked' = Append(asked, q)
  /\ in' = in \o Bytes(q)
  /\ UNCHANGED <<closed, erp, out, pc, quebuf, len_q, n, explain, lasterr, prevno, said>>

close ==
  /\ closed' = TRUE
  /\ UNCHANGED <<asked, in, erp, out, pc, quebuf, len_q, n, explain, lasterr, prevno, said>>

-----------------------------------------------------------------------------
Server == <<asked, closed, explain>>     \* what the server leaves alone

(* Slip: room for one byte is taken to be enough. *)
Stretched_byte == IF len_q = n_q THEN n_q + LEN_B ELSE len_q

Stretched == IF len_q - n_q < LEN_B THEN n_q + LEN_B ELSE len_q

read ==
  /\ pc = "query" /\ n = n_q
  /\ in # <<>>
  /\ len_q' = Stretched
  /\ \E dn \in 1 .. Min({LEN_B, Len(in)}) :
       quebuf' = quebuf \o SubSeq(in, 1, dn) /\ in' = Drop(in, dn)
  /\ UNCHANGED <<Server, erp, out, pc, n, lasterr, prevno, said>>

scan ==
  /\ pc = "query" /\ n < n_q
  /\ \/ /\ \A k \in n + 1 .. n_q : ~IsZero(quebuf[k])
        /\ n' = n_q
        /\ UNCHANGED pc
     \/ \E k \in n + 1 .. n_q :
          /\ IsZero(quebuf[k]) /\ \A j \in n + 1 .. k - 1 : ~IsZero(quebuf[j])
          /\ n' = k
          /\ pc' = "handle"
  /\ UNCHANGED <<Server, in, erp, out, quebuf, len_q, lasterr, prevno, said>>

(* The end of the input within a query, or instead of one. *)
eof ==
  /\ pc = "query" /\ n = n_q
  /\ in = <<>> /\ closed
  /\ pc' = "exited"
  /\ UNCHANGED <<Server, in, erp, out, quebuf, len_q, n, lasterr, prevno, said>>

(* The query that the bytes spell; bytes that spell none have no keyword. *)
Understood(bytes) ==
  LET q == Head(bytes)[1] IN
  IF bytes = Bytes(q) THEN q ELSE CHOOSE odd \in Query : odd.kwd \notin kwdtab

(* The query is carried out, which may print messages, even if all is well *)
(* (a datatype library that is not known allows everything).  prevno has no *)
(* initial value, and queries that fail early do not assign it.            *)
handle ==
  /\ pc = "handle"
  /\ LET q == Understood(SubSeq(quebuf, 1, n))
         v == Verdict(q)
     IN /\ Len(erp) + v.said <= PIPE
        /\ erp' = erp \o Printed(q)
        /\ lasterr' = IF v.ok /\ v.said = 0 THEN lasterr ELSE v.erno
        /\ prevno' \in IF v.prev = Unset THEN BOOLEAN ELSE {v.prev}
        /\ said' = [q |-> q, ok |-> v.ok, patno |-> v.patno]
  /\ pc' = "resp"
  /\ UNCHANGED <<Server, in, out, quebuf, len_q, n>>

resp ==
  /\ pc = "resp"
  /\ out' = Append(out, IF said.ok THEN <<"ok", said.patno>>
                        ELSE <<IF explain THEN "error" ELSE "er", said.patno, lasterr>>)
  /\ pc' = "drain"
  /\ UNCHANGED <<Server, in, erp, quebuf, len_q, n, lasterr, prevno, said>>

Written == ~said.ok /\ explain /\ ~prevno

(* Read always, write if verbose. *)
resp_read ==
  /\ pc = "drain"
  /\ erp # <<>>
  /\ erp' = Drop(erp, LEN_B)
  /\ out' = IF Written THEN out \o SubSeq(erp, 1, Min({LEN_B, Len(erp)})) ELSE out
  /\ UNCHANGED <<Server, in, pc, quebuf, len_q, n, lasterr, prevno, said>>

(* The bytes after the query move to the front, unless it was the last. *)
Finish(rest, k) ==
  /\ pc = "drain"
  /\ out' = Append(out, Z)
  /\ IF Quits(said.q) THEN pc' = "exited" /\ UNCHANGED <<quebuf, n>>
     ELSE pc' = "query" /\ quebuf' = rest /\ n' = k
  /\ UNCHANGED <<Server, in, erp, len_q, lasterr, prevno, said>>

(* Slips: one read that returns little ends the messages; the bytes after  *)
(* the query are lost, or are taken to have been looked at.                *)
resp_done_once == Len(erp) < LEN_B /\ Finish(Drop(quebuf, n), 0)
resp_done_lossy == erp = <<>> /\ Finish(<<>>, 0)
resp_done_seen == erp = <<>> /\ Finish(Drop(quebuf, n), n_q - n)

resp_done == erp = <<>> /\ Finish(Drop(quebuf, n), 0)

-----------------------------------------------------------------------------
Init ==
  /\ asked = <<>> /\ closed = FALSE
  /\ in = <<>> /\ erp = <<>> /\ out = <<>>
  /\ pc = "query" /\ quebuf = <<>> /\ len_q = LEN_B /\ n = 0
  /\ explain \in BOOLEAN
  /\ lasterr = 0 /\ prevno \in BOOLEAN
  /\ said = [q |-> CHOOSE q \in Query : TRUE, ok |-> TRUE, patno |-> 0]

serving == read \/ scan \/ eof \/ handle \/ resp \/ resp_read \/ resp_done

Next == serving \/ close \/ \E q \in Query : send(q)

(* The server runs on as long as it has something to do. *)
Spec == Init /\ [][Next]_vars /\ WF_vars(serving)

-----------------------------------------------------------------------------
(* A read of LEN_B bytes always fits into the buffer. *)
BufferFits == n_q <= len_q

(* Where the answers end, and the k-th answer. *)
Ends == {i \in DOMAIN out : out[i] = Z}
Answers == Cardinality(Ends)
End(k) == IF k = 0 THEN 0 ELSE CHOOSE i \in Ends : Cardinality({j \in Ends : j <= i}) = k
Answer(k) == SubSeq(out, End(k - 1) + 1, End(k) - 1)

(* The queries are answered in the order in which they were sent, each by  *)
(* its own verdict and, in an explanation, by its own messages: all of     *)
(* them, unless the document had gone astray before.  How the bytes were   *)
(* cut into reads, and what else was sent ahead, makes no difference.      *)
AnsweredInOrder ==
  \A k \in 1 .. Answers :
    LET v == Verdict(asked[k])
        a == Answer(k)
        text == Tail(a)
    IN IF v.ok THEN a = << <<"ok", v.patno>> >>
       ELSE /\ a[1] = <<IF explain THEN "error" ELSE "er", v.patno, v.erno>>
            /\ text \in {<<>>, Printed(asked[k])}
            /\ v.prev # Unset => (text = <<>> <=> ~explain \/ v.prev)

(* No message is left over for the next query to find. *)
NothingLeftOver == pc = "query" => erp = <<>>

(* Every query is answered, unless the server has been told to quit before *)
(* or its input has ended.                                                 *)
EveryQueryAnswered ==
  \A k \in 1 .. MaxQueries : Len(asked) >= k ~> Answers >= k \/ pc = "exited"

=============================================================================
