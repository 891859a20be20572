----------------------------- MODULE SchemaLoad -----------------------------
(***************************************************************************)
(* From the parsed schema to the patterns the validator works with:        *)
(* rnd_fixup (rnd.c) replaces the references by what they refer to,        *)
(* refuses patterns that contain themselves, and completes the nullable    *)
(* flags; rn_compress_last (rn.c) then merges patterns that have become    *)
(* equal, drops those out of reach, and moves the others together.         *)
(*                                                                         *)
(* The kinds of pattern differ here only in their number of children and   *)
(* in how they stop a loop or are nullable, so four stand for all: empty,  *)
(* element, choice and group.  A pattern takes one index.  Index 0 is      *)
(* rn_empty, which is older than the schema (base_p = 1).  Content types   *)
(* and forbidden paths, which only reject schemas, are left out.           *)
(***************************************************************************)
EXTENDS Integers, Sequences, FiniteSets, SequencesExt

CONSTANT Schemas  \* the stores the parser can leave behind, see IsSchema

None == -1
base_p == 1
Empty == [t |-> "empty", nc |-> "", p1 |-> 0, p2 |-> 0]
Erased == [t |-> "erased", nc |-> "", p1 |-> 0, p2 |-> 0]

VARIABLES
  schema,    \* the parsed schema [pat, start], for reference
  pc,        \* the function that runs next
  pat,       \* [0 .. i_p-1 -> patterns]
  tab,       \* the indices registered in ht_p
  nul,       \* the patterns with the nullable flag
  marked,    \* the patterns with the mark flag
  flat, i,   \* deref's worklist, and its place in it
  at,        \* the reference at which de goes round, or None
  errors,
  xlat,      \* [indices from base_p on -> indices or None]
  changed,
  start

vars == <<schema, pc, pat, tab, nul, marked, flat, i, at, errors, xlat, changed, start>>

-----------------------------------------------------------------------------
Binary == {"choice", "group"}
Unary == {"element"}

Kids(p) == CASE p.t \in Binary -> {p.p1, p.p2}
             [] p.t \in Unary -> {p.p1}
             [] OTHER -> {}

(* ht_get: the registered pattern equal to p. *)
ht_get(pt, t, p) ==
  LET equal == {q \in t : pt[q] = pt[p]} IN IF equal = {} THEN None ELSE CHOOSE q \in equal : TRUE

(* The function f applied n times. *)
Iterate(f, x, n) ==
  LET it[k \in 0 .. n] == IF k = 0 THEN x ELSE f[it[k - 1]]
  IN it[n]

(* The patterns that start leads to. *)
Reach(pt, from) ==
  LET Further == [ps \in SUBSET DOMAIN pt |-> ps \cup UNION {Kids(pt[p]) : p \in ps}]
  IN Iterate(Further, {from}, Cardinality(DOMAIN pt))

(* A least fixed point over the patterns ps: nullables(), and, in index    *)
(* order from nothing, what the constructors have set.                     *)
NullableBy(pt, p, n) ==
  CASE pt[p].t = "empty" -> TRUE
    [] pt[p].t = "choice" -> pt[p].p1 \in n \/ pt[p].p2 \in n
    [] pt[p].t = "group" -> pt[p].p1 \in n /\ pt[p].p2 \in n
    [] OTHER -> FALSE

nullables(pt, ps, n0) ==
  LET Round == [n \in SUBSET DOMAIN pt |-> n \cup {p \in ps : NullableBy(pt, p, n)}]
  IN Iterate(Round, n0, Cardinality(ps))

Types == Binary \cup Unary \cup {"empty", "ref", "erased"}
Pattern == [t : Types, nc : STRING, p1 : Int, p2 : Int]

(* What the parser leaves: patterns built from older patterns and from     *)
(* references, no two of them equal; a reference, which is registered      *)
(* nowhere, to any pattern.                                                *)
IsSchema(s) ==
  /\ IsFiniteSet(DOMAIN s.pat)
  /\ s.pat \in [0 .. Cardinality(DOMAIN s.pat) - 1 -> Pattern]
  /\ s.pat[0] = Empty
  /\ s.start \in DOMAIN s.pat
  /\ \A p \in DOMAIN s.pat :
       /\ s.pat[p].t = "ref" => s.pat[p].p1 \in DOMAIN s.pat
       /\ s.pat[p].t # "ref" =>
            /\ s.pat[p].t # "erased"
            /\ \A c \in Kids(s.pat[p]) : c \in DOMAIN s.pat /\ (s.pat[c].t = "ref" \/ c < p)
            /\ \A q \in DOMAIN s.pat : s.pat[q] = s.pat[p] => q = p

ASSUME SchemaAssumption == \A s \in Schemas : IsSchema(s)

Patterns(s) == {p \in DOMAIN s.pat : s.pat[p].t # "ref"}

-----------------------------------------------------------------------------
(* de: follow a chain of references; it stops at a pattern that is none,   *)
(* or where it began.                                                      *)
Chain(p0) ==
  LET Follow == [p \in DOMAIN pat |-> IF pat[p].t # "ref" \/ p = p0 THEN p ELSE pat[p].p1]
      p == Iterate(Follow, pat[p0].p1, Cardinality(DOMAIN pat))
  IN CASE pat[p0].t # "ref" -> p0
       [] pat[p0].t = "ref" /\ (pat[p].t # "ref" \/ p = p0) -> p
       [] OTHER -> None

Ends(p) == Chain(p) # None
de(p) == Chain(p)

flatten(st, p) ==
  IF p \in st.marked THEN st
  ELSE [flat |-> Append(st.flat, p), marked |-> st.marked \cup {p}]

Goto(l) == pc' = l
GoRound(c) == Goto("spinning") /\ at' = c

deref_start ==
  /\ pc = "deref"
  /\ flat = <<>>
  /\ IF ~Ends(start)
     THEN GoRound(start) /\ UNCHANGED <<flat, marked>>
     ELSE /\ flat' = <<de(start)>>
          /\ marked' = {de(start)}
          /\ UNCHANGED <<pc, at>>
  /\ UNCHANGED <<schema, pat, tab, nul, i, errors, xlat, changed, start>>

(* The patterns with the references among the children of p replaced.     *)
Dereferenced(p) ==
  [pat EXCEPT ![p].p1 = IF pat[p].t \in Binary \cup Unary THEN de(@) ELSE @,
              ![p].p2 = IF pat[p].t \in Binary THEN de(@) ELSE @]

(* The worklist with the children of p. *)
Flattened(p) ==
  LET st0 == [flat |-> flat, marked |-> marked]
      st1 == IF p.t \in Binary \cup Unary THEN flatten(st0, p.p1) ELSE st0
  IN IF p.t \in Binary THEN flatten(st1, p.p2) ELSE st1

(* One pattern of the worklist: its references are replaced, which takes   *)
(* it out of the table and puts it back unless an equal one is in there.   *)
deref_node ==
  /\ pc = "deref"
  /\ i < Len(flat)
  /\ LET p == flat[i + 1]
         refs == {c \in Kids(pat[p]) : pat[c].t = "ref"}
         new == Dereferenced(p)
     IN IF \E c \in refs : ~Ends(c)
        THEN /\ GoRound(CHOOSE c \in refs : ~Ends(c))
             /\ UNCHANGED <<pat, tab, flat, marked, i>>
        ELSE /\ pat' = new
             /\ tab' = IF refs = {} THEN tab
                       ELSE IF ht_get(new, tab \ {p}, p) = None THEN tab \cup {p} ELSE tab \ {p}
             /\ flat' = Flattened(new[p]).flat
             /\ marked' = Flattened(new[p]).marked
             /\ i' = i + 1
             /\ UNCHANGED <<pc, at>>
  /\ UNCHANGED <<schema, nul, errors, xlat, changed, start>>

deref_done ==
  /\ pc = "deref"
  /\ flat # <<>> /\ i = Len(flat)
  /\ marked' = {}
  /\ Goto("loops")
  /\ UNCHANGED <<schema, pat, tab, nul, flat, i, at, errors, xlat, changed, start>>

(* de goes round a chain of references that never returns to its start. *)
de_spin ==
  /\ pc = "spinning"
  /\ at' = pat[at].p1
  /\ UNCHANGED <<schema, pc, pat, tab, nul, marked, flat, i, errors, xlat, changed, start>>

-----------------------------------------------------------------------------
(* loop: does the descent from p, which stops at elements, come back to a  *)
(* pattern it is still in, or to a reference?                              *)
Below == [ps \in SUBSET DOMAIN pat |->
            ps \cup UNION {Kids(pat[p]) : p \in {q \in ps : pat[q].t \in Binary}}]

Descent(ps) == Iterate(Below, ps, Cardinality(DOMAIN pat))

loop(p) ==
  \E q \in Descent({p}) :
    \/ pat[q].t = "ref"
    \/ pat[q].t \in Binary /\ q \in Descent(Kids(pat[q]))

(* Slip: only the start pattern is looked at. *)
Suspects_start == {flat[1]}

(* The first pattern of the worklist itself, then the contents of the      *)
(* elements after it.                                                      *)
Suspects ==
  {flat[1]} \cup {pat[flat[n]].p1 : n \in {m \in 2 .. Len(flat) : pat[flat[m]].t = "element"}}

loops ==
  /\ pc = "loops"
  /\ LET found == \E p \in Suspects : loop(p)
     IN /\ errors' = found
        /\ Goto(IF found THEN "rejected" ELSE "traits")
        /\ start' = IF found THEN 0 ELSE flat[1]
  /\ UNCHANGED <<schema, pat, tab, nul, marked, flat, i, at, xlat, changed>>

InFlat == {flat[n] : n \in DOMAIN flat}

(* A reference that is still in use, which loops overlooks in the content  *)
(* of a start element, ends the program by an assertion, here or already   *)
(* in ctype.                                                               *)
traits ==
  /\ pc = "traits"
  /\ IF \E p \in InFlat : pat[p].t = "ref"
     THEN Goto("aborted") /\ UNCHANGED nul
     ELSE Goto("mark_p") /\ nul' = nullables(pat, InFlat, nul)
  /\ UNCHANGED <<schema, pat, tab, marked, flat, i, at, errors, xlat, changed, start>>

-----------------------------------------------------------------------------
Stored == base_p .. Cardinality(DOMAIN pat) - 1
(* mark_p: the patterns of the schema that the start pattern leads to. *)
mark_p ==
  /\ pc = "mark_p"
  /\ marked' = Reach(pat, start) \cap Stored
  /\ Goto("sweep_p")
  /\ UNCHANGED <<schema, pat, tab, nul, flat, i, at, errors, xlat, changed, start>>

(* Pattern p has met its equal q.  It gives way to a q that is in use, and *)
(* takes the place of one that is not.                                     *)
redir_p(st, p, q) ==
  IF q < base_p \/ st.xlat[q] # None
  THEN [st EXCEPT !.marked = @ \ {p}, !.xlat[p] = q, !.changed = TRUE]
  ELSE [st EXCEPT !.tab = (@ \ {q}) \cup {p}]

Swept(st) ==
  /\ pat' = st.pat
  /\ tab' = st.tab
  /\ marked' = st.marked
  /\ xlat' = st.xlat
  /\ changed' = st.changed
  /\ UNCHANGED <<schema, nul, flat, i, at, errors, start>>

(* Each pattern in turn, in the order of the store.  The result of each    *)
(* visit is bound as z, lest TLC evaluate it wherever Visit mentions it.   *)
Pass(Visit(_, _), st0) ==
  LET st[p \in 0 .. Cardinality(Stored)] ==
        IF p = 0 THEN st0 ELSE CHOOSE w \in {Visit(z, p) : z \in {st[p - 1]}} : TRUE
  IN st[Cardinality(Stored)]

Store(x, c) == [pat |-> pat, tab |-> tab, marked |-> marked, xlat |-> x, changed |-> c]

Merge(st, p) ==
  LET q == ht_get(st.pat, st.tab, p)
  IN IF st.xlat[p] = p /\ q # p THEN redir_p(st, p, q) ELSE st

sweep_p_init ==
  /\ pc = "sweep_p"
  /\ Swept(Pass(Merge, Store([p \in Stored |-> IF p \in marked THEN p ELSE None], FALSE)))
  /\ Goto("sweep_p_loop")

(* One round of the loop of sweep_p: children that have been redirected    *)
(* are replaced, which may make their parents equal to others.             *)
Redirected(st, c) == IF c >= base_p THEN st.xlat[c] ELSE c

Relinked(st, p) ==
  [st.pat EXCEPT ![p].p1 = IF st.pat[p].t \in Binary \cup Unary THEN Redirected(st, @) ELSE @,
                 ![p].p2 = IF st.pat[p].t \in Binary THEN Redirected(st, @) ELSE @]

Lookup(st, p, tb) ==
  LET new == Relinked(st, p)
      q == ht_get(new, tb, p)
      next == [st EXCEPT !.pat = new, !.tab = tb, !.changed = TRUE]
  IN CASE st.xlat[p] # p \/ new = st.pat -> st
       [] st.xlat[p] = p /\ new # st.pat /\ q = None -> [next EXCEPT !.tab = @ \cup {p}]
       [] OTHER -> redir_p(next, p, q)

(* Slip: p is still registered, under its old key, when it is looked up. *)
Resweep_registered(st, p) == Lookup(st, p, st.tab)

Resweep(st, p) == Lookup(st, p, st.tab \ {p})

Round(c) ==
  /\ pc = "sweep_p_loop"
  /\ changed
  /\ Swept(Pass(Resweep, Store(xlat, c)))
  /\ UNCHANGED pc

(* Slips: changed is not reset; there is one round only. *)
sweep_p_round_sticky == Round(TRUE)

sweep_p_round_last ==
  /\ pc = "sweep_p_loop"
  /\ changed
  /\ Swept([Pass(Resweep, Store(xlat, FALSE)) EXCEPT !.changed = FALSE])
  /\ UNCHANGED pc

sweep_p_round == Round(FALSE)

(* Slip: the start pattern is forgotten. *)
sweep_p_done_stay ==
  /\ pc = "sweep_p_loop"
  /\ ~changed
  /\ Goto("unmark_p")
  /\ UNCHANGED <<schema, pat, tab, nul, marked, flat, i, at, errors, xlat, changed, start>>

(* The start pattern follows its redirection. *)
sweep_p_done ==
  /\ pc = "sweep_p_loop"
  /\ ~changed
  /\ start' = Redirected([xlat |-> xlat], start)
  /\ Goto("unmark_p")
  /\ UNCHANGED <<schema, pat, tab, nul, marked, flat, i, at, errors, xlat, changed>>

unmark_p ==
  /\ pc = "unmark_p"
  /\ pat' = [p \in DOMAIN pat |-> IF p \in Stored \ marked THEN Erased ELSE pat[p]]
  /\ tab' = tab \ (Stored \ marked)
  /\ marked' = {}
  /\ Goto("compress_p")
  /\ UNCHANGED <<schema, nul, flat, i, at, errors, xlat, changed, start>>

(* Slip: the second child is forgotten. *)
Moved_first(p, to) == [p EXCEPT !.p1 = IF p.t \in Binary \cup Unary THEN to[@] ELSE @]

Moved(p, to) ==
  [p EXCEPT !.p1 = IF p.t \in Binary \cup Unary THEN to[@] ELSE @,
            !.p2 = IF p.t \in Binary THEN to[@] ELSE @]

(* The survivors move down in order, and are registered afresh. *)
compress_p ==
  /\ pc = "compress_p"
  /\ LET left == {p \in DOMAIN pat : pat[p].t # "erased"}
         to == [p \in DOMAIN pat |->
                  CASE p < base_p -> p
                    [] p >= base_p /\ p \notin left -> None
                    [] OTHER -> Cardinality({q \in left : q < p})]
         from(q) == CHOOSE p \in left : to[p] = q
     IN /\ pat' = [q \in 0 .. Cardinality(left) - 1 |-> Moved(pat[from(q)], to)]
        /\ tab' = (tab \ left) \cup {to[p] : p \in left}
        /\ nul' = {q \in 0 .. Cardinality(left) - 1 : from(q) \in nul}
        /\ start' = to[start]
        /\ xlat' = [p \in Stored |-> to[p]]
  /\ Goto("loaded")
  /\ UNCHANGED <<schema, marked, flat, i, at, errors, changed>>

-----------------------------------------------------------------------------
Init ==
  /\ schema \in Schemas
  /\ pc = "deref"
  /\ pat = schema.pat
  /\ start = schema.start
  /\ tab = Patterns(schema)
  /\ nul = nullables(schema.pat, Patterns(schema), {})
  /\ marked = {} /\ flat = <<>> /\ i = 0 /\ at = None
  /\ errors = FALSE
  /\ xlat = <<>> /\ changed = FALSE

Next ==
  \/ deref_start \/ deref_node \/ deref_done \/ de_spin
  \/ loops \/ traits
  \/ mark_p \/ sweep_p_init \/ sweep_p_round \/ sweep_p_done \/ unmark_p \/ compress_p

Spec == Init /\ [][Next]_vars

(* Nothing but the program itself can hold it up. *)
FairSpec == Spec /\ WF_vars(Next)

-----------------------------------------------------------------------------
TypeOK ==
  /\ tab \subseteq DOMAIN pat /\ nul \subseteq DOMAIN pat
  /\ \A p \in DOMAIN pat : Kids(pat[p]) \subseteq DOMAIN pat
  /\ i \in 0 .. Len(flat)
  /\ errors \in BOOLEAN /\ changed \in BOOLEAN

(* While the store is swept every pattern in use is represented: following *)
(* the redirections from it one arrives at a pattern that stays, not at    *)
(* one that is about to be erased and not in a circle.                     *)
RedirectionsEnd ==
  pc = "sweep_p_loop" =>
    LET Follow == [p \in DOMAIN pat \cup {None} |-> IF p < base_p THEN p ELSE xlat[p]]
        Stays(p) == Iterate(Follow, p, Cardinality(Stored))
    IN \A p \in Stored : xlat[p] # None =>
         \/ Stays(p) \in 0 .. base_p - 1
         \/ Stays(p) \in marked /\ xlat[Stays(p)] = Stays(p)

(* A pattern of the schema, references resolved, beside one of the store:  *)
(* their children, side by side, if they are of one kind.                  *)
Meant(p) ==
  LET Past == [q \in DOMAIN schema.pat |->
                 IF schema.pat[q].t = "ref" THEN schema.pat[q].p1 ELSE q]
  IN Iterate(Past, p, Cardinality(DOMAIN schema.pat))

OneKind(e) ==
  /\ e[2] \in DOMAIN pat
  /\ LET p == schema.pat[e[1]]
         q == pat[e[2]]
     IN p.t = q.t /\ p.nc = q.nc

Beside(e) ==
  LET p == schema.pat[e[1]]
  IN IF ~OneKind(e) THEN {}
     ELSE LET q == pat[e[2]] IN
          CASE p.t \in Binary -> {<<Meant(p.p1), q.p1>>, <<Meant(p.p2), q.p2>>}
            [] p.t \in Unary -> {<<Meant(p.p1), q.p1>>}
            [] OTHER -> {}

(* Loading does not change what a schema means: descending from the start  *)
(* pattern as parsed and from the one left, side by side and to any depth, *)
(* one meets the same kinds of pattern.  A difference shows at a depth of  *)
(* no more than the patterns on both sides, as with finite automata.       *)
SameSchema ==
  pc = "loaded" =>
    LET Further == [E \in SUBSET ((DOMAIN schema.pat) \X Int) |-> E \cup UNION {Beside(e) : e \in E}]
        n == Cardinality(DOMAIN schema.pat) + Cardinality(DOMAIN pat)
    IN \A e \in Iterate(Further, {<<Meant(schema.start), start>>}, n) : OneKind(e)

(* Patterns that are equal have been merged: every pattern left is         *)
(* registered, and no two are equal (rn_compress_last).                    *)
Minimal ==
  pc = "loaded" =>
    /\ tab = DOMAIN pat
    /\ \A p, q \in DOMAIN pat : pat[p] = pat[q] => p = q

(* What is left is minimal and ready for the derivatives: all patterns are *)
(* reached from the start, none refers to a pattern that is gone, and the  *)
(* nullable flags are those of the patterns.                               *)
StoreReady ==
  /\ Minimal
  /\ pc = "loaded" =>
       LET left == DOMAIN pat IN
       /\ start \in left /\ \A p \in left : Kids(pat[p]) \subseteq left
       /\ left \ {0} \subseteq Reach(pat, start)
       /\ nul = nullables(pat, left, {})

(* The patterns that from leads to in a schema as parsed, descending past  *)
(* those that are open.                                                    *)
Down(s, p) == IF s.pat[p].t = "ref" THEN {s.pat[p].p1} ELSE Kids(s.pat[p])

Opened(s, from, open) ==
  LET Further == [ps \in SUBSET DOMAIN s.pat |-> ps \cup UNION {Down(s, p) : p \in ps \cap open}]
  IN Iterate(Further, from, Cardinality(DOMAIN s.pat))

(* No pattern of ps contains itself without an element in between.         *)
Inside(s) == {p \in DOMAIN s.pat : s.pat[p].t # "element"}
Unfolding(s, ps) == \A p \in ps \cap Inside(s) : p \notin Opened(s, Down(s, p), Inside(s))

Unfolds(s) == Unfolding(s, Opened(s, {s.start}, DOMAIN s.pat))

(* A schema is refused exactly if a pattern in use contains itself without *)
(* an element in between, judged on the schema as parsed.                  *)
LoopsRefused ==
  /\ pc = "rejected" => ~Unfolds(schema)
  /\ pc \in {"mark_p", "sweep_p", "sweep_p_loop", "unmark_p", "compress_p", "loaded"}
       => Unfolds(schema)

(* Merging equal patterns comes to an end, although every merger can make  *)
(* others equal.                                                           *)
SweepEnds == pc = "sweep_p" ~> pc = "unmark_p"

(* Loading comes to an end. *)
LoadingEnds == <>(pc \in {"loaded", "rejected", "aborted"})

=============================================================================
