# TLA+ models of RNV

RNV validates XML documents against RELAX NG schemas in the compact syntax. It is
a single-threaded C program built around one algorithm: the *derivative* of a
pattern with respect to the next event of the document. Everything else keeps
that algorithm fast (patterns stored once, results remembered), feeds it (the
schema loader, the handlers of the XML parser's events) or wraps it (the
command-line tool, a server behind pipes).

Nothing runs in parallel inside the program. What is hard about it is of another
kind: data structures that are shared by deeply nested calls and reused while
those calls are in progress; global tables whose indices go stale when entries
move; a validator that repairs its own state after an error and has to stay in
step with the document; buffers and rings with limits; loops that end only if an
argument about the data holds; and, in the server, bytes and messages that come
in pieces and must not leak from one query into the next.

## Inventory

| Part | State | Operations | What makes it correct |
|---|---|---|---|
| Hash table (`ht.c`) | open addressing, two arrays of `len` slots, `used` and `limit` | `ht_get`, `ht_put` (doubles), `ht_del`, `ht_deli` (closes the gap), `ht_clear` | it is a set of rows: an entry is found whenever it is there, every search ends |
| Patterns (`rn.c`) | array of patterns, its hash table `ht_p`, marks, name classes, strings | constructors that simplify; `mark_p`, `sweep_p`, `unmark_p`, `compress_p` after loading | equal patterns have equal indices; no index refers to what is gone |
| Derivatives (`drv.c`) | a memo: array `memo`, scratch row `i_m`, hash table `ht_m` | one function for each event, each with a recovering variant; `drv_clear` | they accept what RELAX NG defines; the memo cannot be observed |
| Schema fix-up (`rnd.c`) | the worklist `flat`, `errors` | `deref`, `loops`, `ctypes`, `traits`, restrictions | references are gone, schemas with loops are refused and no others |
| Loader (`rnl.c`) | none | parse, fix up, compress | the order of these steps |
| Validation steps (`rnv.c`) | the caller's current and previous pattern | one function for each event: derivative, and recovery if it is `notAllowed` | an error is reported where it is, and the state after it is usable |
| Command line (`xcl.c`) | current and previous pattern, `level`, `mixed`, text buffer, exit status, last message's position | handlers of the parser's events, `validate`, `process`, `clear`, the loop over documents | the verdict on every document, the exit status over all of them |
| Server (`rvp.c`) | query buffer, pipe for messages, `lasterr`, `prevno` | `query`, `resp` | every query is answered, in order, with its own messages |
| Compact syntax (`rnc.c`, `sc.c`) | the file read, characters and symbols read ahead; five stacks of scopes that outlive a schema | lexer; recursive descent with error recovery; includes, overrides, combination | what is written is read; names resolve to what the scopes say; faults are reported; nothing is left for the next schema |
| Regular expressions (`rx.c`) | patterns, memo, ring of compiled expressions | compile, derivative, match | matching; the caches cannot be observed |
| Datatypes (`xsd.c`, `xsd_tm.c`) | none but the store of `rx.c` | `xsd_allows`, `xsd_equal` | a text is judged by the value it stands for, however it is written |
| Expected patterns (`rnx.c`) | the list of expected patterns | collection from a pattern | a message lists what would have been allowed |
| Schema selection (`arx.c`, `ary.c`) | rules from a configuration file; validation as in `xcl.c`, in buffers | parse, first match, `ary_isany` | the first rule that matches decides, however early a document is given up |
| External datatypes (`dxl.c`, `dsl.c`) | none | run a program, or an interpreter, for each check | |
| Strings, UTF-8, memory, messages (`s.c`, `u.c`, `m.c`, `er.c`) | none | | decoding, comparison |

How they interact: `xcl.c` (or `rvp.c`, `arx.c`, `test.c`) loads a schema through
`rnl.c`, which calls the parser, then `rnd_fixup`, then `rn_compress_last`. From
then on the XML parser calls the handlers of `xcl.c`; these call `rnv.c`, which
calls `drv.c`; `drv.c` builds patterns with the constructors of `rn.c`, remembers
results in its memo, and asks the datatype libraries about texts. Errors travel
back through function pointers (`rnv_verror_handler` and the like). All tables
are global and shared, all of them use `ht.c`.

`PROJECT.json` lists the hazards of the code line by line, with the properties
that answer them.

## The modules

Each module follows one source file, or the part of it that has one state, and
its definitions keep the names of the C functions. An action is a whole handler
or a whole step of a loop, up to the point where something else could run.

| Module | Models | Stands on |
|---|---|---|
| `IndexSet` | what `ht.h` promises: a set of rows with operations that return a member | |
| `HashTable` | `ht.c` | refines `IndexSet` |
| `Counting` | facts about numbers that the proofs share: the least of a set, functions defined by recursion on a number, remainders, powers of two | |
| `HashTableProofs` | theorems about `HashTable` | `Counting` |
| `DerivativeOracle` | what the memo promises: a call returns the derivative | |
| `Memo` | the memo of `drv.c` under recursion | refines `DerivativeOracle`; its table is a set of rows, as `HashTable` shows |
| `MemoProofs` | theorems about `Memo` | |
| `Pattern` | `rn.c`: constructors, nullability, name classes | |
| `Derivative` | `drv.c`: the derivatives, without memo, as `Memo` allows | `Pattern` |
| `RelaxNG` | reference: section 6 of the RELAX NG specification | `Derivative`, for its datatypes only |
| `Rnv` | `rnv.c`: the steps of validation; the derivatives are parameters | |
| `Rnx` | `rnx.c`: what a message lists as required and allowed | `Pattern` |
| `Judge` | what the validator promises: each document judged by its derivatives, with nothing to repair, skip or put off | |
| `Validator` | the handlers and the document loop of `xcl.c`; the derivatives are parameters | refines `Judge`; `Rnv` |
| `ValidatorProofs` | theorems about `Validator` | `Counting` |
| `Validation` | `Validator` over `Derivative`, compared with `RelaxNG`; the lists of its messages | `Validator`, `RelaxNG`, `Rnx` |
| `Scope` | `sc.c`: the stack of scopes | |
| `Lexer` | `rnc.c`, `getu` to `advance`: characters to symbols | |
| `Spelling` | reference: how symbols are written | `Lexer`, for its symbols |
| `Rnc` | `rnc.c`, the parser: symbols to a pattern | `Scope`, `Pattern`, `Lexer` |
| `SchemaText` | reference: how schemas are written and what they mean | `Rnc`, for its patterns |
| `Parsing` | schemas parsed one after the other, annotated, spelled in a style, damaged | `SchemaText`, `Spelling` |
| `Arx` | `arx.c` and `ary.c`: rules, validation in buffers | `RelaxNG`, `Rnv` |
| `SchemaLoad` | `rnd_fixup` and `rn_compress_last` | |
| `SchemaLoadProofs` | theorems about `SchemaLoad` | `Counting` |
| `Restrictions` | `restrictions()` of `rnd.c` after the loop check, with section 7 of the specification as the reference | `Pattern` |
| `Rvp` | `rvp.c`: `query`, `resp` and the pipes; the steps of `rnv.c` are a parameter | |
| `RvpProofs` | theorems about `Rvp`: the buffer, the pipe for messages, and the order of answers | `Counting` |
| `Regex` | `rx.c`: parser and derivatives of regular expressions | `Pattern` |
| `Rx` | `rx.c`: the store of texts, patterns and derivatives, `drv` over its memo, and the matching functions; what patterns are is a parameter | |
| `RxProofs` | theorems about `Rx` | `Counting` |
| `Matching` | `Rx` over the patterns of `Regex`, compared with the meaning of expressions | `Rx`, `Regex` |
| `XsdTm` | `xsd_tm.c`: dates and times | |
| `Moments` | reference: moments on the calendar; theorems about `XsdTm` | `XsdTm` |
| `Xsd` | `xsd.c`: facets, lengths, numbers, durations, equality | `XsdTm` |
| `Datatypes` | the questions of the derivatives to `xsd.c`, with the values of XML Schema as the reference | `Xsd`, `Moments` |
| `MC*` | small instances for TLC | |

Some definitions have companions called slips: `MayMove_unwrapped` beside
`MayMove`, say. A slip is the same definition with a plausible mistake in it. No
specification uses them. They are there to show that a property can be broken:
`PROJECT.json` names, for every checked property, the slip that breaks it when it
takes the place of its original.

### HashTable

`tab` is an array of indices, `None` for an empty slot; the array of hashes is
implied by `Hash`, the hash of the key of a row. `ht_put` doubles and rehashes
before it inserts when `used = limit`; `ht_deli` moves later entries of the probe
sequence back over the gap, one after the other, as the loop does, which is where
the order around the end of the array matters (`MayMove`, `Closed`). The caller
changes a row only while it is not in the table. `Refines` says that the table
does what `IndexSet` allows, return values included.

### Memo and MemoProofs

A derivative that is not in the memo writes its key into the scratch row
`memo[i_m]`, then calls itself on parts of its pattern, and every such call uses
the same scratch row. After that the key has to be written again (the second
`new*()` before `M_SET`). `stack` is the stack of calls of the C program; a key
stands for the function with its arguments, `Sub` for the recursive calls it
makes, `Combine` for the way it puts their results together. `accept_m` registers
the row, grows the array or, with `drv_compact`, goes round a ring of `LIM_M` rows
and takes a reused row out of the hash table first.

### Pattern, Derivative, RelaxNG

Patterns are records, and equality of records is equality of indices, which is
what hash-consing gives. An element holds the name of its content, so a pattern
can contain itself. The derivatives are translated function by function from
`drv.c`, including the recovering variants. `RelaxNG` is the other side of the
comparison: it says, without derivatives, what it means for a document to match.

### Judge, Validator and Validation

The parser is external: it delivers the events of a well-formed document, in
order, text in pieces of its choosing, or stops with an error. `open` is what it
has delivered, a stack of unfinished elements. `start_element`, `end_element` and
`characters` are the handlers of `xcl.c` with all they call. `current` and
`previous` are the handlers' variables; `level` counts tags in a skipped element.
`printed` collects messages with the document they are about and the document
the printed file name is from. The derivatives are constants of `Rnv` (`after_start_tag_open`
and so on), so that what does not depend on them can be proved for any; `Validation.cfg`
gives them the operators of `Derivative`. `listed` is what a message lists: a list of more
than `nexp` patterns is not printed.

`Judge` is the validator without its machinery. A tag is a step: it takes the derivatives
by the text before it and by the tag, of a pattern that is `notAllowed` once any of them
was. There is no recovery, no `level`, no `mixed`, no buffer and no position. `JudgesPlainly`
says that `Validator` does the same to the set of documents rejected: the pattern of
`Judge` is `current` until the document is, the text and whether it is mixed are those of
the document delivered (`Text`, `Between`), not the variables `txt` and `mixed`.

`ListsWhatFits` asks each entry of the lists
for a document that goes on with it.

### Scope, Lexer, Rnc, Spelling, SchemaText, Parsing

The parser has two sides, and a reference for each. `Spelling` writes symbols as
characters, in a style: what stands between them, which quotes, which characters
are escaped, how lines end, what comes first and last in the file. `Lexer` reads
characters, one function for each of the three levels of look-ahead in `rnc.c`: `getu`
(characters, ends of lines), `getv` (escapes), `advance` (symbols). A run of
letters counts as one character. `ReadAsWritten` compares the two.

`SchemaText` has schemas as trees: it writes them as symbols, says whether they are
sound (`SchemaSound`) and what they mean (`SchemaMeans`), by replacing includes and
looking definitions up, without any scope. `Rnc` is the parser, function by
function over a record of its state: the files, the scopes of `Scope`, the errors.
An error skips symbols as `skipto` does. In `Parsing`, an action writes a schema
with annotations, another damages its text, a third parses it; the scopes stay
from one schema to the next, as the C variables do. The meaning of the result is
its unfolding along references to a depth of elements (`Depth`).

### Arx

A configuration file is parsed symbol by symbol, and declares types and routes. A
route is matched against the name, or the document is validated: its events
arrive in buffers, and `validated` may end the validation at the end of any, once
there is an error or `any` is set. `stale` is an auxiliary variable: it says that
a validation has begun with text left over from an earlier one, see the findings.

### SchemaLoad

One action for each function, and for each turn of the loops that could go on for
ever: the worklist of `deref`, the chain of `de`, the rounds of `sweep_p`. What a
loop over an array does once and for all is a function applied n times (`Iterate`,
`Pass`), which a proof can follow where it could not follow a recursive operator.
`traits` ends in an assertion (`aborted`) if it meets a reference. The
patterns of the schema are an array, as in `rn.c`; four kinds (empty, element,
choice, group) stand for all, since the others differ only in the number of
children and in how they stop a loop or are nullable.

### Restrictions

`ctypes` and `paths` are the two loops over the worklist `flat`, one action for
each turn; the searches they start (`ctype`, `bad_start`, `path` and the four
`bad_*`) are operators on patterns. `Forbidden` and `ForbiddenStart` restate
sections 7.1.1 to 7.1.5 by one operator, `Leads`, that follows a path through
patterns of given kinds; `ContentType` restates 7.2. The comparison goes both ways
for paths. For content types it goes one way: `ctype` looks at the larger of two
types only, and accepts some groups that have none (a `text` and a string beside
each other, when they stand in a choice or next to an attribute); `readme.txt:146`
says that the schema parser does not check all restrictions. A list in a list is accepted for
the same reason and is not among the forbidden paths of the model.

### Regex, Rx, Matching

The parser is translated function by function; its state (`sym`, `val`, `ri`,
`errors` and the pattern built so far) is a record that each function takes and
returns. An expression is a sequence of symbols, as `getsym` cuts them out of the
text. `Matching` generates expressions together with the texts they match.

`Rx` has the state of the rest of `rx.c`: the patterns stored (`pattern`), the
expressions and the pairs of both (`regex`, `r2p`), the rows of the memo that can be
found (`memo`), `errors`. A pattern's index is its place in the store. Two things
happen to the tables in the middle of a call: `compile` clears everything when there are
`LIM_P` patterns or more, after it has looked its text up, and the memo is a ring
of `LIM_M` rows. `drv` is recursive: a frame on `stack` is one call of it, with the
derivatives of the parts it has so far. A call ends with the row it finds
(`drv_found`); if there is none, it asks for the derivatives its `switch` needs
(`drv_asks`, in either order where C leaves it open) and stores its own
(`drv_returns`). `call` is the matching function around it, and where its loop is; a
step of the loop is what happens between two derivatives. The program ends where
`drv` asserts that its pattern is not `P_ERROR`.

What a pattern is does not matter for any of this. `Rx` takes as parameters what is
stored with a pattern (`Parts`), the patterns it refers to (`Kids`), which of their
derivatives `drv` asks for (`Asks`), what it makes of them (`Made`), and
`after_char`, the derivative as a function; `DerivativeAssumption` ties the last three
together. `Matching` gives them their values from `Regex`, so that `rx` checks the
assumptions for the patterns of its expressions, and adds the comparison with the
meaning of expressions (`AnswersAsDocumented`).

### XsdTm, Moments, Xsd, Datatypes

A text is a sequence of characters, but for dates and times, where it is the
record of the fields it spells out: splitting them is `strtol`. What the C code
computes by moving pointers (`anchdec`, `deccmp`, `fdiglenn`, `toklenn`) is
computed on sequences in the same order. `Datatypes` asks `xsd_allows` and `xsd_equal`
one question at a time and compares the answers with a reference that does not
share their method: decimal numbers are integers in units of 1/10000, with one exception that the code
makes (`Parted`); moments are
moved to UTC day by day on a calendar (`Moments`), and compared in every time zone if they
have none; lengths are those of the collapsed text; a duration is a number of months and
one of seconds. A floating-point number is read by the C library (`atof`), whose
meaning both sides share; infinities, the number that is none and limits are `xsd.c`'s
own.

### Rvp

A query is a record of its keyword, number, name and text, as `tok` and `endtok` cut
them out; `Spurned` are the ways in which the `switch` of `query` ends at `PROTER`. A
client takes the numbers of patterns from earlier answers.
The input is a sequence of bytes that the client may send ahead of the answers and
that `read` cuts into pieces. File descriptor 2 is a pipe to the server itself:
`handle` prints into it, `resp` reads it back. `prevno` is a local variable of
`query` without an initial value: `Init` and every query that does not assign it
leave it any value, a choice that builds with and without optimisation do make.

## The runs

| Run | Question | Instance, and why it is enough |
|---|---|---|
| `hash_table` | is the table a set, for every sequence of calls? | six keys with three hash values, four rows, two slots growing to eight: keys that share a home at each end of the table, clusters that wrap around, deletions in the middle of them, and a growth that separates two homes |
| `memo` | can the memo be observed, and does every call return? | five keys with shared subterms; one row growing to eight, and a ring of two rows, smaller than one call needs, so rows of calls in progress are reused |
| `validation` | is every document judged as RELAX NG defines and as `Judge` does, does one affect the next, and does the exit status remember? | nine schemas that use every kind of pattern; documents up to five events and three elements deep, over two names, two attributes, digits and spaces: text before, between and after tags, in one or two pieces, elements that are not allowed at any depth, recovery from every kind of error; two documents in turn, with ill-formed ones, files that do not open, external entities and annotations; lists of up to two patterns, longer ones not printed (`nexp`) |
| `schema_load` | does loading keep the meaning and refuse exactly the loops? | all schemas of three patterns over one reference, chains of two references, equal patterns whose merger makes their parents equal, three levels up, schemas whose start pattern is merged, and two whose references are overlooked in the start element, which end in an assertion |
| `rvp` | is every query answered, in order, with its own messages? | three queries of twelve kinds, five of them not understood; messages of one to three bytes, read two at a time, so that reads end in, at and across the end of a query or message |
| `rx` | does an expression match what it means, whatever was compiled before? | some 500 expressions of up to three operators, every kind of group and quantifier, on texts of up to four characters; ill-formed expressions of every kind; and three expressions in turn in a store that holds the patterns of two (`LIM_P`), with three rows of memo (`LIM_M`), fewer than a single derivative needs, so that it is cleared in the middle of a compilation and rows of calls in progress are reused |
| `restrictions` | is exactly what section 7 forbids refused? | all patterns of three levels with a few of four, in the start element, beside another element, and as start pattern: paths of three kinds with a pattern in between |
| `datatypes` | are texts judged by their values? | all texts of four characters of a decimal number, and of three after a space, against limits and values with signs, zeros and spaces; the edges of the integer types; floating-point numbers with exponents, both infinities and `NaN`; durations with every choice of units, both signs; languages and addresses; moments at ends of months, leap days, centuries and years before 1, with the widest time zones and without; lengths on texts with all kinds of white space; two patterns (`NPAT`) where the code has room for sixteen |
| `parsing` | is what is written read, does a sound schema mean what it says, is every fault reported, is nothing left? | some thirteen thousand schemas: all sequences of three definitions out of fifteen (combined, overridden, nested, included, external); all operators on each other twice over; name classes under all pairs of declarations, in a file and in one that inherits them; any two symbols next to each other in three styles; two schemas with a little of everything, damaged at every symbol in seven ways; and two more after each (`MaxParses`) |
| `arx` | does the first matching rule decide, and does `ary_isany` stop only where nothing can go wrong? | all pairs of rules of four kinds over four schemas, on documents that are decided at different events, end early or cannot be read; files that miss any symbol, alone or before a good one |
| `arx_leftover`, `ref_circle` | see the findings below | |

Deadlock is checked in `hash_table` and `memo`. It is switched off where the
program really stops: after the last document, when a schema is loaded or
refused, when the server has been told to quit, when the calls of a session or the
one question of `datatypes` have been answered, when the last schema of `parsing` is
read, when `arx` has an answer.

The bounds are `Docs`, `MaxPos`, `MaxDepth` (documents, events, depth), `MaxQueries`
(queries sent), `MaxParses` (schemas read), `Depth` (elements to which meanings are
compared) and the sizes given in the configurations. `LEN_M`, `LIM_M`,
`InitLen`, `LEN_T`, `LIM_T`, `LEN_B` are constants of the code with smaller values,
chosen so that each limit is met and passed; so are `LIM_P`, `NPAT` and `nexp`.

### Fairness

The program is one thread and nothing in it waits, except for input. `Memo` has
weak fairness of the steps of a computation in progress (a call that has been
entered is carried on), none of new calls; `SchemaLoad` of its next step; `Rvp` of
the server, which runs as long as it has something to do, and none of the client.
The others assume none, since none of their properties needs it.
The properties that need it: every outermost call of a derivative returns
(in `Refines` of `Memo`), `SweepEnds`, `LoadingEnds`, `EveryQueryAnswered`.

## Findings

Two statements found in the repository do not hold of the code. Each is the
subject of a run that ends in a counterexample.

- `arx_leftover`: when `validate` of `arx.c` stops before the end of a document, the
  text read since the last tag stays in its buffer (`arx.c:421`), and the validation
  for the next rule begins with it. A document that is valid by that rule can be
  taken to be invalid, against "the first matching rule determines the file's type"
  (`readme.txt:211`).
- `ref_circle`: `start = a  a = b  b = c  c = b` sends `de` (`rnd.c:53`) round and
  round: it stops only at its own starting point.

Other defects met on the way, without a run of their own:

Loading:

- `sweep_p` (`rn.c:476`) moves the start pattern by one redirection; if the pattern it
  is merged with is merged itself in a later round, the start pattern ends as -1.
- `loops` (`rnd.c:143`) does not look into the content of a start pattern that is an
  element. `start = a  a = element a { b }  b = (b, b)` passes, and `ctypes` then
  recurses without end; `start = element r { b }  b = b` passes, and `ctype` meets the
  reference and ends the program in an assertion (`rnd.c:186`).
- an except inside an except ends the program in an assertion (`rnd.c:233`).
- a schema whose start pattern is `notAllowed` rejects nothing: the handlers take it for
  the sign of a skipped element (`xcl.c:126`) and the exit status is that of success. `Judge`
  states it so.

Compact syntax:

- a file that includes itself, or is its own external schema, is read for ever.
- an external grammar without a start is not reported, and -1, the number of no
  pattern, goes into the schema (`sc_close` would take it for `BASE`).
- the definitions that override those of an included file are read while the
  namespaces declared in that file are still in scope.
- a reference in a definition that is overridden must still have a definition.
- to override a name twice in one include is not reported: the second replaces
  the first.
- `grammar { ... }` at the top of a file cannot be followed by an operator.
- the first of the two calls of `getsym` that begin a file looks at a symbol that has
  no value yet (`rnc.c:1158`); the model takes it to be of a kind that ends the call
  (`Uninit`), any other skips the beginning of the file.
- a comment that ends a file in an unfinished escape, `# \x{6`, is read for ever
  (`rnc.c:337`).
- a backslash that was read ahead behind another one, or behind `\x`, is not taken for
  the beginning of an escape.

Regular expressions and datatypes:

- text that ends in white space matches although the expression is not finished
  (`rx.c:726` returns 1 without asking `nullable`): `ab` matches `"a "` where white
  space is collapsed.
- the bounds of a quantifier overflow without notice (`rx.c:433`).
- a decimal zero without a point, after white space, is not recognised as zero: the scan from the
  end stops at the space and clears `zero` (`xsd.c:352`). `-0.0` is a zero with a sign, so
  that `deccmp` (`xsd.c:378`) takes ` 0` for greater: it is refused by `maxInclusive="-0.0"`,
  allowed by `minExclusive="-0.0"`, and the two are not equal. `Parted` in `Datatypes` says for which
  texts this is so, and the run checks that it is so for these and no others.
- the cases of `hexcmpn` (`xsd.c:689`) fall through, and `A` equals `b`.
- `errors` of `rx.c` (`rx.c:507`) is that of the last expression compiled: a good one
  found in the store after an ill-formed one is refused, and the reverse is taken
  for good and ends in an assertion.
- the message about an ill-formed value or limit is printed without all its arguments
  (`xsd.c:427`, `xsd.c:735`).
- the last day of the year 0000, which the pattern allows, has the number of the
  first day of 0001, and without a year 0000 there are 366 numbers too many between
  -0001 and 0001 (`xsd_tm.c:31`).
- in a duration a number begins anew at each digit (`xsd.c:155`), so that only the last
  one counts: `P12Y` equals `P2Y`, and `PT0.5S` equals `PT5S`; limits of a duration
  are not looked at (`xsd.c:563`).
- two of the three patterns for hours, minutes and seconds ask for minutes and for
  seconds where they mean hours (`xsd.c:320`): `PT1M2M` is a duration.
- `dblcmpn` takes the length of a text as a `char` (`xsd.c:674`): of 128 bytes and more
  it counts modulo 256.

Programs:

- on a query that is not understood, `resp` compares a variable without a value
  (`rvp.c:208`) and, depending on it, throws the message away.
- a processing instruction that names the source file in one document labels the
  messages about all later documents (`xcl.c:61`).
- a rule that reads on to the place where a document ceases to be well-formed makes
  all later rules fail (`wf`, `arx.c:420`); a rule that is decided before does not. So
  the type of such a document depends on which rules come first.
- `isanymix` of `ary.c` takes a choice of two elements of any name and content for
  mixed content, although it allows no text.
- `init` of `arx.c` sets `len_v` twice and `len_s` never (`arx.c:111`).
- a rule for a type that is not declared is reported, and takes the first string; the
  arrow after a regular expression may be missing.

The passing runs leave out what these concern, and nothing else:

- `schema_load`: the start element has its content wrapped in another element, but for
  two schemas that end in the assertion; circles of references close where they
  began, the start pattern is merged once at most;
- `rx`: ill-formed expressions come one at a time, and text for `rx_cmatch` does not
  end in white space; `datatypes`: words before white space at the end are complete;
- `restrictions`: no except in an except;
- `parsing`: no file refers to itself, external grammars have a start, overrides use
  no prefix that the included file redeclares and override each name once, what is
  overridden refers to what is defined, no comment ends in an unfinished escape and
  no backslash follows another;
- `arx`: `FirstMatchDecides` is about validations that begin without text left over,
  and documents that are not well-formed from the start, if at all; schemas do not
  offer a choice of two elements of any name;
- `datatypes`: hexadecimal values have one letter only (and an even number of
  digits, which the pattern does not ask for), limits are well formed and narrow
  the type (a facet replaces the bound of a derived type) and are not `NaN`, moments
  do not cross from the year -1 to 1; the numbers of durations have one digit, or are
  compared with other digits, durations have no limits and nothing twice; integers
  stay far from the bounds of `int`, `long` and their unsigned types.

## What is proved

Each theorem holds for every value of the constants that meets the assumptions of its
module; TLC evaluates those assumptions in the runs. None of the invariants is
inductive alone. What each needs besides is where the argument lies.

`HashTableProofs`, for every number of keys, every hash function, every initial size and
every order of calls:

- `HashTableType`: the type invariant;
- `EntriesReached`, `RoomLeft`: the invariants of the run `hash_table`;
- `HashTableImplements`: `HashTable` implements `IndexSet`, what each call returns included.

`HInv` adds to `TypeOK` that every entry is reached from its home without a free slot on
the way, that the entries are the rows registered, each in one slot, and that `used` is
their number. Doubling is a sequence of insertions into an empty table. `ht_deli` is the
hard part: while it goes on (`Shifted`) there is one gap, and it is on no way but those to
entries the loop has still to come to; an entry that is moved into it was allowed to by
`MayMove`, and when the loop ends, which it does at a free slot, no such entry is left.
The arithmetic is around the end of the array, modulo its length.

`MemoProofs`, for every set of keys, every derivative, every `LEN_M` and every `LIM_M`, and
both values of `drv_compact`:

- `TypeCorrect`, `ScratchRowCorrect`, `MemoCorrect`, `RowsDistinct`,
  `NeverComputedTwice`: the invariants of the run `memo`;
- `MemoIsInvisible`: every behaviour of `Memo` is one of `DerivativeOracle`.

That a row holds the right derivative when it is registered needs that the results its
call has collected are right; that needs that each call on the stack was made for the
very slot its caller is waiting on, and that the last answer is right. `IInv` adds this
(`StackRight`, `CallFor`, `FrameRight`, `AnswerRight`) to what the invariants say of the
table (`TableRight`). `NeverComputedTwice` does not follow from an invariant of the memo
at all: a key in progress has a higher rank than all keys computed under it
(`RankAssumption`), so its row cannot have been registered meanwhile. That is the
argument why the branch of `accept_m` that drops a duplicate is dead. `RankAssumption`
is justified by `LoopsFound` (below): a schema in which a pattern contains itself without an
element in between is refused.

`SchemaLoadProofs`, for every schema a parser can leave behind (`IsSchema`: patterns are
newer than their parts, unless these are references, and no two are equal), with
references in circles, loops and patterns out of reach:

- `TypesKept`: no index the loader holds is outside the store, in any phase;
- `RedirectionsDone`: the redirections of `sweep_p` end at a pattern that stays;
- `EqualsMerged`: when loading is done no two patterns are equal, and all are registered;
- `SchemaKept`: the store left means what was parsed, to any depth;
- `StoreMadeReady`: it is minimal, all of it is reached from the start, nothing in it
  refers to a pattern that is gone, and the nullable flags are right;
- `RefusedWithCause`: a schema is refused only if some pattern in use contains itself
  without an element in between, in the schema as parsed (`~Unfolds`);
- `LoopsFound`: if some pattern does, the schema is not loaded, unless it is only between a
  start element and the next elements that it does (`StartUnfolds`), where `loops` does
  not look (see the findings).

`Phase` says what is known in each phase. Before the sweep, what is registered is unique,
and a pattern whose parts are no references is registered, or its equal is; `deref` keeps
in its worklist whatever can be reached, so that without references the marked patterns
lead to marked patterns. In the sweep, every redirection can be numbered in the order in
which it was made so that the one it leads on to has a higher number (`Ordered`): that is
why there are no circles, in whatever order equal patterns are met, although a pattern
that others were redirected to may be redirected itself. A round that changes nothing has
met every pattern in its final form (`Settled`), so that what `compress_p` moves together
is without equals. That `mark_p`, `deref` and the rounds of the sweep come to an end is
the fixed point of a function applied as often as there are patterns (`Iterate`).

`SchemaKept` and `StoreMadeReady` have one condition, `start # None`: a start pattern that is
redirected twice is lost (see the findings), and then nothing can be said of the store. They need
the second invariant `MInv`, which compares the store with the schema as parsed. `Sense` is what
a pattern stands for once references are followed, and `Ideal` the schema with its
references resolved. Before the sweep the store differs from the schema in
nothing that `Sense` tells apart (`AsParsed`). In the sweep there is a function from the
patterns in use to those that stay, such that a pattern that stays has the kind of each
pattern it stays for, and children that stay for the children of that one (`Represents`);
a redirection, the relinking of children and a whole round keep such a function. After it
the function, followed by the moves of `compress_p`, carries `Ideal` onto the store
(`Carries`), so that walking down both side by side never meets two kinds. That the
patterns in use are those the start leads to, no fewer and no more, is `Generated`; that
their flags are the least that satisfy the rule of `nullables` is `FlagsOf`. Both are
stated by least sets, which a function such as this one carries over, where counting
steps would not.

The last two theorems need the third invariant, `LPhase`, since `loops` walks through the
store as `deref` left it, where references are resolved, and a circle is one of
the schema. `Listing` says why they agree. A child in the store lies on the chain of
references from the child in the schema (`Onwards`); a child that is still a reference lies
on a circle of them, which `deref` gave up (`Circling`); the worklist holds what the
schema leads to, and each of its patterns is there because earlier ones lead to it
(`OnlyUsed`, `Leads`). A chain of references that ends at a pattern which is none passes
no pattern twice, so that all its patterns stand for that one (`NoWayBack`), and a walk down
the store meets what a walk down the schema meets (`OpenedOnes`, `DescentOnes`). What
`loops` does with circles of references alone is the abort of `traits`, whose condition
is that there are none (`NoRefs`).

`ValidatorProofs`, for every schema, any documents, and derivatives that may be anything:

- `StatusTells`: the exit status tells whether anything was complained of but external
  entities;
- `TextKept`: the text buffer holds what came since the last tag;
- `JudgedPlainly`: every behaviour of `Validator` is one of `Judge`.

The first is in danger because a message is dropped if it is about the position of the
last one. `SInv` says that this position is never ahead, that start tags are at different
positions, and that a message about the start tag of an open element has changed the
status already. For the second, `TInv` says that the buffer is empty while an element is
skipped. For the third, a step of `rnv.c` agrees with the derivative alone for as long as
no error has been raised, and after that the derivative alone is `notAllowed` (`Agree`);
this is carried through the attributes of a tag by induction on their number. `JInv` has
what ties the handlers to it: in a document that is not rejected, `mixed` says whether an
element has ended since the last start tag, and an element can be skipped only if
everything is, from the start pattern on; and if there was a message about the position
of a start tag that is still open, its document is rejected already, so that a message dropped
is never the first. They assume `TextAssumption`: texts and attributes are sequences, and
the buffer has room.

`RvpProofs`, for every set of queries, all schemas and all sizes:

- `BufferAlwaysFits`: a read never runs past the buffer of queries;
- `NoMessageLeftOver`: the pipe for messages is empty whenever a query is waited for;
- `OrderKept`: what the client has received are the answers to its first queries, whole
  and in order, each with its own messages.

They assume `QueryAssumption` (queries have a length, and a step of `rnv.c` that finds an
error has set the previous pattern and prints something) and `PipeAssumption`, which excludes the server that blocks on its own messages
(`rvp.c:95`). For the order, `OInv` says that the bytes written fall into as many answers
as queries were carried out, and that what is left in the buffer and in the pipe spells
exactly the queries that were not (`Spells`), whatever the reads have cut.

`RxProofs`, for every set of patterns, any expressions, callers and sizes:

- `MemoKept`, `CacheKept`: the invariants `MemoOfThisStore` and `CacheOfThisStore` of the
  run `rx`, that nothing kept from earlier calls speaks of a store that is gone;
- `AnswerOfDerivatives`: what `rx_match` and `rx_rmatch` answer is what the derivatives of
  their expression by the characters of the subject give, taken one after the other,
  as if there were no memo and no table of expressions;
- `AnswerOfCollapsed`: the same for `rx_cmatch` and the subject with its white space
  collapsed, with the exception that the code makes (see the findings): white space at
  the end, where the expression has no space, is answered 1.

They assume that patterns are built from parts stored before them and that the one that matches
nothing does not match the empty text (`PatternAssumption`),
that the derivative of a pattern is made of the derivatives of the patterns it refers to
that are asked for (`DerivativeAssumption`), and that what an expression is compiled to depends
on its text only (`SessionAssumption`). `IInv` has four parts. `Kept`: the store has the
parts of every pattern in it, and every row of the memo holds a derivative; without
the first, `drv` could be called for a pattern that has no index. `Cached`: the two tables of
expressions run in step, and the pattern of an expression is the one its text is
compiled to. `Reading`: the loop has a pattern of the store. `Nested`: a call of `drv` on
the stack was made for the part its caller waits for, and knows derivatives only; it
survives whatever the calls within it store, because storing moves no index
(`Extends`), and whatever they drop from the memo, because a frame keeps what it was
told. A clearing is harmless only since it comes when `stack` is empty and takes the
memo and both tables with it. `Followed` adds, for the answers, the chain of derivatives
that has led to the pattern of the loop. For
`rx_cmatch`, whose loop looks ahead for the next word before it reads a space, the chain
runs over the subject itself: `Collapse` says which of its characters are read and as what,
`Staged` how far each place in the loop has come.

`Moments`, for every two dates, times or parts of them and every time zone:

- `MomentsCompared`: `xsd_tmcmp` of what `xsd_mktm` makes of two texts is -1, 1 or 0
  exactly if the first moment is earlier, later or the same on the calendar, earlier
  meaning in every time zone that a moment without one may be in.

The code counts days in closed form and has no calendar, the reference has a calendar and
counts nothing. Between them: consecutive days have consecutive numbers, across months,
leap years and centuries and on both sides of year 1 (`YearLength`, `MonthLength`,
`NextDayNumber`), so that dates are numbered in their order (`DatesInOrder`) and `addsecs`
goes to the day on which the moment is in UTC (`ReadInUTC`); then comparing days, seconds and
microseconds is comparing the fields one after the other (`ComparedInUTC`). Where only one
moment has a zone, the two ends of the range of zones decide for all (`OneZone`).
`IsMoment` is the hypothesis: a date of the calendar, seconds 0 to 59, zones up to 14:59, in no
year 0 in UTC either. All but three of the moments of the run `datatypes` meet it, and those are moved into
year 0. The pattern also lets 60 seconds pass (`xsd.c:336`), and 23:59:60 without a zone is then not taken
into the next day; `int` overflows after year 5.8 million.

`Counting` has what the other proofs share: a set of numbers has a least member, from which
follow induction on a number and functions defined by recursion on one, and the results of
a finite run of steps.

Only model-checked:

- liveness: the fairness part of `Refines` of the memo, `SweepEnds`, `LoadingEnds`,
  `EveryQueryAnswered`; the prover has no rule for fairness;
- what is compared with a reference that is recursive over the structure of patterns,
  texts or schemas, or computed by functions that are: `Judgement`, `InStep`, `ListsWhatFits`,
  `AnswersAsDocumented` (the answers are proved to be those of the derivatives, not that
  these are the derivatives of the language), and the properties of `Restrictions`,
  `Datatypes` (of which `Moments` proves the part about dates and times), `Parsing` and `Arx`. The prover
  cannot expand a recursive operator, and induction over such data would need theorems
  that take an operator as a parameter.

The run `schema_load` leaves out the schemas that the finding about the start element is
about; `LoopsFound` has them as its hypothesis.

## What is not modelled

- Formatting of messages and of patterns in them (`rnx_p2str`), command-line options,
  help texts; `-p`.
- The XML parser (Expat) and the client of the server, except as the source of
  events and queries.
- Of `rn.c`, the string table and datatype parameters.
- Of `xsd.c`, the rounding of floating-point numbers; the patterns are translated by
  what they match on the characters of the instance.
- The reading of numbers from text, and numbers beyond 32 bits.
- Memory: allocation fails by ending the program.
- Of `rnc.c`, buffers (`rnc_read`) and line numbers, and with them the choice of which
  errors are printed; of `arx.c`, the characters of a configuration file.
- `u.c`, where invalid bytes are one character `Bad` of `Lexer`, and most of `s.c`: see
  the plan.
- `dxl.c`, `dsl.c` and generated tables, for good: what they answer is a parameter.

## Plan

Done, in this order: the hash table and its abstraction; the memo, its oracle and
the proofs; patterns, derivatives, and the validator over them; the loading of a
schema; the server; regular expressions; restrictions; datatypes; expected patterns;
scopes and the parser of the compact syntax; schema selection; the lexer; the
queries of the server and its first theorems; the proofs about the hash table, the order
of answers, the handlers of the validator, the loading of a schema and the caches of
regular expressions; the validator against its abstraction, the answers of all three
matching functions, that loading a schema keeps its meaning, and which schemas it refuses; moments
against the calendar.

Next modules: UTF-8 (`u.c`) as the inverse of encoding, below `Lexer`; paths (`s.c`)
against a reference; the client of
`tools/rvp.py` and the server together, compared with `Validator`.

Next theorems: that opening and closing
scopes in `Scope` are inverse, and what is added or found inside touches no scope
around it; that the comparisons of decimal numbers in `Xsd` (`deccmp`) are those of the
numbers, which needs them without recursion.
