# A TLA+ model of sec-seer

sec-seer runs a command under a seccomp profile, stops it with ptrace at the
system calls the profile flags, and appends a JSON record of each to a log.
This directory models the program from the command line and the text of the
profile to the last byte of the log: TLA+ modules, TLC configurations, and
TLAPS proofs.  All paths below are relative to the repository; `main.c`,
`observer.c`, `logger.c`, `ctx-build.c` and `json-parser.c` are the files of
those names under `src/`.

## 1. The system

| Component | State | Operations | Talks to |
| --- | --- | --- | --- |
| startup (`main.c` 31-112) | option values | option loop, then parse, build, split, in this order | parser, builder, tokenizer |
| tokenizer (`main.c` 171-231) | two pointers into the command, the argument vector | `split_command` | vector, startup |
| vector (`include/vector.c`) | size, capacity, block | setup, copy, move, swap, insert, assign, remove, resize, shrink, destroy | tokenizer |
| JSON library (`include/parson.c`) | tree of values; hash table of an object | `json_parse_string`; add, set, get and remove members | profile parser |
| profile parser (`json-parser.c`) | `SeccompProfile`, a tree of heap blocks | `parse_JSON`, `parse_filter`, `free_profile` | parson, builder |
| runtime context (`ctx-build.c` 186-316) | architecture, kernel version, held capabilities | `build_runtime_context`, `free_runtime_context` | `/proc`, `uname`, builder |
| action mapping (`ctx-build.c` 9-97) | none | `map_action_string`, `resolve_rule_action` | builder |
| filter builder (`ctx-build.c` 319-412) | libseccomp context | `build_seccomp_context` | libseccomp, launcher |
| launcher (`main.c` 114-139) | the child before the target | `TRACEME`, `raise`, `seccomp_load`, `execve` | kernel, tracer |
| tracer (`main.c` 140-164) | handshake | `waitpid`, `PTRACE_SETOPTIONS` | kernel, observer |
| observer (`observer.c` 110-183) | `status`, `regs`, `first_in_array` | continue, wait, read registers, log, close | kernel, logger |
| source location (`observer.c` 22-96) | none | find the mapping of `rip`, run addr2line | `/proc`, a subprocess |
| logger (`logger.c`) | the log file | `log_seccomp_violation`, `logger_close` | observer |

parson and the vector are third-party code kept in the repository; they are
modelled as far as the profile and the command pass through them.  The images
under `tests/` are end-to-end tests against a real kernel.

**What is hard.**  Two processes and the kernel meet at `waitpid`, ptrace
requests and signals, and most results are not looked at: the handshake's
status, the observer's `waitpid`, the logger's writes.  SIGKILL can strike
between a wait and the next request.  The launcher runs under the filter it
has just loaded.  The log file outlives its run, and runs end with or without
closing it.  The builder is sequential, but correct only if libseccomp's calls
come in the right order, and it can be refused in the middle.  What comes
before `fork()` is sequential too; there it is allocation that is hard: every
nested array, every growing block and every call of a recursive descent can
fail half-way, and the caller then releases a partly built structure.
`PROJECT.json`
lists each of these at its line, with the properties that watch it.

**What correctness means.**

* handshake: the tracer has set `PTRACE_O_TRACESECCOMP` before the filter exists;
* observer: a record precedes the effect of its call; no stop is forgotten;
  sec-seer leaves no target behind; signals do what the code makes of them;
* coverage: a call the profile forbids does not pass without a stop;
* logger: the violations of each run can be read back from the file;
* builder: the filter is what the applicable rules say, on every architecture;
  a refused filter is released and not loaded;
* profile parser: at any moment `free_profile()` releases exactly what was
  allocated; a profile that is returned says what the document says;
* startup: the target starts only for a complete command line with everything
  made; its arguments are the words of the command;
* vector: elements survive growth and shrinking; no access outside a block;
* JSON: what is accepted is JSON, but for a comma behind the last member and
  numbers that strtod() reads more liberally; a refusal has a reason; strings
  decode to what they denote, an object is a map, and no error path leaks or
  frees twice;
* source location: addr2line is asked about the file the code is in.

## 2. The modules

| Module | Models | EXTENDS / INSTANCE |
| --- | --- | --- |
| `PolicyMap` | action strings to kernel actions; what a filter answers | |
| `Logger` | one call of `log_seccomp_violation()` or `logger_close()`, and its failures | |
| `LogHistory` | several runs of sec-seer on one log path | `Logger` |
| `WriteAheadAudit` | the abstract promise: record, then effect, then seal | |
| `Tracer` | tracer, launcher, target, descendants and kernel from `fork()` to the end | `Logger`, `PolicyMap`; instance of `WriteAheadAudit` |
| `CtxBuild` | runtime context and filter builder | `PolicyMap` |
| `TracerProofs` | proofs about `Tracer` | `Tracer` |
| `LogProofs` | proofs about `LogHistory` | `LogHistory`, `SumProofs` |
| `CtxBuildProofs` | proofs about `CtxBuild` | `CtxBuild` |
| `NullPointer` | the constant `Null` | |
| `VectorOps` | the functions of the vector, as operators on `[size, capacity, data]` | |
| `VectorSeq` | the abstract promise: each call is the sequence operation of its name | |
| `Vector` | callers that use several vectors in any order | `VectorOps` |
| `VectorHistory` | the same with a history variable that names the calls | `Vector`; instance of `VectorSeq` |
| `SplitCommand` | the tokenizer, character by character | `VectorOps` |
| `Startup` | option loop, the calls before `fork()`, every exit | |
| `Sums` | the sum that a loop over an array adds up | |
| `ProfileParser` | `parse_JSON()`, `parse_filter()`, `free_profile()` | `Sums` |
| `SourceLocation` | `get_source_location()` | |
| `JsonParse` | the recursive descent of parson | `Sums` |
| `JsonString` | quoted strings: escapes, surrogates, UTF-8 | |
| `KeyMap` | the abstract promise: a map | |
| `JsonObject` | the hash table of an object | instance of `KeyMap` |
| `Main` | the parent process from its command line to a source location | `Startup`, `SplitCommand`, `ProfileParser`, `SourceLocation` |
| `Libraries` | the vector and parson under callers of every kind | `VectorHistory`, `JsonParse`, `JsonString`, `JsonObject` |
| `VectorProofs` | proofs about `VectorOps` and `Vector` | `VectorHistory` |
| `SumProofs` | induction over numbers, and lemmas about sums | `Sums` |
| `JsonProofs` | proofs about `JsonParse` and `JsonString` | `JsonParse`, `JsonString`, `SumProofs` |
| `ObjectProofs` | proofs about `JsonObject` | `JsonObject`, `SumProofs` |
| `MainProofs` | the invariant of `ProfileParser`, the theorems about `Main` and its parts | `Main`, `SumProofs` |
| `MCTracer`, `MCLogHistory`, `MCCtxBuild`, `MCMain`, `MCLibraries` | the instances for TLC: policies, profiles, hosts, documents, commands | the module of that name |

### Tracer

`tracer` is where the parent is; one action per ptrace request, wait or append
to the log: `Fork`, `HandshakeWait`, `SetOptions`, `Cont`, `Wait`, `GetRegs`,
`Log`, `Close`.  `status` and `regs` are the local variables of those names; a
failed `waitpid` leaves `status` as it was, because the code ignores the result.
`KillAndExit` is the error exit that `main()` and `observer_loop()` share.

The child is `proc` (run state), `at` (place in the program), `cur` (a call that
the filter stopped and that has not been carried out), `why` (reason of the
latest stop or of its death).  `TraceMe`, `Raise` and `SeccompLoad` are the
child half of `main()`.  From then on the child makes system calls.  The
launcher's own are `execve`, the write of `perror()` and `exit_group`; the
target's are arbitrary.  The filter's answer and the presence of a tracer
decide what becomes of a call: `ChildAllowed`, `ChildFlagged`, `ChildNoTracer`
(ENOSYS), `ChildDenied` (with errno 0 the call *seems to succeed*),
`ChildKilled`, `ChildTrapped`.  Descendants (`KidCall`) share the filter but not
the tracer, since the options do not ask for it.  The environment may send
signals or SIGKILL at any point, kill the tracer, ignore SIGCHLD, or make
fork, TRACEME, load and execve fail; `Env` selects which of these a run allows.
An ignored SIGCHLD makes a child vanish only while nobody traces it; a tracer
finds a zombie in any case.

A violation record is represented by its system call, which is what `orig_rax`
holds.  `effects`, `refused` and `unseen` are history variables.

`WriteAheadAudit` knows an auditor, a pending call, the audit trail and the
effects.  A call is intercepted, recorded and carried out in this order, and
what is recorded is the pending call, not another one.  The auditor seals the
trail or dies; after its death the pending call may be carried out, recorded or
not, and no other.

### Logger and LogHistory

The file is a sequence of chunks: the separator a call wrote and the object
behind it.  `LogFaults` allows a call to fail as a whole (`"call"`: the early
returns) or its unchecked writes to be lost or cut (`"write"`).  A reader cuts
the file at each `[` (`RunsIn`), chunk by chunk.

### CtxBuild

One action per iteration of the loops of `build_seccomp_context()`, so that
every prefix of the construction can fail.  A filter maps each architecture to
what each system call is answered: an unconditional action, or actions under
argument constraints.  libseccomp is external and modelled by what the builder
depends on: a new architecture starts without rules; one of the other byte
order is refused; a rule whose action is the default action is refused, and so
are two constraints on one argument and equal constraints with another action;
the first unconditional rule wins.  Where conditional rules with different
actions overlap, the model allows either answer.

A profile is what `parse_JSON()` returns for a file whose arrays hold what they
should: strings in `names`, `caps` and `arches`.  `ProfileParser` shows when
elements are NULL instead (section 6).

### ProfileParser

A document is a record of the fields the parser asks for, with Null for what is
absent or of another type.  There is one action per iteration of a loop and
each of its allocations may fail, so every prefix of the nested arrays reaches
`cleanup`.  The heap is a number of blocks.  `free_profile()` is an operator on
the structure: what it would release is computed at every state, by following
the same counts and pointers as the code; a loop that releases the elements of
an array is a `Total`, the sum of what its iterations release.  What has been
allocated is counted apart from that, where calloc() and strdup() succeed: each
allocation yields its result together with the number of blocks it took
(`Made`, `Copies`, `StringArray`).  Numbers pass through `ToDouble` and back,
with width and mantissa as parameters.

### Startup and SplitCommand

`Startup` runs the option loop over what getopt_long() hands out and then the
four calls that make the profile, the runtime context, the filter and the
argument vector; `owned` is what each exit has to release.  `SplitCommand` is
the last of the four: the two pointers of the code, the look-ahead at the
following character, and a vector that grows by the real rules of `VectorOps`.

### Main

`Main` puts the sequential code of the parent together.  `main()` enters
`parse_JSON()` and `split_command()` step by step and takes up what they return;
where it releases the profile or the argument vector, the blocks leave the
heaps of `ProfileParser` and `SplitCommand` (`ReleaseProfile`, `ReleaseArgv`).
The calls that make the filter are single steps here, since `CtxBuild` has
their insides.  After `fork()` the observer, whose loop is in `Tracer`, calls
`get_source_location()` for one stop.  The inputs of the process (`Inputs`) are
its command line, the document, the command, the maps of the target and the
address; the instance varies one of them at a time around an ordinary one, so
that every input meets every failure without multiplying the inputs with each
other.

### Vector

Each operator of `VectorOps` returns the vector a function leaves, its return
code and the balance of blocks; a parameter says whether malloc() succeeds.  An
access through NULL or past a block is the code "FAULT", after which nothing is
said.  The threshold `VECTOR_SHRINK_THRESHOLD` is `1 / 4` in integers, that is
0, and the model keeps that.  `Vector` lets callers apply every function in any
order, within the asserts on arguments, with one action per function.
`VectorHistory` adds the variable `call`, which names the function, its
arguments and malloc()'s answer; `VectorSeq` says for each such call what
becomes of the sequences.

### SourceLocation

One action per buffer that fgets() returns: `ReadMapping` for a line, or as much
of it as fits, `ReadRest` for a further buffer of it.  Both are examined alike
(`Examine`), as the loop does not tell them apart.  A path has a size class: it
fits, is cut by `%255s`, or makes the line outgrow the 512-byte buffer.  The
text of such a path is for the target to choose, so its rest may read as any
mapping at all, or as none (`rest`).  The target may be killed at any point,
which ends the file early.

### JsonParse, JsonString and JsonObject

`JsonParse` turns the recursion into a stack of frames, one per call of
`parse_object_value()` or `parse_array_value()` that has not returned, and
chooses the text token by token as the parser looks at it.  A frame records the
blocks `json_value_free()` of its value would release.  Each error return of
the two functions is a disjunct with what it releases written out, whereas the
property sums up what the frames own; so a return that forgets a key, or
releases one twice, shows.  What begins with a minus or a digit is one of five
tokens, by what strtod() and is_decimal() make of it: a number, a number that
is read though it is no JSON (`1.`, `-.5`), one of JSON that is not read (`0e1`,
`1e999`), a minus that strtod() makes nothing of, and what is neither JSON nor
read (`01`).  What is accepted is compared with a grammar stated separately:
`Starts` says, for every position of a text, where the values and the lists of
members begin that end there, without a stack and without reading from left to
right.  Habits of the parser are allowed for: the grammar has a comma behind
the last member and the lax numbers, what follows the first value is not looked
at, and a minus that begins no number is 0 and stays in the text, which only
at the root goes unnoticed.  For refusals, `Continues` tries to complete a prefix to a value.

`JsonString` works on bytes.  A text is either any sequence of bytes, for the
property that nothing is read or written out of place, or built from pieces
whose meaning is known, for the properties about what is decoded or refused:
a character as it is, an escape, a code unit as `\uXXXX`, or an escape that
lacks a digit.  A piece behind the last kind must not supply the missing digit
(`CutShort`), since the pieces would not be the ones the text consists of.
`Reading` is the loop that both `is_valid_utf8()` and the meaning of the pieces
are instances of: one value after the other, of varying width, up to the first
error.

`JsonObject` has the cells and the items of the hash table with probing (the
least of the distances in `Stops`), growth (`json_object_grow_and_rehash`, item
by item) and the back-shifting removal (`Round` is one round of its loop), under
every hash function of its instance.

### Libraries

The vector and the three parts of parson share no state.  `Libraries` lets a
behaviour exercise one of them (`part`) while the others rest in one initial
state, so the states of the parts add up instead of multiplying.  TLC is told
(`VIEW`) that states which differ in the name of the last call only are the same,
since the name decides about no step; it still checks every step with its name.

## 3. What TLC checks

| Run | Instance | Shows |
| --- | --- | --- |
| `audit` | nine policies, three target calls, two signals, a tracer that may be killed anywhere, all failures but those of the log | `OptionsBeforeFilter`, `NoOrphanTarget`, `SignalsAreDropped`, `ErrorExitOnlyAfterSigkill`, and that `Tracer` implements `WriteAheadAudit` (`WriteAhead`) |
| `live` | the same policies, two of which deny exit_group by default, a tracer that may be killed anywhere, one descendant, failing log calls and writes, ignored SIGCHLD | `NoSilentRefusal`: while the tracer lives no flagged call of the child fails with ENOSYS; `ChildDenialsIntercepted`: nor does a forbidden call of the child pass without a stop, unless it is the default action that forbids; `StopsEnd`; `TracerEnds`: sec-seer ends with its target unless exit_group is denied |
| `log_history` | three runs of up to two violations, each completed, empty or crashed, with failing calls | `RunsRecoverable`: cutting the file at each `[` gives back each run's violations |
| `ctx_build` | profiles of up to three rules, three default actions, four architecture lists, four hosts, all failures | `FilterMatchesProfile`, `TracerPolicy`, `ContextOwned` |
| `main` | documents with absent, empty, mistyped and complete arrays; every command line of up to four words; every command of up to ten characters, nine being the limit; pairs of mappings with paths of all sizes, rests that pose as mappings, and every `rip`; any allocation or call fails; the target is killed meanwhile | *startup*: `StartedOnlyIfComplete`; *parser*: `HeapReachable` (`free_profile()` would release exactly what is there, at every state), `OnlyCopiesLost` (what an unreported failure may cost: the copy of a string, which is then NULL at its place, or a filter as a whole), `ProfileMeansDocument` (with memory enough, failure exactly for documents that are not well formed, else the profile is the document); *tokenizer*: `ArgvIsWords`, `InsideCommand`; *source location*: `RightMapping`; *together*: `AllReleased`, `MainEnds` |
| `libraries` | two vectors with two different elements, every function in any order; every text of up to nine tokens; strings of up to three pieces at the boundaries of UTF-8 and of the surrogates, or of up to six bytes among quote, backslash, `u`, `0` and 0xFF; three keys with all their hash functions into three values; any allocation fails | *vector*: `VectorIsSequence` (each call is the operation of `VectorSeq` of its name), `FaultsOnlyAfterLoss`, `BlockFits`, `BlocksOwned`, `LossReported`; *descent*: `TreeOwnsHeap`, `AcceptsOnlyJson`, `RejectsOnlyErrors`, `NestingLimit`; *strings*: `DecodesText`, `RefusesOnlyErrors`, `StaysInBuffers`; *objects*: `ObjectIsMap` (refinement of `KeyMap`), `TableConsistent`, `CallsTakeEffect` |

`TracerPolicy` ties the halves together: the filter that `CtxBuild` builds from
a profile without argument constraints is one of the policies `Tracer` assumes,
and answers the same.

Six runs end in a violation, on purpose.  Each states what the documentation or
a comment says and shows a behaviour of the code that contradicts it:

* `allow_list`: the default action is not rewritten to TRACE, so under an allow
  list calls are denied without a stop or a record (README line 3);
* `descendants`: processes of the target share the filter and have no tracer;
  their forbidden calls are neither caught nor logged (README line 3);
* `no_violation_log`: a run without a violation leaves a lone `]`
  (`logger.h` line 41);
* `unknown_action`: a rule with an unknown or missing action becomes ALLOW
  (README line 151);
* `named_caps`: held capabilities are called `CAP_0`, `CAP_1`, ..., so a
  capability that a profile names is never found (README line 37);
* `file_offset`: the file offset of a mapping is not added to the offset that
  addr2line is given, although "addr2line wants the file offset"
  (`observer.c` line 69).

More such places came up while modelling and are kept in the statements of
properties that hold:

* when memory runs out in `parse_filter()` the rule is returned without its
  filter and applies on every host, and strings whose copy failed are NULL;
  `ProfileMeansDocument` therefore speaks of parses with memory enough, and
  `OnlyCopiesLost` says what can be missing without;
* the rest of a line of `/proc/<pid>/maps` that does not fit the buffer is
  parsed like a line, so addr2line may be asked about a file that only the text
  of a path names; `RightMapping` says that this is the only other answer;
* a policy that denies exit_group by its default action keeps the child from
  ending: `_exit()` tries again, and the fault that would end it there is a
  signal that PTRACE_CONT drops.  `TracerEnds` excepts these policies;
* a write that is lost is reported as done: `fputc()`, `fputs()` and `fclose()`
  are not checked, although "Returns 0 on success, -1 on error" (`logger.h`
  line 37); `RunsRecoverable` is about runs whose calls fail as a whole;
* numbers that are no JSON are accepted (`1.`, `-.5`) and two kinds of JSON
  number are refused (`0e1`, `1e999`), although `json_parse_string()` "returns
  NULL in case of error" (`parson.h` line 100); the grammar of `AcceptsOnlyJson`
  has the former, and `RejectsOnlyErrors` leaves the latter apart from syntax
  errors;
* the handshake's wait may already have reaped a child that died, and the
  SIGKILL of its error exit (`main.c` line 160) then goes to a process id that
  is free again.  `ErrorExitOnlyAfterSigkill` shows that this cannot happen in the
  observer's loop; process ids are not reused in the model;
* a copy of an empty vector has capacity 0 and does not grow at its first push
  (`vector.c` line 55).  The program does not copy vectors; the instance excludes
  the case with `MinCopied = 1`, and with 0 `BlockFits` fails.

`LossReported` has one exception in its statement: a removal that shrinks its
block ignores that the new block could not be allocated, reports success and
leaves a vector without elements.  `FaultsOnlyAfterLoss` says that a lost block
is the only way to an access outside a block, as long as no empty vector is
copied: a push onto such a copy, which has room for nothing, is a second way.

**Bounds.**  `MaxCalls` bounds the calls of target and descendants, `MaxSignals`
the signals from outside, `MaxRuns` and `MaxPerRun` the log's history.  Two
calls are enough for a record to follow another with a different separator and
for registers to be stale; the third lets a stop follow a denied call and a
signal.  Two of the policies allow everything by default, seven deny or trace;
among these, two leave exit_group to a denying default.  Three runs put a crashed or an empty run before, between and after
others.  Three rules let a conditional rule, the unconditional one that replaces
it and a conflicting one meet in any order; two system calls show that a rule
touches only what it names; the hosts differ in byte order, kernel version,
capabilities and in being known to the table at all.  Nothing in the model
distinguishes more calls or rules than that.

The documents of `ProfileParser` hold one element of each kind that the parser
tells apart, and arrays of two where a failure at the second must release the
first; four-bit numbers with a two-bit mantissa have exact, rounded and
overflowing values.  `MAX_COMMAND_LEN` is 9, enough for five one-letter
arguments, the fifth of which outgrows the block of four.  Four words are one
more than a complete command line has.  `MaxSize` 3 lets a vector grow from the
minimum of two to four and shrink back; `MaxBlocks` only ends behaviours that leak.  The
hash table grows from four cells to eight with hashes 6, 7 and 8, so that runs
of cells collide and wrap around the end of both tables.  Nine tokens are what
an object with a repeated key needs, and with `MAX_NESTING` 2 they reach past
the limit.  Three pieces put a surrogate pair before, behind and between others.

**Fairness.**  Weak fairness of `TracerStep` and of `ChildStep`: both are
processes the scheduler runs, and no step waits for anything but the other
process.  The environment is not obliged to anything.  A target that makes calls
for ever, or that faults and retries for ever because the signal of its fault is
dropped, or that the filter does not let exit, keeps sec-seer running; so
`TracerEnds` is about a target that makes finitely many calls (`MaxCalls`), does
not fault (`"fault"` is not in the run's `Env`), and whose exit_group is not
denied; the last is a condition in the property.  `Main` has weak fairness of the steps
of the parent, a single thread, for `MainEnds`; it includes that addr2line,
whose output the parent reads, ends.

**Deadlock** is checked in `audit`, `ctx_build` and `main`.  It is not in `live`,
where a child whose tracer was killed may stay stopped for ever (the tracer's
death before the handshake leaves a stop nobody answers, which `StopsEnd`
excepts); in `log_history`, which simply stops after its last run; and in
`libraries`, where callers may stop at any time and do so after a fault.
A finished system stutters by an action of its own.

## 4. What is proved

Every safety property and every refinement that a passing run checks is the
statement of a theorem.

For every set of system calls, policies, descendants, environment events and
every bound, from the named assumptions of `Logger` and `Tracer` (the named
calls differ; policies are buildable; their default action is not NOTIFY, for
which the code has no listener):

* `TypeCorrect`: types; in particular `Log` is reached only with registers that
  were read at the present stop;
* `HandshakeWorks`: `OptionsBeforeFilter`;
* `FlaggedCallsNotRefused`: `NoSilentRefusal`;
* `NoOrphans`, `SignalsDropped`, `ErrorExitIsSafe`: the properties of the same
  meaning;
* `Refinement`: with a log that does not fail (`LogFaults = {}`), `Tracer`
  implements `WriteAheadAudit`, whoever is killed and when;
* `Interception`: `ChildDenialsIntercepted`, that is, while the tracer lives
  every call of the child that a rule forbids stops, if the default action does
  not forbid.  The `allow_list` and `descendants` runs show that neither the
  default action nor the restriction to the child can be dropped.

For every profile, host and failure, from the assumptions of `CtxBuild` (the
arrays of a profile are sequences; the marks for "no rule" and "no string" are no
actions and differ):

* `Ownership`: `ContextOwned`;
* `SameRulesEverywhere`: at each moment of the construction all architectures
  of the filter have the same rules;
* `CtxTypeCorrect`: `CtxTypeOK`;
* `FilterCorrect`: `FilterMatchesProfile`, for profiles with any number of
  rules, names, constraints and architectures;
* `PolicyCorrect`: `TracerPolicy`, so that what is proved of `Tracer` for its
  policies is proved of the filters that `CtxBuild` builds from profiles
  without argument constraints.

For any number of runs on one log path, with runs that end by a crash, runs
that log nothing and calls that fail as a whole:

* `LogReadBack`: `RunsRecoverable`, if no unchecked write is lost
  (`"write" \notin LogFaults`; with lost writes it is false, since a record
  that was reported as written is not there).

For any number of vectors, any elements and any bound, if callers copy no empty
vector (`MinCopied >= 1`; the program copies none, and with 0 `BlockFits` is
false) and a null pointer is no block (`NullIsNoBlock`):

* `BlocksFit`, `FaultsHaveACause`, `NoLeak`, `LossIsReported`: the properties
  `BlockFits`, `FaultsOnlyAfterLoss`, `BlocksOwned` and `LossReported`;
* `VectorsAreSequences`: `Vector` with the history of its calls
  (`HistSpec`) implements `VectorSeq`, call by call.

For every command line, document, command, list of mappings and instruction
pointer, with any call or allocation failing.  The assumptions: the inputs have
the types that section 2 gives them (`InputsAssumption`), a double has a
mantissa of at least one bit and fewer than the integer has (`ParserAssumption`:
53 and 64), NUL is no blank (`BlankAssumption`), and `Null` is none of the
objects it stands beside (`NullIsNoObject`, `NullIsNoArgument`):

* `StartsComplete`: `StartedOnlyIfComplete`;
* `ParserOwnsHeap`: `HeapReachable`; `LossesLimited`: `OnlyCopiesLost`;
  `ProfileCorrect`: `ProfileMeansDocument`;
* `SplitCorrect`: `ArgvIsWords`; `SplitStaysInside`: `InsideCommand`;
* `MappingCorrect`: `RightMapping`;
* `EverythingReleased`: `AllReleased`.

For every text, string and nesting limit, with any allocation of the recursive
descent failing.  `JsonAssumption` says that the tokens differ,
`StringAssumption` that the pieces of a string are made of bytes,
`RawAssumption` that a character written as it is either is well-formed UTF-8
without a quote or a backslash, or is a control character:

* `TreeOwned`: `TreeOwnsHeap`; `NestingLimited`: `NestingLimit`;
* `ParserAccepts`: `AcceptsOnlyJson`; `ParserRefuses`: `RejectsOnlyErrors`;
* `StringStaysInside`: `StaysInBuffers`, for any bytes but NUL;
* `StringDecodes`: `DecodesText`; `StringRefuses`: `RefusesOnlyErrors`, for
  texts made of pieces.

For any keys, values and hash function, with any allocation failing, if a table
starts with at least two cells (`ObjectAssumption`; the code starts with 16, and
a table of one cell would be full with its first item):

* `ObjConsistent`: `TableConsistent`; `ObjCalls`: `CallsTakeEffect`;
* `ObjRefinesMap`: `JsonObject` implements `KeyMap` (`ObjectIsMap`).

**The argument.**  None of the properties is inductive by itself.  `Inv` of
`TracerProofs` adds three parts.  `StopInv` is the ptrace protocol: between a
wait and the next request the child does not run; a child stopped with a call
pending is in a filter stop; when the tracer is about to log, its registers are
those of the pending call; after the loop the child is dead.  `AttachInv` says
that a child between TRACEME and the options cannot run past `raise`, so the
filter is loaded only under a tracer with options.  `ReapInv` says that what is
not stopped at a `PTRACE_CONT` is a zombie that SIGKILL made.  The proof has one step per action.

`LogInv` relates the log to the calls carried out while the tracer lives: they
are equal, or the log is ahead by exactly the pending call; which of the two is
determined by where the tracer is.  With it, `ChildFlagged` maps to `Intercept`,
`Log` to `Record`, `ChildResumed` to `TakeEffect` or, after the tracer's death,
to `Escape`, `Close` to `Seal`, `TracerKilled` to `Die`, and all others stutter.

For the builder, `OwnInv` fixes the state of the context at each point, and
`TableInv` says that no architecture has a rule before the last one is there.
`BuildInv` says what the loops have done when their counters are at (i, j): the
architectures are the native one and the listed ones passed (`ArchsAdded`); the
entry of a system call holds the constraints of the applicable rules passed that
name it, or the action of the first unconditional one (`EntryOK`), and none of
them has the default action.  At the end all rules are passed, and the entry
answers as `Expected` says.

For the vector, lemmas about each operator of `VectorOps` say what it returns
for a vector that is well formed (`IsVector`) and what becomes of the elements;
the growth that push_back() and insert() rely on is in `_vector_reallocate`.
`VecInv` adds the number of blocks and that a vector in use without a block has
a failed allocation behind it.  The actions fall into three kinds, those that
change one vector, copies, and those that exchange two, and each kind preserves
`VecInv` by one lemma about the number of blocks.

For the log, `HistInv` says that while a run logs, the flag of
`log_seccomp_violation()` is set exactly if the run has logged nothing, and
that the file reads back as the runs so far.  Reading a file to which a chunk is
appended, and keeping the runs of a history whose last one grows, are lemmas by
induction; a record with `[` then opens a run on both sides, one with `,` extends
the last one on both sides.

For the parent, `PartsInv` is the conjunction of an invariant for each part and
two links that say how far a part is when `main()` is at a given call.
`StartInv`: the words passed are distinct options or other words, and what is
owned at each call.  `LocInv`: no mapping passed is the one sought.  `SplitInv`:
`args` holds, in order, exactly the words of the command that end before `end`
(`Taken`), and if `end` is inside a word, `start` is its first character; this
is what makes the look-ahead of the code right.  `ParseInv` gives each stage of
`parse_JSON()` what has been allocated (`StageOK`) and what the finished
elements say (`ContentOK`); replacing one element of an array changes the sum
that `free_profile()` releases by the difference of the two elements, which is
the lemma the whole accounting rests on.

For parson, `HeapInv` says of every call that waits for a member that it holds a
key exactly if it parses an object, so that what it owns does not change when
the member is added; beginning or ending a call moves its blocks to or from the
sum over the others.  `DepthInv` says that until NULL is returned the number of
calls is the number of brackets that are open in the text.  `StringInv` compares
two loops: `Turns` is the set of positions where a turn of `skip_quotes()`
began, and `process_string()`, whose turns are up to twelve bytes long, is always
at one of them; an escape it accepts consists of whole turns, since no
hexadecimal digit is a quote or a backslash.  That is why it meets the closing
quote and cannot step over it.

What a string decodes to needs more.  `Layout` gives the place where each piece
begins; a turn of the decoder consumes exactly one piece, or the two of a
surrogate pair, and appends the encoding of what they denote.  `Encoded` says
that `EncodeUtf8` of a code point reads back as it, in each of the four lengths,
and `Utf8Concat` that reading valid UTF-8 and then more is reading the one and
then the other; so `TextInv` can say that what was written reads as the part of
the meaning that lies behind the decoder, and that the rest is denoted by the
pieces before it.  That the four bytes which `parse_utf16_hex()` looks at
are the digits of the piece and never belong to another one is `UnitRead`.

For acceptance, `AcceptInv` names the bracket at which each call began and says
what the grammar makes of the text behind it: a list of members (`Listed`), a
key and a colon, a comma.  The keys a frame remembers are those the grammar
finds at depth 1 behind the bracket, the key of a member that is being parsed
apart (`Settled`, `Pending`).  When a call returns, the text from its bracket on is a value,
and its caller's list is longer by one member.

For refusal, `RefuseInv` looks at the text from the other end: take any JSON text
that begins with the tokens consumed and the next one.  Each call has a closing
bracket in it (`Brackets`), and what lies between the place of the parser and the
innermost one is what the call is waiting for (`Awaits`).  A syntax error
contradicts that in every state.  It follows that *no* JSON text goes on with the
refused token, which is more than `Continues`, a search among short completions,
can ask.

For the hash table, `ObjInv` adds to the links between cells and items that
every cell from the home of an item to its cell is in use (`Reached`).  With it a
probe finds a key exactly if an item has it, and else ends at a free cell, where
the key can be added.  The loop of the removal keeps the links of all items but
leaves a hole (`Linked` with the hole as a parameter); `Searched` says that no
item between hole and loop position has the hole on its path, and `MayMove` is,
in terms of distances around the table, the test whether one has.  When the loop
ends, at a free cell or after a whole round, no item is hidden by the hole and
it can be freed.  `item_capacity`, seven tenths, leaves a cell free.

Sums and powers are recursive functions, so these lemmas need induction.  The
induction theorems of the library cannot be used (their operator parameters
cannot be instantiated by the provers), but `SumProofs` derives induction in
the form "a set that contains 0 and with n also n + 1 contains every number"
from the theorem that the inclusion of finite sets is well-founded, and that
form is enough.  The same form of induction gives the recursive functions themselves: that
the function which `Reading`, `Starts`, `RunsIn` or `json_object_grow_and_rehash`
defines exists, and is unique, on every initial segment of the numbers
(`StartsExist`, `IsReading`, `IsRehash`, ...).

**Only model-checked.**  The liveness properties `TracerEnds`, `StopsEnd` and
`MainEnds`, which are about fairness and thus about ENABLED, which the prover
does not handle; and the six violations, which are counterexamples.

## 5. Plan

Done: the models of section 2, and for each of them the proofs of section 4.  No
safety property of a passing run is left to the model checker alone.  What could
come next is in section 6.

## 6. What is not modelled

* the rest of parson: the value of a number and the typed getters, which keep no
  state, and serialisation, deep copies, comparison, schemas, dotted names and
  comments, none of which the program calls;
* the iterators of the vector, pointers into a block that this program never
  makes;
* what `ctx-build.c` does with a NULL among `caps`, `arches` or `names`:
  `ProfileParser` shows that such elements arise from elements of another type
  and from a failed strdup(); `CtxBuild` assumes strings;
* the two unchecked calloc() calls of `get_source_location()`, which are assumed
  to succeed;
* the text of log records and messages, the timestamp;
* argument constraints in `Tracer`: its policies give each call one answer.
  `CtxBuild` covers constraints up to the finished filter;
* threads of the target: a further thread is a process that shares the filter
  and is not traced, as a descendant is;
* two processes appending to one log at the same time;
* `free_runtime_context()`; `main()` calls it in the parent only, and nothing is
  said about the runtime context's blocks;
* the tests' container images.
