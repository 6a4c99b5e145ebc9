---------------------------- MODULE ProfileParser ----------------------------
(***************************************************************************)
(* json-parser.c: parse_JSON() turns a file into a SeccompProfile, and     *)
(* free_profile() takes one apart; any allocation may fail.                *)
(*                                                                         *)
(* A document is a record with the fields the parser asks for; a field     *)
(* that is absent or of another type is Null, as parson's getters say, and *)
(* so is an array element of another type.  A profile is the structure of  *)
(* json-parser.h: a pointer to an array is Null or the sequence of its     *)
(* elements, and the array's count is a field of its own.  The heap is the *)
(* number of blocks in use.  Numbers have Width bits and reach the parser  *)
(* as doubles with a mantissa of Mantissa bits.                            *)
(***************************************************************************)
EXTENDS NullPointer, Sums, Sequences, FiniteSets

CONSTANTS
  Strings,           \* the strings of the documents
  Width, Mantissa    \* the bits of an integer, and of a double

ASSUME ParserAssumption == Width \in Nat /\ Mantissa \in 1 .. Width - 1

-----------------------------------------------------------------------------
(* The documents, and the structures of json-parser.h. *)

Text == Strings \cup {Null}
Array(S) == Seq(S) \cup {Null}
Numeric == Int \cup {Null}

FilterDocs == [caps : Array(Text), arches : Array(Text), minKernel : Text]
ArgDocs == [index : Numeric, value : Numeric, value_two : Numeric, op : Text]
RuleDocs == [names : Array(Text), action : Text, comment : Text, include : FilterDocs \cup {Null},
             exclude : FilterDocs \cup {Null}, args : Array(ArgDocs \cup {Null})]
ArchDocs == [architecture : Text, subArchitectures : Array(Text)]
Roots == [defaultAction : Text, defaultErrnoRet : Numeric, archMap : Array(ArchDocs \cup {Null}),
          syscalls : Array(RuleDocs \cup {Null})]
Documents == [root : Roots \cup {Null}, scarce : BOOLEAN]

SeccompFilter == [caps : Array(Text), caps_count : Nat, arches : Array(Text), arch_count : Nat,
                  min_kernel : Text]
SeccompArgConstraint == [index : Int, value : Int, value_two : Int, op : Text]
SeccompSyscallRule == [names : Array(Text), names_count : Nat, action : Text,
                       include : SeccompFilter \cup {Null}, exclude : SeccompFilter \cup {Null},
                       args : Array(SeccompArgConstraint), args_count : Nat, comment : Text]
SeccompArchMap == [architecture : Text, sub_architectures : Array(Text), sub_arch_count : Nat]
SeccompProfile == [default_action : Text, default_errno_ret : Int, arch_map : Array(SeccompArchMap),
                   arch_map_count : Nat, syscalls : Array(SeccompSyscallRule), syscalls_count : Nat]

ASSUME NullIsNoObject ==
  /\ Null \notin Strings /\ Null \notin Int
  /\ Null \notin FilterDocs /\ Null \notin RuleDocs /\ Null \notin Roots /\ Null \notin SeccompFilter
  /\ Null \notin Seq(Text) /\ Null \notin Seq(SeccompArgConstraint) /\ Null \notin Seq(SeccompArchMap)
  /\ Null \notin Seq(SeccompSyscallRule)

VARIABLES
  doc,        \* the file [root, scarce]: root is Null if the text is no JSON
              \* object, scarce says whether allocations may fail
  profile,
  parsePc,    \* what is done next; "done" or "failed" after the return, then "freed"
  i, j,       \* the counters: rules or architectures, and arguments
  open,       \* what is released before the return: file, string_JSON, root_value
  heap,       \* the number of the profile's blocks in use
  ret         \* "0", or the name of the error

parserVars == <<doc, profile, parsePc, i, j, open, heap, ret>>

-----------------------------------------------------------------------------
(* Numbers. *)

Pow2(n) == LET pow[k \in 0 .. n] == IF k = 0 THEN 1 ELSE 2 * pow[k - 1] IN pow[n]

(* The nearest double of a natural number, ties to the even mantissa. *)
ToDouble(n) ==
  IF n < Pow2(Mantissa) THEN n
  ELSE LET e == CHOOSE k \in 1 .. Width + 1 :
                  n \div Pow2(k) < Pow2(Mantissa) /\ n \div Pow2(k - 1) >= Pow2(Mantissa)
           low == (n \div Pow2(e)) * Pow2(e)
           rest == n - low
           up == \/ 2 * rest > Pow2(e)
                 \/ 2 * rest = Pow2(e) /\ (n \div Pow2(e)) % 2 = 1
       IN IF up THEN low + Pow2(e) ELSE low

(* The values a variable may get from a double: the conversion of one that *)
(* is out of its range is undefined.                                       *)
Cast(n, range) ==
  LET d == IF n < 0 THEN -ToDouble(-n) ELSE ToDouble(n)
  IN IF d \in range THEN {d} ELSE range

SignedInt == -Pow2(Width - 1) .. Pow2(Width - 1) - 1
Unsigned == 0 .. Pow2(Width) - 1

(* json_object_get_number() of a field that is no number is 0. *)
Number(n, range) == IF n = Null THEN {0} ELSE Cast(n, range)

-----------------------------------------------------------------------------
(* Structures and their release. *)

EmptyFilter == [caps |-> Null, caps_count |-> 0, arches |-> Null, arch_count |-> 0,
                min_kernel |-> Null]
EmptyRule == [names |-> Null, names_count |-> 0, action |-> Null, include |-> Null,
              exclude |-> Null, args |-> Null, args_count |-> 0, comment |-> Null]
EmptyArch == [architecture |-> Null, sub_architectures |-> Null, sub_arch_count |-> 0]
EmptyArg == [index |-> 0, value |-> 0, value_two |-> 0, op |-> Null]
Zeroed == [default_action |-> Null, default_errno_ret |-> 0, arch_map |-> Null,
           arch_map_count |-> 0, syscalls |-> Null, syscalls_count |-> 0]

calloc(n, element) == [k \in 1 .. n |-> element]

(* The number of blocks that free() releases. *)
Freed(p) == IF p = Null THEN 0 ELSE 1

(* A loop that releases what the first n elements of an array own, then    *)
(* the array itself.                                                       *)
FreedArray(a, n, freed) == IF a = Null THEN 0 ELSE Total(freed, n) + 1

FreedStrings(a, n) == FreedArray(a, n, [k \in 1 .. n |-> Freed(a[k])])

free_filter_contents(f) ==
  FreedStrings(f.caps, f.caps_count) + FreedStrings(f.arches, f.arch_count) + Freed(f.min_kernel)

FreedFilter(f) == IF f = Null THEN 0 ELSE free_filter_contents(f) + 1

FreedArch(m) == Freed(m.architecture) + FreedStrings(m.sub_architectures, m.sub_arch_count)

FreedArgs(a, n) == FreedArray(a, n, [k \in 1 .. n |-> Freed(a[k].op)])

FreedRule(r) ==
  FreedStrings(r.names, r.names_count) + FreedArgs(r.args, r.args_count)
    + FreedFilter(r.include) + FreedFilter(r.exclude) + Freed(r.action) + Freed(r.comment)

FreedArchs(a, n) == FreedArray(a, n, [k \in 1 .. n |-> FreedArch(a[k])])
FreedRules(a, n) == FreedArray(a, n, [k \in 1 .. n |-> FreedRule(a[k])])

free_profile(p) ==
  FreedArchs(p.arch_map, p.arch_map_count) + FreedRules(p.syscalls, p.syscalls_count)
    + Freed(p.default_action)

-----------------------------------------------------------------------------
(* Allocation.  What may fail is a set of outcomes. *)

AllocFails == doc.scarce

(* What is allocated: the result, and the number of blocks that were taken *)
(* from the heap for it.                                                   *)
Made(p, n) == [ptr |-> p, blocks |-> n]

(* safe_strdup(): the copies of a string; no copy of Null.                 *)
safe_strdup(str) ==
  IF str = Null THEN {Made(Null, 0)}
  ELSE {Made(str, 1)} \cup IF AllocFails THEN {Made(Null, 0)} ELSE {}

(* calloc() and the loop that copies the strings of an array, a block for  *)
(* the array and one for each copy.  The count is set first; an empty      *)
(* array is not allocated.                                                 *)
Copies(arr) ==
  {c \in [1 .. Len(arr) -> UNION {safe_strdup(arr[k]) : k \in 1 .. Len(arr)}] :
     \A k \in 1 .. Len(arr) : c[k] \in safe_strdup(arr[k])}

StringArray(arr) ==
  IF arr \in {Null, << >>} THEN {[ptr |-> Null, count |-> 0, blocks |-> 0, failed |-> FALSE]}
  ELSE {[ptr |-> [k \in 1 .. Len(arr) |-> c[k].ptr], count |-> Len(arr),
         blocks |-> 1 + Total([k \in 1 .. Len(arr) |-> c[k].blocks], Len(arr)),
         failed |-> FALSE] : c \in Copies(arr)}
       \cup IF AllocFails THEN {[ptr |-> Null, count |-> Len(arr), blocks |-> 0, failed |-> TRUE]}
             ELSE {}

(* Mutant: on the fail path only what the filter holds is released.        *)
FilterFailed_KeepsStruct(f, n) == Made(Null, n - free_filter_contents(f))

(* fail: of the n blocks that were allocated for the filter f, what it     *)
(* holds and the structure itself are released.                            *)
FilterFailed(f, n) == Made(Null, n - (free_filter_contents(f) + 1))

(* Mutant: an array that cannot be allocated is left out of the filter. *)
FilterParsed_Partial(c, a, s) ==
  Made([EmptyFilter EXCEPT !.caps = c.ptr, !.caps_count = c.count,
                           !.arches = a.ptr, !.arch_count = a.count, !.min_kernel = s.ptr],
       1 + c.blocks + a.blocks + s.blocks)

(* The structure, the two arrays, then the kernel version. *)
FilterParsed(c, a, s) ==
  LET f == [EmptyFilter EXCEPT !.caps = c.ptr, !.caps_count = c.count]
      g == [f EXCEPT !.arches = a.ptr, !.arch_count = a.count]
      h == [g EXCEPT !.min_kernel = s.ptr]
  IN CASE c.failed -> FilterFailed(f, 1)
       [] a.failed /\ ~c.failed -> FilterFailed(g, 1 + c.blocks)
       [] OTHER -> Made(h, 1 + c.blocks + a.blocks + s.blocks)

parse_filter(obj) ==
  IF obj = Null THEN {Made(Null, 0)}
  ELSE {FilterParsed(c, a, s) : c \in StringArray(obj.caps), a \in StringArray(obj.arches),
                                s \in safe_strdup(obj.minKernel)}
       \cup IF AllocFails THEN {Made(Null, 0)} ELSE {}

-----------------------------------------------------------------------------
(* parse_JSON(). *)

Root == doc.root
Goto(label) == parsePc' = label

(* The document is given. *)
ParserInit ==
  /\ profile = Zeroed
  /\ parsePc = "fopen" /\ i = 1 /\ j = 1
  /\ open = {} /\ heap = 0 /\ ret = "0"

(* cleanup: string_JSON, root_value and the profile, which has become p    *)
(* with n more blocks, are released.                                       *)
CleanupAfter(p, n, err) ==
  /\ ret' = err /\ Goto("failed") /\ open' = {}
  /\ heap' = heap + n - free_profile(p)
  /\ profile' = Zeroed
  /\ UNCHANGED <<doc, i, j>>

Cleanup(err) == CleanupAfter(profile, 0, err)

(* A step that changes neither the profile nor the heap. *)
Reading(label) == Goto(label) /\ UNCHANGED <<doc, profile, i, j, heap, ret>>

(* fileJSON_to_str(): open, measure, allocate and read; its error returns  *)
(* close the file and free the buffer.                                     *)
OpenFile ==
  /\ parsePc = "fopen"
  /\ \/ Reading("fseek") /\ open' = {"file"}
     \/ Cleanup("ENOENT")

MeasureFile ==
  /\ parsePc = "fseek"
  /\ \/ Reading("malloc") /\ UNCHANGED open
     \/ Cleanup("EIO")

AllocBuffer ==
  /\ parsePc = "malloc"
  /\ \/ Reading("fread") /\ open' = open \cup {"string_JSON"}
     \/ AllocFails /\ Cleanup("ENOMEM")

ReadBuffer ==
  /\ parsePc = "fread"
  /\ \/ Reading("parse") /\ open' = open \ {"file"}
     \/ Cleanup("EIO")

(* json_parse_string() and json_value_get_object(). *)
ParseText ==
  /\ parsePc = "parse"
  /\ \/ Root # Null /\ Reading("default") /\ open' = open \cup {"root_value"}
     \/ (Root = Null \/ AllocFails) /\ Cleanup("EINVAL")

(* Replaces the profile by p, with n more blocks in use. *)
Store(p, n) == profile' = p /\ heap' = heap + n /\ UNCHANGED <<doc, open, ret>>

ParseDefault ==
  /\ parsePc = "default"
  /\ \E s \in safe_strdup(Root.defaultAction), e \in Number(Root.defaultErrnoRet, SignedInt) :
       IF s.ptr = Null THEN Cleanup("EINVAL")
       ELSE /\ Store([profile EXCEPT !.default_action = s.ptr, !.default_errno_ret = e], s.blocks)
            /\ Goto("archs") /\ UNCHANGED <<i, j>>

(* The array of architectures: a missing or empty one is only warned of. *)
AllocArchs ==
  /\ parsePc = "archs"
  /\ IF Root.archMap \in {Null, << >>}
     THEN Reading("syscalls") /\ UNCHANGED open
     ELSE LET n == Len(Root.archMap)
              counted == [profile EXCEPT !.arch_map_count = n]
          IN \/ /\ Store([counted EXCEPT !.arch_map = calloc(n, EmptyArch)], 1)
                /\ Goto("arch") /\ i' = 1 /\ UNCHANGED j
             \/ AllocFails /\ CleanupAfter(counted, 0, "ENOMEM")

ParseArch ==
  /\ parsePc = "arch" /\ i <= profile.arch_map_count
  /\ IF Root.archMap[i] = Null THEN Cleanup("EINVAL")
     ELSE \E a \in safe_strdup(Root.archMap[i].architecture),
             sub \in StringArray(Root.archMap[i].subArchitectures) :
            LET m == [architecture |-> a.ptr, sub_architectures |-> sub.ptr,
                      sub_arch_count |-> sub.count]
                p == [profile EXCEPT !.arch_map[i] = m]
            IN IF sub.failed
               THEN CleanupAfter(p, a.blocks + sub.blocks, "ENOMEM")
               ELSE Store(p, a.blocks + sub.blocks) /\ i' = i + 1 /\ UNCHANGED <<parsePc, j>>

ArchsParsed ==
  /\ parsePc = "arch" /\ i > profile.arch_map_count
  /\ Reading("syscalls") /\ UNCHANGED open

(* The array of rules, in the same way. *)
AllocRules ==
  /\ parsePc = "syscalls"
  /\ IF Root.syscalls \in {Null, << >>}
     THEN Goto("return") /\ UNCHANGED <<doc, profile, i, j, open, heap, ret>>
     ELSE LET n == Len(Root.syscalls)
              counted == [profile EXCEPT !.syscalls_count = n]
          IN \/ /\ Store([counted EXCEPT !.syscalls = calloc(n, EmptyRule)], 1)
                /\ Goto("strings") /\ i' = 1 /\ UNCHANGED j
             \/ AllocFails /\ CleanupAfter(counted, 0, "ENOMEM")

RuleDoc == Root.syscalls[i]
Rule == profile.syscalls[i]
StoreRule(r, n) == Store([profile EXCEPT !.syscalls[i] = r], n)

ParseStrings ==
  /\ parsePc = "strings" /\ i <= profile.syscalls_count
  /\ IF RuleDoc = Null THEN Cleanup("EINVAL")
     ELSE \E a \in safe_strdup(RuleDoc.action), c \in safe_strdup(RuleDoc.comment) :
            /\ StoreRule([Rule EXCEPT !.action = a.ptr, !.comment = c.ptr], a.blocks + c.blocks)
            /\ Goto("filters") /\ UNCHANGED <<i, j>>

(* Mutant: include and exclude are exchanged. *)
ParseFilters_Exchanged ==
  /\ parsePc = "filters"
  /\ \E inc \in parse_filter(RuleDoc.include), exc \in parse_filter(RuleDoc.exclude) :
       StoreRule([Rule EXCEPT !.include = exc.ptr, !.exclude = inc.ptr],
                 inc.blocks + exc.blocks)
  /\ Goto("names") /\ UNCHANGED <<i, j>>

ParseFilters ==
  /\ parsePc = "filters"
  /\ \E inc \in parse_filter(RuleDoc.include), exc \in parse_filter(RuleDoc.exclude) :
       StoreRule([Rule EXCEPT !.include = inc.ptr, !.exclude = exc.ptr],
                 inc.blocks + exc.blocks)
  /\ Goto("names") /\ UNCHANGED <<i, j>>

ParseNames ==
  /\ parsePc = "names"
  /\ \E n \in StringArray(RuleDoc.names) :
       IF n.failed
       THEN CleanupAfter([profile EXCEPT !.syscalls[i].names_count = n.count], 0, "ENOMEM")
       ELSE /\ StoreRule([Rule EXCEPT !.names = n.ptr, !.names_count = n.count], n.blocks)
            /\ Goto("args") /\ UNCHANGED <<i, j>>

AllocArgs ==
  /\ parsePc = "args"
  /\ IF RuleDoc.args \in {Null, << >>}
     THEN Goto("strings") /\ i' = i + 1 /\ UNCHANGED <<doc, profile, j, open, heap, ret>>
     ELSE \/ /\ StoreRule([Rule EXCEPT !.args_count = Len(RuleDoc.args),
                                       !.args = calloc(Len(RuleDoc.args), EmptyArg)], 1)
             /\ Goto("arg") /\ j' = 1 /\ UNCHANGED i
          \/ /\ AllocFails
             /\ CleanupAfter([profile EXCEPT !.syscalls[i].args_count = Len(RuleDoc.args)],
                             0, "ENOMEM")

ParseArg ==
  /\ parsePc = "arg" /\ j <= Rule.args_count
  /\ LET o == RuleDoc.args[j] IN
     IF o = Null THEN Cleanup("EINVAL")
     ELSE \E x \in Number(o.index, Unsigned), v \in Number(o.value, Unsigned),
             w \in Number(o.value_two, Unsigned), s \in safe_strdup(o.op) :
            /\ StoreRule([Rule EXCEPT !.args[j] =
                            [index |-> x, value |-> v, value_two |-> w, op |-> s.ptr]], s.blocks)
            /\ j' = j + 1 /\ UNCHANGED <<parsePc, i>>

ArgsParsed ==
  /\ parsePc = "arg" /\ j > Rule.args_count
  /\ Goto("strings") /\ i' = i + 1
  /\ UNCHANGED <<doc, profile, j, open, heap, ret>>

(* The text and the tree are released; the profile is the caller's. *)
Return ==
  /\ parsePc = "return" \/ (parsePc = "strings" /\ i > profile.syscalls_count)
  /\ open' = {} /\ Goto("done")
  /\ UNCHANGED <<doc, profile, i, j, heap, ret>>

ParserNext ==
  \/ OpenFile \/ MeasureFile \/ AllocBuffer \/ ReadBuffer \/ ParseText
  \/ ParseDefault \/ AllocArchs \/ ParseArch \/ ArchsParsed
  \/ AllocRules \/ ParseStrings \/ ParseFilters \/ ParseNames
  \/ AllocArgs \/ ParseArg \/ ArgsParsed \/ Return

-----------------------------------------------------------------------------
(* Properties. *)

(* At every moment free_profile() would release every block of the profile *)
(* and nothing else, so that any step may go to cleanup; after a failure   *)
(* nothing is left and the structure is zero, after a success the text and *)
(* the tree are gone.                                                      *)
HeapReachable ==
  /\ heap = free_profile(profile)
  /\ parsePc \in {"done", "failed"} => open = {}
  /\ parsePc = "failed" => heap = 0 /\ profile = Zeroed /\ ret # "0"

(* The copy of a text, which is Null where strdup() failed. *)
Kept(v, text, scarce) == v = text \/ (v = Null /\ scarce)

SameCount(ptr, count, arr) ==
  IF arr \in {Null, << >>} THEN ptr = Null /\ count = 0
  ELSE count = Len(arr) /\ ptr # Null /\ Len(ptr) = count

StringsKept(ptr, count, arr, scarce) ==
  SameCount(ptr, count, arr) /\ \A k \in 1 .. count : Kept(ptr[k], arr[k], scarce)

(* A filter is there as a whole, or is not there. *)
FilterKept(f, d, scarce) ==
  \/ f = Null /\ (d = Null \/ scarce)
  \/ /\ f # Null /\ d # Null
     /\ StringsKept(f.caps, f.caps_count, d.caps, scarce)
     /\ StringsKept(f.arches, f.arch_count, d.arches, scarce)
     /\ Kept(f.min_kernel, d.minKernel, scarce)

(* A number that is small enough is exact. *)
SameNumber(v, n) == IF n = Null THEN v = 0 ELSE n \in 0 .. Pow2(Mantissa) => v = n

ArgKept(a, d, scarce) ==
  /\ SameNumber(a.index, d.index) /\ SameNumber(a.value, d.value)
  /\ SameNumber(a.value_two, d.value_two) /\ Kept(a.op, d.op, scarce)

RuleKept(rule, d, scarce) ==
  /\ Kept(rule.action, d.action, scarce) /\ Kept(rule.comment, d.comment, scarce)
  /\ FilterKept(rule.include, d.include, scarce) /\ FilterKept(rule.exclude, d.exclude, scarce)
  /\ StringsKept(rule.names, rule.names_count, d.names, scarce)
  /\ SameCount(rule.args, rule.args_count, d.args)
  /\ \A k \in 1 .. rule.args_count : ArgKept(rule.args[k], d.args[k], scarce)

ArchKept(m, d, scarce) ==
  /\ Kept(m.architecture, d.architecture, scarce)
  /\ StringsKept(m.sub_architectures, m.sub_arch_count, d.subArchitectures, scarce)

(* What parse_JSON() returns with success although an allocation failed:   *)
(* the failed copy of a string is Null and a filter may be missing as a    *)
(* whole; nothing else differs from the document.  Every array that is     *)
(* there has all its elements at their places, each string the document's  *)
(* or Null, each argument constraint about the argument and the values the *)
(* document gives if they are small enough for a double; no array of a     *)
(* rule, of an architecture or of a filter is missing by itself.           *)
OnlyCopiesLost ==
  parsePc = "done" =>
    /\ profile.default_action = Root.defaultAction /\ profile.default_action # Null
    /\ SameCount(profile.arch_map, profile.arch_map_count, Root.archMap)
    /\ \A k \in 1 .. profile.arch_map_count : ArchKept(profile.arch_map[k], Root.archMap[k], AllocFails)
    /\ SameCount(profile.syscalls, profile.syscalls_count, Root.syscalls)
    /\ \A k \in 1 .. profile.syscalls_count : RuleKept(profile.syscalls[k], Root.syscalls[k], AllocFails)

(* What the parts of the document become if nothing fails. *)
Whole(arr) == IF arr = << >> THEN Null ELSE arr
Counted(arr) == IF arr = Null THEN 0 ELSE Len(arr)
FilterOf(o) ==
  IF o = Null THEN Null
  ELSE [caps |-> Whole(o.caps), caps_count |-> Counted(o.caps),
        arches |-> Whole(o.arches), arch_count |-> Counted(o.arches),
        min_kernel |-> o.minKernel]
ArchOf(o) ==
  [architecture |-> o.architecture, sub_architectures |-> Whole(o.subArchitectures),
   sub_arch_count |-> Counted(o.subArchitectures)]
RuleMeans(r, o) ==
  /\ r.names = Whole(o.names) /\ r.action = o.action
  /\ r.include = FilterOf(o.include) /\ r.exclude = FilterOf(o.exclude)

(* The document as a whole, if no allocation fails: parse_JSON() succeeds  *)
(* iff the file could be read, the default action is there and every       *)
(* element that has to be an object is one; the profile then holds the     *)
(* document's architectures, rules, names and filters, in order.           *)
RuleWellFormed(o) == o # Null /\ \A a \in 1 .. Counted(o.args) : o.args[a] # Null
WellFormed ==
  /\ Root # Null /\ Root.defaultAction # Null
  /\ \A k \in 1 .. Counted(Root.archMap) : Root.archMap[k] # Null
  /\ \A k \in 1 .. Counted(Root.syscalls) : RuleWellFormed(Root.syscalls[k])

ProfileMeansDocument ==
  /\ parsePc = "failed" /\ ret = "EINVAL" /\ ~AllocFails => ~WellFormed
  /\ parsePc = "done" /\ ~AllocFails =>
       /\ WellFormed
       /\ profile.default_action = Root.defaultAction
       /\ profile.arch_map_count = Counted(Root.archMap)
       /\ \A k \in 1 .. profile.arch_map_count : profile.arch_map[k] = ArchOf(Root.archMap[k])
       /\ profile.syscalls_count = Counted(Root.syscalls)
       /\ \A k \in 1 .. profile.syscalls_count : RuleMeans(profile.syscalls[k], Root.syscalls[k])
=============================================================================
