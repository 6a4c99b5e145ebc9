------------------------------- MODULE MCMain -------------------------------
(* Inputs of the parent process.  One of them varies at a time, the others *)
(* are the simplest that go through.                                       *)
EXTENDS Main

CONSTANTS Letter, Addresses

-----------------------------------------------------------------------------
(* Command lines of one word more than a complete one has. *)
AllLines == UNION {[1 .. n -> {"t", "p", "l", "h", "?", "word"}] : n \in 0 .. 4}

(* All commands up to one character more than the maximum; nine characters *)
(* are enough for a fifth argument, which outgrows the vector's block.     *)
AllCommands == UNION {[1 .. n -> {Blank, Letter}] : n \in 0 .. MAX_COMMAND_LEN + 1}

-----------------------------------------------------------------------------
(* Documents that hold one element of each kind the parser tells apart:    *)
(* arrays that are absent, empty, partly of another type or complete,      *)
(* numbers that are exact, rounded and out of range.                       *)

Filter(caps, arches, min) == [caps |-> caps, arches |-> arches, minKernel |-> min]
Arg(index, value, op) == [index |-> index, value |-> value, value_two |-> Null, op |-> op]
RuleOf(names, inc, exc, constraints) ==
  [names |-> names, action |-> "act", comment |-> "c", include |-> inc, exclude |-> exc, args |-> constraints]

AllRules ==
  { RuleOf(<<"n", "m">>, Null, Null, Null),
    RuleOf(<<"n", Null>>, Filter(<<"cap", Null>>, <<"x86">>, "4.8"), Null, << >>),
    RuleOf(<<"n">>, Filter(Null, << >>, Null), Filter(<<"cap">>, <<"x86", "arm">>, Null), Null),
    RuleOf(Null, Null, Null, <<Arg(0, 5, "eq"), Arg(1, 4, Null)>>),
    RuleOf(<< >>, Null, Filter(<<"cap">>, Null, Null), <<Arg(3, 15, "eq"), Null>>),
    RuleOf(<<"n">>, Null, Null, <<Arg(-1, Null, "ne")>>),
    Null }

AllArchs ==
  { Null, << >>,
    <<[architecture |-> "x86", subArchitectures |-> <<"x32", Null>>],
      [architecture |-> "arm", subArchitectures |-> << >>]>>,
    <<[architecture |-> Null, subArchitectures |-> <<"x32">>], Null>> }

Profile(def, errno, archs, rules) ==
  [defaultAction |-> def, defaultErrnoRet |-> errno, archMap |-> archs, syscalls |-> rules]

AllRoots ==
  { Null, Profile(Null, 1, Null, Null), Profile("act", -1, Null, Null), Profile("act", 1, Null, << >>) }
  \cup {Profile("act", 1, archs, <<r>>) : archs \in AllArchs, r \in AllRules}
  \cup {Profile("act", Null, Null, <<RuleOf(<<"n", "m">>, Null, Null, Null), r>>) : r \in AllRules}

AllDocuments == [root : AllRoots, scarce : BOOLEAN]

-----------------------------------------------------------------------------
(* Address spaces with code and data of a program and a library, or        *)
(* anonymous, in ascending order as the kernel lists them.                 *)
Short(f) == [name |-> f, size |-> "short"]
Long(f) == [name |-> f, size |-> "long"]
Line(s, e, x, o, p, more) ==
  [start |-> s, end |-> e, exec |-> x, offset |-> o, path |-> p, rest |-> more]

(* What may stand in the rest of a line: nothing that reads as a mapping,  *)
(* or the name of code of its own, at the addresses of both mappings.      *)
NoMapping == [path |-> NoPath]
Posing == [start |-> 1, end |-> 4, exec |-> TRUE, path |-> Short("fake")]
Rests == {<<NoMapping>>, <<Posing>>, <<NoMapping, Posing>>}

Lines(s, e) ==
  {Line(s, e, x, o, p, << >>) : x \in BOOLEAN, o \in {0, 1}, p \in {NoPath} \cup {Short("exe"), Long("lib")}}
  \cup {Line(s, e, x, 0, Long("lib"), more) : x \in BOOLEAN, more \in Rests}
AllMaps ==
  {<< >>} \cup {<<m, n>> : m \in Lines(1, 3), n \in Lines(3, 4)}
          \cup {<<m, n>> : m \in Lines(0, 1), n \in Lines(2, 4)}

-----------------------------------------------------------------------------
Input(l, d, c, m, r) == [line |-> l, doc |-> d, cmd |-> c, maps |-> m, rip |-> r]
Complete == <<"t", "p", "l">>
Small == [root |-> Profile("act", 1, Null, << >>), scarce |-> FALSE]

Locations == {Input(Complete, Small, <<Letter>>, m, r) : m \in AllMaps, r \in Addresses}

OneVaried ==
  {Input(l, Small, <<Letter>>, << >>, 0) : l \in AllLines}
  \cup {Input(Complete, d, <<Letter>>, << >>, 0) : d \in AllDocuments}
  \cup {Input(Complete, Small, c, << >>, 0) : c \in AllCommands}
  \cup Locations
=============================================================================
