-------------------------------- MODULE Main --------------------------------
(***************************************************************************)
(* The sequential code of the parent process, put together: main() calls   *)
(* parse_JSON() and split_command(), whose steps are those of              *)
(* ProfileParser and SplitCommand, and releases what they made; after      *)
(* fork() the observer calls get_source_location() for a stop of the       *)
(* target.  The calls that make the filter are single steps here; CtxBuild *)
(* has their insides, and Tracer has the observer's loop.                  *)
(***************************************************************************)
EXTENDS Startup, SplitCommand, ProfileParser, SourceLocation

CONSTANT Inputs   \* what the process is given: records [line, doc, cmd, maps, rip]

(* What sscanf() reads in a buffer, and the question about it, are values. *)
Readable(b, x) ==
  b.path # NoPath =>
    /\ b.start \in Nat /\ b.end \in Nat /\ b.exec \in BOOLEAN
    /\ PathRead(b.path) # Null /\ [file |-> PathRead(b.path), offset |-> x.rip - b.start] # Null

(* Lines, commands and maps are sequences; the NUL is not part of a        *)
(* command; and what a pointer points at is not the NULL pointer.          *)
ASSUME InputsAssumption ==
  \A x \in Inputs :
    /\ x.line \in Seq({"t", "p", "l", "h", "?", "word"}) /\ x.doc \in Documents
    /\ x.cmd \in Seq({x.cmd[n] : n \in DOMAIN x.cmd}) /\ \A n \in DOMAIN x.cmd : x.cmd[n] # "NUL"
    /\ x.maps \in Seq({x.maps[n] : n \in DOMAIN x.maps}) /\ x.rip \in Nat
    /\ \A m \in {x.maps[n] : n \in DOMAIN x.maps} :
         /\ Readable(m, x) /\ m.rest \in Seq({m.rest[q] : q \in DOMAIN m.rest})
         /\ \A q \in DOMAIN m.rest : Readable(m.rest[q], x)

mainVars == <<startVars, parserVars, splitVars, locVars>>

MainInit ==
  /\ \E x \in Inputs : /\ line = x.line /\ doc = x.doc /\ cmd = x.cmd
                       /\ maps = x.maps /\ rip = x.rip
  /\ StartInit /\ ParserInit /\ SplitInit /\ LocInit

ReadOptions == (GetOpt \/ OptionsDone) /\ UNCHANGED <<parserVars, splitVars, locVars>>

parse_JSON == pc = "parse" /\ ParserNext /\ UNCHANGED <<startVars, splitVars, locVars>>

ParseReturns ==
  /\ parsePc \in {"done", "failed"} /\ ParseProfile
  /\ "profile" \in owned' <=> parsePc = "done"
  /\ UNCHANGED <<parserVars, splitVars, locVars>>

(* free_profile(), where main() calls it. *)
ReleaseProfile ==
  IF "profile" \in owned \ owned'
  THEN /\ heap' = heap - free_profile(profile) /\ profile' = Zeroed /\ parsePc' = "freed"
       /\ UNCHANGED <<doc, i, j, open, ret>>
  ELSE UNCHANGED parserVars

MakeFilter ==
  /\ MakeRuntime \/ BuildContext
  /\ ReleaseProfile /\ UNCHANGED <<splitVars, locVars>>

split_command == pc = "split" /\ SplitNext /\ UNCHANGED <<startVars, parserVars, locVars>>

SplitReturns ==
  /\ splitPc \in {"done", "exit"} /\ SplitTarget
  /\ "target_argv" \in owned' <=> splitPc = "done"
  /\ UNCHANGED <<parserVars, splitVars, locVars>>

(* The loop up to the NULL pointer, then the array. *)
ReleaseArgv ==
  IF "target_argv" \in owned \ owned'
  THEN LET null == SelectInSeq(argv, LAMBDA a : a = Null)
       IN /\ splitHeap' = splitHeap - (null - 1) - 1
          /\ argv' = << >> /\ splitPc' = "freed"
          /\ UNCHANGED <<cmd, start, end, args>>
  ELSE UNCHANGED splitVars

ForkTarget == Fork /\ ReleaseProfile /\ ReleaseArgv /\ UNCHANGED locVars

Observing == pc = "observe" /\ UNCHANGED <<startVars, parserVars, splitVars>>

MainStep ==
  \/ ReadOptions \/ parse_JSON \/ ParseReturns \/ MakeFilter \/ split_command \/ SplitReturns
  \/ ForkTarget \/ (Observing /\ LocStep)

MainDone == (pc = "exit" \/ locPc = "done") /\ UNCHANGED mainVars

MainNext == MainStep \/ (Observing /\ TargetKilled) \/ MainDone

(* A single thread; nothing it waits for can fail to happen. *)
MainSpec == MainInit /\ [][MainNext]_mainVars /\ WF_mainVars(MainStep)

-----------------------------------------------------------------------------
(* Properties. *)

(* When the parent starts to observe, it has released every block of the   *)
(* profile and of the argument vector.  An exit leaves the profile behind  *)
(* only from split_command() or from a fork() that fails.                  *)
AllReleased ==
  /\ pc = "observe" => heap = 0 /\ splitHeap = 0
  /\ pc = "exit" /\ heap > 0 => splitPc # "setup"

(* Every loop of main(), of the parser, of the tokenizer and of the search *)
(* in the maps comes to an end.                                            *)
MainEnds == <>(pc = "exit" \/ locPc = "done")
=============================================================================
