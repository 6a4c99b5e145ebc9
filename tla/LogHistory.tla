----------------------------- MODULE LogHistory -----------------------------
(***************************************************************************)
(* One --log path used by several runs of sec-seer, one after the other.   *)
(* A run starts with a fresh first_in_array, logs violations and ends      *)
(* either in logger_close() or without it: the observer's error exits and  *)
(* the death of the tracer both skip the call.  The file outlives the run. *)
(***************************************************************************)
EXTENDS Logger

CONSTANTS
  MaxRuns,    \* bound: runs on the same path
  MaxPerRun   \* bound: violations a run logs

ASSUME HistoryAssumption == MaxRuns \in Nat /\ MaxPerRun \in Nat

VARIABLES
  phase,     \* what the latest run is doing
  history    \* for each run, the violations whose call returned 0

historyVars == <<file, first_in_array, ret, phase, history>>

Init ==
  /\ LoggerInit
  /\ phase = "idle"
  /\ history = << >>

(* observer_loop() is entered: its local first_in_array is 1. *)
StartRun ==
  /\ phase # "logging"
  /\ Len(history) < MaxRuns
  /\ phase' = "logging"
  /\ first_in_array' = TRUE
  /\ history' = Append(history, << >>)
  /\ UNCHANGED <<file, ret>>

LogViolation(v) ==
  /\ phase = "logging"
  /\ Len(history[Len(history)]) < MaxPerRun
  /\ log_seccomp_violation(v)
  /\ history' = IF ret' = 0 THEN [history EXCEPT ![Len(history)] = Append(history[Len(history)], v)]
                            ELSE history
  /\ UNCHANGED phase

Close ==
  /\ phase = "logging"
  /\ logger_close
  /\ phase' = "closed"
  /\ UNCHANGED history

(* exit(EXIT_FAILURE) in the loop, or the tracer is killed. *)
Crash ==
  /\ phase = "logging"
  /\ phase' = "crashed"
  /\ UNCHANGED <<file, first_in_array, ret, history>>

Next ==
  \/ StartRun
  \/ \E v \in Records : LogViolation(v)
  \/ Close
  \/ Crash

Spec == Init /\ [][Next]_historyVars

-----------------------------------------------------------------------------
(* Reading the file back: every '[' starts a run, whatever precedes it.    *)

ReadChunk(runs, c) ==
  IF c.sep = "[" THEN Append(runs, <<c.rec>>)
  ELSE IF c.sep = "," /\ runs # << >>
  THEN [runs EXCEPT ![Len(runs)] = Append(runs[Len(runs)], c.rec)]
  ELSE runs

RunsIn(chunks) ==
  LET read[i \in 0 .. Len(chunks)] ==
        IF i = 0 THEN << >> ELSE ReadChunk(read[i - 1], chunks[i])
  IN read[Len(chunks)]

(* The runs that logged anything. *)
KeepRun(runs, run) == IF run = << >> THEN runs ELSE Append(runs, run)

NonEmpty(runs) ==
  LET kept[r \in 0 .. Len(runs)] ==
        IF r = 0 THEN << >> ELSE KeepRun(kept[r - 1], runs[r])
  IN kept[Len(runs)]

(* Whatever mixture of completed runs, runs without violations, crashed    *)
(* runs and failed calls the path has seen, cutting the file at each '['   *)
(* gives back exactly the violations of each run that logged any, in       *)
(* order: the flag that log_seccomp_violation() keeps is right even when   *)
(* its first calls fail, and a crashed run never lends its array to the    *)
(* next one.                                                               *)
RunsRecoverable == RunsIn(file) = NonEmpty(history)
=============================================================================
