------------------------------- MODULE Logger -------------------------------
(***************************************************************************)
(* The violation log of src/src/logger/logger.c.                           *)
(*                                                                         *)
(* Each call opens the --log path in append mode, writes a few bytes       *)
(* through stdio and closes it again, so the file grows by at most one     *)
(* chunk per call.  A chunk is the separator character the call wrote      *)
(* together with the serialized violation object that follows it; the text *)
(* of the object and the newlines are left out.  The closing call's chunk  *)
(* has no object.                                                          *)
(*                                                                         *)
(* LogFaults names the failures of the environment that a run allows:      *)
(*   "call"   memory is exhausted or fopen() fails: the call returns -1;   *)
(*   "write"  fputc/fputs/fclose cannot store all the bytes (disk full,    *)
(*            I/O error); the code checks none of their results.           *)
(***************************************************************************)
EXTENDS Naturals, Integers, Sequences

CONSTANTS
  Records,     \* the violations that can be logged
  NoRecord,    \* the closing chunk carries no object
  Torn,        \* an object that is missing or cut short on disk
  LogFaults    \* the faults allowed, a subset of {"call", "write"}

ASSUME LoggerAssumption ==
  /\ LogFaults \subseteq {"call", "write"}
  /\ NoRecord \notin Records
  /\ Torn \notin Records
  /\ Torn # NoRecord

VARIABLES
  file,            \* the chunks in the log file, oldest first
  first_in_array,  \* the caller's flag: no '[' written yet in this process
  ret              \* what the last call returned

logVars == <<file, first_in_array, ret>>

Seps == {"[", ",", "]"}
Chunk == [sep : Seps, rec : Records \cup {NoRecord, Torn}]

LoggerTypeOK ==
  /\ file \in Seq(Chunk)
  /\ first_in_array \in BOOLEAN
  /\ ret \in {0, -1}

LoggerInit ==
  /\ file = << >>
  /\ first_in_array = TRUE
  /\ ret = 0

-----------------------------------------------------------------------------
(* log_seccomp_violation() *)

ViolationChunk(v) == [sep |-> IF first_in_array THEN "[" ELSE ",", rec |-> v]

(* A plausible bug: the flag is cleared before fopen() is known to work. *)
ViolationNotWritten_FlagCleared ==
  /\ "call" \in LogFaults
  /\ ret' = -1
  /\ first_in_array' = FALSE
  /\ UNCHANGED file

(* Every early return, from the failed allocation of the object to the     *)
(* failed fopen(): nothing is written and the flag keeps its value.        *)
ViolationNotWritten ==
  /\ "call" \in LogFaults
  /\ ret' = -1
  /\ UNCHANGED <<file, first_in_array>>

(* All bytes reach the file. *)
ViolationWritten(v) ==
  /\ file' = Append(file, ViolationChunk(v))
  /\ first_in_array' = FALSE
  /\ ret' = 0

(* The unchecked writes lose all the bytes, or all after the separator:    *)
(* the flag is cleared and the call reports success all the same.          *)
ViolationCutShort(v) ==
  /\ "write" \in LogFaults
  /\ \/ file' = file
     \/ file' = Append(file, ViolationChunk(Torn))
  /\ first_in_array' = FALSE
  /\ ret' = 0

log_seccomp_violation(v) ==
  \/ ViolationNotWritten
  \/ ViolationWritten(v)
  \/ ViolationCutShort(v)

-----------------------------------------------------------------------------
(* logger_close(): ']' is written whatever was logged before. *)

CloseChunk == [sep |-> "]", rec |-> NoRecord]

logger_close ==
  /\ \/ /\ file' = Append(file, CloseChunk)
        /\ ret' = 0
     \/ /\ "call" \in LogFaults
        /\ file' = file
        /\ ret' = -1
     \/ /\ "write" \in LogFaults
        /\ file' = file
        /\ ret' = 0
  /\ UNCHANGED first_in_array

-----------------------------------------------------------------------------
(* What a reader of the file can say about a sequence of chunks. *)

(* An array that lacks only its ']': empty, or '[' and then ','.  Every    *)
(* object is whole.                                                        *)
IsOpenArray(s) ==
  \A i \in 1 .. Len(s) : /\ s[i].sep = IF i = 1 THEN "[" ELSE ","
                         /\ s[i].rec \in Records

(* A complete JSON array. *)
IsArray(s) ==
  /\ Len(s) > 1
  /\ s[Len(s)] = CloseChunk
  /\ IsOpenArray(SubSeq(s, 1, Len(s) - 1))
=============================================================================
