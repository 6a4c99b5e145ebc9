--------------------------- MODULE SourceLocation ---------------------------
(***************************************************************************)
(* get_source_location() of observer.c: from the instruction pointer of a  *)
(* stopped target to what addr2line is asked.  /proc/<pid>/maps, the       *)
(* target that may be killed while it is read, and addr2line are external. *)
(*                                                                         *)
(* A line is a mapping [start, end, exec, offset, path, rest].  Its path   *)
(* is NoPath or [name, size]; one that is not "short" is cut by %255s, or  *)
(* at a blank.  A path that outgrows the 512-byte buffer too is handed out *)
(* by further calls of fgets(), and the text of a path is for the target   *)
(* to choose: rest is what sscanf() makes of each of those buffers, a      *)
(* record of its own with NoPath where it does not fill the four fields.   *)
(***************************************************************************)
EXTENDS NullPointer, Integers, Sequences

CONSTANT NoPath

VARIABLES
  maps,     \* the lines of /proc/<pid>/maps
  rip,
  killed,   \* whether the target was killed meanwhile: the file ends early
  locPc,    \* "fopen", "fgets", "found", "answer", "done"
  k,        \* the number of lines read
  pieces,   \* the number of further buffers read of line k
  base, file,           \* the mapping that was found
  asked,                \* the file and the offset addr2line is asked for
  func_name, file_line  \* the result

locVars == <<maps, rip, killed, locPc, k, pieces, base, file, asked, func_name, file_line>>

(* sscanf() fills all four fields; it does so for a mapping with a path. *)
Matches(m) == m.path # NoPath

(* %255s *)
PathRead(p) == [name |-> p.name, cut |-> p.size # "short"]

(* A plausible bug: the permissions are not looked at. *)
IsCodeOf_AnyPerms(m) == Matches(m) /\ rip >= m.start /\ rip < m.end

IsCodeOf(m) == Matches(m) /\ rip >= m.start /\ rip < m.end /\ m.exec

(* The mappings and the instruction pointer are given. *)
LocInit ==
  /\ killed = FALSE /\ locPc = "fopen" /\ k = 0 /\ pieces = 0
  /\ base = 0 /\ file = Null /\ asked = Null
  /\ func_name = Null /\ file_line = Null

(* SIGKILL does not wait for the tracer. *)
TargetKilled ==
  /\ ~killed /\ locPc \in {"fopen", "fgets"} /\ killed' = TRUE
  /\ UNCHANGED <<maps, rip, locPc, k, pieces, base, file, asked, func_name, file_line>>

Step(label) == locPc' = label /\ UNCHANGED <<maps, rip, killed>>
KeepResult == UNCHANGED <<func_name, file_line>>

OpenMaps ==
  /\ locPc = "fopen"
  /\ \/ Step("fgets")
     \/ killed /\ Step("done")
  /\ KeepResult /\ UNCHANGED <<k, pieces, base, file, asked>>

(* What the loop does with a buffer, whichever part of a line it holds. *)
Examine(m) ==
  /\ IF IsCodeOf(m) THEN base' = m.start /\ file' = PathRead(m.path) /\ Step("found")
                    ELSE Step("fgets") /\ UNCHANGED <<base, file>>
  /\ KeepResult /\ UNCHANGED asked

LineRead == k > 0 => pieces = Len(maps[k].rest)

ReadMapping ==
  /\ locPc = "fgets" /\ LineRead /\ k < Len(maps)
  /\ k' = k + 1 /\ pieces' = 0
  /\ Examine(maps[k + 1])

ReadRest ==
  /\ locPc = "fgets" /\ ~LineRead
  /\ pieces' = pieces + 1 /\ UNCHANGED k
  /\ Examine(maps[k].rest[pieces + 1])

AtEnd == (k = Len(maps) /\ LineRead) \/ killed

NotFound ==
  /\ locPc = "fgets" /\ AtEnd
  /\ Step("done") /\ KeepResult /\ UNCHANGED <<k, pieces, base, file, asked>>

(* The offset is counted from the start of the mapping. *)
AskAddr2line ==
  /\ locPc = "found"
  /\ \/ Step("answer") /\ asked' = [file |-> file, offset |-> rip - base]
     \/ Step("done") /\ UNCHANGED asked                      \* popen() fails
  /\ KeepResult /\ UNCHANGED <<k, pieces, base, file>>

(* Two lines, one or none; a line that was not read is the empty string,   *)
(* and the newline is only removed if both were read.                      *)
ReadAnswer ==
  /\ locPc = "answer" /\ Step("done")
  /\ \/ func_name' = "line" /\ file_line' = "line"
     \/ func_name' = "line and newline" /\ file_line' = ""
     \/ func_name' = "" /\ file_line' = ""
  /\ UNCHANGED <<k, pieces, base, file, asked>>

LocStep == OpenMaps \/ ReadMapping \/ ReadRest \/ NotFound \/ AskAddr2line \/ ReadAnswer

LocNext == LocStep \/ TargetKilled

-----------------------------------------------------------------------------
(* Properties. *)

(* The instruction pointer is in the code of line n. *)
CodeAt(n) == maps[n].exec /\ maps[n].start <= rip /\ rip < maps[n].end

FileAt(n) == CodeAt(n) /\ maps[n].path # NoPath

(* A further buffer of line n poses as the code at the instruction pointer. *)
Poses(n, q) == /\ maps[n].rest[q].path # NoPath /\ maps[n].rest[q].exec
               /\ maps[n].rest[q].start <= rip /\ rip < maps[n].rest[q].end

(* f is the name in path p, whole if it is short enough. *)
IsNameIn(f, p) == f.name = p.name /\ (~f.cut <=> p.size = "short")

(* addr2line is asked about the file whose code the instruction pointer is *)
(* in, and it is asked if there is such a file, the target lives and       *)
(* popen() works.  What it may be asked about instead is named in the rest *)
(* of a line that does not fit the buffer, if that rest reads as a mapping *)
(* around the instruction pointer and its line is not behind the file's.   *)
RightMapping ==
  /\ asked # Null =>
       \/ \E n \in 1 .. Len(maps) : FileAt(n) /\ IsNameIn(asked.file, maps[n].path)
       \/ \E n \in 1 .. Len(maps) : \E q \in 1 .. Len(maps[n].rest) :
            /\ Poses(n, q) /\ IsNameIn(asked.file, maps[n].rest[q].path)
            /\ \A h \in 1 .. n : ~FileAt(h)
  /\ locPc = "done" /\ file = Null /\ ~killed => ~\E n \in 1 .. Len(maps) : FileAt(n)

(* observer.c, line 69: "addr2line wants the file offset, not the runtime  *)
(* address": the offset it is given is where the code is in its file.      *)
AsksFileOffset ==
  asked # Null =>
    \E n \in 1 .. Len(maps) : CodeAt(n) /\ asked.offset = rip - maps[n].start + maps[n].offset
=============================================================================
