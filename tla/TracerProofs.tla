---------------------------- MODULE TracerProofs ----------------------------
(***************************************************************************)
(* Proofs about module Tracer, for every set of system calls, descendants, *)
(* policies and environment events and for all bounds.                     *)
(***************************************************************************)
EXTENDS Tracer, TLAPS

(* What the tracer knows of the child when it is not waiting for it, and   *)
(* what a stop means: the part of the inductive invariant that the ptrace  *)
(* protocol rests on.                                                      *)
StopInv ==
  /\ tracer = "fork" => proc = "none"
  /\ proc = "none" => /\ tracer \in {"fork", "fail", "killed"}
                      /\ why = "none" /\ at = "traceme"
  /\ proc = "stopped" => why \in StopReasons
  /\ proc = "running" => why \notin DeathReasons
  /\ cur # NoCall => at \in {"execve", "target", "perror", "exit"}
  /\ cur = Execve => at \in {"execve", "target"}
  /\ proc = "stopped" => (cur # NoCall <=> why = "seccomp")
  /\ tracer \in {"setoptions", "cont", "getregs", "log"} => proc # "running"
  /\ tracer \in {"close", "done", "fail"} => ~Alive
  /\ tracer = "getregs" /\ proc = "stopped" => why = "seccomp"
  /\ tracer = "log" => regs = cur /\ cur # NoCall

(* Who is attached, with which options, when the filter is there.          *)
AttachInv ==
  /\ at = "traceme" => ~traced /\ ~opts
  /\ tracer \in {"fork", "handshake", "setoptions"} => ~opts
  /\ tracer \in {"cont", "wait", "getregs", "log", "close"} => opts
  /\ at \notin {"traceme", "raise"} /\ traced /\ ~opts => proc # "running"
  /\ at \in {"traceme", "raise", "load"} => ~loaded
  /\ at \in {"execve", "target", "fault"} => loaded
  /\ Alive /\ tracer # "killed" /\ (loaded \/ at \in {"raise", "load"}) => traced
  /\ Alive /\ tracer # "killed" /\ opts => traced
  /\ proc = "stopped" => traced \/ tracer = "killed"
  /\ tracer = "killed" /\ traced => ~opts

(* A tracee is never reaped behind the loop's back, and only SIGKILL ends  *)
(* one that the loop has stopped.                                          *)
ReapInv ==
  /\ tracer = "wait" => proc # "gone"
  /\ tracer \in {"cont", "getregs", "log"} =>
       proc = "stopped" \/ (proc = "zombie" /\ why = "SIGKILL")

Inv ==
  /\ TypeOK /\ StopInv /\ AttachInv /\ ReapInv
  /\ OptionsBeforeFilter /\ NoSilentRefusal /\ SignalsAreDropped

-----------------------------------------------------------------------------
(* The constants that name system calls are different members of Syscalls. *)
LEMMA CallFacts ==
  /\ {Execve, ExitGroup, Clone, Write} \subseteq Syscalls
  /\ Execve \notin {ExitGroup, Clone, Write}
  /\ ExitGroup \notin {Clone, Write} /\ Clone # Write
  /\ NoCall \notin Syscalls
BY TracerAssumption

(* Appending an element of S to a sequence over S. *)
LEMMA AppendType ==
  ASSUME NEW S, NEW q \in Seq(S), NEW e \in S
  PROVE  Append(q, e) \in Seq(S)
OBVIOUS

(* The Boolean variables, apart: their types are a matter for Zenon. *)
FlagsOK ==
  /\ autoreap \in BOOLEAN /\ unwaited \in BOOLEAN /\ traced \in BOOLEAN
  /\ opts \in BOOLEAN /\ loaded \in BOOLEAN /\ refused \in BOOLEAN
  /\ first_in_array \in BOOLEAN

(* Every step leaves them Boolean. *)
LEMMA FlagsStep ==
  ASSUME FlagsOK, Next
  PROVE  FlagsOK'
<1> USE DEF FlagsOK, tracerVars, childVars, kernelVars, historyVars, logVars
<1>1. CASE Fork
  BY <1>1, Zenon DEF Fork
<1>2. CASE HandshakeWait
  BY <1>2, Zenon DEF HandshakeWait, WaitPid
<1>3. CASE SetOptions
  BY <1>3, Zenon DEF SetOptions, KillAndExit
<1>4. CASE Cont
  BY <1>4, Zenon DEF Cont, KillAndExit
<1>5. CASE Wait
  BY <1>5, Zenon DEF Wait, WaitPid
<1>6. CASE GetRegs
  BY <1>6, Zenon DEF GetRegs
<1>7. CASE Log
  BY <1>7, Zenon DEF Log, log_seccomp_violation, ViolationNotWritten,
      ViolationWritten, ViolationCutShort
<1>8. CASE Close
  BY <1>8, Zenon DEF Close, logger_close
<1>9. CASE TraceMe
  BY <1>9, Zenon DEF TraceMe
<1>10. CASE Raise
  BY <1>10, Zenon DEF Raise, Stop, Die
<1>11. CASE SeccompLoad
  BY <1>11, Zenon DEF SeccompLoad
<1>12. ASSUME NEW s \in Syscalls, ChildAllowed(s) PROVE FlagsOK'
  BY <1>12, Zenon DEF ChildAllowed, Perform, Exec, Return, Stop, Die
<1>13. ASSUME NEW s \in Syscalls, ChildFlagged(s) PROVE FlagsOK'
  BY <1>13, Zenon DEF ChildFlagged, Stop
<1>14. ASSUME NEW s \in Syscalls, ChildNoTracer(s) PROVE FlagsOK'
  BY <1>14, Zenon DEF ChildNoTracer, Return
<1>15. ASSUME NEW s \in Syscalls, ChildDenied(s) PROVE FlagsOK'
  BY <1>15, Zenon DEF ChildDenied, Return
<1>16. ASSUME NEW s \in Syscalls, ChildKilled(s) PROVE FlagsOK'
  BY <1>16, Zenon DEF ChildKilled, Die
<1>17. ASSUME NEW s \in Syscalls, ChildTrapped(s) PROVE FlagsOK'
  BY <1>17, Zenon DEF ChildTrapped, Stop, Die
<1>18. CASE ChildResumed
  BY <1>18, Zenon DEF ChildResumed, Perform, Exec, Return, Stop, Die
<1>19. CASE Fault
  BY <1>19, Zenon DEF Fault, Stop, Die
<1>20. ASSUME NEW k \in Kids, NEW s \in Syscalls, KidCall(k, s) PROVE FlagsOK'
  BY <1>20, Zenon DEF KidCall
<1>21. CASE ExternalSignal
  BY <1>21, Zenon DEF ExternalSignal, Stop, Die
<1>22. CASE Sigkill
  BY <1>22, Zenon DEF Sigkill, Die
<1>23. CASE TracerKilled
  BY <1>23, Zenon DEF TracerKilled
<1>24. CASE Terminated
  BY <1>24, Zenon DEF Terminated, vars
<1> QED
  BY <1>1, <1>2, <1>3, <1>4, <1>5, <1>6, <1>7, <1>8, <1>9, <1>10, <1>11,
      <1>12, <1>13, <1>14, <1>15, <1>16, <1>17, <1>18, <1>19, <1>20, <1>21,
      <1>22, <1>23, <1>24 DEF Next, TracerStep, ChildStep, ChildCall,
      Environment

(* Types: the record that Log writes is a system call because the tracer   *)
(* read it from a child stopped by the filter.                             *)
LEMMA TypeStep ==
  ASSUME TypeOK, StopInv, Next
  PROVE  TypeOK'
<1>0. FlagsOK'
  BY FlagsStep DEF TypeOK, FlagsOK, LoggerTypeOK
<1> USE <1>0 DEF FlagsOK, TypeOK, LoggerTypeOK, StopReasons, DeathReasons,
    TracerPoints, tracerVars, childVars, kernelVars, historyVars, logVars
<1>1. CASE Fork
  BY <1>1 DEF Fork
<1>2. CASE HandshakeWait
  BY <1>2 DEF HandshakeWait, WaitPid, WaitStatus, WaitReady, StopInv
<1>3. CASE SetOptions
  BY <1>3 DEF SetOptions, KillAndExit
<1>4. CASE Cont
  BY <1>4 DEF Cont, KillAndExit
<1>5. CASE Wait
  BY <1>5 DEF Wait, WaitPid, WaitStatus, AfterWait, WaitReady, StopInv
<1>6. CASE GetRegs
  BY <1>6 DEF GetRegs
<1>7. CASE Log
  <2>1. regs \in Records
    BY <1>7 DEF Log, StopInv, Syscalls
  <2>2. ViolationChunk(regs) \in Chunk /\ ViolationChunk(Torn) \in Chunk
    BY <2>1 DEF ViolationChunk, Chunk, Seps
  <2>3. /\ Append(file, ViolationChunk(regs)) \in Seq(Chunk)
        /\ Append(file, ViolationChunk(Torn)) \in Seq(Chunk)
    BY <2>2, AppendType
  <2>4. file' \in Seq(Chunk) /\ ret' \in {0, -1}
    BY <1>7, <2>3 DEF Log, log_seccomp_violation, ViolationNotWritten,
       ViolationWritten, ViolationCutShort
  <2> QED
    BY <1>7, <2>4 DEF Log
<1>8. CASE Close
  <2>1. Append(file, CloseChunk) \in Seq(Chunk)
    <3>1. CloseChunk \in Chunk
      BY DEF CloseChunk, Chunk, Seps
    <3> QED
      BY <3>1, AppendType
  <2>2. file' \in Seq(Chunk) /\ ret' \in {0, -1}
    BY <1>8, <2>1 DEF Close, logger_close
  <2> QED
    BY <1>8, <2>2 DEF Close
<1>9. CASE TraceMe
  BY <1>9 DEF TraceMe
<1>10. CASE Raise
  BY <1>10 DEF Raise, Stop, Die
<1>11. CASE SeccompLoad
  BY <1>11 DEF SeccompLoad
<1>12. ASSUME NEW s \in Syscalls, ChildAllowed(s) PROVE TypeOK'
  BY <1>12 DEF ChildAllowed, Issue, Perform, Exec, Return, ReturnPoint, Stop,
      Die, NotStopped, Spawn
<1>13. ASSUME NEW s \in Syscalls, ChildFlagged(s) PROVE TypeOK'
  BY <1>13 DEF ChildFlagged, Issue, Stop
<1>14. ASSUME NEW s \in Syscalls, ChildNoTracer(s) PROVE TypeOK'
  BY <1>14 DEF ChildNoTracer, Issue, Return, ReturnPoint, NotStopped
<1>15. ASSUME NEW s \in Syscalls, ChildDenied(s) PROVE TypeOK'
  BY <1>15 DEF ChildDenied, Issue, Return, ReturnPoint, NotStopped
<1>16. ASSUME NEW s \in Syscalls, ChildKilled(s) PROVE TypeOK'
  BY <1>16 DEF ChildKilled, Issue, Die, NotStopped
<1>17. ASSUME NEW s \in Syscalls, ChildTrapped(s) PROVE TypeOK'
  BY <1>17 DEF ChildTrapped, Issue, Stop, Die, ReturnPoint, NotStopped
<1>18. CASE ChildResumed
  BY <1>18 DEF ChildResumed, Perform, Exec, Return, ReturnPoint, Stop, Die,
      Spawn
<1>19. CASE Fault
  BY <1>19 DEF Fault, Stop, Die
<1>20. ASSUME NEW k \in Kids, NEW s \in Syscalls, KidCall(k, s) PROVE TypeOK'
  BY <1>20 DEF KidCall, Spawn, NotStopped
<1>21. CASE ExternalSignal
  BY <1>21 DEF ExternalSignal, Stop, Die
<1>22. CASE Sigkill
  BY <1>22 DEF Sigkill, Die
<1>23. CASE TracerKilled
  BY <1>23 DEF TracerKilled
<1>24. CASE Terminated
  BY <1>24 DEF Terminated, vars
<1> QED
  BY <1>1, <1>2, <1>3, <1>4, <1>5, <1>6, <1>7, <1>8, <1>9, <1>10, <1>11,
      <1>12, <1>13, <1>14, <1>15, <1>16, <1>17, <1>18, <1>19, <1>20, <1>21,
      <1>22, <1>23, <1>24 DEF Next, TracerStep, ChildStep, ChildCall,
      Environment

(* The ptrace protocol: only a wait that reported a stop, or the death of   *)
(* the child, lets the tracer act on it.                                   *)
LEMMA StopStep ==
  ASSUME TypeOK, TypeOK', StopInv, Next
  PROVE  StopInv'
<1> USE DEF TypeOK, StopInv, Alive, Finished, StopReasons, DeathReasons,
    tracerVars, childVars, kernelVars, historyVars, logVars
<1>1. CASE Fork
  BY <1>1, CallFacts DEF Fork
<1>2. CASE HandshakeWait
  BY <1>2, CallFacts DEF HandshakeWait, WaitPid, WaitStatus, WaitReady
<1>3. CASE SetOptions
  BY <1>3, CallFacts DEF SetOptions, KillAndExit
<1>4. CASE Cont
  BY <1>4, CallFacts DEF Cont, KillAndExit
<1>5. CASE Wait
  BY <1>5, CallFacts DEF Wait, WaitPid, WaitStatus, AfterWait, WaitReady
<1>6. CASE GetRegs
  BY <1>6, CallFacts DEF GetRegs
<1>7. CASE Log
  BY <1>7, CallFacts DEF Log
<1>8. CASE Close
  BY <1>8, CallFacts DEF Close
<1>9. CASE TraceMe
  BY <1>9, CallFacts DEF TraceMe
<1>10. CASE Raise
  BY <1>10, CallFacts DEF Raise, Stop, Die
<1>11. CASE SeccompLoad
  BY <1>11, CallFacts DEF SeccompLoad
<1>12. ASSUME NEW s \in Syscalls, ChildAllowed(s) PROVE StopInv'
  BY <1>12, CallFacts DEF ChildAllowed, Issue, MayCall, Verdict, Perform,
      Exec, Return, ReturnPoint, Stop, Die
<1>13. ASSUME NEW s \in Syscalls, ChildFlagged(s) PROVE StopInv'
  BY <1>13, CallFacts DEF ChildFlagged, Issue, MayCall, Verdict, Stop
<1>14. ASSUME NEW s \in Syscalls, ChildNoTracer(s) PROVE StopInv'
  BY <1>14, CallFacts DEF ChildNoTracer, Issue, MayCall, Verdict, Return,
      ReturnPoint
<1>15. ASSUME NEW s \in Syscalls, ChildDenied(s) PROVE StopInv'
  BY <1>15, CallFacts DEF ChildDenied, Issue, MayCall, Verdict, Return,
      ReturnPoint
<1>16. ASSUME NEW s \in Syscalls, ChildKilled(s) PROVE StopInv'
  BY <1>16, CallFacts DEF ChildKilled, Issue, MayCall, Verdict, Die
<1>17. ASSUME NEW s \in Syscalls, ChildTrapped(s) PROVE StopInv'
  BY <1>17, CallFacts DEF ChildTrapped, Issue, MayCall, Verdict, Stop, Die,
      ReturnPoint
<1>18. CASE ChildResumed
  BY <1>18, CallFacts DEF ChildResumed, Perform, Exec, Return, ReturnPoint,
      Stop, Die
<1>19. CASE Fault
  BY <1>19, CallFacts DEF Fault, Stop, Die
<1>20. ASSUME NEW k \in Kids, NEW s \in Syscalls, KidCall(k, s) PROVE StopInv'
  BY <1>20, CallFacts DEF KidCall
<1>21. CASE ExternalSignal
  BY <1>21, CallFacts DEF ExternalSignal, Stop, Die
<1>22. CASE Sigkill
  BY <1>22, CallFacts DEF Sigkill, Die
<1>23. CASE TracerKilled
  BY <1>23, CallFacts DEF TracerKilled
<1>24. CASE Terminated
  BY <1>24, CallFacts DEF Terminated, vars
<1> QED
  BY <1>1, <1>2, <1>3, <1>4, <1>5, <1>6, <1>7, <1>8, <1>9, <1>10, <1>11,
      <1>12, <1>13, <1>14, <1>15, <1>16, <1>17, <1>18, <1>19, <1>20, <1>21,
      <1>22, <1>23, <1>24 DEF Next, TracerStep, ChildStep, ChildCall,
      Environment

(* Attachment: the child is not resumed from its SIGTRAP before the option *)
(* is set, and stays attached while it lives.                              *)
LEMMA AttachStep ==
  ASSUME TypeOK, TypeOK', StopInv, AttachInv, Next
  PROVE  AttachInv'
<1> USE DEF TypeOK, StopInv, AttachInv, Alive, Finished, tracerVars,
    childVars, kernelVars, historyVars, logVars
<1>1. CASE Fork
  BY <1>1, CallFacts DEF Fork
<1>2. CASE HandshakeWait
  BY <1>2, CallFacts DEF HandshakeWait, WaitPid, WaitStatus, WaitReady
<1>3. CASE SetOptions
  BY <1>3, CallFacts DEF SetOptions, KillAndExit
<1>4. CASE Cont
  BY <1>4, CallFacts DEF Cont, KillAndExit
<1>5. CASE Wait
  BY <1>5, CallFacts DEF Wait, WaitPid, WaitStatus, AfterWait, WaitReady
<1>6. CASE GetRegs
  BY <1>6, CallFacts DEF GetRegs
<1>7. CASE Log
  BY <1>7, CallFacts DEF Log
<1>8. CASE Close
  BY <1>8, CallFacts DEF Close
<1>9. CASE TraceMe
  BY <1>9, CallFacts DEF TraceMe
<1>10. CASE Raise
  BY <1>10, CallFacts DEF Raise, Stop, Die
<1>11. CASE SeccompLoad
  BY <1>11, CallFacts DEF SeccompLoad
<1>12. ASSUME NEW s \in Syscalls, ChildAllowed(s) PROVE AttachInv'
  BY <1>12, CallFacts DEF ChildAllowed, Issue, MayCall, Verdict, Perform,
      Exec, Return, ReturnPoint, Stop, Die
<1>13. ASSUME NEW s \in Syscalls, ChildFlagged(s) PROVE AttachInv'
  BY <1>13, CallFacts DEF ChildFlagged, Issue, MayCall, Verdict, Stop
<1>14. ASSUME NEW s \in Syscalls, ChildNoTracer(s) PROVE AttachInv'
  BY <1>14, CallFacts DEF ChildNoTracer, Issue, MayCall, Verdict, Return,
      ReturnPoint
<1>15. ASSUME NEW s \in Syscalls, ChildDenied(s) PROVE AttachInv'
  BY <1>15, CallFacts DEF ChildDenied, Issue, MayCall, Verdict, Return,
      ReturnPoint
<1>16. ASSUME NEW s \in Syscalls, ChildKilled(s) PROVE AttachInv'
  BY <1>16, CallFacts DEF ChildKilled, Issue, MayCall, Verdict, Die
<1>17. ASSUME NEW s \in Syscalls, ChildTrapped(s) PROVE AttachInv'
  BY <1>17, CallFacts DEF ChildTrapped, Issue, MayCall, Verdict, Stop, Die,
      ReturnPoint
<1>18. CASE ChildResumed
  BY <1>18, CallFacts DEF ChildResumed, Perform, Exec, Return, ReturnPoint,
      Stop, Die
<1>19. CASE Fault
  BY <1>19, CallFacts DEF Fault, Stop, Die
<1>20. ASSUME NEW k \in Kids, NEW s \in Syscalls, KidCall(k, s) PROVE AttachInv'
  BY <1>20, CallFacts DEF KidCall
<1>21. CASE ExternalSignal
  BY <1>21, CallFacts DEF ExternalSignal, Stop, Die
<1>22. CASE Sigkill
  BY <1>22, CallFacts DEF Sigkill, Die
<1>23. CASE TracerKilled
  BY <1>23, CallFacts DEF TracerKilled
<1>24. CASE Terminated
  BY <1>24, CallFacts DEF Terminated, vars
<1> QED
  BY <1>1, <1>2, <1>3, <1>4, <1>5, <1>6, <1>7, <1>8, <1>9, <1>10, <1>11,
      <1>12, <1>13, <1>14, <1>15, <1>16, <1>17, <1>18, <1>19, <1>20, <1>21,
      <1>22, <1>23, <1>24 DEF Next, TracerStep, ChildStep, ChildCall,
      Environment

(* Reaping: a zombie stays until the loop waits for it. *)
LEMMA ReapStep ==
  ASSUME TypeOK, TypeOK', StopInv, AttachInv, ReapInv, Next
  PROVE  ReapInv'
<1> USE DEF TypeOK, StopInv, AttachInv, ReapInv, Alive, Finished, StopReasons,
    DeathReasons, tracerVars, childVars, kernelVars, historyVars, logVars
<1>1. CASE Fork
  BY <1>1 DEF Fork
<1>2. CASE HandshakeWait
  BY <1>2 DEF HandshakeWait, WaitPid, WaitStatus, WaitReady
<1>3. CASE SetOptions
  BY <1>3 DEF SetOptions, KillAndExit
<1>4. CASE Cont
  BY <1>4 DEF Cont, KillAndExit
<1>5. CASE Wait
  BY <1>5 DEF Wait, WaitPid, WaitStatus, AfterWait, WaitReady
<1>6. CASE GetRegs
  BY <1>6 DEF GetRegs
<1>7. CASE Log
  BY <1>7 DEF Log
<1>8. CASE Close
  BY <1>8 DEF Close
<1>9. CASE TraceMe
  BY <1>9 DEF TraceMe
<1>10. CASE Raise
  BY <1>10 DEF Raise, Stop, Die
<1>11. CASE SeccompLoad
  BY <1>11 DEF SeccompLoad
<1>12. ASSUME NEW s \in Syscalls, ChildAllowed(s) PROVE ReapInv'
  BY <1>12 DEF ChildAllowed, Issue, MayCall, Verdict, Perform, Exec, Return,
      ReturnPoint, Stop, Die
<1>13. ASSUME NEW s \in Syscalls, ChildFlagged(s) PROVE ReapInv'
  BY <1>13 DEF ChildFlagged, Issue, MayCall, Verdict, Stop
<1>14. ASSUME NEW s \in Syscalls, ChildNoTracer(s) PROVE ReapInv'
  BY <1>14 DEF ChildNoTracer, Issue, MayCall, Verdict, Return, ReturnPoint
<1>15. ASSUME NEW s \in Syscalls, ChildDenied(s) PROVE ReapInv'
  BY <1>15 DEF ChildDenied, Issue, MayCall, Verdict, Return, ReturnPoint
<1>16. ASSUME NEW s \in Syscalls, ChildKilled(s) PROVE ReapInv'
  BY <1>16 DEF ChildKilled, Issue, MayCall, Verdict, Die
<1>17. ASSUME NEW s \in Syscalls, ChildTrapped(s) PROVE ReapInv'
  BY <1>17 DEF ChildTrapped, Issue, MayCall, Verdict, Stop, Die, ReturnPoint
<1>18. CASE ChildResumed
  BY <1>18 DEF ChildResumed, Perform, Exec, Return, ReturnPoint, Stop, Die
<1>19. CASE Fault
  BY <1>19 DEF Fault, Stop, Die
<1>20. ASSUME NEW k \in Kids, NEW s \in Syscalls, KidCall(k, s) PROVE ReapInv'
  BY <1>20 DEF KidCall
<1>21. CASE ExternalSignal
  BY <1>21 DEF ExternalSignal, Stop, Die
<1>22. CASE Sigkill
  BY <1>22 DEF Sigkill, Die
<1>23. CASE TracerKilled
  BY <1>23 DEF TracerKilled
<1>24. CASE Terminated
  BY <1>24 DEF Terminated, vars
<1> QED
  BY <1>1, <1>2, <1>3, <1>4, <1>5, <1>6, <1>7, <1>8, <1>9, <1>10, <1>11,
      <1>12, <1>13, <1>14, <1>15, <1>16, <1>17, <1>18, <1>19, <1>20, <1>21,
      <1>22, <1>23, <1>24 DEF Next, TracerStep, ChildStep, ChildCall,
      Environment

(* The three safety properties that AttachInv makes inductive. *)
Attached == OptionsBeforeFilter /\ NoSilentRefusal /\ SignalsAreDropped

(* Every step preserves them. *)
LEMMA AttachedStep ==
  ASSUME TypeOK, TypeOK', StopInv, AttachInv, Attached, Next
  PROVE  Attached'
<1> USE DEF TypeOK, StopInv, AttachInv, Alive, Finished, DeathReasons,
    Attached, OptionsBeforeFilter, NoSilentRefusal, SignalsAreDropped,
    tracerVars, childVars, kernelVars, historyVars, logVars
<1>1. CASE Fork
  BY <1>1 DEF Fork
<1>2. CASE HandshakeWait
  BY <1>2 DEF HandshakeWait, WaitPid, WaitStatus, WaitReady
<1>3. CASE SetOptions
  BY <1>3 DEF SetOptions, KillAndExit
<1>4. CASE Cont
  BY <1>4 DEF Cont, KillAndExit
<1>5. CASE Wait
  BY <1>5 DEF Wait, WaitPid, WaitStatus, AfterWait, WaitReady
<1>6. CASE GetRegs
  BY <1>6 DEF GetRegs
<1>7. CASE Log
  BY <1>7 DEF Log
<1>8. CASE Close
  BY <1>8 DEF Close
<1>9. CASE TraceMe
  BY <1>9 DEF TraceMe
<1>10. CASE Raise
  BY <1>10 DEF Raise, Stop, Die
<1>11. CASE SeccompLoad
  BY <1>11 DEF SeccompLoad
<1>12. ASSUME NEW s \in Syscalls, ChildAllowed(s) PROVE Attached'
  BY <1>12 DEF ChildAllowed, Issue, MayCall, Verdict, Perform, Exec, Return,
      ReturnPoint, Stop, Die
<1>13. ASSUME NEW s \in Syscalls, ChildFlagged(s) PROVE Attached'
  BY <1>13 DEF ChildFlagged, Issue, MayCall, Verdict, Stop
<1>14. ASSUME NEW s \in Syscalls, ChildNoTracer(s) PROVE Attached'
  BY <1>14 DEF ChildNoTracer, Issue, MayCall, Verdict, Return, ReturnPoint
<1>15. ASSUME NEW s \in Syscalls, ChildDenied(s) PROVE Attached'
  BY <1>15 DEF ChildDenied, Issue, MayCall, Verdict, Return, ReturnPoint
<1>16. ASSUME NEW s \in Syscalls, ChildKilled(s) PROVE Attached'
  BY <1>16 DEF ChildKilled, Issue, MayCall, Verdict, Die
<1>17. ASSUME NEW s \in Syscalls, ChildTrapped(s) PROVE Attached'
  BY <1>17 DEF ChildTrapped, Issue, MayCall, Verdict, Stop, Die, ReturnPoint
<1>18. CASE ChildResumed
  BY <1>18 DEF ChildResumed, Perform, Exec, Return, ReturnPoint, Stop, Die
<1>19. CASE Fault
  BY <1>19 DEF Fault, Stop, Die
<1>20. ASSUME NEW k \in Kids, NEW s \in Syscalls, KidCall(k, s) PROVE Attached'
  BY <1>20 DEF KidCall
<1>21. CASE ExternalSignal
  BY <1>21 DEF ExternalSignal, Stop, Die
<1>22. CASE Sigkill
  BY <1>22 DEF Sigkill, Die
<1>23. CASE TracerKilled
  BY <1>23 DEF TracerKilled
<1>24. CASE Terminated
  BY <1>24 DEF Terminated, vars
<1> QED
  BY <1>1, <1>2, <1>3, <1>4, <1>5, <1>6, <1>7, <1>8, <1>9, <1>10, <1>11,
      <1>12, <1>13, <1>14, <1>15, <1>16, <1>17, <1>18, <1>19, <1>20, <1>21,
      <1>22, <1>23, <1>24 DEF Next, TracerStep, ChildStep, ChildCall,
      Environment

-----------------------------------------------------------------------------
(* The inductive invariant holds in every reachable state. *)
THEOREM Invariance == Spec => []Inv
<1>1. Init => Inv
  <2> SUFFICES ASSUME Init PROVE Inv
    OBVIOUS
  <2>1. FlagsOK
    BY Zenon DEF Init, LoggerInit, FlagsOK
  <2>2. TypeOK
    BY <2>1 DEF Init, LoggerInit, TypeOK, LoggerTypeOK, TracerPoints, FlagsOK
  <2> QED
    BY <2>2, CallFacts DEF Init, Inv, StopInv, AttachInv, ReapInv, OptionsBeforeFilter,
       NoSilentRefusal, SignalsAreDropped, Alive, DeathReasons
<1>2. Inv /\ [Next]_vars => Inv'
  <2> SUFFICES ASSUME Inv, [Next]_vars PROVE Inv'
    OBVIOUS
  <2>1. CASE Next
    <3>1. TypeOK'
      BY <2>1, TypeStep DEF Inv
    <3>2. StopInv' /\ AttachInv' /\ ReapInv'
      BY <2>1, <3>1, StopStep, AttachStep, ReapStep DEF Inv
    <3>3. Attached'
      BY <2>1, <3>1, AttachedStep DEF Inv, Attached
    <3> QED
      BY <3>1, <3>2, <3>3 DEF Inv, Attached
  <2>2. CASE UNCHANGED vars
    BY <2>2 DEF Inv, TypeOK, LoggerTypeOK, StopInv, AttachInv, ReapInv,
       OptionsBeforeFilter, NoSilentRefusal, SignalsAreDropped, Alive, vars,
       tracerVars, childVars, kernelVars, historyVars, logVars
  <2> QED
    BY <2>1, <2>2
<1> QED
  BY <1>1, <1>2, PTL DEF Spec

(* Every variable keeps its type; in particular no record is built from    *)
(* registers that were never read.                                         *)
THEOREM TypeCorrect == Spec => []TypeOK
<1>1. Inv => TypeOK
  BY DEF Inv
<1> QED
  BY <1>1, Invariance, PTL

(* The raise(SIGTRAP) handshake does what main.c line 126 says, for every  *)
(* policy and every behaviour of the environment.                          *)
THEOREM HandshakeWorks == Spec => []OptionsBeforeFilter
<1>1. Inv => OptionsBeforeFilter
  BY DEF Inv
<1> QED
  BY <1>1, Invariance, PTL

(* Only the death of the tracer makes a flagged call fail with ENOSYS. *)
THEOREM FlaggedCallsNotRefused == Spec => []NoSilentRefusal
<1>1. Inv => NoSilentRefusal
  BY DEF Inv
<1> QED
  BY <1>1, Invariance, PTL

(* Every exit of sec-seer, regular or by an error, leaves the child dead. *)
THEOREM NoOrphans == Spec => []NoOrphanTarget
<1>1. Inv => NoOrphanTarget
  BY DEF Inv, StopInv, NoOrphanTarget
<1> QED
  BY <1>1, Invariance, PTL

(* PTRACE_CONT with signal 0 shields the child from all signals but        *)
(* SIGKILL.                                                                *)
THEOREM SignalsDropped == Spec => []SignalsAreDropped
<1>1. Inv => SignalsAreDropped
  BY DEF Inv
<1> QED
  BY <1>1, Invariance, PTL

(* The loop gives up on PTRACE_CONT only when SIGKILL came between wait    *)
(* and PTRACE_CONT, and then the pid it kills is still its own zombie.     *)
THEOREM ErrorExitIsSafe == Spec => ErrorExitOnlyAfterSigkill
<1>1. Inv /\ [Next]_vars =>
        [tracer = "cont" /\ tracer' = "fail" =>
           proc = "zombie" /\ why = "SIGKILL"]_vars
  <2> SUFFICES ASSUME Inv, [Next]_vars, tracer = "cont", tracer' = "fail"
               PROVE  proc = "zombie" /\ why = "SIGKILL"
    OBVIOUS
  <2>1. proc = "stopped" \/ (proc = "zombie" /\ why = "SIGKILL")
    BY DEF Inv, ReapInv
  <2>2. Cont
    BY DEF Next, TracerStep, Fork, HandshakeWait, SetOptions, Wait, GetRegs,
        Log, Close, TraceMe, Raise, SeccompLoad, ChildAllowed, ChildFlagged,
        ChildNoTracer, ChildDenied, ChildKilled, ChildTrapped, ChildResumed,
        Fault, KidCall, ExternalSignal, Sigkill, TracerKilled, Terminated,
        ChildStep, ChildCall, Environment, vars, tracerVars, childVars,
        kernelVars, historyVars, logVars
  <2> QED
    BY <2>1, <2>2 DEF Cont
<1> QED
  BY <1>1, Invariance, PTL DEF Spec, ErrorExitOnlyAfterSigkill

-----------------------------------------------------------------------------
(* The log against the calls, and the interception of what rules forbid. *)

(* The log against the calls carried out, when the log does not fail.      *)
LogInv ==
  /\ \A i \in 1 .. Len(file) : file[i].sep = "]" <=> i = Len(file) /\ tracer = "done"
  /\ tracer = "done" => Len(file) > 0
  /\ ~opts => cur = NoCall
  /\ tracer # "killed" =>
       LoggedCalls = effects \/ (cur # NoCall /\ LoggedCalls = Append(effects, cur))
  /\ tracer # "killed" /\ proc = "running" /\ cur # NoCall =>
       LoggedCalls = Append(effects, cur)
  /\ tracer = "log" => LoggedCalls = effects
  /\ tracer \in {"getregs", "wait"} /\ proc = "stopped" => LoggedCalls = effects
  /\ tracer = "cont" /\ proc = "stopped" /\ cur # NoCall =>
       LoggedCalls = Append(effects, cur)

-----------------------------------------------------------------------------
(* The audit trail.                                                        *)

(* LoggedCalls depends on the file alone. *)
LEMMA LoggedSame ==
  ASSUME UNCHANGED file
  PROVE  LoggedCalls' = LoggedCalls
BY DEF LoggedCalls

(* A record appended to an open log is the last of LoggedCalls. *)
LEMMA LoggedAppend ==
  ASSUME file \in Seq(Chunk), NEW c \in Chunk, c.sep # "]",
         \A i \in 1 .. Len(file) : file[i].sep # "]",
         file' = Append(file, c)
  PROVE  LoggedCalls' = Append(LoggedCalls, c.rec)
<1>1. LoggedCalls = [i \in 1 .. Len(file) |-> file[i].rec]
  BY DEF LoggedCalls
<1>2. /\ Len(file') = Len(file) + 1 /\ file'[Len(file) + 1] = c
      /\ \A i \in 1 .. Len(file) : file'[i] = file[i]
      /\ file' # << >> /\ Len(file) \in Nat
  OBVIOUS
<1>3. LoggedCalls' = [i \in 1 .. Len(file) + 1 |-> file'[i].rec]
  BY <1>2 DEF LoggedCalls
<1>4. Append(LoggedCalls, c.rec) =
        [i \in 1 .. Len(file) + 1 |-> IF i = Len(file) + 1 THEN c.rec
                                                          ELSE file[i].rec]
  BY <1>1, <1>2
<1> QED
  BY <1>2, <1>3, <1>4

(* The closing bracket adds nothing to it. *)
LEMMA LoggedClose ==
  ASSUME file \in Seq(Chunk),
         \A i \in 1 .. Len(file) : file[i].sep # "]",
         file' = Append(file, CloseChunk)
  PROVE  LoggedCalls' = LoggedCalls
<1>1. LoggedCalls = [i \in 1 .. Len(file) |-> file[i].rec]
  BY DEF LoggedCalls
<1>2. /\ Len(file') = Len(file) + 1 /\ file'[Len(file) + 1] = CloseChunk
      /\ \A i \in 1 .. Len(file) : file'[i] = file[i]
      /\ file' # << >> /\ Len(file) \in Nat
  OBVIOUS
<1>3. LoggedCalls' = [i \in 1 .. Len(file) |-> file'[i].rec]
  BY <1>2 DEF LoggedCalls, CloseChunk
<1> QED
  BY <1>1, <1>2, <1>3

(* What Log does to an open log that does not fail. *)
LEMMA LogAppends ==
  ASSUME TypeOK, StopInv, LogInv, Log, LogFaults = {}
  PROVE  /\ LoggedCalls' = Append(LoggedCalls, cur)
         /\ cur \in Syscalls
         /\ \A i \in 1 .. Len(file') : file'[i].sep # "]"
<1>1. regs = cur /\ cur \in Syscalls
  BY CallFacts DEF TypeOK, StopInv, Log
<1>2. file' = Append(file, ViolationChunk(regs))
  BY DEF Log, log_seccomp_violation, ViolationNotWritten, ViolationWritten,
     ViolationCutShort
<1>3. /\ ViolationChunk(regs) \in Chunk /\ ViolationChunk(regs).sep # "]"
      /\ ViolationChunk(regs).rec = regs
  BY <1>1 DEF ViolationChunk, Chunk, Seps, Syscalls
<1>4. file \in Seq(Chunk) /\ \A i \in 1 .. Len(file) : file[i].sep # "]"
  BY DEF Log, LogInv, TypeOK, LoggerTypeOK
<1>5. LoggedCalls' = Append(LoggedCalls, cur)
  BY <1>1, <1>2, <1>3, <1>4, LoggedAppend
<1> QED
  BY <1>1, <1>2, <1>3, <1>4, <1>5

(* And what Close does. *)
LEMMA CloseCloses ==
  ASSUME TypeOK, LogInv, Close, LogFaults = {}
  PROVE  /\ LoggedCalls' = LoggedCalls
         /\ \A i \in 1 .. Len(file') : file'[i].sep = "]" <=> i = Len(file')
         /\ Len(file') > 0
<1>1. file' = Append(file, CloseChunk)
  BY DEF Close, logger_close
<1>2. file \in Seq(Chunk) /\ \A i \in 1 .. Len(file) : file[i].sep # "]"
  BY DEF Close, LogInv, TypeOK, LoggerTypeOK
<1>3. LoggedCalls' = LoggedCalls
  BY <1>1, <1>2, LoggedClose
<1> QED
  BY <1>1, <1>2, <1>3 DEF CloseChunk

(* A record is appended exactly between the stop and the resumption. *)
LEMMA LogStep ==
  ASSUME TypeOK, TypeOK', StopInv, AttachInv, LogInv, Next, LogFaults = {}
  PROVE  LogInv'
<1> USE DEF TypeOK, LoggerTypeOK, StopInv, AttachInv, LogInv, Alive, Finished,
    tracerVars, childVars, kernelVars, historyVars, logVars
<1>1. CASE Fork
  <2>1. LoggedCalls' = LoggedCalls
    BY <1>1, LoggedSame DEF Fork
  <2> QED
    BY <1>1, <2>1, CallFacts DEF Fork
<1>2. CASE HandshakeWait
  <2>1. LoggedCalls' = LoggedCalls
    BY <1>2, LoggedSame DEF HandshakeWait
  <2> QED
    BY <1>2, <2>1, CallFacts DEF HandshakeWait, WaitPid, WaitStatus, WaitReady
<1>3. CASE SetOptions
  <2>1. LoggedCalls' = LoggedCalls
    BY <1>3, LoggedSame DEF SetOptions
  <2> QED
    BY <1>3, <2>1, CallFacts DEF SetOptions, KillAndExit
<1>4. CASE Cont
  <2>1. LoggedCalls' = LoggedCalls
    BY <1>4, LoggedSame DEF Cont
  <2> QED
    BY <1>4, <2>1, CallFacts DEF Cont, KillAndExit
<1>5. CASE Wait
  <2>1. LoggedCalls' = LoggedCalls
    BY <1>5, LoggedSame DEF Wait
  <2> QED
    BY <1>5, <2>1, CallFacts DEF Wait, WaitPid, WaitStatus, AfterWait,
        WaitReady
<1>6. CASE GetRegs
  <2>1. LoggedCalls' = LoggedCalls
    BY <1>6, LoggedSame DEF GetRegs
  <2> QED
    BY <1>6, <2>1, CallFacts DEF GetRegs
<1>7. CASE Log
  BY <1>7, LogAppends, CallFacts DEF Log
<1>8. CASE Close
  BY <1>8, CloseCloses DEF Close
<1>9. CASE TraceMe
  <2>1. LoggedCalls' = LoggedCalls
    BY <1>9, LoggedSame DEF TraceMe
  <2> QED
    BY <1>9, <2>1, CallFacts DEF TraceMe
<1>10. CASE Raise
  <2>1. LoggedCalls' = LoggedCalls
    BY <1>10, LoggedSame DEF Raise
  <2> QED
    BY <1>10, <2>1, CallFacts DEF Raise, Stop, Die
<1>11. CASE SeccompLoad
  <2>1. LoggedCalls' = LoggedCalls
    BY <1>11, LoggedSame DEF SeccompLoad
  <2> QED
    BY <1>11, <2>1, CallFacts DEF SeccompLoad
<1>12. ASSUME NEW s \in Syscalls, ChildAllowed(s) PROVE LogInv'
  <2>1. LoggedCalls' = LoggedCalls
    BY <1>12, LoggedSame DEF ChildAllowed
  <2> QED
    BY <1>12, <2>1, CallFacts DEF ChildAllowed, Issue, MayCall, Verdict,
        Perform, Exec, Return, ReturnPoint, Stop, Die
<1>13. ASSUME NEW s \in Syscalls, ChildFlagged(s) PROVE LogInv'
  <2>1. LoggedCalls' = LoggedCalls
    BY <1>13, LoggedSame DEF ChildFlagged
  <2> QED
    BY <1>13, <2>1, CallFacts DEF ChildFlagged, Issue, MayCall, Verdict, Stop
<1>14. ASSUME NEW s \in Syscalls, ChildNoTracer(s) PROVE LogInv'
  <2>1. LoggedCalls' = LoggedCalls
    BY <1>14, LoggedSame DEF ChildNoTracer
  <2> QED
    BY <1>14, <2>1, CallFacts DEF ChildNoTracer, Issue, MayCall, Verdict,
        Return, ReturnPoint
<1>15. ASSUME NEW s \in Syscalls, ChildDenied(s) PROVE LogInv'
  <2>1. LoggedCalls' = LoggedCalls
    BY <1>15, LoggedSame DEF ChildDenied
  <2> QED
    BY <1>15, <2>1, CallFacts DEF ChildDenied, Issue, MayCall, Verdict,
        Return, ReturnPoint
<1>16. ASSUME NEW s \in Syscalls, ChildKilled(s) PROVE LogInv'
  <2>1. LoggedCalls' = LoggedCalls
    BY <1>16, LoggedSame DEF ChildKilled
  <2> QED
    BY <1>16, <2>1, CallFacts DEF ChildKilled, Issue, MayCall, Verdict, Die
<1>17. ASSUME NEW s \in Syscalls, ChildTrapped(s) PROVE LogInv'
  <2>1. LoggedCalls' = LoggedCalls
    BY <1>17, LoggedSame DEF ChildTrapped
  <2> QED
    BY <1>17, <2>1, CallFacts DEF ChildTrapped, Issue, MayCall, Verdict, Stop,
        Die, ReturnPoint
<1>18. CASE ChildResumed
  <2>1. LoggedCalls' = LoggedCalls
    BY <1>18, LoggedSame DEF ChildResumed
  <2> QED
    BY <1>18, <2>1, CallFacts DEF ChildResumed, Perform, Exec, Return,
        ReturnPoint, Stop, Die
<1>19. CASE Fault
  <2>1. LoggedCalls' = LoggedCalls
    BY <1>19, LoggedSame DEF Fault
  <2> QED
    BY <1>19, <2>1, CallFacts DEF Fault, Stop, Die
<1>20. ASSUME NEW k \in Kids, NEW s \in Syscalls, KidCall(k, s) PROVE LogInv'
  <2>1. LoggedCalls' = LoggedCalls
    BY <1>20, LoggedSame DEF KidCall
  <2> QED
    BY <1>20, <2>1, CallFacts DEF KidCall
<1>21. CASE ExternalSignal
  <2>1. LoggedCalls' = LoggedCalls
    BY <1>21, LoggedSame DEF ExternalSignal
  <2> QED
    BY <1>21, <2>1, CallFacts DEF ExternalSignal, Stop, Die
<1>22. CASE Sigkill
  <2>1. LoggedCalls' = LoggedCalls
    BY <1>22, LoggedSame DEF Sigkill
  <2> QED
    BY <1>22, <2>1, CallFacts DEF Sigkill, Die
<1>23. CASE TracerKilled
  <2>1. LoggedCalls' = LoggedCalls
    BY <1>23, LoggedSame DEF TracerKilled
  <2> QED
    BY <1>23, <2>1, CallFacts DEF TracerKilled
<1>24. CASE Terminated
  <2>1. LoggedCalls' = LoggedCalls
    BY <1>24, LoggedSame DEF Terminated, vars
  <2> QED
    BY <1>24, <2>1, CallFacts DEF Terminated, vars
<1> QED
  BY <1>1, <1>2, <1>3, <1>4, <1>5, <1>6, <1>7, <1>8, <1>9, <1>10, <1>11,
      <1>12, <1>13, <1>14, <1>15, <1>16, <1>17, <1>18, <1>19, <1>20, <1>21,
      <1>22, <1>23, <1>24 DEF Next, TracerStep, ChildStep, ChildCall,
      Environment

(* The abstract state as the refinement mapping gives it. *)
AuditState == <<Auditor, cur, LoggedCalls, effects>>

(* Every step is a step of the audit or leaves it alone: ChildFlagged       *)
(* intercepts, Log records, ChildResumed takes effect or, without tracer,   *)
(* escapes, Close seals, and TracerKilled is the auditor's death.           *)
LEMMA AuditStep ==
  ASSUME TypeOK, StopInv, AttachInv, LogInv, Next, LogFaults = {}
  PROVE  Audit!Next \/ UNCHANGED AuditState
<1> USE DEF AuditState, Auditor, tracerVars, childVars, kernelVars, historyVars,
    logVars
<1>1. CASE Fork
  BY <1>1, LoggedSame DEF Fork
<1>2. CASE HandshakeWait
  BY <1>2, LoggedSame DEF HandshakeWait, WaitPid
<1>3. CASE SetOptions
  BY <1>3, LoggedSame DEF SetOptions, KillAndExit
<1>4. CASE Cont
  BY <1>4, LoggedSame DEF Cont, KillAndExit
<1>5. CASE Wait
  BY <1>5, LoggedSame DEF Wait, WaitPid, AfterWait
<1>6. CASE GetRegs
  BY <1>6, LoggedSame DEF GetRegs
<1>7. CASE Log
  <2>1. LoggedCalls' = Append(LoggedCalls, cur)
    BY <1>7, LogAppends
  <2>2. /\ LoggedCalls = effects /\ tracer = "log" /\ tracer' = "cont"
        /\ cur # NoCall /\ cur' = cur /\ effects' = effects
    BY <1>7 DEF Log, LogInv, StopInv
  <2>3. Audit!Record
    BY <2>1, <2>2 DEF Audit!Record
  <2> QED
    BY <2>3 DEF Audit!Next
<1>8. CASE Close
  <2>1. Audit!Seal
    BY <1>8, CloseCloses DEF Close, Audit!Seal
  <2> QED
    BY <2>1 DEF Audit!Next
<1>9. CASE TraceMe
  BY <1>9, LoggedSame DEF TraceMe
<1>10. CASE Raise
  BY <1>10, LoggedSame DEF Raise
<1>11. CASE SeccompLoad
  BY <1>11, LoggedSame DEF SeccompLoad
<1>12. ASSUME NEW s \in Syscalls, ChildAllowed(s) PROVE Audit!Next \/ UNCHANGED AuditState
  BY <1>12, LoggedSame DEF ChildAllowed
<1>13. ASSUME NEW s \in Syscalls, ChildFlagged(s) PROVE Audit!Next \/ UNCHANGED AuditState
  <2>1. /\ cur = NoCall /\ cur' = s /\ effects' = effects /\ LoggedCalls' = LoggedCalls
        /\ tracer' = tracer
    BY <1>13, LoggedSame DEF ChildFlagged, Issue
  <2>2. tracer # "done" /\ tracer # "killed"
    BY <1>13 DEF ChildFlagged, Issue, StopInv, AttachInv, Alive
  <2>3. Audit!Intercept(s)
    BY <2>1, <2>2 DEF Audit!Intercept
  <2> QED
    BY <2>3 DEF Audit!Next
<1>14. ASSUME NEW s \in Syscalls, ChildNoTracer(s) PROVE Audit!Next \/ UNCHANGED AuditState
  BY <1>14, LoggedSame DEF ChildNoTracer
<1>15. ASSUME NEW s \in Syscalls, ChildDenied(s) PROVE Audit!Next \/ UNCHANGED AuditState
  BY <1>15, LoggedSame DEF ChildDenied
<1>16. ASSUME NEW s \in Syscalls, ChildKilled(s) PROVE Audit!Next \/ UNCHANGED AuditState
  BY <1>16, LoggedSame DEF ChildKilled
<1>17. ASSUME NEW s \in Syscalls, ChildTrapped(s) PROVE Audit!Next \/ UNCHANGED AuditState
  BY <1>17, LoggedSame DEF ChildTrapped
<1>18. CASE ChildResumed
  <2>1. /\ cur # NoCall /\ cur' = NoCall /\ effects' = Append(effects, cur)
        /\ tracer' = tracer /\ tracer # "done"
    BY <1>18 DEF ChildResumed, StopInv, Alive
  <2>2. LoggedCalls' = LoggedCalls
    BY <1>18, LoggedSame DEF ChildResumed
  <2>3. CASE tracer = "killed"
    <3>1. Audit!Escape
      BY <2>1, <2>2, <2>3 DEF Audit!Escape
    <3> QED
      BY <3>1 DEF Audit!Next
  <2>4. CASE tracer # "killed"
    <3>1. LoggedCalls = Append(effects, cur)
      BY <1>18, <2>4 DEF ChildResumed, LogInv
    <3>2. Audit!TakeEffect
      BY <2>1, <2>2, <2>4, <3>1 DEF Audit!TakeEffect
    <3> QED
      BY <3>2 DEF Audit!Next
  <2> QED
    BY <2>3, <2>4
<1>19. CASE Fault
  BY <1>19, LoggedSame DEF Fault
<1>20. ASSUME NEW k \in Kids, NEW s \in Syscalls, KidCall(k, s) PROVE Audit!Next \/ UNCHANGED AuditState
  BY <1>20, LoggedSame DEF KidCall
<1>21. CASE ExternalSignal
  BY <1>21, LoggedSame DEF ExternalSignal
<1>22. CASE Sigkill
  BY <1>22, LoggedSame DEF Sigkill
<1>23. CASE TracerKilled
  <2>1. Audit!Die
    BY <1>23, LoggedSame DEF TracerKilled, Finished, Audit!Die
  <2> QED
    BY <2>1 DEF Audit!Next
<1>24. CASE Terminated
  BY <1>24, LoggedSame DEF Terminated, vars
<1> QED
  BY <1>1, <1>2, <1>3, <1>4, <1>5, <1>6, <1>7, <1>8, <1>9, <1>10, <1>11,
      <1>12, <1>13, <1>14, <1>15, <1>16, <1>17, <1>18, <1>19, <1>20, <1>21,
      <1>22, <1>23, <1>24 DEF Next, TracerStep, ChildStep, ChildCall,
      Environment

(* observer_loop() implements the write-ahead audit: with a log that does  *)
(* not fail, every flagged call is in the log, itself and once, before it  *)
(* is carried out, in order, and the log is closed after the last; a       *)
(* tracer that dies lets at most the call it had stopped escape.           *)
THEOREM Refinement ==
  ASSUME LogFaults = {}
  PROVE  Spec => WriteAhead
<1>1. Init => LogInv /\ Audit!Init
  BY DEF Init, LoggerInit, LogInv, LoggedCalls, Auditor, Audit!Init
<1>2. Inv /\ Inv' /\ LogInv /\ [Next]_vars => LogInv'
  <2> SUFFICES ASSUME Inv, Inv', LogInv, [Next]_vars PROVE LogInv'
    OBVIOUS
  <2>1. CASE Next
    BY <2>1, LogStep DEF Inv
  <2>2. CASE UNCHANGED vars
    BY <2>2, LoggedSame DEF LogInv, vars, tracerVars, childVars, kernelVars,
       historyVars, logVars
  <2> QED
    BY <2>1, <2>2
<1>3. Inv /\ LogInv /\ [Next]_vars => [Audit!Next]_(Audit!auditVars)
  <2> SUFFICES ASSUME Inv, LogInv, [Next]_vars
               PROVE  Audit!Next \/ UNCHANGED AuditState
    BY DEF Audit!auditVars, AuditState
  <2>1. CASE Next
    BY <2>1, AuditStep DEF Inv
  <2>2. CASE UNCHANGED vars
    BY <2>2, LoggedSame DEF AuditState, Auditor, vars, tracerVars, childVars,
       historyVars, logVars
  <2> QED
    BY <2>1, <2>2
<1> QED
  BY <1>1, <1>2, <1>3, Invariance, PTL DEF Spec, WriteAhead, Audit!Spec

-----------------------------------------------------------------------------
(* Which forbidden calls are intercepted.                                  *)

(* A rule that forbids a call is rewritten to TRACE, whatever its action.  *)
LEMMA RulesAreFlagged ==
  ASSUME NEW a \in Denying
  PROVE  resolve_rule_action(a) = "TRACE"
<1>1. a \in ActionStrings /\ ActionTable[a] # "ALLOW"
  BY DEF Denying, ActionStrings, ActionTable
<1> QED
  BY <1>1 DEF resolve_rule_action, map_action_string

(* So, unless the default action forbids it, a forbidden call is flagged.  *)
LEMMA DenialsAreFlagged ==
  ASSUME NEW p, NEW s, p.default \notin Denying, Denies(p, s)
  PROVE  FilterAction(p, s) = "TRACE"
<1>1. p.rule[s] # NoRule /\ p.rule[s] \in Denying
  BY DEF Denies
<1> QED
  BY <1>1, RulesAreFlagged DEF FilterAction

(* A flagged call of a child that is attached always stops. *)
LEMMA InterceptionStep ==
  ASSUME TypeOK, AttachInv, OptionsBeforeFilter, ChildDenialsIntercepted, Next
  PROVE  ChildDenialsIntercepted'
<1> USE DEF ChildDenialsIntercepted, tracerVars, childVars,
    kernelVars, historyVars, logVars
<1>1. CASE Fork
  BY <1>1 DEF Fork
<1>2. CASE HandshakeWait
  BY <1>2 DEF HandshakeWait
<1>3. CASE SetOptions
  BY <1>3 DEF SetOptions, KillAndExit
<1>4. CASE Cont
  BY <1>4 DEF Cont, KillAndExit
<1>5. CASE Wait
  BY <1>5 DEF Wait, AfterWait
<1>6. CASE GetRegs
  BY <1>6 DEF GetRegs
<1>7. CASE Log
  BY <1>7 DEF Log
<1>8. CASE Close
  BY <1>8 DEF Close
<1>9. CASE TraceMe
  BY <1>9 DEF TraceMe
<1>10. CASE Raise
  BY <1>10 DEF Raise
<1>11. CASE SeccompLoad
  BY <1>11 DEF SeccompLoad
<1>12. ASSUME NEW s \in Syscalls, ChildAllowed(s) PROVE ChildDenialsIntercepted'
  <2>1. policy.default \notin Denying /\ loaded => ~Denies(policy, s)
    BY <1>12, DenialsAreFlagged DEF ChildAllowed, Verdict
  <2> QED
    BY <1>12, <2>1 DEF ChildAllowed, NotStopped
<1>13. ASSUME NEW s \in Syscalls, ChildFlagged(s) PROVE ChildDenialsIntercepted'
  BY <1>13 DEF ChildFlagged
<1>14. ASSUME NEW s \in Syscalls, ChildNoTracer(s) PROVE ChildDenialsIntercepted'
  BY <1>14 DEF ChildNoTracer, Issue, Verdict, AttachInv, Alive,
      OptionsBeforeFilter
<1>15. ASSUME NEW s \in Syscalls, ChildDenied(s) PROVE ChildDenialsIntercepted'
  <2>1. policy.default \notin Denying /\ loaded => ~Denies(policy, s)
    BY <1>15, DenialsAreFlagged DEF ChildDenied, Verdict
  <2> QED
    BY <1>15, <2>1 DEF ChildDenied, NotStopped
<1>16. ASSUME NEW s \in Syscalls, ChildKilled(s) PROVE ChildDenialsIntercepted'
  <2>1. policy.default \notin Denying /\ loaded => ~Denies(policy, s)
    BY <1>16, DenialsAreFlagged DEF ChildKilled, Verdict
  <2> QED
    BY <1>16, <2>1 DEF ChildKilled, NotStopped
<1>17. ASSUME NEW s \in Syscalls, ChildTrapped(s) PROVE ChildDenialsIntercepted'
  <2>1. policy.default \notin Denying /\ loaded => ~Denies(policy, s)
    BY <1>17, DenialsAreFlagged DEF ChildTrapped, Verdict
  <2> QED
    BY <1>17, <2>1 DEF ChildTrapped, NotStopped
<1>18. CASE ChildResumed
  BY <1>18 DEF ChildResumed
<1>19. CASE Fault
  BY <1>19 DEF Fault
<1>20. ASSUME NEW k \in Kids, NEW s \in Syscalls, KidCall(k, s) PROVE ChildDenialsIntercepted'
  BY <1>20 DEF KidCall, NotStopped
<1>21. CASE ExternalSignal
  BY <1>21 DEF ExternalSignal
<1>22. CASE Sigkill
  BY <1>22 DEF Sigkill
<1>23. CASE TracerKilled
  BY <1>23 DEF TracerKilled
<1>24. CASE Terminated
  BY <1>24 DEF Terminated, vars
<1> QED
  BY <1>1, <1>2, <1>3, <1>4, <1>5, <1>6, <1>7, <1>8, <1>9, <1>10, <1>11,
      <1>12, <1>13, <1>14, <1>15, <1>16, <1>17, <1>18, <1>19, <1>20, <1>21,
      <1>22, <1>23, <1>24 DEF Next, TracerStep, ChildStep, ChildCall,
      Environment

(* README.md line 3, as far as it holds, whatever the descendants and the  *)
(* environment do: while the tracer lives no call of the child that a rule *)
(* forbids is made without a stop.                                         *)
THEOREM Interception == Spec => []ChildDenialsIntercepted
<1>1. Init => ChildDenialsIntercepted
  BY DEF Init, ChildDenialsIntercepted
<1>2. Inv /\ ChildDenialsIntercepted /\ [Next]_vars => ChildDenialsIntercepted'
  <2> SUFFICES ASSUME Inv, ChildDenialsIntercepted, [Next]_vars
               PROVE  ChildDenialsIntercepted'
    OBVIOUS
  <2>1. CASE Next
    BY <2>1, InterceptionStep DEF Inv
  <2>2. CASE UNCHANGED vars
    BY <2>2 DEF ChildDenialsIntercepted, vars, tracerVars, historyVars
  <2> QED
    BY <2>1, <2>2
<1> QED
  BY <1>1, <1>2, Invariance, PTL DEF Spec
=============================================================================
