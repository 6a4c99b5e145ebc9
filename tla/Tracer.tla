------------------------------- MODULE Tracer -------------------------------
(***************************************************************************)
(* A run of sec-seer from the fork() in main() to the end of the tracer:   *)
(* the tracer process (the parent half of main() and observer_loop()), the *)
(* child it forks (the child half of main(), then the target program), the *)
(* target's descendants, and the parts of the kernel they meet in: ptrace, *)
(* wait, signals and the seccomp filter.  The log is module Logger; a      *)
(* violation record is represented by its system call, so Logger's         *)
(* constant Records is the set of system calls.                            *)
(*                                                                         *)
(* One tracer action is the code between two points at which another       *)
(* process can be noticed: a ptrace request, a wait, an append to the log. *)
(* The kernel's side is external: it is modelled by how the code uses it.  *)
(***************************************************************************)
EXTENDS Logger, PolicyMap, FiniteSets

CONSTANTS
  Execve, ExitGroup, Clone, Write,  \* the calls the model gives an effect
  NoCall,       \* no system call in flight
  Kids,         \* processes the target may create
  Policies,     \* the policies a run may be given
  Env,          \* what the environment may do, a subset of EnvEvents
  MaxCalls,     \* bound: calls the target and its descendants make
  MaxSignals    \* bound: signals sent from outside

Syscalls == Records

EnvEvents ==
  { "fork_fails", "traceme_fails", "load_fails", "exec_fails", "signal",
    "sigkill", "fault", "tracer_killed", "sigchld_ignored" }

ASSUME TracerAssumption ==
  /\ {Execve, ExitGroup, Clone, Write} \subseteq Syscalls
  /\ Execve \notin {ExitGroup, Clone, Write}
  /\ ExitGroup \notin {Clone, Write}
  /\ Clone # Write
  /\ NoCall \notin Syscalls
  /\ Env \subseteq EnvEvents
  /\ MaxCalls \in Nat /\ MaxSignals \in Nat
  /\ \A p \in Policies : /\ IsPolicy(p, Syscalls) /\ Buildable(p)
                         /\ map_action_string(p.default) # "NOTIFY"

VARIABLES
  policy,    \* the profile, as the filter sees it
  autoreap,  \* SIGCHLD is ignored: an untraced child leaves no zombie
  tracer,    \* where the tracer is
  status,    \* its int status, decoded
  regs,      \* its register set: the system call in orig_rax
  proc,      \* the child: run state
  at,        \* the child: place in the program
  cur,       \* the child: call stopped at or resumed, not yet carried out
  why,       \* the child: reason of its latest stop, or of its death
  unwaited,  \* the child: its stop has not been reported by wait
  traced,    \* the child is attached to the tracer
  opts,      \* PTRACE_O_TRACESECCOMP is set
  loaded,    \* the filter is loaded
  kid,       \* run state of each descendant
  effects,   \* history: flagged calls of the child that were carried out
  refused,   \* history: a flagged call of the child failed with ENOSYS
  unseen,    \* history: who made a call the policy denies without a stop
  calls,     \* number of calls made so far
  signals    \* number of signals sent so far

tracerVars == <<tracer, status, regs>>
childVars  == <<proc, at, cur, why, unwaited>>
kernelVars == <<traced, opts, loaded>>
historyVars == <<effects, refused, unseen, calls, signals>>
vars == <<policy, autoreap, tracerVars, childVars, kernelVars, kid,
          historyVars, logVars>>

TracerPoints == {"fork", "handshake", "setoptions", "cont", "wait", "getregs",
                 "log", "close", "done", "fail", "killed"}
StopReasons  == {"SIGTRAP", "signal", "SIGSYS", "seccomp"}
DeathReasons == {"exited", "SIGKILL", "filter", "by_signal"}

Finished == tracer \in {"done", "fail", "killed"}
Alive    == proc \in {"running", "stopped"}
Flagged(s) == FilterAction(policy, s) = "TRACE"

(* Types of main()'s and observer_loop()'s variables, of the child and of  *)
(* the log; a record is always that of a system call, so the registers     *)
(* logged have been read.                                                  *)
TypeOK ==
  /\ policy \in Policies
  /\ autoreap \in BOOLEAN
  /\ tracer \in TracerPoints
  /\ status \in {"unset", "exited", "signaled"} \cup StopReasons
  /\ regs \in Syscalls \cup {NoCall}
  /\ proc \in {"none", "running", "stopped", "zombie", "gone"}
  /\ at \in {"traceme", "raise", "load", "execve", "target", "fault", "perror", "exit"}
  /\ cur \in Syscalls \cup {NoCall}
  /\ why \in {"none"} \cup StopReasons \cup DeathReasons
  /\ unwaited \in BOOLEAN /\ traced \in BOOLEAN
  /\ opts \in BOOLEAN /\ loaded \in BOOLEAN
  /\ kid \in [Kids -> {"none", "running", "gone"}]
  /\ effects \in Seq(Syscalls)
  /\ refused \in BOOLEAN /\ unseen \in SUBSET {"child", "kid"}
  /\ calls \in Nat /\ signals \in Nat
  /\ LoggerTypeOK

Init ==
  /\ policy \in Policies
  /\ autoreap \in (IF "sigchld_ignored" \in Env THEN BOOLEAN ELSE {FALSE})
  /\ tracer = "fork" /\ status = "unset" /\ regs = NoCall
  /\ proc = "none" /\ at = "traceme" /\ cur = NoCall /\ why = "none"
  /\ unwaited = FALSE
  /\ traced = FALSE /\ opts = FALSE /\ loaded = FALSE
  /\ kid = [k \in Kids |-> "none"]
  /\ effects = << >> /\ refused = FALSE /\ unseen = {}
  /\ calls = 0 /\ signals = 0
  /\ LoggerInit

-----------------------------------------------------------------------------
(* Kernel: how the child stops, dies and is waited for (external).         *)

(* A ptrace stop; wait will report it. *)
Stop(reason) ==
  /\ proc' = "stopped"
  /\ why' = reason
  /\ unwaited' = TRUE

(* A zombie waits for the tracer unless nobody will wait for it.  Ignoring *)
(* SIGCHLD reaps a child only if it is not traced.                         *)
Die(reason) ==
  /\ proc' = IF Finished \/ (autoreap /\ ~traced) THEN "gone" ELSE "zombie"
  /\ why' = reason
  /\ UNCHANGED unwaited

WaitReady == (proc = "stopped" /\ unwaited) \/ proc \in {"zombie", "gone"}

WaitStatus ==
  IF proc = "stopped" THEN why ELSE IF why = "exited" THEN "exited" ELSE "signaled"

(* waitpid(pid, &status, 0).  The code ignores its result, so when the     *)
(* child is gone already (ECHILD) status keeps its old value.              *)
WaitPid ==
  /\ WaitReady
  /\ status' = IF proc = "gone" THEN status ELSE WaitStatus
  /\ proc' = IF proc = "zombie" THEN "gone" ELSE proc
  /\ unwaited' = FALSE
  /\ UNCHANGED <<at, cur, why>>

(* kill(pid, SIGKILL); exit(EXIT_FAILURE) *)
KillAndExit ==
  /\ tracer' = "fail"
  /\ traced' = FALSE
  /\ proc' = IF Alive THEN "gone" ELSE proc
  /\ why' = IF Alive THEN "SIGKILL" ELSE why
  /\ UNCHANGED <<status, regs, at, cur, unwaited, opts, loaded, kid>>

-----------------------------------------------------------------------------
(* The tracer: the parent half of main(), then observer_loop().            *)

(* fork().  The parent goes on to free its copies of the profile, the      *)
(* runtime context and the argument vector, which no other process sees.   *)
Fork ==
  /\ tracer = "fork"
  /\ \/ /\ tracer' = "handshake"
        /\ proc' = "running"
     \/ /\ "fork_fails" \in Env
        /\ tracer' = "fail"
        /\ UNCHANGED proc
  /\ UNCHANGED <<policy, autoreap, status, regs, at, cur, why, unwaited,
                 kernelVars, kid, historyVars, logVars>>

(* The wait of the handshake.  Its status is not looked at: any stop, or   *)
(* the death of the child, ends it.                                        *)
HandshakeWait ==
  /\ tracer = "handshake"
  /\ WaitPid
  /\ tracer' = "setoptions"
  /\ UNCHANGED <<policy, autoreap, regs, kernelVars, kid, historyVars, logVars>>

(* A plausible bug: the handshake continues without setting the options. *)
SetOptions_Forgotten ==
  /\ tracer = "setoptions"
  /\ proc = "stopped"
  /\ tracer' = "cont"
  /\ UNCHANGED <<policy, autoreap, status, regs, childVars, kernelVars, kid,
                 historyVars, logVars>>

(* ptrace(PTRACE_SETOPTIONS, ...): works on a stopped tracee only. *)
SetOptions ==
  /\ tracer = "setoptions"
  /\ \/ /\ proc = "stopped"
        /\ opts' = TRUE
        /\ tracer' = "cont"
        /\ UNCHANGED <<status, regs, childVars, traced, loaded, kid>>
     \/ /\ proc # "stopped"
        /\ KillAndExit
  /\ UNCHANGED <<policy, autoreap, historyVars, logVars>>

(* A plausible bug: the pending signal is passed on and kills the child. *)
Cont_ForwardsSignal ==
  /\ tracer = "cont"
  /\ \/ /\ proc = "stopped"
        /\ IF why = "signal" THEN Die("by_signal")
                             ELSE proc' = "running" /\ UNCHANGED <<why, unwaited>>
        /\ tracer' = "wait"
        /\ UNCHANGED <<status, regs, at, cur, kernelVars, kid>>
     \/ /\ proc # "stopped"
        /\ KillAndExit
  /\ UNCHANGED <<policy, autoreap, historyVars, logVars>>

(* ptrace(PTRACE_CONT, pid, 0, 0): the last 0 drops the signal the child   *)
(* is stopped for.  A call stopped by the filter is carried out next.      *)
Cont ==
  /\ tracer = "cont"
  /\ \/ /\ proc = "stopped"
        /\ proc' = "running"
        /\ tracer' = "wait"
        /\ UNCHANGED <<status, regs, at, cur, why, unwaited, kernelVars, kid>>
     \/ /\ proc # "stopped"
        /\ KillAndExit
  /\ UNCHANGED <<policy, autoreap, historyVars, logVars>>

(* Plausible bugs: a death by signal does not end the loop; every stop     *)
(* does; a stop for a signal is not continued.                             *)
AfterWait_ExitOnly(s) ==
  CASE s = "exited"  -> "close"
    [] s = "seccomp" -> "getregs"
    [] OTHER         -> "cont"
AfterWait_AnyStopEnds(s) ==
  IF s = "seccomp" THEN "getregs" ELSE "close"
AfterWait_WaitsAgain(s) ==
  CASE s \in {"exited", "signaled"} -> "close"
    [] s = "seccomp"                -> "getregs"
    [] OTHER                        -> "wait"

(* The branches on status after the observer's wait. *)
AfterWait(s) ==
  CASE s \in {"exited", "signaled"} -> "close"
    [] s = "seccomp"                -> "getregs"
    [] OTHER                        -> "cont"

Wait ==
  /\ tracer = "wait"
  /\ WaitPid
  /\ tracer' = AfterWait(status')
  /\ UNCHANGED <<policy, autoreap, regs, kernelVars, kid, historyVars, logVars>>

(* A plausible bug: the result of the request is not checked. *)
GetRegs_Unchecked ==
  /\ tracer = "getregs"
  /\ regs' = IF proc = "stopped" THEN cur ELSE regs
  /\ tracer' = "log"
  /\ UNCHANGED <<policy, autoreap, status, childVars, kernelVars, kid,
                 historyVars, logVars>>

(* Another: the child is resumed before its record is written. *)
GetRegs_Resumes ==
  /\ tracer = "getregs"
  /\ regs' = cur
  /\ tracer' = "log"
  /\ proc' = IF proc = "stopped" THEN "running" ELSE proc
  /\ UNCHANGED <<policy, autoreap, status, at, cur, why, unwaited, kernelVars,
                 kid, historyVars, logVars>>

(* ptrace(PTRACE_GETREGS, ...): fails, and ends the loop, when the child   *)
(* has been killed since the stop was reported.                            *)
GetRegs ==
  /\ tracer = "getregs"
  /\ \/ /\ proc = "stopped"
        /\ regs' = cur
        /\ tracer' = "log"
     \/ /\ proc # "stopped"
        /\ tracer' = "close"
        /\ UNCHANGED regs
  /\ UNCHANGED <<policy, autoreap, status, childVars, kernelVars, kid,
                 historyVars, logVars>>

(* The record is built from regs and logged; an error is only printed. *)
Log ==
  /\ tracer = "log"
  /\ log_seccomp_violation(regs)
  /\ tracer' = "cont"
  /\ UNCHANGED <<policy, autoreap, status, regs, childVars, kernelVars, kid,
                 historyVars>>

(* logger_close(), then main() returns 0; the kernel detaches the child.   *)
Close ==
  /\ tracer = "close"
  /\ logger_close
  /\ tracer' = "done"
  /\ traced' = FALSE
  /\ proc' = IF proc = "stopped" THEN "running" ELSE proc
  /\ UNCHANGED <<policy, autoreap, status, regs, at, cur, why, unwaited,
                 opts, loaded, kid, historyVars>>

TracerStep ==
  \/ Fork \/ HandshakeWait \/ SetOptions \/ Cont \/ Wait \/ GetRegs \/ Log \/ Close

-----------------------------------------------------------------------------
(* The child half of main() up to the filter.                              *)

TraceMe ==
  /\ proc = "running" /\ at = "traceme"
  /\ \/ /\ traced' = TRUE
        /\ at' = "raise"
     \/ /\ "traceme_fails" \in Env
        /\ at' = "perror"
        /\ UNCHANGED traced
  /\ UNCHANGED <<policy, autoreap, tracerVars, proc, cur, why, unwaited, opts,
                 loaded, kid, historyVars, logVars>>

(* A plausible bug: the child does not wait for its tracer. *)
Raise_Removed ==
  /\ proc = "running" /\ at = "raise"
  /\ at' = "load"
  /\ UNCHANGED <<policy, autoreap, tracerVars, proc, cur, why, unwaited,
                 kernelVars, kid, historyVars, logVars>>

(* raise(SIGTRAP): the stop that the parent's handshake waits for.         *)
Raise ==
  /\ proc = "running" /\ at = "raise"
  /\ at' = "load"
  /\ IF traced THEN Stop("SIGTRAP") ELSE Die("by_signal")
  /\ UNCHANGED <<policy, autoreap, tracerVars, cur, kernelVars, kid,
                 historyVars, logVars>>

SeccompLoad ==
  /\ proc = "running" /\ at = "load"
  /\ \/ /\ loaded' = TRUE
        /\ at' = "execve"
     \/ /\ "load_fails" \in Env
        /\ at' = "perror"
        /\ UNCHANGED loaded
  /\ UNCHANGED <<policy, autoreap, tracerVars, proc, cur, why, unwaited, traced,
                 opts, kid, historyVars, logVars>>

-----------------------------------------------------------------------------
(* System calls of the child.  The filter decides; who is attached decides *)
(* what becomes of a flagged call (external, but for the launcher's        *)
(* reaction to the results, which is main()'s).                            *)

Verdict(s) == IF loaded THEN FilterAction(policy, s) ELSE "ALLOW"

(* The calls the child can make: the launcher's own are execve(), the      *)
(* write of perror() and _exit(); the target's are arbitrary.              *)
MayCall(s) ==
  CASE at = "execve" -> s = Execve
    [] at = "perror" -> s = Write
    [] at = "exit"   -> s = ExitGroup
    [] at = "target" -> s = ExitGroup \/ calls < MaxCalls
    [] OTHER         -> FALSE

Issue(s) ==
  /\ proc = "running" /\ cur = NoCall
  /\ MayCall(s)
  /\ calls' = IF at = "target" /\ s # ExitGroup THEN calls + 1 ELSE calls

(* Where the child is after a call returned; ok: the result is >= 0.  An   *)
(* execve() that returns a result >= 0 without having replaced the program *)
(* falls through to the end of main().                                     *)
ReturnPoint(ok) ==
  CASE at = "execve" -> IF ok THEN "exit" ELSE "perror"
    [] at = "perror" -> "exit"
    [] OTHER         -> at

Return(ok) ==
  /\ at' = ReturnPoint(ok)
  /\ UNCHANGED <<proc, why, unwaited, kid>>

(* A new process; it shares the filter but, without PTRACE_O_TRACEFORK and *)
(* its like, not the tracer.                                               *)
Spawn ==
  IF \E k \in Kids : kid[k] = "none"
  THEN \E k \in Kids : kid[k] = "none" /\ kid' = [kid EXCEPT ![k] = "running"]
  ELSE UNCHANGED kid

(* An execve() that succeeds: a traced program stops with SIGTRAP. *)
Exec ==
  /\ at' = "target"
  /\ IF traced THEN Stop("SIGTRAP") ELSE UNCHANGED <<proc, why, unwaited>>
  /\ UNCHANGED kid

(* The kernel carries out s. *)
Perform(s) ==
  \/ s = ExitGroup /\ Die("exited") /\ UNCHANGED <<at, kid>>
  \/ s = Execve /\ Exec
  \/ s = Execve /\ "exec_fails" \in Env /\ Return(FALSE)
  \/ s = Clone /\ Spawn /\ UNCHANGED <<proc, at, why, unwaited>>
  \/ s \notin {ExitGroup, Execve, Clone} /\ Return(TRUE)

(* A call of the child or of a descendant that no stop announced, while    *)
(* the filter is there.                                                    *)
NotStopped(who, s) ==
  unseen' = IF loaded /\ Denies(policy, s) THEN unseen \cup {who} ELSE unseen

ChildAllowed(s) ==
  /\ Issue(s)
  /\ Verdict(s) \in {"ALLOW", "LOG"}
  /\ Perform(s)
  /\ NotStopped("child", s)
  /\ UNCHANGED <<policy, autoreap, tracerVars, cur, kernelVars, effects,
                 refused, signals, logVars>>

(* A flagged call stops before it is carried out. *)
ChildFlagged(s) ==
  /\ Issue(s)
  /\ Verdict(s) = "TRACE" /\ traced /\ opts
  /\ Stop("seccomp")
  /\ cur' = s
  /\ UNCHANGED <<policy, autoreap, tracerVars, at, kernelVars, kid, effects,
                 refused, unseen, signals, logVars>>

(* A flagged call of a process without a tracer that set the option fails  *)
(* with ENOSYS.                                                            *)
ChildNoTracer(s) ==
  /\ Issue(s)
  /\ Verdict(s) = "TRACE" /\ ~(traced /\ opts)
  /\ Return(FALSE)
  /\ refused' = TRUE
  /\ NotStopped("child", s)
  /\ UNCHANGED <<policy, autoreap, tracerVars, cur, kernelVars, effects,
                 signals, logVars>>

(* The call is skipped and its result is -errno, so 0 for errno 0. *)
ChildDenied(s) ==
  /\ Issue(s)
  /\ Verdict(s) = "ERRNO"
  /\ Return(policy.errno = 0)
  /\ NotStopped("child", s)
  /\ UNCHANGED <<policy, autoreap, tracerVars, cur, kernelVars, effects,
                 refused, signals, logVars>>

ChildKilled(s) ==
  /\ Issue(s)
  /\ Verdict(s) \in {"KILL_PROCESS", "KILL_THREAD"}
  /\ Die("filter")
  /\ NotStopped("child", s)
  /\ UNCHANGED <<policy, autoreap, tracerVars, at, cur, kernelVars, kid,
                 effects, refused, signals, logVars>>

(* The call is skipped and SIGSYS raised.  The tracer's CONT drops the     *)
(* signal, and the call seems to have returned its own number.             *)
ChildTrapped(s) ==
  /\ Issue(s)
  /\ Verdict(s) = "TRAP"
  /\ \/ traced /\ Stop("SIGSYS") /\ at' = ReturnPoint(TRUE)
     \/ ~traced /\ Die("by_signal") /\ UNCHANGED at
  /\ NotStopped("child", s)
  /\ UNCHANGED <<policy, autoreap, tracerVars, cur, kernelVars, kid, effects,
                 refused, signals, logVars>>

(* The child was resumed from the stop of a flagged call. *)
ChildResumed ==
  /\ proc = "running" /\ cur # NoCall
  /\ Perform(cur)
  /\ cur' = NoCall
  /\ effects' = Append(effects, cur)
  /\ UNCHANGED <<policy, autoreap, tracerVars, kernelVars, refused, unseen,
                 calls, signals, logVars>>

(* A faulting instruction; when its signal is dropped it is tried again.   *)
Fault ==
  /\ proc = "running" /\ cur = NoCall
  /\ at = "fault" \/ (at = "target" /\ "fault" \in Env)
  /\ at' = "fault"
  /\ IF traced THEN Stop("signal") ELSE Die("by_signal")
  /\ UNCHANGED <<policy, autoreap, tracerVars, cur, kernelVars, kid,
                 historyVars, logVars>>

ChildCall(s) ==
  \/ ChildAllowed(s) \/ ChildFlagged(s) \/ ChildNoTracer(s)
  \/ ChildDenied(s) \/ ChildKilled(s) \/ ChildTrapped(s)

ChildStep ==
  \/ TraceMe \/ Raise \/ SeccompLoad
  \/ \E s \in Syscalls : ChildCall(s)
  \/ ChildResumed \/ Fault

-----------------------------------------------------------------------------
(* A call of a descendant: filtered, but traced by nobody.                 *)

KidCall(k, s) ==
  /\ kid[k] = "running"
  /\ s = ExitGroup \/ calls < MaxCalls
  /\ calls' = IF s = ExitGroup THEN calls ELSE calls + 1
  /\ LET v == Verdict(s) IN
       \/ /\ v \in {"ALLOW", "LOG"}
          /\ CASE s = ExitGroup -> kid' = [kid EXCEPT ![k] = "gone"]
               [] s = Clone     -> Spawn
               [] OTHER         -> UNCHANGED kid
       \/ v \in {"TRACE", "ERRNO"} /\ UNCHANGED kid
       \/ /\ v \in {"KILL_PROCESS", "KILL_THREAD", "TRAP"}
          /\ kid' = [kid EXCEPT ![k] = "gone"]
  /\ NotStopped("kid", s)
  /\ UNCHANGED <<policy, autoreap, tracerVars, childVars, kernelVars, effects,
                 refused, signals, logVars>>

-----------------------------------------------------------------------------
(* The environment.                                                        *)

(* A signal whose default action is to end the process. *)
ExternalSignal ==
  /\ "signal" \in Env /\ signals < MaxSignals
  /\ proc = "running" /\ cur = NoCall
  /\ IF traced THEN Stop("signal") ELSE Die("by_signal")
  /\ signals' = signals + 1
  /\ UNCHANGED <<policy, autoreap, tracerVars, at, cur, kernelVars, kid,
                 effects, refused, unseen, calls, logVars>>

(* SIGKILL, or any end of the child that no stop precedes. *)
Sigkill ==
  /\ "sigkill" \in Env
  /\ Alive
  /\ Die("SIGKILL")
  /\ UNCHANGED <<policy, autoreap, tracerVars, at, cur, kernelVars, kid,
                 historyVars, logVars>>

(* The tracer dies.  PTRACE_O_EXITKILL is not set: the kernel detaches the *)
(* child, and a stopped child goes on, with the signal it stopped for.     *)
TracerKilled ==
  /\ "tracer_killed" \in Env
  /\ ~Finished
  /\ tracer' = "killed"
  /\ traced' = FALSE
  /\ \/ proc = "stopped" /\ proc' = "running" /\ UNCHANGED why
     \/ proc = "stopped" /\ why # "seccomp" /\ proc' = "gone" /\ why' = "by_signal"
     \/ proc = "zombie" /\ proc' = "gone" /\ UNCHANGED why
     \/ proc \in {"none", "running", "gone"} /\ UNCHANGED <<proc, why>>
  /\ UNCHANGED <<policy, autoreap, status, regs, at, cur, unwaited, opts,
                 loaded, kid, historyVars, logVars>>

Environment == ExternalSignal \/ Sigkill \/ TracerKilled

(* Everybody is done. *)
Terminated ==
  /\ Finished /\ ~Alive
  /\ \A k \in Kids : kid[k] # "running"
  /\ UNCHANGED vars

Next ==
  \/ TracerStep
  \/ ChildStep
  \/ \E k \in Kids, s \in Syscalls : KidCall(k, s)
  \/ Environment
  \/ Terminated

(* Both processes are scheduled; the target makes finitely many calls      *)
(* (MaxCalls) and then exits.  Nothing obliges the environment.            *)
Fairness == WF_vars(TracerStep) /\ WF_vars(ChildStep)

Spec == Init /\ [][Next]_vars
FairSpec == Spec /\ Fairness

-----------------------------------------------------------------------------
(* Safety.                                                                 *)

(* The purpose of the handshake, main.c line 126: by the time the child    *)
(* has loaded its filter, the tracer it is attached to has set the option  *)
(* that turns a flagged call into a stop - also when another signal's stop *)
(* answers the handshake's wait, whose status nobody looks at.             *)
OptionsBeforeFilter == loaded /\ traced => opts

(* No flagged call of the child fails with ENOSYS, however the handshake,  *)
(* execve(), signals and the loop's error exits interleave, unless the     *)
(* tracer is killed from outside.                                          *)
NoSilentRefusal == refused => tracer = "killed"

(* When sec-seer ends by itself, on success or on any error exit, it       *)
(* leaves no target behind: the child is dead.                             *)
NoOrphanTarget == tracer \in {"done", "fail"} => ~Alive

(* A call that stopped is in the log before it is carried out, itself and  *)
(* no earlier one, once for each stop, in the order of the calls, and the  *)
(* log is closed last: observer_loop() implements the write-ahead audit.   *)
(* When the tracer dies, at most the call it had stopped escapes the log.  *)
LoggedCalls ==
  LET closed == file # << >> /\ file[Len(file)].sep = "]"
  IN  [i \in 1 .. (IF closed THEN Len(file) - 1 ELSE Len(file)) |-> file[i].rec]

Auditor == CASE tracer = "done"   -> "sealed"
             [] tracer = "killed" -> "dead"
             [] OTHER             -> "on"

Audit == INSTANCE WriteAheadAudit WITH
           Calls <- Syscalls, auditor <- Auditor, pending <- cur,
           audit <- LoggedCalls

WriteAhead == Audit!Spec

(* observer.c, line 113: every resumption drops the signal the child       *)
(* stopped for, so as long as the tracer lives no signal but SIGKILL ends  *)
(* a child that has its filter, the signal of a fault included.            *)
SignalsAreDropped == loaded /\ why = "by_signal" => tracer = "killed"

(* The loop's error exit, which leaves the log open, is taken only for a   *)
(* child that SIGKILL ended between the wait and the PTRACE_CONT and that  *)
(* is still a zombie, so that kill() hits no stranger, even where SIGCHLD  *)
(* is ignored.                                                             *)
ErrorExitOnlyAfterSigkill ==
  [][tracer = "cont" /\ tracer' = "fail" =>
       proc = "zombie" /\ why = "SIGKILL"]_vars

(* README.md, line 3: sec-seer "catches every syscall the policy blocks,   *)
(* and logs each violation": no call that the profile forbids is made      *)
(* without a stop.                                                         *)
EveryDenialIntercepted == unseen = {}

(* What holds of that claim for every policy and whatever the descendants  *)
(* do: while the tracer lives, a call of the child itself that a rule      *)
(* forbids is stopped.  Calls the default action forbids are not.          *)
ChildDenialsIntercepted ==
  policy.default \notin Denying /\ tracer # "killed" => "child" \notin unseen

(* logger.h, line 41: logger_close() "Writes the closing ']' to complete   *)
(* the JSON array started by log_seccomp_violation()": after it the file   *)
(* is a JSON array.                                                        *)
ClosedLogIsArray == tracer = "done" => IsArray(file)

-----------------------------------------------------------------------------
(* Liveness.                                                               *)

(* No stop is forgotten: a stopped child is resumed or dies, whatever the  *)
(* reason of the stop and whether or not its record could be written.      *)
(* Only the death of the tracer may leave it stopped: the TRACEME of an    *)
(* orphan attaches it to a process that never waits for its stops.         *)
StopsEnd == proc = "stopped" ~> proc # "stopped" \/ tracer = "killed"

(* A target that stops making calls exits, and sec-seer ends with it - if  *)
(* the filter lets exit_group pass.  Where the policy denies it, by        *)
(* default, the launcher's _exit() and the target's are made again and     *)
(* again (the fault behind them is dropped like any signal), and neither   *)
(* child nor tracer need ever end.                                         *)
TracerEnds ==
  FilterAction(policy, ExitGroup) \notin {"ERRNO", "TRAP"} => <>Finished
=============================================================================
