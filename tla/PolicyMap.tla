----------------------------- MODULE PolicyMap ------------------------------
(***************************************************************************)
(* How ctx-build.c turns the action strings of a profile into actions of   *)
(* the kernel's seccomp filter.  A string the tables do not know is        *)
(* represented by any value outside their domain, and so is the absent     *)
(* JSON field (a NULL pointer).                                            *)
(***************************************************************************)

CONSTANT NoRule   \* no rule of the profile names the system call

(* SCMP_ACT_KILL is libseccomp's other name for SCMP_ACT_KILL_THREAD.      *)
ActionTable ==
  [ SCMP_ACT_ALLOW        |-> "ALLOW",
    SCMP_ACT_ERRNO        |-> "ERRNO",
    SCMP_ACT_KILL         |-> "KILL_THREAD",
    SCMP_ACT_KILL_PROCESS |-> "KILL_PROCESS",
    SCMP_ACT_KILL_THREAD  |-> "KILL_THREAD",
    SCMP_ACT_TRAP         |-> "TRAP",
    SCMP_ACT_TRACE        |-> "TRACE",
    SCMP_ACT_LOG          |-> "LOG",
    SCMP_ACT_NOTIFY       |-> "NOTIFY" ]

ActionStrings == DOMAIN ActionTable

KernelActions == {ActionTable[a] : a \in ActionStrings}

(* NULL and unknown strings are read as ALLOW. *)
map_action_string(a) == IF a \in ActionStrings THEN ActionTable[a] ELSE "ALLOW"

(* A plausible bug: the rewriting to TRACE is forgotten. *)
resolve_rule_action_NotRewritten(a) == map_action_string(a)

(* The action of a rule: ALLOW stays, everything else is made visible to   *)
(* the tracer.                                                             *)
resolve_rule_action(a) ==
  IF map_action_string(a) = "ALLOW" THEN "ALLOW" ELSE "TRACE"

(* A policy as the filter sees it: the default action, defaultErrnoRet and *)
(* at most one unconditional rule per system call.                         *)
IsPolicy(p, S) ==
  /\ DOMAIN p = {"default", "errno", "rule"}
  /\ DOMAIN p.rule = S

(* What the loaded filter answers for system call s. *)
FilterAction(p, s) ==
  IF p.rule[s] = NoRule THEN map_action_string(p.default)
                        ELSE resolve_rule_action(p.rule[s])

(* seccomp_rule_add() refuses a rule whose action is the default action    *)
(* (-EACCES); build_seccomp_context() then gives up and main() exits.      *)
(* Only the other policies ever reach the target.                          *)
Buildable(p) ==
  \A s \in DOMAIN p.rule :
    p.rule[s] # NoRule => resolve_rule_action(p.rule[s]) # map_action_string(p.default)

(* What the profile says about s: it forbids the call. *)
Denying == {"SCMP_ACT_ERRNO", "SCMP_ACT_KILL", "SCMP_ACT_KILL_PROCESS",
            "SCMP_ACT_KILL_THREAD", "SCMP_ACT_TRAP"}
Denies(p, s) == (IF p.rule[s] = NoRule THEN p.default ELSE p.rule[s]) \in Denying
=============================================================================
