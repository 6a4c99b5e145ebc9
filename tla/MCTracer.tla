------------------------------ MODULE MCTracer ------------------------------
(* Instances of Tracer.  A policy gives every system call the model names  *)
(* a rule or none.                                                         *)
EXTENDS Tracer

Policy(def, err, e, x, c, w) ==
  [ default |-> def, errno |-> err,
    rule |-> [s \in Syscalls |-> CASE s = Execve    -> e
                                   [] s = ExitGroup -> x
                                   [] s = Clone     -> c
                                   [] s = Write     -> w] ]

Allow == "SCMP_ACT_ALLOW"

(* Block lists: what is not named is allowed. *)
BlockLists ==
  { Policy(Allow, 1, NoRule, NoRule, "SCMP_ACT_ERRNO", "SCMP_ACT_KILL"),
    Policy(Allow, 1, "SCMP_ACT_ERRNO", "SCMP_ACT_TRAP", NoRule, "SCMP_ACT_LOG") }

(* Allow lists: what is not named gets the default action. *)
AllowLists ==
  { Policy("SCMP_ACT_ERRNO", 0, NoRule, Allow, NoRule, Allow),
    Policy("SCMP_ACT_ERRNO", 1, Allow, Allow, NoRule, "SCMP_ACT_TRACE"),
    Policy("SCMP_ACT_KILL_PROCESS", 1, Allow, Allow, NoRule, NoRule),
    Policy("SCMP_ACT_TRAP", 1, Allow, Allow, NoRule, NoRule),
    Policy("SCMP_ACT_TRACE", 1, NoRule, NoRule, NoRule, Allow),
    \* exit_group is denied
    Policy("SCMP_ACT_ERRNO", 1, Allow, NoRule, NoRule, Allow),
    Policy("SCMP_ACT_TRAP", 1, NoRule, NoRule, "SCMP_ACT_ERRNO", Allow) }

AllPolicies == BlockLists \cup AllowLists
=============================================================================
