-------------------------- MODULE WriteAheadAudit ---------------------------
(***************************************************************************)
(* What sec-seer promises about the calls it intercepts, without ptrace,   *)
(* processes or files: an audit trail that is written ahead.  A flagged    *)
(* call is intercepted, then recorded, and only then may it take effect;   *)
(* what is recorded is the call that was intercepted last.  At the end the *)
(* trail is sealed.  If the auditor dies instead, the call it had          *)
(* intercepted may still take effect, recorded or not, but no later one.   *)
(***************************************************************************)
EXTENDS Naturals, Sequences

CONSTANTS Calls, NoCall

VARIABLES
  auditor,  \* at work, finished or dead
  pending,  \* the call that is intercepted, if any
  audit,    \* recorded calls, oldest first
  effects   \* flagged calls that took effect, oldest first

auditVars == <<auditor, pending, audit, effects>>

Init ==
  /\ auditor = "on"
  /\ pending = NoCall
  /\ audit = << >>
  /\ effects = << >>

Intercept(c) ==
  /\ auditor = "on"
  /\ pending = NoCall
  /\ pending' = c
  /\ UNCHANGED <<auditor, audit, effects>>

Record ==
  /\ auditor = "on"
  /\ pending # NoCall
  /\ audit = effects
  /\ audit' = Append(audit, pending)
  /\ UNCHANGED <<auditor, pending, effects>>

TakeEffect ==
  /\ auditor = "on"
  /\ pending # NoCall
  /\ audit = Append(effects, pending)
  /\ effects' = audit
  /\ pending' = NoCall
  /\ UNCHANGED <<auditor, audit>>

Seal ==
  /\ auditor = "on"
  /\ auditor' = "sealed"
  /\ UNCHANGED <<pending, audit, effects>>

Die ==
  /\ auditor = "on"
  /\ auditor' = "dead"
  /\ UNCHANGED <<pending, audit, effects>>

Escape ==
  /\ auditor = "dead"
  /\ pending # NoCall
  /\ effects' = Append(effects, pending)
  /\ pending' = NoCall
  /\ UNCHANGED <<auditor, audit>>

Next ==
  \/ \E c \in Calls : Intercept(c)
  \/ Record
  \/ TakeEffect
  \/ Seal
  \/ Die
  \/ Escape

Spec == Init /\ [][Next]_auditVars
=============================================================================
