------------------------------ MODULE Startup ------------------------------
(***************************************************************************)
(* main() up to fork(): the option loop, and the calls that make the       *)
(* profile, the runtime context, the filter context and the argument       *)
(* vector.  getopt_long() is external: it hands out the options in the     *)
(* order of the command line, "?" for what it does not know or what lacks  *)
(* its argument, and keeps the other words for the end.                    *)
(***************************************************************************)
EXTENDS Integers, Sequences

VARIABLES
  line,      \* the command line: "t", "p", "l", "h", "?" and "word"
  optind,    \* how far getopt_long() has read it
  given,     \* target_binary, json_profile and logfile: which are set
  pc,        \* "options", "parse", "runtime", "build", "split", "fork", "observe", "exit"
  code,      \* the exit code
  owned      \* what main() owns

startVars == <<line, optind, given, pc, code, owned>>

(* What getopt_long() returns next: the words before it are passed over. *)
NextOption(n) == line[n] # "word" /\ \A m \in optind + 1 .. n - 1 : line[m] = "word"

ProgramExit(c) == pc' = "exit" /\ code' = c

(* The command line is given. *)
StartInit ==
  /\ optind = 0 /\ given = {} /\ owned = {}
  /\ pc = "options" /\ code = -1

(* case 't', 'p' and 'l' *)
TakeOption(opt) ==
  IF opt \in given
  THEN ProgramExit(1) /\ UNCHANGED given
  ELSE given' = given \cup {opt} /\ UNCHANGED <<pc, code>>

GetOpt ==
  /\ pc = "options"
  /\ \E n \in optind + 1 .. Len(line) :
       /\ NextOption(n) /\ optind' = n
       /\ CASE line[n] \in {"t", "p", "l"} -> TakeOption(line[n])
            [] line[n] = "h" -> ProgramExit(0) /\ UNCHANGED given
            [] OTHER -> ProgramExit(1) /\ UNCHANGED given
  /\ UNCHANGED <<line, owned>>

(* Words left over, or an option missing. *)
OptionsDone ==
  /\ pc = "options" /\ \A n \in optind + 1 .. Len(line) : line[n] = "word"
  /\ IF (\E n \in 1 .. Len(line) : line[n] = "word") \/ given # {"t", "p", "l"}
     THEN ProgramExit(1) ELSE pc' = "parse" /\ UNCHANGED code
  /\ UNCHANGED <<line, optind, given, owned>>

(* A call that makes one thing, or fails and leaves what it says. *)
Make(at, thing, next, left) ==
  /\ pc = at
  /\ \/ /\ pc' = next /\ owned' = owned \cup {thing}
        /\ UNCHANGED code
     \/ ProgramExit(1) /\ owned' = left
  /\ UNCHANGED <<line, optind, given>>

(* Mutant: a failure is taken for success. *)
ParseProfile_Unchecked ==
  /\ pc = "parse" /\ pc' = "runtime"
  /\ owned' \in {owned, owned \cup {"profile"}}
  /\ UNCHANGED <<line, optind, given, code>>

(* parse_JSON() frees what it made when it fails. *)
ParseProfile == Make("parse", "profile", "runtime", owned)

(* Mutant: the profile is not released. *)
MakeRuntime_Leaks == Make("runtime", "runtime_ctx", "build", owned)

MakeRuntime == Make("runtime", "runtime_ctx", "build", owned \ {"profile"})
BuildContext == Make("build", "seccomp_ctx", "split", owned \ {"profile"})
SplitTarget == Make("split", "target_argv", "fork", owned)

(* The parent keeps only the filter context; it releases the rest. *)
Fork ==
  /\ pc = "fork"
  /\ \/ pc' = "observe" /\ owned' = {"seccomp_ctx"} /\ UNCHANGED code
     \/ ProgramExit(1) /\ UNCHANGED owned
  /\ UNCHANGED <<line, optind, given>>

StartNext ==
  \/ GetOpt \/ OptionsDone
  \/ ParseProfile \/ MakeRuntime \/ BuildContext \/ SplitTarget \/ Fork

-----------------------------------------------------------------------------
(* Properties. *)

(* The target is only started for a command line that consists of the      *)
(* three options, each once and in any order, and with everything made.    *)
(* Otherwise main() reports a failure, except for --help with nothing      *)
(* wrong before it; words that are no options do not count there, as       *)
(* getopt_long() moves them out of the way.                                *)
StartedOnlyIfComplete ==
  /\ pc = "fork" =>
       /\ Len(line) = 3 /\ {line[n] : n \in 1 .. 3} = {"t", "p", "l"}
       /\ owned = {"profile", "runtime_ctx", "seccomp_ctx", "target_argv"}
  /\ code = 0 =>
       /\ line[optind] = "h"
       /\ \A n \in 1 .. optind - 1 :
            /\ line[n] \in {"t", "p", "l", "word"}
            /\ \A m \in 1 .. n - 1 : line[n] = line[m] => line[n] = "word"
       /\ owned = {}
=============================================================================
