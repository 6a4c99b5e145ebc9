------------------------------ MODULE CtxBuild ------------------------------
(***************************************************************************)
(* From a parsed profile to a libseccomp filter: build_runtime_context()   *)
(* and build_seccomp_context() of ctx-build.c, one action per iteration of *)
(* their loops.  libseccomp is external: a filter context is, for each     *)
(* architecture, what each system call is answered.                        *)
(*                                                                         *)
(* A capability string is a pair: <<"num", n>> is "CAP_n", <<"sym", n>>    *)
(* the symbolic name of capability n.  An argument vector is reduced to    *)
(* argument 0, with values that fit two bits; all other indices the        *)
(* profile may name are 0 in every call.                                   *)
(***************************************************************************)
EXTENDS PolicyMap, Integers, Sequences

LOCAL INSTANCE Functions

CONSTANTS
  Names,      \* the names that seccomp_syscall_resolve_name() resolves
  NoString,   \* a field that is absent from the profile: NULL
  Malformed,  \* a version string that does not begin with "%u.%u"
  Profiles,   \* the profiles to build
  Hosts,      \* the machines to build on
  BuildFaults \* what may fail, a subset of {"runtime", "init", "alloc"}

ASSUME CtxBuildAssumption ==
  /\ NoRule \notin ActionStrings \cup KernelActions
  /\ NoString \notin ActionStrings
  /\ NoRule # NoString
  /\ BuildFaults \subseteq {"runtime", "init", "alloc"}

(* The arrays of a profile are sequences, and a rule's action is a string  *)
(* or absent.                                                              *)
IsArray(s) == s \in Seq({s[n] : n \in DOMAIN s})

ASSUME ProfilesAssumption ==
  \A p \in Profiles :
    /\ IsArray(p.arch_map) /\ IsArray(p.syscalls)
    /\ \A k \in 1 .. Len(p.arch_map) : IsArray(p.arch_map[k].sub_architectures)
    /\ \A k \in 1 .. Len(p.syscalls) : /\ IsArray(p.syscalls[k].names)
                                      /\ IsArray(p.syscalls[k].args)
                                      /\ p.syscalls[k].action # NoRule

VARIABLES
  profile,  \* SeccompProfile
  host,     \* what uname() and /proc/self/status say
  rt,       \* SeccompRuntimeContext
  pc,       \* where the construction is
  i, j,     \* the counters of the outer and of the inner loop
  ctx,      \* the filter: architecture -> system call -> entry
  heap      \* the filter context: "none", "live" or "released"

ctxVars == <<profile, host, rt, pc, i, j, ctx, heap>>

-----------------------------------------------------------------------------
(* The tables. *)

ArchStrings ==
  { "SCMP_ARCH_NATIVE", "SCMP_ARCH_X86", "SCMP_ARCH_X86_64", "SCMP_ARCH_X32",
    "SCMP_ARCH_ARM", "SCMP_ARCH_AARCH64", "SCMP_ARCH_MIPS",
    "SCMP_ARCH_MIPS64", "SCMP_ARCH_MIPS64N32", "SCMP_ARCH_MIPSEL",
    "SCMP_ARCH_MIPSEL64", "SCMP_ARCH_MIPSEL64N32", "SCMP_ARCH_PPC",
    "SCMP_ARCH_PPC64", "SCMP_ARCH_PPC64LE", "SCMP_ARCH_S390",
    "SCMP_ARCH_S390X", "SCMP_ARCH_PARISC", "SCMP_ARCH_PARISC64",
    "SCMP_ARCH_RISCV64" }

map_arch_string(a) == IF a \in ArchStrings THEN a ELSE "SCMP_ARCH_NATIVE"

CmpOps == {"SCMP_CMP_NE", "SCMP_CMP_LT", "SCMP_CMP_LE", "SCMP_CMP_EQ",
           "SCMP_CMP_GE", "SCMP_CMP_GT", "SCMP_CMP_MASKED_EQ"}

map_cmp_op_string(op) == IF op \in CmpOps THEN op ELSE "SCMP_CMP_EQ"

(* uts.machine -> current_arch; machines outside the table are NATIVE. *)
MachineTable ==
  [ x86_64  |-> "SCMP_ARCH_X86_64",  i386   |-> "SCMP_ARCH_X86",
    i486    |-> "SCMP_ARCH_X86",     i586   |-> "SCMP_ARCH_X86",
    i686    |-> "SCMP_ARCH_X86",     aarch64 |-> "SCMP_ARCH_AARCH64",
    armv7l  |-> "SCMP_ARCH_ARM",     armv6l |-> "SCMP_ARCH_ARM",
    ppc64le |-> "SCMP_ARCH_PPC64LE", ppc64  |-> "SCMP_ARCH_PPC64",
    ppc     |-> "SCMP_ARCH_PPC",     s390x  |-> "SCMP_ARCH_S390X",
    s390    |-> "SCMP_ARCH_S390",    riscv64 |-> "SCMP_ARCH_RISCV64",
    mips    |-> "SCMP_ARCH_MIPS",    mips64 |-> "SCMP_ARCH_MIPS64" ]

MachineArch(m) ==
  IF m \in DOMAIN MachineTable THEN MachineTable[m] ELSE "SCMP_ARCH_NATIVE"

-----------------------------------------------------------------------------
(* build_runtime_context(). *)

Capabilities == 0 .. 63

build_held_caps(h) == {<<"num", n>> : n \in h.cap_eff \cap Capabilities}

RuntimeOf(h) ==
  [ current_arch |-> MachineArch(h.machine),
    kernel       |-> IF h.release = Malformed THEN <<0, 0>> ELSE h.release,
    held_caps    |-> build_held_caps(h) ]

-----------------------------------------------------------------------------
(* Environment filters of a rule.  An absent filter is NoString; absent    *)
(* arrays are empty.                                                       *)

arch_matches(arches, r) ==
  arches = {} \/ "SCMP_ARCH_NATIVE" \in arches \/ r.current_arch \in arches

caps_match(caps, r) == caps = {} \/ caps \subseteq r.held_caps

AtLeast(v, w) == v[1] > w[1] \/ (v[1] = w[1] /\ v[2] >= w[2])

(* An empty string counts as absent. *)
kernel_matches(min, r) ==
  min # NoString => min # Malformed /\ AtLeast(r.kernel, min)

FilterMatches(f, r) ==
  /\ arch_matches(f.arches, r)
  /\ caps_match(f.caps, r)
  /\ kernel_matches(f.min_kernel, r)

rule_applies(rule, r) ==
  /\ rule.include # NoString => FilterMatches(rule.include, r)
  /\ rule.exclude # NoString => ~FilterMatches(rule.exclude, r)

-----------------------------------------------------------------------------
(* libseccomp (external). *)

BigEndian == {"SCMP_ARCH_MIPS", "SCMP_ARCH_MIPS64", "SCMP_ARCH_MIPS64N32",
              "SCMP_ARCH_PPC", "SCMP_ARCH_PPC64", "SCMP_ARCH_S390",
              "SCMP_ARCH_S390X", "SCMP_ARCH_PARISC", "SCMP_ARCH_PARISC64"}

NativeArch == host.native
RealArch(a) == IF a = "SCMP_ARCH_NATIVE" THEN NativeArch ELSE a

(* Nothing is known of a system call. *)
NoEntry == [always |-> NoRule, cond |-> {}]
EmptyTable == [s \in Names |-> NoEntry]

(* seccomp_arch_add(): -EEXIST is accepted by the caller; an architecture  *)
(* of the other byte order is refused.  A new one starts without rules.    *)
ArchRefused(a) == (RealArch(a) \in BigEndian) # (NativeArch \in BigEndian)
WithArch(c, a) ==
  [b \in DOMAIN c \cup {RealArch(a)} |-> IF b \in DOMAIN c THEN c[b]
                                                           ELSE EmptyTable]

(* seccomp_rule_add() and seccomp_rule_add_array(): the first rule without *)
(* constraints wins for good; constraints of one rule are about different  *)
(* arguments; equal constraints, in whatever order, with another action    *)
(* conflict.                                                               *)
DuplicateArg(args) ==
  \E m, n \in 1 .. Len(args) : m # n /\ args[m].index = args[n].index
Conflicts(e, action, args) ==
  /\ e.always = NoRule
  /\ \E c \in e.cond : Range(c.args) = Range(args) /\ c.action # action

RuleRefused(action, s, args) ==
  \/ action = map_action_string(profile.default_action)
  \/ DuplicateArg(args)
  \/ \E n \in 1 .. Len(args) : args[n].index > 5
  \/ args # << >> /\ \E a \in DOMAIN ctx : Conflicts(ctx[a][s], action, args)

WithRule(e, action, args) ==
  IF e.always # NoRule THEN e
  ELSE IF args = << >> THEN [always |-> action, cond |-> {}]
  ELSE [e EXCEPT !.cond = @ \cup {[args |-> args, action |-> action]}]

-----------------------------------------------------------------------------
(* add_arg_rule(): the constraints as libseccomp gets them. *)

CmpArray(rule) ==
  [n \in 1 .. Len(rule.args) |->
    [rule.args[n] EXCEPT !.op = map_cmp_op_string(@)]]

-----------------------------------------------------------------------------
Init ==
  /\ profile \in Profiles /\ host \in Hosts
  /\ rt = NoString
  /\ pc = "runtime"
  /\ i = 1 /\ j = 0
  /\ ctx = << >>
  /\ heap = "none"

(* build_runtime_context(); on an error main() exits. *)
BuildRuntime ==
  /\ pc = "runtime"
  /\ \/ rt' = RuntimeOf(host) /\ pc' = "init"
     \/ "runtime" \in BuildFaults /\ rt' = NoString /\ pc' = "null"
  /\ UNCHANGED <<profile, host, i, j, ctx, heap>>

SeccompInit ==
  /\ pc = "init"
  /\ \/ /\ ctx' = [a \in {NativeArch} |-> EmptyTable]
        /\ heap' = "live"
        /\ pc' = "archs"
     \/ /\ "init" \in BuildFaults
        /\ pc' = "null"
        /\ UNCHANGED <<ctx, heap>>
  /\ UNCHANGED <<profile, host, rt, i, j>>

(* A plausible bug: return NULL without seccomp_release(). *)
Fail_Leaks ==
  /\ pc' = "null"
  /\ UNCHANGED <<profile, host, rt, i, j, ctx, heap>>

(* The label fail: seccomp_release() and return NULL. *)
Fail ==
  /\ heap' = "released"
  /\ pc' = "null"
  /\ UNCHANGED <<profile, host, rt, i, j, ctx>>

(* The architecture (j = 0) or sub-architecture j of entry i. *)
ArchAt == IF j = 0 THEN profile.arch_map[i].architecture
                   ELSE profile.arch_map[i].sub_architectures[j]

AddArch ==
  /\ pc = "archs" /\ i <= Len(profile.arch_map)
  /\ j <= Len(profile.arch_map[i].sub_architectures)
  /\ LET a == map_arch_string(ArchAt) IN
       \/ ArchRefused(a) /\ Fail
       \/ /\ ~ArchRefused(a)
          /\ ctx' = WithArch(ctx, a)
          /\ j' = j + 1
          /\ UNCHANGED <<profile, host, rt, pc, i, heap>>

NextArch ==
  /\ pc = "archs" /\ i <= Len(profile.arch_map)
  /\ j > Len(profile.arch_map[i].sub_architectures)
  /\ i' = i + 1 /\ j' = 0
  /\ UNCHANGED <<profile, host, rt, pc, ctx, heap>>

(* A plausible bug: the loop over the architectures ends one entry early. *)
ArchsDone_OffByOne ==
  /\ pc = "archs" /\ i >= Len(profile.arch_map)
  /\ pc' = "rules"
  /\ i' = 1 /\ j' = 1
  /\ UNCHANGED <<profile, host, rt, ctx, heap>>

ArchsDone ==
  /\ pc = "archs" /\ i > Len(profile.arch_map)
  /\ pc' = "rules"
  /\ i' = 1 /\ j' = 1
  /\ UNCHANGED <<profile, host, rt, ctx, heap>>

Rule == profile.syscalls[i]

(* The rule does not apply here, or all its names are done. *)
NextRule ==
  /\ pc = "rules" /\ i <= Len(profile.syscalls)
  /\ ~rule_applies(Rule, rt) \/ j > Len(Rule.names)
  /\ i' = i + 1 /\ j' = 1
  /\ UNCHANGED <<profile, host, rt, pc, ctx, heap>>

AtName ==
  /\ pc = "rules" /\ i <= Len(profile.syscalls)
  /\ rule_applies(Rule, rt)
  /\ j <= Len(Rule.names)

(* A plausible bug: an unknown name drops the rest of the rule. *)
SkipName_DropsRule ==
  /\ AtName
  /\ Rule.names[j] \notin Names
  /\ i' = i + 1 /\ j' = 1
  /\ UNCHANGED <<profile, host, rt, pc, ctx, heap>>

(* An unknown name only earns a warning. *)
SkipName ==
  /\ AtName
  /\ Rule.names[j] \notin Names
  /\ j' = j + 1
  /\ UNCHANGED <<profile, host, rt, pc, i, ctx, heap>>

AddRule ==
  /\ AtName
  /\ Rule.names[j] \in Names
  /\ LET s      == Rule.names[j]
         action == resolve_rule_action(Rule.action)
         args   == CmpArray(Rule)
     IN  \/ /\ \/ RuleRefused(action, s, args)
               \/ args # << >> /\ "alloc" \in BuildFaults
            /\ Fail
         \/ /\ ~RuleRefused(action, s, args)
            /\ ctx' = [a \in DOMAIN ctx |->
                        [ctx[a] EXCEPT ![s] = WithRule(@, action, args)]]
            /\ j' = j + 1
            /\ UNCHANGED <<profile, host, rt, pc, i, heap>>

Built ==
  /\ pc = "rules" /\ i > Len(profile.syscalls)
  /\ pc' = "built"
  /\ UNCHANGED <<profile, host, rt, i, j, ctx, heap>>

(* main() forks, or exits. *)
Terminated == pc \in {"built", "null"} /\ UNCHANGED ctxVars

Next ==
  \/ BuildRuntime \/ SeccompInit \/ AddArch \/ NextArch \/ ArchsDone
  \/ NextRule \/ SkipName \/ AddRule \/ Built \/ Terminated

Spec == Init /\ [][Next]_ctxVars

-----------------------------------------------------------------------------
(* What the filter answers, and what the profile asks for.                 *)

And(x, y) ==
  (IF x % 2 = 1 /\ y % 2 = 1 THEN 1 ELSE 0)
    + (IF x \div 2 = 1 /\ y \div 2 = 1 THEN 2 ELSE 0)

(* Constraint c for a call whose argument 0 is v. *)
Holds(c, v) ==
  LET x == IF c.index = 0 THEN v ELSE 0 IN
    CASE c.op = "SCMP_CMP_NE" -> x # c.value
      [] c.op = "SCMP_CMP_LT" -> x < c.value
      [] c.op = "SCMP_CMP_LE" -> x <= c.value
      [] c.op = "SCMP_CMP_EQ" -> x = c.value
      [] c.op = "SCMP_CMP_GE" -> x >= c.value
      [] c.op = "SCMP_CMP_GT" -> x > c.value
      [] c.op = "SCMP_CMP_MASKED_EQ" -> And(x, c.value) = c.value_two

AllHold(args, v) == \A n \in 1 .. Len(args) : Holds(args[n], v)

DefaultAction == map_action_string(profile.default_action)

(* The filter's answers: more than one only where constraints with         *)
(* different actions overlap.                                              *)
Answers(a, s, v) ==
  LET e    == ctx[a][s]
      hits == {c \in e.cond : AllHold(c.args, v)}
  IN  IF e.always # NoRule THEN {e.always}
      ELSE IF hits # {} THEN {c.action : c \in hits}
      ELSE {DefaultAction}

Applicable(s) ==
  {k \in 1 .. Len(profile.syscalls) :
    /\ rule_applies(profile.syscalls[k], rt)
    /\ \E n \in 1 .. Len(profile.syscalls[k].names) :
         profile.syscalls[k].names[n] = s}

Plain(s) == {k \in Applicable(s) : profile.syscalls[k].args = << >>}
FirstOf(S) == CHOOSE k \in S : \A m \in S : k <= m

Expected(s, v) ==
  LET hits == {k \in Applicable(s) : AllHold(CmpArray(profile.syscalls[k]), v)}
  IN  IF Plain(s) # {}
        THEN {resolve_rule_action(profile.syscalls[FirstOf(Plain(s))].action)}
      ELSE IF hits # {}
        THEN {resolve_rule_action(profile.syscalls[k].action) : k \in hits}
      ELSE {DefaultAction}

(* The policy as module Tracer takes it: one action per system call. *)
AsPolicy ==
  [ default |-> profile.default_action,
    errno   |-> profile.default_errno_ret,
    rule    |-> [s \in Names |->
                  IF Plain(s) = {} THEN NoRule
                  ELSE profile.syscalls[FirstOf(Plain(s))].action] ]

-----------------------------------------------------------------------------
(* Types; every rule build_seccomp_context() adds lets the call pass or    *)
(* hands it to the tracer, whatever action the profile names.              *)
CtxTypeOK ==
  /\ pc \in {"runtime", "init", "archs", "rules", "built", "null"}
  /\ heap \in {"none", "live", "released"}
  /\ i \in Nat /\ j \in Nat
  /\ \A a \in DOMAIN ctx : /\ DOMAIN ctx[a] = Names
                           /\ \A s \in Names :
                                /\ ctx[a][s].always \in {NoRule, "ALLOW", "TRACE"}
                                /\ \A c \in ctx[a][s].cond : c.action \in {"ALLOW", "TRACE"}

(* The loops over architectures, rules and names build, on every           *)
(* architecture the profile lists and on the native one, the filter that   *)
(* the applicable rules describe: no rule is lost to an unknown name, to a *)
(* rule that does not apply or to the order in which the parts are added.  *)
FilterMatchesProfile ==
  pc = "built" =>
    /\ DOMAIN ctx = {NativeArch} \cup
         UNION {{RealArch(map_arch_string(m.architecture))} \cup
                  {RealArch(map_arch_string(m.sub_architectures[n])) :
                     n \in 1 .. Len(m.sub_architectures)} :
                m \in {profile.arch_map[k] : k \in 1 .. Len(profile.arch_map)}}
    /\ \A a \in DOMAIN ctx, s \in Names, v \in 0 .. 3 : Answers(a, s, v) = Expected(s, v)

(* What module Tracer assumes of the policy it is given: for a profile     *)
(* without argument constraints a filter that was built is one of          *)
(* Tracer's policies, and answers what Tracer's filter answers.            *)
TracerPolicy ==
  pc = "built" /\ (\A k \in 1 .. Len(profile.syscalls) : profile.syscalls[k].args = << >>) =>
    /\ Buildable(AsPolicy)
    /\ \A a \in DOMAIN ctx, s \in Names : Answers(a, s, 0) = {FilterAction(AsPolicy, s)}

(* Every error path releases the context it gives up, and the context that *)
(* is handed to the child has not been released.                           *)
ContextOwned ==
  /\ pc = "built" => heap = "live"
  /\ pc = "null" => heap # "live"

(* README.md, line 151: "anything except `SCMP_ACT_ALLOW` is rewritten to  *)
(* `SCMP_ACT_TRACE(0)` so the tracer can observe it".                      *)
RewrittenToTrace ==
  pc = "built" =>
    \A a \in DOMAIN ctx, s \in Names :
      Plain(s) # {} /\ profile.syscalls[FirstOf(Plain(s))].action # "SCMP_ACT_ALLOW" =>
        Answers(a, s, 0) = {"TRACE"}

(* README.md, line 37: "Rules are evaluated against the runtime            *)
(* environment - architecture, kernel version, and the process's effective *)
(* capabilities": an include filter that asks for capabilities the process *)
(* holds, by their names, does not keep the rule out.                      *)
HeldCapabilitiesCount ==
  pc = "built" =>
    \A k \in 1 .. Len(profile.syscalls) :
      LET f == profile.syscalls[k].include IN
        /\ f # NoString /\ f.arches = {} /\ f.min_kernel = NoString
        /\ profile.syscalls[k].exclude = NoString
        /\ \A c \in f.caps : c[2] \in host.cap_eff
        => rule_applies(profile.syscalls[k], rt)
=============================================================================
