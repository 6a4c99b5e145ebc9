----------------------------- MODULE MCCtxBuild -----------------------------
(* Instances of CtxBuild: all profiles of up to three rules out of a list  *)
(* that holds one rule of each kind the builder tells apart.               *)
EXTENDS CtxBuild

CONSTANTS A, B, Bogus   \* two system calls and a name that is none

Allow == "SCMP_ACT_ALLOW"
Errno == "SCMP_ACT_ERRNO"

R(names, action, include, exclude, args) ==
  [ names |-> names, action |-> action, include |-> include,
    exclude |-> exclude, args |-> args ]

Arg(index, op, value, value_two) ==
  [index |-> index, op |-> op, value |-> value, value_two |-> value_two]

Filter(arches, caps, min) == [arches |-> arches, caps |-> caps, min_kernel |-> min]
Always(names, action) == R(names, action, NoString, NoString, << >>)

(* Unconditional rules, and rules for some environments. *)
PlainRules ==
  { Always(<<A>>, Allow),
    Always(<<Bogus, B>>, "SCMP_ACT_KILL"),
    R(<<A, B>>, Errno, Filter({"SCMP_ARCH_X86_64"}, {}, <<5, 4>>), NoString, << >>),
    R(<<B>>, Allow, Filter({}, {<<"num", 21>>}, NoString), NoString, << >>),
    R(<<A>>, Errno, NoString, Filter({"SCMP_ARCH_NATIVE"}, {<<"num", 21>>}, NoString), << >>),
    R(<<B>>, "SCMP_ACT_LOG", Filter({}, {}, Malformed), Filter({}, {}, NoString), << >>) }

(* Rules with argument constraints. *)
ArgRules ==
  { R(<<A>>, Errno, NoString, NoString, <<Arg(0, "SCMP_CMP_GE", 2, 0)>>),
    R(<<A>>, Allow, NoString, NoString, <<Arg(0, "SCMP_CMP_GE", 2, 0)>>),
    R(<<A>>, Errno, NoString, NoString, <<Arg(0, "SCMP_CMP_MASKED_EQ", 1, 1), Arg(1, "=", 0, 0)>>),
    R(<<A>>, Errno, NoString, NoString, <<Arg(1, "SCMP_CMP_NE", 1, 0), Arg(1, "SCMP_CMP_NE", 2, 0)>>) }

UpTo(S, n) == UNION {[1 .. m -> S] : m \in 0 .. n}

ArchMaps ==
  { << >>,
    <<[architecture |-> "SCMP_ARCH_X86_64",
       sub_architectures |-> <<"SCMP_ARCH_X86", "SCMP_ARCH_X32">>]>>,
    <<[architecture |-> "native", sub_architectures |-> << >>],
      [architecture |-> "SCMP_ARCH_AARCH64", sub_architectures |-> <<"SCMP_ARCH_ARM">>]>>,
    <<[architecture |-> "SCMP_ARCH_S390X", sub_architectures |-> << >>]>> }

Profile(def, archs, rules) ==
  [ default_action |-> def, default_errno_ret |-> 1, arch_map |-> archs, syscalls |-> rules ]

AllProfiles ==
  { Profile(def, archs, rules) :
      def \in {Allow, Errno, "SCMP_ACT_TRACE"}, archs \in ArchMaps,
      rules \in UpTo(PlainRules \cup ArgRules, 2)
                  \cup [1 .. 3 -> ArgRules \cup {Always(<<A>>, Allow), Always(<<A>>, Errno)}] }

(* A rule whose action is unknown, under an allow list. *)
UnknownAction ==
  { Profile(Errno, << >>, <<Always(<<A>>, "SCMP_ACT_DENY")>>) }

(* A rule for processes with CAP_SYS_ADMIN, by its name. *)
NamedCapability ==
  { Profile(Allow, << >>, <<R(<<A>>, Errno, Filter({}, {<<"sym", 21>>}, NoString), NoString, << >>)>>) }

AllHosts ==
  { [machine |-> "x86_64", native |-> "SCMP_ARCH_X86_64", release |-> <<6, 1>>, cap_eff |-> {21}],
    [machine |-> "x86_64", native |-> "SCMP_ARCH_X86_64", release |-> <<5, 3>>, cap_eff |-> {}],
    [machine |-> "ppc64", native |-> "SCMP_ARCH_PPC64", release |-> Malformed, cap_eff |-> {0, 21}],
    [machine |-> "loongarch64", native |-> "SCMP_ARCH_LOONGARCH64", release |-> <<6, 1>>, cap_eff |-> {}] }
=============================================================================
