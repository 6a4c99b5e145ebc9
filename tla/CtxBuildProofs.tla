--------------------------- MODULE CtxBuildProofs ---------------------------
(***************************************************************************)
(* build_seccomp_context() for every profile and every host: who owns the  *)
(* filter context when it returns, that all architectures of the filter    *)
(* get the same rules, and that the filter is the one that the applicable  *)
(* rules of the profile describe.                                          *)
(***************************************************************************)
EXTENDS CtxBuild, TLAPS

(* What heap is at each point of the construction. *)
OwnInv ==
  /\ pc \in {"runtime", "init", "archs", "rules", "built", "null"}
  /\ pc \in {"runtime", "init"} => heap = "none"
  /\ pc \in {"archs", "rules", "built"} => heap = "live"
  /\ pc = "null" => heap # "live"

(* Every error exit of build_seccomp_context() has released the context,   *)
(* and the context it returns has not been released.                       *)
THEOREM Ownership == Spec => []ContextOwned
<1>1. Init => OwnInv
  BY DEF Init, OwnInv
<1>2. OwnInv /\ [Next]_ctxVars => OwnInv'
  <2> SUFFICES ASSUME OwnInv, [Next]_ctxVars PROVE OwnInv'
    OBVIOUS
  <2>1. CASE BuildRuntime
    BY <2>1 DEF OwnInv, BuildRuntime
  <2>2. CASE SeccompInit
    BY <2>2 DEF OwnInv, SeccompInit
  <2>3. CASE AddArch
    BY <2>3 DEF OwnInv, AddArch, Fail
  <2>4. CASE NextArch \/ ArchsDone
    BY <2>4 DEF OwnInv, NextArch, ArchsDone
  <2>5. CASE NextRule \/ SkipName \/ Built
    BY <2>5 DEF OwnInv, NextRule, SkipName, Built
  <2>6. CASE AddRule
    BY <2>6 DEF OwnInv, AddRule, AtName, Fail
  <2>7. CASE Terminated \/ UNCHANGED ctxVars
    BY <2>7 DEF OwnInv, Terminated, ctxVars
  <2> QED
    BY <2>1, <2>2, <2>3, <2>4, <2>5, <2>6, <2>7 DEF Next
<1>3. OwnInv => ContextOwned
  BY DEF OwnInv, ContextOwned
<1> QED
  BY <1>1, <1>2, <1>3, PTL DEF Spec

-----------------------------------------------------------------------------
(* All architectures of the filter have the same rules. *)
ArchsAgree == \A a, b \in DOMAIN ctx : ctx[a] = ctx[b]

(* No rule is added before the last architecture. *)
TableInv ==
  /\ pc \in {"runtime", "init"} => ctx = << >>
  /\ pc = "archs" => \A a \in DOMAIN ctx : ctx[a] = EmptyTable
  /\ ArchsAgree

(* Every architecture of the filter answers by the same table: the         *)
(* architectures are complete before the first rule is added, and each     *)
(* rule is added to all of them.                                           *)
THEOREM SameRulesEverywhere == Spec => []ArchsAgree
<1>1. Init => TableInv
  BY DEF Init, TableInv, ArchsAgree
<1>2. TableInv /\ [Next]_ctxVars => TableInv'
  <2> SUFFICES ASSUME TableInv, [Next]_ctxVars PROVE TableInv'
    OBVIOUS
  <2>1. CASE BuildRuntime
    BY <2>1 DEF TableInv, ArchsAgree, BuildRuntime
  <2>2. CASE SeccompInit
    BY <2>2 DEF TableInv, ArchsAgree, SeccompInit, EmptyTable
  <2>3. CASE AddArch
    <3>1. CASE Fail
      BY <3>1 DEF TableInv, ArchsAgree, Fail
    <3>2. CASE ctx' = WithArch(ctx, map_arch_string(ArchAt)) /\ pc' = pc
      <4>1. \A a \in DOMAIN ctx' : ctx'[a] = EmptyTable
        BY <3>2, <2>3 DEF AddArch, TableInv, WithArch
      <4>2. EmptyTable' = EmptyTable
        BY DEF EmptyTable, NoEntry
      <4> QED
        BY <4>1, <4>2, <3>2, <2>3 DEF AddArch, TableInv, ArchsAgree
    <3> QED
      BY <3>1, <3>2, <2>3 DEF AddArch
  <2>4. CASE NextArch \/ ArchsDone
    BY <2>4 DEF TableInv, ArchsAgree, NextArch, ArchsDone, EmptyTable, NoEntry
  <2>5. CASE NextRule \/ SkipName \/ Built
    BY <2>5 DEF TableInv, ArchsAgree, NextRule, SkipName, Built
  <2>6. CASE AddRule
    <3>1. CASE Fail
      BY <3>1 DEF TableInv, ArchsAgree, Fail
    <3>2. CASE ~Fail
      <4> DEFINE s      == Rule.names[j]
                 action == resolve_rule_action(Rule.action)
                 args   == CmpArray(Rule)
      <4>1. ctx' = [a \in DOMAIN ctx |->
                     [ctx[a] EXCEPT ![s] = WithRule(@, action, args)]]
        BY <3>2, <2>6 DEF AddRule
      <4> HIDE DEF s, action, args
      <4>2. ArchsAgree'
        BY <4>1 DEF TableInv, ArchsAgree
      <4> QED
        BY <4>2, <3>2, <2>6 DEF TableInv, AddRule, AtName
    <3> QED
      BY <3>1, <3>2
  <2>7. CASE Terminated \/ UNCHANGED ctxVars
    BY <2>7 DEF TableInv, ArchsAgree, Terminated, ctxVars, EmptyTable, NoEntry
  <2> QED
    BY <2>1, <2>2, <2>3, <2>4, <2>5, <2>6, <2>7 DEF Next
<1>3. TableInv => ArchsAgree
  BY DEF TableInv
<1> QED
  BY <1>1, <1>2, <1>3, PTL DEF Spec

-----------------------------------------------------------------------------
(* What the loops have done so far. *)

ListedArch(k, n) ==
  RealArch(map_arch_string(IF n = 0 THEN profile.arch_map[k].architecture
                                    ELSE profile.arch_map[k].sub_architectures[n]))

(* The loop counters, (i, j), have passed (k, n). *)
Passed(k, n) == k < i \/ (k = i /\ n < j)

SubArchs(k) == Len(profile.arch_map[k].sub_architectures)

(* The architectures of the filter are the native one and the listed ones  *)
(* that the loop has passed; later, all that are listed.                   *)
ArchsAdded ==
  /\ NativeArch \in DOMAIN ctx
  /\ \A k \in 1 .. Len(profile.arch_map) : \A n \in 0 .. SubArchs(k) :
       (pc = "archs" => Passed(k, n)) => ListedArch(k, n) \in DOMAIN ctx
  /\ \A b \in DOMAIN ctx :
       \/ b = NativeArch
       \/ \E k \in 1 .. Len(profile.arch_map) : \E n \in 0 .. SubArchs(k) :
            (pc = "archs" => Passed(k, n)) /\ b = ListedArch(k, n)

NamesOf(k) == profile.syscalls[k].names

(* The rules the loop has applied to system call s. *)
Applied(s) ==
  {k \in 1 .. Len(profile.syscalls) :
     /\ rule_applies(profile.syscalls[k], rt)
     /\ \E n \in 1 .. Len(NamesOf(k)) : NamesOf(k)[n] = s /\ Passed(k, n)}

ActionOf(k) == resolve_rule_action(profile.syscalls[k].action)
ArgsOf(k) == profile.syscalls[k].args
Constraint(k) == [args |-> CmpArray(profile.syscalls[k]), action |-> ActionOf(k)]

(* An entry without an unconditional rule holds the constraints of all     *)
(* rules applied; otherwise the first unconditional rule decides.          *)
EntryOK(e, applied) ==
  \/ /\ \A k \in applied : ArgsOf(k) # << >>
     /\ e = [always |-> NoRule, cond |-> {Constraint(k) : k \in applied}]
  \/ \E k \in applied : /\ ArgsOf(k) = << >>
                        /\ \A m \in applied : ArgsOf(m) = << >> => k <= m
                        /\ e = [always |-> ActionOf(k), cond |-> {}]

(* No rule that was applied has the default action. *)
RulesAdded ==
  /\ \A a \in DOMAIN ctx : /\ DOMAIN ctx[a] = Names
                           /\ \A s \in Names : EntryOK(ctx[a][s], Applied(s))
  /\ \A s \in Names : \A k \in Applied(s) : ActionOf(k) # DefaultAction

BuildInv ==
  /\ profile \in Profiles
  /\ CtxTypeOK /\ i # 0
  /\ pc \in {"runtime", "init"} => ctx = << >> /\ i = 1 /\ j = 0
  /\ pc = "archs" => ArchsAdded /\ \A a \in DOMAIN ctx : ctx[a] = EmptyTable
  /\ pc \in {"rules", "built"} => ArchsAdded /\ RulesAdded /\ j >= 1
  /\ pc = "built" => i > Len(profile.syscalls)

LEMMA ArrayFacts ==
  ASSUME NEW s, IsArray(s)
  PROVE  Len(s) \in Nat /\ (s = << >> <=> Len(s) = 0)
<1> DEFINE S == {s[n] : n \in DOMAIN s}
<1>1. s \in Seq(S)
  BY DEF IsArray
<1> HIDE DEF S
<1> QED
  BY <1>1

(* The arrays of the profile have lengths, and the constraints handed to   *)
(* libseccomp are as many as the rule's.                                   *)
LEMMA ProfileFacts ==
  ASSUME profile \in Profiles
  PROVE  /\ Len(profile.arch_map) \in Nat /\ Len(profile.syscalls) \in Nat
         /\ \A k \in 1 .. Len(profile.arch_map) : SubArchs(k) \in Nat
         /\ \A k \in 1 .. Len(profile.syscalls) :
              /\ Len(NamesOf(k)) \in Nat
              /\ CmpArray(profile.syscalls[k]) = << >> <=> ArgsOf(k) = << >>
              /\ profile.syscalls[k].action # NoRule
<1>1. /\ Len(profile.arch_map) \in Nat /\ Len(profile.syscalls) \in Nat
      /\ \A k \in 1 .. Len(profile.arch_map) : SubArchs(k) \in Nat
  BY ProfilesAssumption, ArrayFacts DEF SubArchs
<1>2. ASSUME NEW k \in 1 .. Len(profile.syscalls)
      PROVE  /\ Len(NamesOf(k)) \in Nat
             /\ CmpArray(profile.syscalls[k]) = << >> <=> ArgsOf(k) = << >>
             /\ profile.syscalls[k].action # NoRule
  <2>1. IsArray(NamesOf(k)) /\ IsArray(ArgsOf(k)) /\ profile.syscalls[k].action # NoRule
    BY ProfilesAssumption DEF NamesOf, ArgsOf
  <2>2. Len(ArgsOf(k)) \in Nat /\ (ArgsOf(k) = << >> <=> Len(ArgsOf(k)) = 0)
    BY <2>1, ArrayFacts
  <2> DEFINE F(n) == [ArgsOf(k)[n] EXCEPT !.op = map_cmp_op_string(@)]
  <2>3. CmpArray(profile.syscalls[k]) = [n \in 1 .. Len(ArgsOf(k)) |-> F(n)]
    BY DEF CmpArray, ArgsOf
  <2> HIDE DEF F
  <2>4. CmpArray(profile.syscalls[k]) = << >> <=> Len(ArgsOf(k)) = 0
    BY <2>2, <2>3
  <2> QED
    BY <2>1, <2>2, <2>4, ArrayFacts
<1> QED
  BY <1>1, <1>2

LEMMA ActionFacts ==
  \A a : resolve_rule_action(a) \in {"ALLOW", "TRACE"} /\ resolve_rule_action(a) # NoRule
<1>1. "ALLOW" \in KernelActions /\ "TRACE" \in KernelActions
  BY DEF KernelActions, ActionStrings, ActionTable
<1> QED
  BY <1>1, CtxBuildAssumption DEF resolve_rule_action

(* An entry for which no rule was applied is the empty one. *)
LEMMA EmptyEntryOK == EntryOK(NoEntry, {})
BY DEF EntryOK, NoEntry

(* The filter a rule leaves: the entry of its system call is that of the   *)
(* rules applied, the rule included.                                       *)
LEMMA WithRuleOK ==
  ASSUME BuildInv, AddRule, ~Fail
  PROVE  RulesAdded'
<1>0. PICK s, action, args : /\ s = Rule.names[j]
                             /\ action = resolve_rule_action(Rule.action)
                             /\ args = CmpArray(Rule)
  BY Zenon
<1>1. /\ pc = "rules" /\ i \in 1 .. Len(profile.syscalls) /\ s \in Names
      /\ rule_applies(profile.syscalls[i], rt)
      /\ j \in 1 .. Len(NamesOf(i)) /\ NamesOf(i)[j] = s
  BY <1>0, ProfileFacts DEF AddRule, AtName, BuildInv, CtxTypeOK, NamesOf, Rule
<1>2. /\ ~RuleRefused(action, s, args)
      /\ ctx' = [a \in DOMAIN ctx |-> [ctx[a] EXCEPT ![s] = WithRule(@, action, args)]]
      /\ j' = j + 1 /\ UNCHANGED <<profile, host, rt, pc, i, heap>>
  BY <1>0 DEF AddRule
<1>3. action = ActionOf(i) /\ action # NoRule /\ action # DefaultAction
  BY <1>0, <1>2, ActionFacts DEF ActionOf, Rule, RuleRefused, DefaultAction
<1>4. args = CmpArray(profile.syscalls[i]) /\ (args = << >> <=> ArgsOf(i) = << >>)
  BY <1>0, <1>1, ProfileFacts DEF Rule, BuildInv
<1>5. i \in Nat /\ j \in Nat
  BY DEF BuildInv, CtxTypeOK
<1>6. \A k, n \in Int : Passed(k, n)' <=> Passed(k, n) \/ (k = i /\ n = j)
  BY <1>2, <1>5 DEF Passed
<1>7. /\ Applied(s)' = Applied(s) \cup {i}
      /\ \A t \in Names \ {s} : Applied(t)' = Applied(t)
  <2>1. \A k \in 1 .. Len(profile.syscalls) : \A n \in 1 .. Len(NamesOf(k)) :
          Passed(k, n)' <=> Passed(k, n) \/ (k = i /\ n = j)
    BY <1>6
  <2>2. \A t : Applied(t)' =
          {k \in 1 .. Len(profile.syscalls) :
             /\ rule_applies(profile.syscalls[k], rt)
             /\ \E n \in 1 .. Len(NamesOf(k)) : NamesOf(k)[n] = t /\ Passed(k, n)'}
    BY <1>2 DEF Applied, NamesOf, rule_applies, FilterMatches, arch_matches, caps_match,
                kernel_matches, AtLeast
  <2>3. Applied(s)' = Applied(s) \cup {i}
    <3>1. i \in Applied(s)'
      BY <1>1, <2>1, <2>2
    <3>2. ASSUME NEW k \in Applied(s)', k # i PROVE k \in Applied(s)
      <4>1. /\ k \in 1 .. Len(profile.syscalls) /\ rule_applies(profile.syscalls[k], rt)
            /\ \E n \in 1 .. Len(NamesOf(k)) : NamesOf(k)[n] = s /\ Passed(k, n)'
        BY <2>2
      <4>2. \E n \in 1 .. Len(NamesOf(k)) : NamesOf(k)[n] = s /\ Passed(k, n)
        BY <2>1, <3>2, <4>1
      <4> QED
        BY <4>1, <4>2 DEF Applied
    <3>3. \A k \in Applied(s) : k \in Applied(s)'
      BY <2>1, <2>2 DEF Applied
    <3> QED
      BY <3>1, <3>2, <3>3
  <2>4. \A t \in Names \ {s} : Applied(t)' = Applied(t)
    BY <1>1, <2>1, <2>2 DEF Applied
  <2> QED
    BY <2>3, <2>4
<1>8. /\ \A x, K : EntryOK(x, K)' <=> EntryOK(x, K)
      /\ \A k : ActionOf(k)' = ActionOf(k)
      /\ DefaultAction' = DefaultAction
  BY <1>2, ZenonT(40) DEF EntryOK, ArgsOf, ActionOf, Constraint, CmpArray, DefaultAction
<1>9. ASSUME NEW e, EntryOK(e, Applied(s))
      PROVE  EntryOK(WithRule(e, action, args), Applied(s) \cup {i})
  <2>1. \A k \in Applied(s) : k \in Nat /\ k <= i
    BY <1>5 DEF Applied, Passed
  <2>2. \A k : ActionOf(k) # NoRule
    BY ActionFacts DEF ActionOf
  <2>3. CASE \E k \in Applied(s) : /\ ArgsOf(k) = << >>
                                  /\ \A m \in Applied(s) : ArgsOf(m) = << >> => k <= m
                                  /\ e = [always |-> ActionOf(k), cond |-> {}]
    <3>1. WithRule(e, action, args) = e
      BY <2>2, <2>3 DEF WithRule
    <3> QED
      BY <2>1, <2>3, <3>1 DEF EntryOK
  <2>4. CASE /\ \A k \in Applied(s) : ArgsOf(k) # << >>
             /\ e = [always |-> NoRule, cond |-> {Constraint(k) : k \in Applied(s)}]
    <3>1. CASE args = << >>
      <4>1. WithRule(e, action, args) = [always |-> ActionOf(i), cond |-> {}]
        BY <1>3, <2>4, <3>1 DEF WithRule
      <4>2. ArgsOf(i) = << >>
        BY <1>4, <3>1
      <4>3. \A m \in Applied(s) \cup {i} : ArgsOf(m) = << >> => i <= m
        BY <1>5, <2>4
      <4> QED
        BY <4>1, <4>2, <4>3, Zenon DEF EntryOK
    <3>2. CASE args # << >>
      <4>1. Constraint(i) = [args |-> args, action |-> action]
        BY <1>3, <1>4 DEF Constraint
      <4>2. WithRule(e, action, args)
              = [always |-> NoRule, cond |-> {Constraint(k) : k \in Applied(s)} \cup {Constraint(i)}]
        BY <4>1, <2>4, <3>2 DEF WithRule
      <4>3. {Constraint(k) : k \in Applied(s)} \cup {Constraint(i)}
              = {Constraint(k) : k \in Applied(s) \cup {i}}
        OBVIOUS
      <4> QED
        BY <1>4, <2>4, <3>2, <4>2, <4>3 DEF EntryOK
    <3> QED
      BY <3>1, <3>2
  <2> QED
    BY <1>9, <2>3, <2>4 DEF EntryOK
<1>10. ASSUME NEW a \in DOMAIN ctx'
       PROVE  /\ DOMAIN ctx'[a] = Names
              /\ \A t \in Names : EntryOK(ctx'[a][t], Applied(t)')
  <2>1. DOMAIN ctx[a] = Names /\ \A t \in Names : EntryOK(ctx[a][t], Applied(t))
    BY <1>1, <1>2 DEF BuildInv, RulesAdded
  <2>2. ctx'[a] = [ctx[a] EXCEPT ![s] = WithRule(@, action, args)]
    BY <1>2
  <2>3. \A t \in Names \ {s} : EntryOK(ctx'[a][t], Applied(t)')
    BY <2>1, <2>2, <1>7
  <2>4. EntryOK(ctx'[a][s], Applied(s)')
    <3>1. ctx'[a][s] = WithRule(ctx[a][s], action, args)
      BY <1>1, <2>1, <2>2
    <3>2. EntryOK(WithRule(ctx[a][s], action, args), Applied(s) \cup {i})
      BY <1>1, <1>9, <2>1
    <3> QED
      BY <1>7, <3>1, <3>2
  <2> QED
    BY <2>1, <2>2, <2>3, <2>4
<1>11. \A t \in Names : \A k \in Applied(t)' : ActionOf(k) # DefaultAction
  BY <1>1, <1>3, <1>7 DEF BuildInv, RulesAdded
<1> QED
  BY <1>8, <1>10, <1>11 DEF RulesAdded

(* Entries built from rules let calls pass or hand them to the tracer. *)
LEMMA EntryTypes ==
  ASSUME NEW e, NEW applied, EntryOK(e, applied)
  PROVE  /\ e.always \in {NoRule, "ALLOW", "TRACE"}
         /\ \A c \in e.cond : c.action \in {"ALLOW", "TRACE"}
<1>1. \A k : ActionOf(k) \in {"ALLOW", "TRACE"} /\ Constraint(k).action = ActionOf(k)
  BY ActionFacts DEF ActionOf, Constraint
<1> QED
  BY <1>1 DEF EntryOK

LEMMA CtxBuildInvariant == Spec => []BuildInv
<1>1. Init => BuildInv
  BY DEF Init, BuildInv, CtxTypeOK
<1>2. BuildInv /\ [Next]_ctxVars => BuildInv'
  <2> SUFFICES ASSUME BuildInv, [Next]_ctxVars PROVE BuildInv'
    OBVIOUS
  <2>0. profile' = profile /\ host' = host /\ (pc # "runtime" => rt' = rt)
    BY DEF Next, BuildRuntime, SeccompInit, AddArch, Fail, NextArch, ArchsDone, NextRule,
           SkipName, AddRule, AtName, Built, Terminated, ctxVars
  <2> DEFINE L == Len(profile.arch_map)
             M == Len(profile.syscalls)
  <2>a. /\ L \in Nat /\ M \in Nat
        /\ \A k \in 1 .. L : SubArchs(k) \in Nat
        /\ \A k \in 1 .. M : Len(NamesOf(k)) \in Nat
    BY ProfileFacts DEF BuildInv
  <2>b. /\ \A k : SubArchs(k)' = SubArchs(k) /\ NamesOf(k)' = NamesOf(k)
        /\ \A k, n : ListedArch(k, n)' = ListedArch(k, n)
        /\ EmptyTable' = EmptyTable /\ NativeArch' = NativeArch
    BY <2>0 DEF SubArchs, NamesOf, ListedArch, EmptyTable, NoEntry, NativeArch, RealArch
  <2>c. Fail => BuildInv'
    BY DEF Fail, BuildInv, CtxTypeOK
  <2>d. pc # "runtime" =>
          /\ \A x, K : EntryOK(x, K)' <=> EntryOK(x, K)
          /\ \A k : ActionOf(k)' = ActionOf(k)
          /\ DefaultAction' = DefaultAction
          /\ \A t : Applied(t)' =
               {k \in 1 .. M : /\ rule_applies(profile.syscalls[k], rt)
                              /\ \E n \in 1 .. Len(NamesOf(k)) : NamesOf(k)[n] = t /\ Passed(k, n)'}
    <3> SUFFICES ASSUME pc # "runtime" PROVE
          /\ \A x, K : EntryOK(x, K)' <=> EntryOK(x, K)
          /\ \A k : ActionOf(k)' = ActionOf(k)
          /\ DefaultAction' = DefaultAction
          /\ \A t : Applied(t)' =
               {k \in 1 .. M : /\ rule_applies(profile.syscalls[k], rt)
                              /\ \E n \in 1 .. Len(NamesOf(k)) : NamesOf(k)[n] = t /\ Passed(k, n)'}
      OBVIOUS
    <3>1. /\ \A x, K : EntryOK(x, K)' <=> EntryOK(x, K)
          /\ \A k : ActionOf(k)' = ActionOf(k)
          /\ DefaultAction' = DefaultAction
      BY <2>0, ZenonT(40) DEF EntryOK, ArgsOf, ActionOf, Constraint, CmpArray, DefaultAction
    <3>2. \A t : Applied(t)' =
            {k \in 1 .. M : /\ rule_applies(profile.syscalls[k], rt)
                           /\ \E n \in 1 .. Len(NamesOf(k)) : NamesOf(k)[n] = t /\ Passed(k, n)'}
      BY <2>0 DEF Applied, NamesOf, rule_applies, FilterMatches, arch_matches, caps_match,
                  kernel_matches, AtLeast
    <3> QED
      BY <3>1, <3>2
  <2>e. ASSUME pc # "runtime", ctx' = ctx, RulesAdded,
               \A k \in 1 .. M : rule_applies(profile.syscalls[k], rt) =>
                 \A n \in 1 .. Len(NamesOf(k)) : NamesOf(k)[n] \in Names => (Passed(k, n)' <=> Passed(k, n))
        PROVE  RulesAdded'
    <3>1. ASSUME NEW t \in Names PROVE Applied(t)' = Applied(t)
      <4>1. Applied(t)' =
              {k \in 1 .. M : /\ rule_applies(profile.syscalls[k], rt)
                             /\ \E n \in 1 .. Len(NamesOf(k)) : NamesOf(k)[n] = t /\ Passed(k, n)'}
        BY <2>d, <2>e
      <4>2. \A k \in Applied(t)' : k \in Applied(t)
        BY <2>e, <4>1 DEF Applied
      <4>3. \A k \in Applied(t) : k \in Applied(t)'
        BY <2>e, <4>1 DEF Applied
      <4> QED
        BY <4>2, <4>3
    <3> QED
      BY <2>d, <2>e, <3>1 DEF RulesAdded
  <2>f. ASSUME pc \in {"rules", "built"}, pc' \in {"rules", "built"}, DOMAIN ctx' = DOMAIN ctx
        PROVE  ArchsAdded'
    BY <2>0, <2>b, <2>f DEF ArchsAdded, BuildInv
  <2>1. CASE BuildRuntime
    BY <2>1 DEF BuildRuntime, BuildInv, CtxTypeOK
  <2>2. CASE SeccompInit
    <3>1. CASE pc' = "null"
      BY <2>2, <3>1 DEF SeccompInit, BuildInv, CtxTypeOK
    <3>2. CASE pc' # "null"
      <4>1. /\ pc' = "archs" /\ DOMAIN ctx' = {NativeArch} /\ heap' = "live" /\ i' = 1 /\ j' = 0
            /\ \A a \in DOMAIN ctx' : ctx'[a] = EmptyTable
        BY <2>2, <3>2 DEF SeccompInit, BuildInv
      <4>2. ArchsAdded'
        BY <4>1, <2>b DEF ArchsAdded, Passed
      <4>3. CtxTypeOK'
        BY <4>1 DEF CtxTypeOK, EmptyTable, NoEntry
      <4> QED
        BY <4>1, <4>2, <4>3, <2>0, <2>b DEF BuildInv
    <3> QED
      BY <3>1, <3>2
  <2>3. CASE AddArch
    <3>1. CASE ~Fail
      <4>1. PICK b : b = RealArch(map_arch_string(ArchAt))
        BY Zenon
      <4>2. /\ ctx' = [c \in DOMAIN ctx \cup {b} |-> IF c \in DOMAIN ctx THEN ctx[c] ELSE EmptyTable]
            /\ j' = j + 1 /\ UNCHANGED <<pc, i, heap>> /\ pc = "archs"
            /\ i \in 1 .. L /\ j \in 0 .. SubArchs(i)
        BY <2>3, <2>a, <3>1, <4>1 DEF AddArch, WithArch, BuildInv, CtxTypeOK, SubArchs
      <4>3. b = ListedArch(i, j)
        BY <4>1 DEF ListedArch, ArchAt
      <4>4. \A k \in 1 .. L : \A n \in 0 .. SubArchs(k) :
              Passed(k, n)' <=> Passed(k, n) \/ (k = i /\ n = j)
        BY <2>a, <4>2 DEF Passed
      <4>5. \A a \in DOMAIN ctx' : ctx'[a] = EmptyTable
        BY <4>2 DEF BuildInv
      <4>6. DOMAIN ctx' = DOMAIN ctx \cup {b}
        BY <4>2
      <4>7. ArchsAdded'
        BY <2>0, <2>b, <4>2, <4>3, <4>4, <4>6 DEF ArchsAdded, BuildInv
      <4>8. CtxTypeOK'
        BY <4>2, <4>5 DEF CtxTypeOK, EmptyTable, NoEntry, BuildInv
      <4> QED
        BY <2>0, <2>b, <4>2, <4>5, <4>7, <4>8 DEF BuildInv
    <3> QED
      BY <3>1, <2>c
  <2>4. CASE NextArch
    <3>1. /\ pc = "archs" /\ i' = i + 1 /\ j' = 0 /\ UNCHANGED <<pc, ctx, heap>>
          /\ i \in 1 .. L /\ j \in Nat /\ j > SubArchs(i)
      BY <2>4 DEF NextArch, BuildInv, CtxTypeOK, SubArchs
    <3>2. \A k \in 1 .. L : \A n \in 0 .. SubArchs(k) : Passed(k, n)' <=> Passed(k, n)
      BY <2>a, <3>1 DEF Passed
    <3>3. ArchsAdded'
      BY <2>0, <2>b, <3>1, <3>2 DEF ArchsAdded, BuildInv
    <3> QED
      BY <2>0, <2>b, <3>1, <3>3 DEF BuildInv, CtxTypeOK
  <2>5. CASE ArchsDone
    <3>1. /\ pc = "archs" /\ pc' = "rules" /\ i' = 1 /\ j' = 1 /\ UNCHANGED <<ctx, heap>>
          /\ i \in Nat /\ i > L
      BY <2>5 DEF ArchsDone, BuildInv, CtxTypeOK
    <3>2. \A k \in 1 .. L : \A n \in 0 .. SubArchs(k) : Passed(k, n)
      BY <2>a, <3>1 DEF Passed
    <3>3. ArchsAdded'
      BY <2>0, <2>b, <3>1, <3>2 DEF ArchsAdded, BuildInv
    <3>4. \A t : Applied(t)' = {}
      BY <2>a, <2>d, <3>1 DEF Passed
    <3>5. \A a \in DOMAIN ctx, s \in Names : ctx[a] = EmptyTable /\ ctx[a][s] = NoEntry
      BY <3>1 DEF BuildInv, EmptyTable
    <3>6. \A a \in DOMAIN ctx', s \in Names :
            DOMAIN ctx'[a] = Names /\ EntryOK(ctx'[a][s], Applied(s)')
      BY <3>1, <3>4, <3>5, EmptyEntryOK DEF EmptyTable
    <3>7. \A a \in DOMAIN ctx' : DOMAIN ctx'[a] = Names
      BY <3>1 DEF BuildInv, EmptyTable
    <3>8. RulesAdded'
      BY <2>d, <3>1, <3>4, <3>6, <3>7 DEF RulesAdded
    <3> QED
      BY <2>0, <3>1, <3>3, <3>8 DEF BuildInv, CtxTypeOK
  <2>6. CASE NextRule
    <3>1. /\ pc = "rules" /\ i' = i + 1 /\ j' = 1 /\ UNCHANGED <<pc, ctx, heap>>
          /\ i \in 1 .. M /\ j \in Nat /\ j >= 1
          /\ ~rule_applies(profile.syscalls[i], rt) \/ j > Len(NamesOf(i))
      BY <2>6 DEF NextRule, BuildInv, CtxTypeOK, NamesOf, Rule
    <3>2. \A k \in 1 .. M : rule_applies(profile.syscalls[k], rt) =>
            \A n \in 1 .. Len(NamesOf(k)) : Passed(k, n)' <=> Passed(k, n)
      BY <2>a, <3>1 DEF Passed
    <3>3. RulesAdded' /\ ArchsAdded'
      BY <2>e, <2>f, <3>1, <3>2 DEF BuildInv
    <3> QED
      BY <2>0, <3>1, <3>3 DEF BuildInv, CtxTypeOK
  <2>7. CASE SkipName
    <3>1. /\ pc = "rules" /\ j' = j + 1 /\ UNCHANGED <<pc, i, ctx, heap>>
          /\ i \in 1 .. M /\ j \in Nat /\ j >= 1 /\ NamesOf(i)[j] \notin Names
      BY <2>7 DEF SkipName, AtName, BuildInv, CtxTypeOK, NamesOf, Rule
    <3>2. \A k \in 1 .. M : \A n \in 1 .. Len(NamesOf(k)) :
            NamesOf(k)[n] \in Names => (Passed(k, n)' <=> Passed(k, n))
      BY <2>a, <3>1 DEF Passed
    <3>3. RulesAdded' /\ ArchsAdded'
      BY <2>e, <2>f, <3>1, <3>2 DEF BuildInv
    <3> QED
      BY <2>0, <3>1, <3>3 DEF BuildInv, CtxTypeOK
  <2>8. CASE AddRule
    <3>1. CASE ~Fail
      <4>1. RulesAdded'
        BY <2>8, <3>1, WithRuleOK
      <4>2. /\ pc = "rules" /\ UNCHANGED <<pc, i, heap>> /\ j' = j + 1 /\ DOMAIN ctx' = DOMAIN ctx
        BY <2>8, <3>1 DEF AddRule, AtName
      <4>3. ArchsAdded'
        BY <2>f, <4>2
      <4>4. \A a \in DOMAIN ctx', s \in Names : EntryOK(ctx'[a][s], Applied(s)')
        BY <2>d, <4>1, <4>2 DEF RulesAdded
      <4>5. CtxTypeOK'
        BY <4>1, <4>2, <4>4, EntryTypes DEF CtxTypeOK, RulesAdded, BuildInv
      <4> QED
        BY <2>0, <4>1, <4>2, <4>3, <4>5 DEF BuildInv, CtxTypeOK
    <3> QED
      BY <3>1, <2>c
  <2>9. CASE Built
    <3>1. /\ pc = "rules" /\ pc' = "built" /\ i > M /\ UNCHANGED <<i, j, ctx, heap>>
      BY <2>9 DEF Built
    <3>2. RulesAdded' /\ ArchsAdded'
      BY <2>e, <2>f, <3>1 DEF BuildInv, Passed
    <3> QED
      BY <2>0, <3>1, <3>2 DEF BuildInv, CtxTypeOK
  <2>10. CASE Terminated \/ UNCHANGED ctxVars
    <3>1. UNCHANGED ctxVars
      BY <2>10 DEF Terminated
    <3>2. CASE pc = "runtime"
      BY <3>1, <3>2 DEF ctxVars, BuildInv, CtxTypeOK
    <3>3. CASE pc # "runtime"
      <4>1. RulesAdded => RulesAdded'
        BY <2>e, <3>1, <3>3 DEF ctxVars, Passed
      <4>2. ArchsAdded => ArchsAdded'
        BY <2>b, <3>1 DEF ctxVars, ArchsAdded, Passed
      <4> QED
        BY <2>b, <3>1, <3>3, <4>1, <4>2 DEF ctxVars, BuildInv, CtxTypeOK
    <3> QED
      BY <3>2, <3>3
  <2> QED
    BY <2>1, <2>2, <2>3, <2>4, <2>5, <2>6, <2>7, <2>8, <2>9, <2>10 DEF Next
<1> QED
  BY <1>1, <1>2, PTL DEF Spec

(* The first of a set of numbers that has one. *)
LEMMA FirstOfIs ==
  ASSUME NEW S, S \subseteq Nat, NEW k \in S, \A m \in S : k <= m
  PROVE  FirstOf(S) = k
<1>1. \A x \in S : (\A m \in S : x <= m) => x = k
  OBVIOUS
<1> QED
  BY <1>1 DEF FirstOf

(* When the loops have ended, every rule that applies was applied: either  *)
(* an entry has the constraints of all of them, or its one action is that  *)
(* of the first rule without constraints.                                  *)
LEMMA BuiltEntries ==
  ASSUME BuildInv, pc = "built", NEW a \in DOMAIN ctx, NEW s \in Names
  PROVE  \/ /\ Plain(s) = {}
            /\ ctx[a][s] = [always |-> NoRule, cond |-> {Constraint(k) : k \in Applicable(s)}]
         \/ \E k \in Plain(s) : /\ FirstOf(Plain(s)) = k
                                /\ ctx[a][s] = [always |-> ActionOf(k), cond |-> {}]
                                /\ ActionOf(k) # DefaultAction
<1>1. Applied(s) = Applicable(s)
  <2>1. i \in Nat /\ i > Len(profile.syscalls) /\ Len(profile.syscalls) \in Nat
    BY ProfileFacts DEF BuildInv, CtxTypeOK
  <2>2. \A k \in 1 .. Len(profile.syscalls) : \A n : Passed(k, n)
    BY <2>1 DEF Passed
  <2> QED
    BY <2>2 DEF Applied, Applicable, NamesOf
<1>2. EntryOK(ctx[a][s], Applicable(s)) /\ \A k \in Applicable(s) : ActionOf(k) # DefaultAction
  BY <1>1 DEF BuildInv, RulesAdded
<1>3. Applicable(s) \subseteq Nat /\ Plain(s) = {k \in Applicable(s) : ArgsOf(k) = << >>}
  BY DEF Applicable, Plain, ArgsOf
<1>4. ASSUME NEW k \in Applicable(s), ArgsOf(k) = << >>,
             \A m \in Applicable(s) : ArgsOf(m) = << >> => k <= m
      PROVE  k \in Plain(s) /\ FirstOf(Plain(s)) = k
  BY <1>3, <1>4, FirstOfIs
<1> QED
  BY <1>2, <1>3, <1>4 DEF EntryOK

(* What an entry answers is what the rules that apply ask for. *)
LEMMA AnswersExpected ==
  ASSUME BuildInv, pc = "built", NEW a \in DOMAIN ctx, NEW s \in Names, NEW v
  PROVE  Answers(a, s, v) = Expected(s, v)
<1>1. \A k : ActionOf(k) # NoRule
  BY ActionFacts DEF ActionOf
<1>2. CASE \E k \in Plain(s) : /\ FirstOf(Plain(s)) = k
                              /\ ctx[a][s] = [always |-> ActionOf(k), cond |-> {}]
  <2>1. Answers(a, s, v) = {ActionOf(FirstOf(Plain(s)))} /\ Plain(s) # {}
    BY <1>1, <1>2 DEF Answers
  <2> QED
    BY <2>1 DEF Expected, ActionOf
<1>3. CASE /\ Plain(s) = {}
           /\ ctx[a][s] = [always |-> NoRule, cond |-> {Constraint(k) : k \in Applicable(s)}]
  <2> DEFINE hits == {k \in Applicable(s) : AllHold(CmpArray(profile.syscalls[k]), v)}
             found == {c \in ctx[a][s].cond : AllHold(c.args, v)}
  <2>1. \A k : /\ Constraint(k).args = CmpArray(profile.syscalls[k])
               /\ Constraint(k).action = ActionOf(k)
    BY DEF Constraint
  <2>2. ctx[a][s].always = NoRule /\ ctx[a][s].cond = {Constraint(k) : k \in Applicable(s)}
    BY <1>3
  <2>3. found = {Constraint(k) : k \in hits}
    BY <2>1, <2>2
  <2>4. {c.action : c \in found} = {ActionOf(k) : k \in hits}
    BY <2>1, <2>3
  <2>5. found = {} <=> hits = {}
    BY <2>3
  <2>6. Answers(a, s, v) = IF found # {} THEN {c.action : c \in found} ELSE {DefaultAction}
    BY <2>2 DEF Answers
  <2>7. Expected(s, v) = IF hits # {} THEN {ActionOf(k) : k \in hits} ELSE {DefaultAction}
    BY <1>3 DEF Expected, ActionOf
  <2> HIDE DEF hits, found
  <2> QED
    BY <2>4, <2>5, <2>6, <2>7
<1> QED
  BY <1>2, <1>3, BuiltEntries

(* The state of build_seccomp_context() is well typed, and its rules let   *)
(* calls pass or hand them to the tracer.                                  *)
THEOREM CtxTypeCorrect == Spec => []CtxTypeOK
<1>1. BuildInv => CtxTypeOK
  BY DEF BuildInv
<1> QED
  BY <1>1, CtxBuildInvariant, PTL

(* For every profile and on every host, a filter that was built has the    *)
(* native architecture and those the profile lists, and answers every call *)
(* as the applicable rules ask.                                            *)
THEOREM FilterCorrect == Spec => []FilterMatchesProfile
<1>1. BuildInv => FilterMatchesProfile
  <2> SUFFICES ASSUME BuildInv, pc = "built" PROVE FilterMatchesProfile
    BY DEF FilterMatchesProfile
  <2> DEFINE L == Len(profile.arch_map)
             ArchsOf(m) == {RealArch(map_arch_string(m.architecture))} \cup
                             {RealArch(map_arch_string(m.sub_architectures[n])) :
                                n \in 1 .. Len(m.sub_architectures)}
             Entries == {profile.arch_map[k] : k \in 1 .. L}
  <2>1. ArchsAdded /\ L \in Nat /\ \A k \in 1 .. L : SubArchs(k) \in Nat
    BY ProfileFacts DEF BuildInv
  <2>2. ASSUME NEW k \in 1 .. L
        PROVE  ArchsOf(profile.arch_map[k]) = {ListedArch(k, n) : n \in 0 .. SubArchs(k)}
    <3>1. SubArchs(k) \in Nat
      BY <2>1
    <3>2. ListedArch(k, 0) = RealArch(map_arch_string(profile.arch_map[k].architecture))
      BY DEF ListedArch
    <3>3. \A n \in 1 .. SubArchs(k) :
            ListedArch(k, n) = RealArch(map_arch_string(profile.arch_map[k].sub_architectures[n]))
      BY DEF ListedArch
    <3>4. 0 .. SubArchs(k) = {0} \cup 1 .. SubArchs(k)
      BY <3>1
    <3>5. ArchsOf(profile.arch_map[k]) = {ListedArch(k, 0)} \cup {ListedArch(k, n) : n \in 1 .. SubArchs(k)}
      BY <3>2, <3>3 DEF SubArchs
    <3> HIDE DEF ArchsOf
    <3> QED
      BY <3>4, <3>5
  <2> DEFINE U == UNION {ArchsOf(m) : m \in Entries}
  <2>3. \A b : b \in U <=> \E k \in 1 .. L : \E n \in 0 .. SubArchs(k) : b = ListedArch(k, n)
    <3>1. \A b : b \in U <=> \E k \in 1 .. L : b \in ArchsOf(profile.arch_map[k])
      <4> HIDE DEF ArchsOf
      <4> QED
        OBVIOUS
    <3> HIDE DEF U, ArchsOf, Entries, L
    <3>2. ASSUME NEW k \in 1 .. L, NEW b
          PROVE  b \in ArchsOf(profile.arch_map[k]) <=> \E n \in 0 .. SubArchs(k) : b = ListedArch(k, n)
      BY <2>2
    <3>3. ASSUME NEW b, b \in U
          PROVE  \E k \in 1 .. L : \E n \in 0 .. SubArchs(k) : b = ListedArch(k, n)
      <4>1. PICK k \in 1 .. L : b \in ArchsOf(profile.arch_map[k])
        BY <3>1, <3>3
      <4> QED
        BY <3>2, <4>1
    <3>4. ASSUME NEW k \in 1 .. L, NEW n \in 0 .. SubArchs(k)
          PROVE  ListedArch(k, n) \in U
      <4>1. ListedArch(k, n) \in ArchsOf(profile.arch_map[k])
        BY <3>2
      <4> QED
        BY <3>1, <4>1
    <3> QED
      BY <3>3, <3>4
  <2>4. DOMAIN ctx = {NativeArch} \cup U
    <3> HIDE DEF U
    <3>1. \A b \in DOMAIN ctx : b \in {NativeArch} \cup U
      BY <2>1, <2>3 DEF ArchsAdded
    <3>2. \A b \in {NativeArch} \cup U : b \in DOMAIN ctx
      BY <2>1, <2>3 DEF ArchsAdded
    <3> QED
      BY <3>1, <3>2
  <2>5. \A a \in DOMAIN ctx, s \in Names, v \in 0 .. 3 : Answers(a, s, v) = Expected(s, v)
    BY AnswersExpected
  <2> QED
    BY <2>4, <2>5 DEF FilterMatchesProfile
<1> QED
  BY <1>1, CtxBuildInvariant, PTL

(* What the Tracer specification takes for granted: without argument       *)
(* constraints, a filter that was built is one of its policies.            *)
THEOREM PolicyCorrect == Spec => []TracerPolicy
<1>1. BuildInv => TracerPolicy
  <2> SUFFICES ASSUME BuildInv, pc = "built",
                      \A k \in 1 .. Len(profile.syscalls) : profile.syscalls[k].args = << >>
               PROVE  /\ Buildable(AsPolicy)
                      /\ \A a \in DOMAIN ctx, s \in Names :
                           Answers(a, s, 0) = {FilterAction(AsPolicy, s)}
    BY DEF TracerPolicy
  <2>1. NativeArch \in DOMAIN ctx
    BY DEF BuildInv, ArchsAdded
  <2>2. ASSUME NEW s \in Names
        PROVE  Plain(s) = Applicable(s)
    BY DEF Plain, Applicable
  <2>3. /\ AsPolicy.default = profile.default_action /\ DOMAIN AsPolicy.rule = Names
        /\ \A s \in Names : AsPolicy.rule[s] =
             IF Plain(s) = {} THEN NoRule ELSE profile.syscalls[FirstOf(Plain(s))].action
    BY DEF AsPolicy
  <2>4. ASSUME NEW s \in Names, Plain(s) # {}
        PROVE  /\ AsPolicy.rule[s] # NoRule
               /\ resolve_rule_action(AsPolicy.rule[s]) = ActionOf(FirstOf(Plain(s)))
               /\ ActionOf(FirstOf(Plain(s))) # DefaultAction
    <3>1. PICK k \in Plain(s) : FirstOf(Plain(s)) = k /\ ActionOf(k) # DefaultAction
      BY <2>1, <2>4, BuiltEntries
    <3>2. k \in 1 .. Len(profile.syscalls)
      BY DEF Plain, Applicable
    <3>3. profile.syscalls[k].action # NoRule
      BY <3>2, ProfileFacts DEF BuildInv
    <3> QED
      BY <2>3, <2>4, <3>1, <3>3 DEF ActionOf
  <2>5. Buildable(AsPolicy)
    BY <2>3, <2>4 DEF Buildable, DefaultAction
  <2>6. ASSUME NEW a \in DOMAIN ctx, NEW s \in Names
        PROVE  Answers(a, s, 0) = {FilterAction(AsPolicy, s)}
    <3>1. CASE Plain(s) = {}
      <4>1. Applicable(s) = {} /\ Expected(s, 0) = {DefaultAction}
        BY <2>2, <3>1 DEF Expected
      <4>2. FilterAction(AsPolicy, s) = DefaultAction
        BY <2>3, <3>1 DEF FilterAction, DefaultAction
      <4> QED
        BY <4>1, <4>2, AnswersExpected
    <3>2. CASE Plain(s) # {}
      <4>1. Expected(s, 0) = {ActionOf(FirstOf(Plain(s)))}
        BY <3>2 DEF Expected, ActionOf
      <4>2. FilterAction(AsPolicy, s) = ActionOf(FirstOf(Plain(s)))
        BY <2>4, <3>2 DEF FilterAction
      <4> QED
        BY <4>1, <4>2, AnswersExpected
    <3> QED
      BY <3>1, <3>2
  <2> QED
    BY <2>5, <2>6
<1> QED
  BY <1>1, CtxBuildInvariant, PTL
=============================================================================
