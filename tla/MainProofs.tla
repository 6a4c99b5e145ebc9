----------------------------- MODULE MainProofs -----------------------------
(***************************************************************************)
(* The sequential code of the parent process, for every command line,      *)
(* command and address space.                                              *)
(***************************************************************************)
EXTENDS Main, SumProofs

-----------------------------------------------------------------------------
(* The profile parser. *)

-----------------------------------------------------------------------------
(* Doubles. *)

(* f holds the powers of two. *)
IsPow(f, n) == f = [m \in 0 .. n |-> IF m = 0 THEN 1 ELSE 2 * f[m - 1]]

LEMMA PowExists == ASSUME NEW n \in Nat PROVE \E f : IsPow(f, n)
<1> DEFINE T == {m \in Nat : \E f : IsPow(f, m)}
<1>1. 0 \in T
  <2> DEFINE f == [m \in 0 .. 0 |-> 1]
  <2>1. IsPow(f, 0)
    BY DEF IsPow
  <2> QED
    BY <2>1
<1>2. ASSUME NEW m \in Nat, m \in T PROVE m + 1 \in T
  <2>1. PICK f : IsPow(f, m)
    BY <1>2
  <2> DEFINE g == [o \in 0 .. m + 1 |-> IF o = 0 THEN 1 ELSE 2 * f[o - 1]]
  <2>2. \A o \in 0 .. m : g[o] = f[o]
    BY <2>1 DEF IsPow
  <2>3. \A o \in 0 .. m + 1 : o # 0 => o - 1 \in 0 .. m
    OBVIOUS
  <2>4. IsPow(g, m + 1)
    BY <2>2, <2>3 DEF IsPow
  <2> QED
    BY <2>4
<1> HIDE DEF T
<1>3. Nat \subseteq T
  BY <1>1, <1>2, Induction
<1> QED
  BY <1>3 DEF T

LEMMA PowDef == ASSUME NEW n \in Nat PROVE \E f : IsPow(f, n) /\ Pow2(n) = f[n]
<1> DEFINE c == CHOOSE f : IsPow(f, n)
<1>1. IsPow(c, n)
  BY PowExists, Zenon
<1>2. Pow2(n) = c[n]
  BY DEF Pow2, IsPow
<1> QED
  BY <1>1, <1>2

(* Two tables of powers agree where both are defined. *)
LEMMA PowUnique ==
  ASSUME NEW n \in Nat, NEW m \in Nat, NEW f, NEW g, IsPow(f, n), IsPow(g, m), NEW x \in Nat,
         x <= n, x <= m
  PROVE  f[x] = g[x] /\ f[x] \in Nat \ {0}
<1> DEFINE T == {o \in Nat : o <= n /\ o <= m => f[o] = g[o] /\ f[o] \in Nat \ {0}}
<1>1. 0 \in T
  BY DEF IsPow
<1>2. ASSUME NEW o \in Nat, o \in T PROVE o + 1 \in T
  <2> SUFFICES ASSUME o + 1 <= n, o + 1 <= m PROVE f[o + 1] = g[o + 1] /\ f[o + 1] \in Nat \ {0}
    OBVIOUS
  <2>1. f[o] = g[o] /\ f[o] \in Nat \ {0} /\ o + 1 \in 0 .. n /\ o + 1 \in 0 .. m /\ o + 1 # 0
        /\ (o + 1) - 1 = o
    BY <1>2
  <2>2. f[o + 1] = 2 * f[o] /\ g[o + 1] = 2 * g[o]
    BY <2>1 DEF IsPow
  <2> QED
    BY <2>1, <2>2
<1> HIDE DEF T
<1>3. x \in T
  BY <1>1, <1>2, Induction
<1> QED
  BY <1>3 DEF T

LEMMA PowStep ==
  /\ Pow2(0) = 1
  /\ \A n \in Nat : Pow2(n) \in Nat \ {0} /\ Pow2(n + 1) = 2 * Pow2(n)
<1>1. Pow2(0) = 1
  <2>1. PICK f : IsPow(f, 0) /\ Pow2(0) = f[0]
    BY PowDef
  <2> QED
    BY <2>1 DEF IsPow
<1>2. ASSUME NEW n \in Nat PROVE Pow2(n) \in Nat \ {0} /\ Pow2(n + 1) = 2 * Pow2(n)
  <2>1. PICK f : IsPow(f, n) /\ Pow2(n) = f[n]
    BY PowDef
  <2>2. n + 1 \in Nat
    OBVIOUS
  <2>3. PICK g : IsPow(g, n + 1) /\ Pow2(n + 1) = g[n + 1]
    BY <2>2, PowDef
  <2>4. f[n] = g[n] /\ f[n] \in Nat \ {0}
    BY <2>1, <2>2, <2>3, PowUnique
  <2>5. g[n + 1] = 2 * g[n]
    <3>1. n + 1 \in 0 .. n + 1 /\ n + 1 # 0 /\ (n + 1) - 1 = n
      OBVIOUS
    <3> QED
      BY <2>3, <3>1 DEF IsPow
  <2> QED
    BY <2>1, <2>3, <2>4, <2>5
<1> QED
  BY <1>1, <1>2

LEMMA PowGrows == ASSUME NEW n \in Nat, NEW m \in Nat, m < n PROVE Pow2(m) < Pow2(n)
<1> DEFINE T == {o \in Nat : Pow2(m) < Pow2(m + 1 + o)}
<1>1. 0 \in T
  BY PowStep
<1>2. ASSUME NEW o \in Nat, o \in T PROVE o + 1 \in T
  <2>1. m + 1 + o \in Nat /\ (m + 1 + o) + 1 = m + 1 + (o + 1)
    OBVIOUS
  <2>2. /\ Pow2(m + 1 + (o + 1)) = 2 * Pow2(m + 1 + o) /\ Pow2(m + 1 + o) \in Nat \ {0}
        /\ Pow2(m) \in Nat \ {0}
    BY <2>1, PowStep
  <2>3. Pow2(m) < Pow2(m + 1 + o)
    BY <1>2
  <2>4. Pow2(m) < Pow2(m + 1 + (o + 1))
    BY <2>2, <2>3
  <2> QED
    BY <2>4
<1> HIDE DEF T
<1>3. n - m - 1 \in T
  <2>1. n - m - 1 \in Nat
    OBVIOUS
  <2> QED
    BY <1>1, <1>2, <2>1, Induction
<1>4. Pow2(m) < Pow2(m + 1 + (n - m - 1))
  BY <1>3 DEF T
<1>5. m + 1 + (n - m - 1) = n
  OBVIOUS
<1> QED
  BY <1>4, <1>5

(* A double holds every number up to two to the power of its mantissa. *)
LEMMA DoubleExact == ASSUME NEW n \in 0 .. Pow2(Mantissa) PROVE ToDouble(n) = n
<1>1. Mantissa \in Nat /\ Mantissa - 1 \in Nat /\ Width \in Nat /\ (Mantissa - 1) + 1 = Mantissa
  BY ParserAssumption
<1>2. PICK P, H : P = Pow2(Mantissa) /\ H = Pow2(Mantissa - 1)
  OBVIOUS
<1>3. P \in Nat /\ H \in Nat \ {0} /\ P = 2 * H
  BY <1>1, <1>2, PowStep
<1>4. CASE n < P
  BY <1>2, <1>4 DEF ToDouble
<1>5. CASE n = P
  <2>1. Pow2(1) = 2 /\ Pow2(0) = 1
    <3>1. Pow2(0 + 1) = 2 * Pow2(0) /\ Pow2(0) = 1 /\ 0 + 1 = 1
      BY PowStep
    <3> QED
      BY <3>1
  <2>2. ASSUME NEW m \in 1 .. Width + 1, P \div Pow2(m - 1) >= P PROVE m = 1
    <3> SUFFICES ASSUME m # 1 PROVE FALSE
      OBVIOUS
    <3>1. m - 1 \in Nat /\ m - 1 > 0 /\ 0 \in Nat
      OBVIOUS
    <3>2. Pow2(m - 1) \in Nat /\ Pow2(m - 1) >= 2
      <4>1. PICK o : o = m - 1
        OBVIOUS
      <4>2. o \in Nat /\ 0 < o
        BY <3>1, <4>1
      <4>3. Pow2(0) < Pow2(o)
        BY <3>1, <4>2, PowGrows
      <4>4. Pow2(o) \in Nat
        BY <4>2, PowStep
      <4> QED
        BY <2>1, <4>1, <4>3, <4>4
    <3>3. P \div Pow2(m - 1) < P
      BY <1>3, <3>2
    <3>4. P \div Pow2(m - 1) \in Nat
      BY <1>3, <3>2
    <3> QED
      BY <1>3, <2>2, <3>3, <3>4
  <2>3. P \div 2 = H /\ P \div 1 = P /\ H < P
    BY <1>3
  <2>4. 1 \in 1 .. Width + 1 /\ 1 - 1 = 0
    BY <1>1
  <2>5. P \div Pow2(1) < P /\ P \div Pow2(1 - 1) >= P
    BY <1>3, <2>1, <2>3, <2>4
  <2> DEFINE e == CHOOSE m \in 1 .. Width + 1 : P \div Pow2(m) < P /\ P \div Pow2(m - 1) >= P
  <2>6. e = 1
    <3>1. e \in 1 .. Width + 1 /\ P \div Pow2(e - 1) >= P
      BY <2>4, <2>5
    <3> QED
      BY <2>2, <3>1
  <2> HIDE DEF e
  <2>7. (P \div Pow2(e)) * Pow2(e) = P
    BY <1>3, <2>1, <2>3, <2>6
  <2>8. ToDouble(P) = LET low == (P \div Pow2(e)) * Pow2(e)
                          left == P - low
                          up == \/ 2 * left > Pow2(e)
                                \/ 2 * left = Pow2(e) /\ (P \div Pow2(e)) % 2 = 1
                      IN IF up THEN low + Pow2(e) ELSE low
    BY <1>2, <1>3 DEF ToDouble, e
  <2>9. ~(2 * (P - P) > Pow2(e)) /\ ~(2 * (P - P) = Pow2(e))
    BY <1>3, <2>1, <2>6
  <2> QED
    BY <1>3, <1>5, <2>7, <2>8, <2>9
<1> QED
  BY <1>2, <1>3, <1>4, <1>5

LEMMA NumberExact ==
  ASSUME NEW n \in Numeric, NEW v \in Number(n, Unsigned) PROVE SameNumber(v, n)
<1>1. CASE n = Null
  BY <1>1 DEF Number, SameNumber
<1>2. CASE n # Null
  <2> SUFFICES ASSUME n \in 0 .. Pow2(Mantissa) PROVE v = n
    BY <1>2 DEF SameNumber
  <2>1. ToDouble(n) = n
    BY DoubleExact
  <2>2. Mantissa \in Nat /\ Width \in Nat /\ Mantissa < Width
    BY ParserAssumption
  <2>3. Pow2(Mantissa) < Pow2(Width) /\ Pow2(Mantissa) \in Nat /\ Pow2(Width) \in Nat
    BY <2>2, PowGrows, PowStep
  <2>4. n \in Unsigned /\ ~(n < 0)
    BY <2>3 DEF Unsigned
  <2>5. Cast(n, Unsigned) = {n}
    BY <2>1, <2>4 DEF Cast
  <2> QED
    BY <1>2, <2>5 DEF Number
<1> QED
  BY <1>1, <1>2

-----------------------------------------------------------------------------
(* What free_profile() releases. *)

LEMMA FreedType == \A x : Freed(x) \in Nat
BY DEF Freed

LEMMA FreedStringsType == ASSUME NEW a, NEW n \in Nat PROVE FreedStrings(a, n) \in Nat
<1> DEFINE f == [m \in 1 .. n |-> Freed(a[m])]
<1>1. \A m \in 1 .. n : f[m] \in Nat
  BY FreedType
<1> HIDE DEF f
<1>2. Total(f, n) \in Nat
  BY <1>1, TotalType
<1> QED
  BY <1>2 DEF FreedStrings, FreedArray, f

LEMMA FreedArgsType == ASSUME NEW a, NEW n \in Nat PROVE FreedArgs(a, n) \in Nat
<1> DEFINE f == [m \in 1 .. n |-> Freed(a[m].op)]
<1>1. \A m \in 1 .. n : f[m] \in Nat
  BY FreedType
<1> HIDE DEF f
<1>2. Total(f, n) \in Nat
  BY <1>1, TotalType
<1> QED
  BY <1>2 DEF FreedArgs, FreedArray, f

LEMMA FreedFilterType ==
  ASSUME NEW f \in SeccompFilter PROVE free_filter_contents(f) \in Nat
<1>1. f.caps_count \in Nat /\ f.arch_count \in Nat
  BY DEF SeccompFilter
<1> QED
  BY <1>1, FreedStringsType, FreedType DEF free_filter_contents

LEMMA FreedArchType == ASSUME NEW m \in SeccompArchMap PROVE FreedArch(m) \in Nat
<1>1. m.sub_arch_count \in Nat
  BY DEF SeccompArchMap
<1> QED
  BY <1>1, FreedStringsType, FreedType DEF FreedArch

LEMMA FreedRuleType == ASSUME NEW r \in SeccompSyscallRule PROVE FreedRule(r) \in Nat
<1>1. /\ r.names_count \in Nat /\ r.args_count \in Nat
      /\ r.include \in SeccompFilter \cup {Null} /\ r.exclude \in SeccompFilter \cup {Null}
  BY DEF SeccompSyscallRule
<1>2. FreedFilter(r.include) \in Nat /\ FreedFilter(r.exclude) \in Nat
  BY <1>1, FreedFilterType DEF FreedFilter
<1>3. FreedStrings(r.names, r.names_count) \in Nat /\ FreedArgs(r.args, r.args_count) \in Nat
  BY <1>1, FreedStringsType, FreedArgsType
<1> QED
  BY <1>2, <1>3, FreedType DEF FreedRule

(* An array of elements that own nothing is one block. *)
LEMMA FreedEmpty ==
  ASSUME NEW n \in Nat, n > 0
  PROVE  /\ calloc(n, EmptyRule) # Null => FreedRules(calloc(n, EmptyRule), n) = 1
         /\ calloc(n, EmptyArch) # Null => FreedArchs(calloc(n, EmptyArch), n) = 1
         /\ calloc(n, EmptyArg) # Null => FreedArgs(calloc(n, EmptyArg), n) = 1
<1>1. FreedRule(EmptyRule) = 0 /\ FreedArch(EmptyArch) = 0 /\ Freed(EmptyArg.op) = 0
  BY DEF FreedRule, FreedArch, EmptyRule, EmptyArch, EmptyArg, FreedStrings, FreedArgs, FreedFilter, FreedArray, Freed
<1> DEFINE f == [m \in 1 .. n |-> FreedRule(calloc(n, EmptyRule)[m])]
           g == [m \in 1 .. n |-> FreedArch(calloc(n, EmptyArch)[m])]
           h == [m \in 1 .. n |-> Freed(calloc(n, EmptyArg)[m].op)]
<1>2. \A m \in 1 .. n : f[m] = 0 /\ g[m] = 0 /\ h[m] = 0
  BY <1>1 DEF calloc
<1> HIDE DEF f, g, h
<1>3. Total(f, n) = 0 /\ Total(g, n) = 0 /\ Total(h, n) = 0
  BY <1>2, TotalZero
<1> QED
  BY <1>3 DEF FreedRules, FreedArchs, FreedArgs, FreedArray, f, g, h

(* One element of an array changes. *)
LEMMA FreedRulesChange ==
  ASSUME NEW a \in Seq(SeccompSyscallRule), NEW x \in 1 .. Len(a), NEW r \in SeccompSyscallRule
  PROVE  FreedRules([a EXCEPT ![x] = r], Len(a)) = FreedRules(a, Len(a)) + FreedRule(r) - FreedRule(a[x])
<1> DEFINE b == [a EXCEPT ![x] = r]
           f == [m \in 1 .. Len(a) |-> FreedRule(a[m])]
           g == [m \in 1 .. Len(a) |-> FreedRule(b[m])]
<1>1. b \in Seq(SeccompSyscallRule) /\ Len(a) \in Nat /\ b # Null /\ a # Null
  BY NullIsNoObject
<1>2. \A m \in 1 .. Len(a) : a[m] \in SeccompSyscallRule /\ b[m] \in SeccompSyscallRule /\ (m # x => b[m] = a[m]) /\ b[x] = r
  OBVIOUS
<1> HIDE DEF b
<1>3. /\ \A m \in 1 .. Len(a) : f[m] \in Nat /\ g[m] \in Nat /\ (m # x => g[m] = f[m])
      /\ g[x] = FreedRule(r) /\ f[x] = FreedRule(a[x])
  BY <1>2, FreedRuleType
<1> HIDE DEF f, g
<1>4. Total(g, Len(a)) = Total(f, Len(a)) + g[x] - f[x]
  BY <1>1, <1>3, TotalChange
<1>5. Total(f, Len(a)) \in Nat /\ f[x] \in Nat /\ g[x] \in Nat
  BY <1>1, <1>3, TotalType
<1>6. FreedRules(b, Len(a)) = Total(g, Len(a)) + 1 /\ FreedRules(a, Len(a)) = Total(f, Len(a)) + 1
  BY <1>1 DEF FreedRules, FreedArray, f, g
<1> QED
  BY <1>3, <1>4, <1>5, <1>6 DEF b

LEMMA FreedArchsChange ==
  ASSUME NEW a \in Seq(SeccompArchMap), NEW x \in 1 .. Len(a), NEW r \in SeccompArchMap
  PROVE  FreedArchs([a EXCEPT ![x] = r], Len(a)) = FreedArchs(a, Len(a)) + FreedArch(r) - FreedArch(a[x])
<1> DEFINE b == [a EXCEPT ![x] = r]
           f == [m \in 1 .. Len(a) |-> FreedArch(a[m])]
           g == [m \in 1 .. Len(a) |-> FreedArch(b[m])]
<1>1. b \in Seq(SeccompArchMap) /\ Len(a) \in Nat /\ b # Null /\ a # Null
  BY NullIsNoObject
<1>2. \A m \in 1 .. Len(a) : a[m] \in SeccompArchMap /\ b[m] \in SeccompArchMap /\ (m # x => b[m] = a[m]) /\ b[x] = r
  OBVIOUS
<1> HIDE DEF b
<1>3. /\ \A m \in 1 .. Len(a) : f[m] \in Nat /\ g[m] \in Nat /\ (m # x => g[m] = f[m])
      /\ g[x] = FreedArch(r) /\ f[x] = FreedArch(a[x])
  BY <1>2, FreedArchType
<1> HIDE DEF f, g
<1>4. Total(g, Len(a)) = Total(f, Len(a)) + g[x] - f[x]
  BY <1>1, <1>3, TotalChange
<1>5. Total(f, Len(a)) \in Nat /\ f[x] \in Nat /\ g[x] \in Nat
  BY <1>1, <1>3, TotalType
<1>6. FreedArchs(b, Len(a)) = Total(g, Len(a)) + 1 /\ FreedArchs(a, Len(a)) = Total(f, Len(a)) + 1
  BY <1>1 DEF FreedArchs, FreedArray, f, g
<1> QED
  BY <1>3, <1>4, <1>5, <1>6 DEF b

LEMMA FreedArgsChange ==
  ASSUME NEW a \in Seq(SeccompArgConstraint), NEW x \in 1 .. Len(a), NEW c \in SeccompArgConstraint
  PROVE  FreedArgs([a EXCEPT ![x] = c], Len(a)) = FreedArgs(a, Len(a)) + Freed(c.op) - Freed(a[x].op)
<1> DEFINE b == [a EXCEPT ![x] = c]
           f == [m \in 1 .. Len(a) |-> Freed(a[m].op)]
           g == [m \in 1 .. Len(a) |-> Freed(b[m].op)]
<1>1. b \in Seq(SeccompArgConstraint) /\ Len(a) \in Nat /\ b # Null /\ a # Null
  BY NullIsNoObject
<1>2. \A m \in 1 .. Len(a) : (m # x => b[m] = a[m]) /\ b[x] = c
  OBVIOUS
<1> HIDE DEF b
<1>3. /\ \A m \in 1 .. Len(a) : f[m] \in Nat /\ g[m] \in Nat /\ (m # x => g[m] = f[m])
      /\ g[x] = Freed(c.op) /\ f[x] = Freed(a[x].op)
  BY <1>2, FreedType
<1> HIDE DEF f, g
<1>4. Total(g, Len(a)) = Total(f, Len(a)) + g[x] - f[x]
  BY <1>1, <1>3, TotalChange
<1>5. Total(f, Len(a)) \in Nat /\ f[x] \in Nat /\ g[x] \in Nat
  BY <1>1, <1>3, TotalType
<1>6. FreedArgs(b, Len(a)) = Total(g, Len(a)) + 1 /\ FreedArgs(a, Len(a)) = Total(f, Len(a)) + 1
  BY <1>1 DEF FreedArgs, FreedArray, f, g
<1> QED
  BY <1>3, <1>4, <1>5, <1>6 DEF b

-----------------------------------------------------------------------------
(* A profile whose arrays, where they are allocated, are as long as their  *)
(* counts say.                                                             *)
IsProfile(p) ==
  /\ p \in SeccompProfile
  /\ p.arch_map # Null => Len(p.arch_map) = p.arch_map_count
  /\ p.syscalls # Null => Len(p.syscalls) = p.syscalls_count

LEMMA FreedProfileType ==
  ASSUME NEW p, IsProfile(p)
  PROVE  /\ FreedArchs(p.arch_map, p.arch_map_count) \in Nat
         /\ FreedRules(p.syscalls, p.syscalls_count) \in Nat
         /\ free_profile(p) \in Nat
<1>1. /\ p.arch_map \in Seq(SeccompArchMap) \cup {Null} /\ p.syscalls \in Seq(SeccompSyscallRule) \cup {Null}
      /\ p.arch_map_count \in Nat /\ p.syscalls_count \in Nat
  BY DEF IsProfile, SeccompProfile, Array
<1>2. FreedArchs(p.arch_map, p.arch_map_count) \in Nat
  <2>1. CASE p.arch_map = Null
    BY <2>1 DEF FreedArchs, FreedArray
  <2>2. CASE p.arch_map # Null
    <3> DEFINE f == [m \in 1 .. p.arch_map_count |-> FreedArch(p.arch_map[m])]
    <3>1. \A m \in 1 .. p.arch_map_count : f[m] \in Nat
      BY <1>1, <2>2, FreedArchType DEF IsProfile
    <3> HIDE DEF f
    <3>2. Total(f, p.arch_map_count) \in Nat
      BY <1>1, <3>1, TotalType
    <3> QED
      BY <2>2, <3>2 DEF FreedArchs, FreedArray, f
  <2> QED
    BY <2>1, <2>2
<1>3. FreedRules(p.syscalls, p.syscalls_count) \in Nat
  <2>1. CASE p.syscalls = Null
    BY <2>1 DEF FreedRules, FreedArray
  <2>2. CASE p.syscalls # Null
    <3> DEFINE f == [m \in 1 .. p.syscalls_count |-> FreedRule(p.syscalls[m])]
    <3>1. \A m \in 1 .. p.syscalls_count : f[m] \in Nat
      BY <1>1, <2>2, FreedRuleType DEF IsProfile
    <3> HIDE DEF f
    <3>2. Total(f, p.syscalls_count) \in Nat
      BY <1>1, <3>1, TotalType
    <3> QED
      BY <2>2, <3>2 DEF FreedRules, FreedArray, f
  <2> QED
    BY <2>1, <2>2
<1> QED
  BY <1>2, <1>3, FreedType DEF free_profile

(* A rule is replaced. *)
WithRule(p, x, r) == [p EXCEPT !.syscalls[x] = r]

LEMMA RuleReplaced ==
  ASSUME NEW p, IsProfile(p), p.syscalls # Null, NEW x \in 1 .. p.syscalls_count,
         NEW r \in SeccompSyscallRule, NEW q, q = WithRule(p, x, r)
  PROVE  /\ IsProfile(q) /\ q.syscalls # Null
         /\ q.default_action = p.default_action /\ q.default_errno_ret = p.default_errno_ret
         /\ q.arch_map = p.arch_map /\ q.arch_map_count = p.arch_map_count
         /\ q.syscalls_count = p.syscalls_count
         /\ q.syscalls[x] = r /\ \A n \in 1 .. p.syscalls_count : n # x => q.syscalls[n] = p.syscalls[n]
         /\ free_profile(q) = free_profile(p) + FreedRule(r) - FreedRule(p.syscalls[x])
<1>1. /\ p.syscalls \in Seq(SeccompSyscallRule) /\ Len(p.syscalls) = p.syscalls_count
      /\ p.syscalls_count \in Nat /\ p.default_action \in Text /\ p.default_errno_ret \in Int
      /\ p.arch_map \in Array(SeccompArchMap) /\ p.arch_map_count \in Nat
  BY DEF IsProfile, SeccompProfile, Array
<1>2. q = [p EXCEPT !.syscalls = [p.syscalls EXCEPT ![x] = r]]
  BY DEF IsProfile, SeccompProfile, WithRule
<1> DEFINE a == [p.syscalls EXCEPT ![x] = r]
<1>3. /\ a \in Seq(SeccompSyscallRule) /\ Len(a) = p.syscalls_count /\ a # Null /\ a[x] = r
      /\ \A n \in 1 .. p.syscalls_count : n # x => a[n] = p.syscalls[n]
  <2>1. PICK s : s = p.syscalls
    OBVIOUS
  <2>2. s \in Seq(SeccompSyscallRule) /\ x \in 1 .. Len(s) /\ Len(s) = p.syscalls_count
    BY <1>1, <2>1
  <2>3. a = [s EXCEPT ![x] = r]
    BY <2>1
  <2> HIDE DEF a
  <2>4. a \in Seq(SeccompSyscallRule) /\ Len(a) = Len(s) /\ a[x] = r /\ \A n \in 1 .. Len(s) : n # x => a[n] = s[n]
    BY <2>2, <2>3
  <2> QED
    BY <2>1, <2>2, <2>4, NullIsNoObject
<1>4. /\ q.syscalls = a /\ q.default_action = p.default_action /\ q.default_errno_ret = p.default_errno_ret
      /\ q.arch_map = p.arch_map /\ q.arch_map_count = p.arch_map_count
      /\ q.syscalls_count = p.syscalls_count
  BY <1>2 DEF IsProfile, SeccompProfile
<1>5. FreedRules(a, p.syscalls_count)
        = FreedRules(p.syscalls, p.syscalls_count) + FreedRule(r) - FreedRule(p.syscalls[x])
  BY <1>1, FreedRulesChange
<1> HIDE DEF a
<1>6. q \in SeccompProfile
  BY <1>2, <1>3 DEF IsProfile, SeccompProfile, Array, a
<1>7. /\ FreedRules(p.syscalls, p.syscalls_count) \in Int /\ FreedArchs(p.arch_map, p.arch_map_count) \in Int
      /\ Freed(p.default_action) \in Int /\ FreedRule(r) \in Int /\ FreedRule(p.syscalls[x]) \in Int
  <2>1. FreedRule(r) \in Nat /\ FreedRule(p.syscalls[x]) \in Nat
    BY <1>1, FreedRuleType
  <2> QED
    BY <2>1, FreedProfileType, FreedType
<1>8. free_profile(q) = free_profile(p) + FreedRule(r) - FreedRule(p.syscalls[x])
  BY <1>4, <1>5, <1>7 DEF free_profile
<1> QED
  BY <1>3, <1>4, <1>6, <1>8 DEF IsProfile

(* An architecture is replaced. *)
WithArch(p, x, m) == [p EXCEPT !.arch_map[x] = m]

LEMMA ArchReplaced ==
  ASSUME NEW p, IsProfile(p), p.arch_map # Null, NEW x \in 1 .. p.arch_map_count,
         NEW m \in SeccompArchMap, NEW q, q = WithArch(p, x, m)
  PROVE  /\ IsProfile(q) /\ q.arch_map # Null
         /\ q.default_action = p.default_action /\ q.default_errno_ret = p.default_errno_ret
         /\ q.syscalls = p.syscalls /\ q.syscalls_count = p.syscalls_count
         /\ q.arch_map_count = p.arch_map_count
         /\ q.arch_map[x] = m /\ \A n \in 1 .. p.arch_map_count : n # x => q.arch_map[n] = p.arch_map[n]
         /\ free_profile(q) = free_profile(p) + FreedArch(m) - FreedArch(p.arch_map[x])
<1>1. /\ p.arch_map \in Seq(SeccompArchMap) /\ Len(p.arch_map) = p.arch_map_count
      /\ p.syscalls_count \in Nat /\ p.default_action \in Text /\ p.default_errno_ret \in Int
      /\ p.syscalls \in Array(SeccompSyscallRule) /\ p.arch_map_count \in Nat
  BY DEF IsProfile, SeccompProfile, Array
<1>2. q = [p EXCEPT !.arch_map = [p.arch_map EXCEPT ![x] = m]]
  BY DEF IsProfile, SeccompProfile, WithArch
<1> DEFINE a == [p.arch_map EXCEPT ![x] = m]
<1>3. /\ a \in Seq(SeccompArchMap) /\ Len(a) = p.arch_map_count /\ a # Null /\ a[x] = m
      /\ \A n \in 1 .. p.arch_map_count : n # x => a[n] = p.arch_map[n]
  <2>1. PICK s : s = p.arch_map
    OBVIOUS
  <2>2. s \in Seq(SeccompArchMap) /\ x \in 1 .. Len(s) /\ Len(s) = p.arch_map_count
    BY <1>1, <2>1
  <2>3. a = [s EXCEPT ![x] = m]
    BY <2>1
  <2> HIDE DEF a
  <2>4. a \in Seq(SeccompArchMap) /\ Len(a) = Len(s) /\ a[x] = m /\ \A n \in 1 .. Len(s) : n # x => a[n] = s[n]
    BY <2>2, <2>3
  <2> QED
    BY <2>1, <2>2, <2>4, NullIsNoObject
<1>4. /\ q.arch_map = a /\ q.default_action = p.default_action /\ q.default_errno_ret = p.default_errno_ret
      /\ q.syscalls = p.syscalls /\ q.syscalls_count = p.syscalls_count
      /\ q.arch_map_count = p.arch_map_count
  BY <1>2 DEF IsProfile, SeccompProfile
<1>5. FreedArchs(a, p.arch_map_count)
        = FreedArchs(p.arch_map, p.arch_map_count) + FreedArch(m) - FreedArch(p.arch_map[x])
  BY <1>1, FreedArchsChange
<1> HIDE DEF a
<1>6. q \in SeccompProfile
  BY <1>2, <1>3 DEF IsProfile, SeccompProfile, Array, a
<1>7. /\ FreedRules(p.syscalls, p.syscalls_count) \in Int /\ FreedArchs(p.arch_map, p.arch_map_count) \in Int
      /\ Freed(p.default_action) \in Int /\ FreedArch(m) \in Int /\ FreedArch(p.arch_map[x]) \in Int
  <2>1. FreedArch(m) \in Nat /\ FreedArch(p.arch_map[x]) \in Nat
    BY <1>1, FreedArchType
  <2> QED
    BY <2>1, FreedProfileType, FreedType
<1>8. free_profile(q) = free_profile(p) + FreedArch(m) - FreedArch(p.arch_map[x])
  BY <1>4, <1>5, <1>7 DEF free_profile
<1> QED
  BY <1>3, <1>4, <1>6, <1>8 DEF IsProfile

-----------------------------------------------------------------------------
(* Strings, arrays of strings, numbers and filters. *)

LEMMA StringCopied ==
  ASSUME NEW str \in Text, NEW s \in safe_strdup(str)
  PROVE  /\ s.ptr \in Text /\ s.blocks = Freed(s.ptr) /\ Kept(s.ptr, str, doc.scarce)
         /\ s.ptr \in {str, Null} /\ (~AllocFails => s.ptr = str)
<1>1. CASE s = Made(Null, 0) /\ (str = Null \/ AllocFails)
  <2>1. s.ptr = Null /\ s.blocks = 0
    BY <1>1 DEF Made
  <2> QED
    BY <1>1, <2>1 DEF Freed, Text, Kept, AllocFails
<1>2. CASE s = Made(str, 1) /\ str # Null
  <2>1. s.ptr = str /\ s.blocks = 1
    BY <1>2 DEF Made
  <2> QED
    BY <1>2, <2>1 DEF Freed, Text, Kept
<1> QED
  BY <1>1, <1>2 DEF safe_strdup

LEMMA StringsMade ==
  ASSUME NEW arr \in Array(Text), NEW n \in StringArray(arr), doc.scarce \in BOOLEAN
  PROVE  /\ n.ptr \in Array(Text) /\ n.count \in Nat /\ n.failed \in BOOLEAN
         /\ n.blocks = FreedStrings(n.ptr, n.count)
         /\ n.failed => n.ptr = Null /\ AllocFails
         /\ ~n.failed => StringsKept(n.ptr, n.count, arr, doc.scarce)
         /\ ~AllocFails => n.ptr = Whole(arr) /\ n.count = Counted(arr) /\ ~n.failed
<1>0. /\ TRUE \in BOOLEAN /\ FALSE \in BOOLEAN /\ Null \in Array(Text)
      /\ \A m : FreedStrings(Null, m) = 0
  BY DEF Array, FreedStrings, FreedArray
<1>1. CASE arr \in {Null, << >>}
  <2>1. n = [ptr |-> Null, count |-> 0, blocks |-> 0, failed |-> FALSE]
    BY <1>1 DEF StringArray
  <2>2. n.ptr = Null /\ n.count = 0 /\ n.blocks = 0 /\ n.failed = FALSE
    BY <2>1
  <2>3. Whole(arr) = Null /\ Counted(arr) = 0
    <3>1. CASE arr = Null
      BY <3>1 DEF Whole, Counted
    <3>2. CASE arr = << >>
      BY <3>2 DEF Whole, Counted
    <3> QED
      BY <1>1, <3>1, <3>2
  <2>4. StringsKept(n.ptr, n.count, arr, doc.scarce)
    BY <1>1, <2>2 DEF StringsKept, SameCount
  <2>5. n.count \in Nat
    BY <2>2
  <2> QED
    BY <1>0, <2>2, <2>3, <2>4, <2>5, Zenon
<1>2. CASE arr \notin {Null, << >>} /\ n = [ptr |-> Null, count |-> Len(arr), blocks |-> 0, failed |-> TRUE] /\ AllocFails
  <2>1. Len(arr) \in Nat
    BY <1>2 DEF Array
  <2>2. n.ptr = Null /\ n.count = Len(arr) /\ n.blocks = 0 /\ n.failed = TRUE
    BY <1>2
  <2> QED
    BY <1>0, <1>2, <2>1, <2>2, Zenon
<1>3. CASE arr \notin {Null, << >>} /\ ~(n = [ptr |-> Null, count |-> Len(arr), blocks |-> 0, failed |-> TRUE] /\ AllocFails)
  <2>1. /\ Len(arr) \in Nat /\ arr # Null /\ arr # << >> /\ arr \in Seq(Text)
    BY <1>3 DEF Array
  <2>2. PICK c \in Copies(arr) :
          n = [ptr |-> [m \in 1 .. Len(arr) |-> c[m].ptr], count |-> Len(arr),
               blocks |-> 1 + Total([m \in 1 .. Len(arr) |-> c[m].blocks], Len(arr)), failed |-> FALSE]
    BY <1>3 DEF StringArray
  <2>3. PICK a : a = [m \in 1 .. Len(arr) |-> c[m].ptr]
    OBVIOUS
  <2>4. \A m \in 1 .. Len(arr) : c[m] \in safe_strdup(arr[m]) /\ arr[m] \in Text /\ a[m] = c[m].ptr
    BY <2>1, <2>2, <2>3 DEF Copies
  <2>5. \A m \in 1 .. Len(arr) : /\ a[m] \in Text /\ c[m].blocks = Freed(a[m])
                                 /\ Kept(a[m], arr[m], doc.scarce) /\ (~AllocFails => a[m] = arr[m])
    BY <2>4, StringCopied
  <2>6. a \in Seq(Text) /\ Len(a) = Len(arr)
    BY <2>1, <2>3, <2>5
  <2>7. a # Null
    BY <2>6, NullIsNoObject
  <2>8. n.ptr = a /\ n.count = Len(arr) /\ n.failed = FALSE
    BY <2>2, <2>3
  <2>9. n.blocks = FreedStrings(n.ptr, n.count)
    <3>1. [m \in 1 .. Len(arr) |-> c[m].blocks] = [m \in 1 .. Len(arr) |-> Freed(a[m])]
      BY <2>5
    <3>2. n.blocks = 1 + Total([m \in 1 .. Len(arr) |-> Freed(a[m])], Len(arr))
      BY <2>2, <3>1
    <3> DEFINE f == [m \in 1 .. Len(arr) |-> Freed(a[m])]
    <3>3. \A m \in 1 .. Len(arr) : f[m] \in Nat
      BY FreedType
    <3> HIDE DEF f
    <3>4. Total(f, Len(arr)) \in Nat
      BY <2>1, <3>3, TotalType
    <3> QED
      BY <2>7, <2>8, <3>2, <3>4 DEF FreedStrings, FreedArray, f
  <2>10. ~AllocFails => a = arr
    BY <2>1, <2>5, <2>6
  <2>11. StringsKept(n.ptr, n.count, arr, doc.scarce)
    BY <1>3, <2>5, <2>6, <2>7, <2>8 DEF StringsKept, SameCount
  <2>12. Whole(arr) = arr /\ Counted(arr) = Len(arr)
    BY <2>1 DEF Whole, Counted
  <2>13. a \in Array(Text)
    BY <2>6 DEF Array
  <2> QED
    BY <1>0, <2>1, <2>8, <2>9, <2>10, <2>11, <2>12, <2>13, Zenon
<1> QED
  BY <1>1, <1>2, <1>3

LEMMA NumberRead ==
  ASSUME NEW n \in Numeric
  PROVE  Number(n, SignedInt) \subseteq Int /\ Number(n, Unsigned) \subseteq Int
<1>1. SignedInt \subseteq Int /\ Unsigned \subseteq Int
  BY DEF SignedInt, Unsigned
<1>2. ASSUME NEW R, R \subseteq Int, NEW v \in Number(n, R) PROVE v \in Int
  <2>1. v = 0 \/ v \in Cast(n, R)
    BY <1>2 DEF Number
  <2>2. v \in Cast(n, R) => v \in R
    BY DEF Cast
  <2>3. v = 0 => v \in Int
    OBVIOUS
  <2>4. v \in R => v \in Int
    BY <1>2
  <2> QED
    BY <2>1, <2>2, <2>3, <2>4, Zenon
<1> HIDE DEF SignedInt, Unsigned
<1> QED
  BY <1>1, <1>2

LEMMA FilterMade ==
  ASSUME NEW o \in FilterDocs \cup {Null}, NEW m \in parse_filter(o), doc.scarce \in BOOLEAN
  PROVE  /\ m.ptr \in SeccompFilter \cup {Null}
         /\ m.blocks = FreedFilter(m.ptr)
         /\ FilterKept(m.ptr, o, doc.scarce)
         /\ ~AllocFails => m.ptr = FilterOf(o)
<1>1. CASE o = Null
  BY <1>1 DEF parse_filter, Made, FreedFilter, FilterOf, FilterKept
<1>2. CASE o # Null
  <2>1. CASE m = Made(Null, 0) /\ AllocFails
    <3>1. m.ptr = Null /\ m.blocks = 0
      BY <2>1 DEF Made
    <3> QED
      BY <2>1, <3>1, <1>2 DEF FreedFilter, FilterKept, AllocFails
  <2>2. CASE ~(m = Made(Null, 0) /\ AllocFails)
    <3>1. PICK c \in StringArray(o.caps), a \in StringArray(o.arches), s \in safe_strdup(o.minKernel) :
            m = FilterParsed(c, a, s)
      BY <1>2, <2>2 DEF parse_filter
    <3>2. o.caps \in Array(Text) /\ o.arches \in Array(Text) /\ o.minKernel \in Text /\ o \in FilterDocs
      BY <1>2 DEF FilterDocs
    <3>3. /\ c.ptr \in Array(Text) /\ c.count \in Nat /\ c.failed \in BOOLEAN
          /\ c.blocks = FreedStrings(c.ptr, c.count) /\ (c.failed => c.ptr = Null /\ AllocFails)
          /\ ~c.failed => StringsKept(c.ptr, c.count, o.caps, doc.scarce)
          /\ ~AllocFails => c.ptr = Whole(o.caps) /\ c.count = Counted(o.caps) /\ ~c.failed
      BY <3>2, StringsMade
    <3>4. /\ a.ptr \in Array(Text) /\ a.count \in Nat /\ a.failed \in BOOLEAN
          /\ a.blocks = FreedStrings(a.ptr, a.count) /\ (a.failed => a.ptr = Null /\ AllocFails)
          /\ ~a.failed => StringsKept(a.ptr, a.count, o.arches, doc.scarce)
          /\ ~AllocFails => a.ptr = Whole(o.arches) /\ a.count = Counted(o.arches) /\ ~a.failed
      BY <3>2, StringsMade
    <3>5. /\ s.ptr \in Text /\ (~AllocFails => s.ptr = o.minKernel)
          /\ s.blocks = Freed(s.ptr) /\ Kept(s.ptr, o.minKernel, doc.scarce)
      BY <3>2, StringCopied
    <3> DEFINE f == [EmptyFilter EXCEPT !.caps = c.ptr, !.caps_count = c.count]
               g == [f EXCEPT !.arches = a.ptr, !.arch_count = a.count]
               h == [g EXCEPT !.min_kernel = s.ptr]
    <3>6. f \in SeccompFilter /\ g \in SeccompFilter /\ h \in SeccompFilter
      BY <3>3, <3>4, <3>5 DEF EmptyFilter, SeccompFilter, Text, Array
    <3>7. /\ h.caps = c.ptr /\ h.caps_count = c.count /\ h.arches = a.ptr
          /\ h.arch_count = a.count /\ h.min_kernel = s.ptr
          /\ f.caps = c.ptr /\ f.arches = Null /\ f.min_kernel = Null
          /\ g.caps = c.ptr /\ g.caps_count = c.count /\ g.arches = a.ptr /\ g.min_kernel = Null
      BY DEF EmptyFilter
    <3>8. m = CASE c.failed -> FilterFailed(f, 1)
                [] a.failed /\ ~c.failed -> FilterFailed(g, 1 + c.blocks)
                [] OTHER -> Made(h, 1 + c.blocks + a.blocks + s.blocks)
      BY <3>1 DEF FilterParsed
    <3> HIDE DEF f, g, h
    <3>9. h = [caps |-> h.caps, caps_count |-> h.caps_count, arches |-> h.arches,
               arch_count |-> h.arch_count, min_kernel |-> h.min_kernel]
      BY <3>6 DEF SeccompFilter
    <3>10. /\ FreedStrings(c.ptr, c.count) \in Nat /\ FreedStrings(a.ptr, a.count) \in Nat
           /\ Freed(s.ptr) \in Nat /\ Freed(Null) = 0
           /\ \A y : FreedStrings(Null, y) = 0
      BY <3>3, <3>4, FreedStringsType, FreedType DEF Freed, FreedStrings, FreedArray
    <3>11. h # Null
      BY <3>6, NullIsNoObject
    <3>12. CASE c.failed
      <4>1. m = FilterFailed(f, 1)
        BY <3>8, <3>12
      <4>2. free_filter_contents(f) = 0
        BY <3>3, <3>7, <3>10, <3>12 DEF free_filter_contents
      <4>3. m.ptr = Null /\ m.blocks = 0
        BY <4>1, <4>2 DEF FilterFailed, Made
      <4> QED
        BY <4>3, <1>2, <3>3, <3>12 DEF FreedFilter, FilterKept, AllocFails
    <3>13. CASE ~c.failed /\ a.failed
      <4>1. m = FilterFailed(g, 1 + c.blocks)
        BY <3>3, <3>4, <3>8, <3>13
      <4>2. free_filter_contents(g) = c.blocks /\ c.blocks \in Nat
        BY <3>3, <3>4, <3>7, <3>10, <3>13 DEF free_filter_contents
      <4>3. m.ptr = Null /\ m.blocks = 0
        BY <4>1, <4>2 DEF FilterFailed, Made
      <4> QED
        BY <4>3, <1>2, <3>4, <3>13 DEF FreedFilter, FilterKept, AllocFails
    <3>14. CASE ~c.failed /\ ~a.failed
      <4>1. m = Made(h, 1 + c.blocks + a.blocks + s.blocks)
        BY <3>8, <3>14
      <4>2. m.ptr = h /\ m.blocks = 1 + c.blocks + a.blocks + s.blocks
        BY <4>1 DEF Made
      <4>3. m.blocks = FreedFilter(m.ptr)
        BY <3>3, <3>4, <3>5, <3>7, <4>2, <3>10, <3>11 DEF FreedFilter, free_filter_contents
      <4>4. ~AllocFails => m.ptr = FilterOf(o)
        BY <4>2, <3>3, <3>4, <3>5, <3>7, <3>9, <1>2 DEF FilterOf
      <4>5. FilterKept(m.ptr, o, doc.scarce)
        BY <1>2, <3>3, <3>4, <3>5, <3>7, <3>11, <3>14, <4>2 DEF FilterKept
      <4> QED
        BY <1>2, <4>2, <4>3, <4>4, <4>5, <3>6
    <3> QED
      BY <3>3, <3>4, <3>12, <3>13, <3>14
  <2> QED
    BY <2>1, <2>2
<1> QED
  BY <1>1, <1>2

-----------------------------------------------------------------------------
(* The profile at each step of parse_JSON(): what is still empty, and how  *)
(* far it corresponds to the document.                                     *)

Early == {"fopen", "fseek", "malloc", "fread", "parse"}
InRule == {"filters", "names", "args", "arg"}
Stages == Early \cup InRule \cup {"default", "archs", "arch", "syscalls", "strings", "return",
                                  "done", "failed", "freed"}

(* The rule r that is being filled from the object o. *)
RuleOK(s, r, o, y) ==
  /\ o \in RuleDocs
  /\ s = "filters" => r.include = Null /\ r.exclude = Null
  /\ s \in {"filters", "names"} => r.names = Null
  /\ s # "arg" => r.args = Null
  /\ s = "arg" => /\ r.args # Null /\ Len(r.args) = r.args_count /\ r.args_count > 0
                  /\ o.args # Null /\ Len(o.args) = r.args_count
                  /\ \A n \in y .. r.args_count : r.args[n].op = Null

StageOK(s, p, root, x, y) ==
  /\ s \in Early \cup {"default", "failed", "freed"} => p = Zeroed
  /\ s \notin Early \cup {"failed", "freed"} => root \in Roots
  /\ s = "archs" => p.arch_map = Null
  /\ s \in {"archs", "arch", "syscalls"} => p.syscalls = Null
  /\ s = "arch" => /\ p.arch_map # Null /\ p.arch_map_count > 0
                   /\ root.archMap # Null /\ Len(root.archMap) = p.arch_map_count
                   /\ \A n \in x .. p.arch_map_count : p.arch_map[n] = EmptyArch
  /\ s \in InRule \cup {"strings"} =>
       /\ p.syscalls # Null /\ root.syscalls # Null /\ Len(root.syscalls) = p.syscalls_count
       /\ p.syscalls_count > 0
       /\ \A n \in x + 1 .. p.syscalls_count : p.syscalls[n] = EmptyRule
  /\ s = "strings" => x > p.syscalls_count \/ p.syscalls[x] = EmptyRule
  /\ s \in InRule => x <= p.syscalls_count /\ RuleOK(s, p.syscalls[x], root.syscalls[x], y)

(* What a rule r that is complete, or has come as far as s, and an         *)
(* architecture have in common with their objects; scarce says that        *)
(* allocations may fail.                                                   *)
RuleDone(r, o, scarce) == RuleKept(r, o, scarce) /\ RuleWellFormed(o) /\ (~scarce => RuleMeans(r, o))

ArchDone(m, o, scarce) == o # Null /\ ArchKept(m, o, scarce) /\ (~scarce => m = ArchOf(o))

RuleContent(s, r, o, y, scarce) ==
  /\ Kept(r.action, o.action, scarce) /\ Kept(r.comment, o.comment, scarce)
  /\ s # "filters" => FilterKept(r.include, o.include, scarce) /\ FilterKept(r.exclude, o.exclude, scarce)
  /\ s # "arg" => r.args_count = 0
  /\ s \in {"args", "arg"} => StringsKept(r.names, r.names_count, o.names, scarce)
  /\ s = "arg" => \A n \in 1 .. y - 1 : o.args[n] # Null /\ ArgKept(r.args[n], o.args[n], scarce)
  /\ ~scarce => /\ r.action = o.action
                /\ s # "filters" => r.include = FilterOf(o.include) /\ r.exclude = FilterOf(o.exclude)
                /\ s \in {"args", "arg"} => r.names = Whole(o.names)

ContentOK(s, p, d, x, y) ==
  /\ s \notin Early \cup {"default", "failed", "freed"} =>
       d.root.defaultAction # Null /\ p.default_action = d.root.defaultAction
  /\ s = "archs" => p.arch_map_count = 0
  /\ s \in {"archs", "arch", "syscalls"} => p.syscalls_count = 0
  /\ s = "arch" => \A n \in 1 .. x - 1 : ArchDone(p.arch_map[n], d.root.archMap[n], d.scarce)
  /\ s \in InRule \cup {"syscalls", "strings", "return", "done"} =>
       /\ p.arch_map_count = Counted(d.root.archMap)
       /\ SameCount(p.arch_map, p.arch_map_count, d.root.archMap)
       /\ \A n \in 1 .. p.arch_map_count : ArchDone(p.arch_map[n], d.root.archMap[n], d.scarce)
  /\ s \in InRule \cup {"strings"} =>
       \A n \in 1 .. x - 1 : RuleDone(p.syscalls[n], d.root.syscalls[n], d.scarce)
  /\ s \in InRule => RuleContent(s, p.syscalls[x], d.root.syscalls[x], y, d.scarce)
  /\ s \in {"return", "done"} =>
       /\ p.syscalls_count = Counted(d.root.syscalls)
       /\ SameCount(p.syscalls, p.syscalls_count, d.root.syscalls)
       /\ \A n \in 1 .. p.syscalls_count : RuleDone(p.syscalls[n], d.root.syscalls[n], d.scarce)

ParseInv ==
  /\ doc \in Documents /\ IsProfile(profile) /\ heap = free_profile(profile)
  /\ i \in Nat \ {0} /\ j \in Nat \ {0} /\ parsePc \in Stages
  /\ StageOK(parsePc, profile, doc.root, i, j)
  /\ ContentOK(parsePc, profile, doc, i, j)
  /\ parsePc \in {"done", "failed"} => open = {}
  /\ parsePc = "failed" => ret # "0" /\ (ret = "EINVAL" /\ ~AllocFails => ~WellFormed)

LEMMA ZeroedProfile == IsProfile(Zeroed) /\ free_profile(Zeroed) = 0
<1>1. IsProfile(Zeroed)
  BY DEF IsProfile, Zeroed, SeccompProfile, Array, Text
<1>2. free_profile(Zeroed) = 0
  BY DEF Zeroed, free_profile, FreedArchs, FreedRules, FreedArray, Freed
<1> QED
  BY <1>1, <1>2

(* An error return: the profile has become q, with b more blocks. *)
LEMMA CleanupStep ==
  ASSUME ParseInv, NEW q, NEW b \in Int, NEW err, err # "0", CleanupAfter(q, b, err),
         free_profile(q) = heap + b, err = "EINVAL" /\ ~AllocFails => ~WellFormed
  PROVE  ParseInv'
<1>1. heap \in Nat
  BY FreedProfileType DEF ParseInv
<1>2. heap' = 0
  BY <1>1 DEF CleanupAfter
<1>3. /\ ret' # "0" /\ parsePc' = "failed" /\ open' = {} /\ profile' = Zeroed
      /\ doc' = doc /\ i' = i /\ j' = j
  BY DEF CleanupAfter, Goto
<1>4. parsePc' \in Stages
  BY <1>3 DEF Stages
<1>5. StageOK(parsePc', profile', doc'.root, i', j') /\ ContentOK(parsePc', profile', doc', i', j')
  BY <1>3 DEF StageOK, ContentOK, Early, InRule
<1>6. ret' = "EINVAL" /\ ~AllocFails' => ~WellFormed'
  <2>1. ret' = err /\ (AllocFails' <=> AllocFails) /\ (WellFormed' <=> WellFormed)
    BY <1>3 DEF CleanupAfter, AllocFails, WellFormed, Root
  <2> QED
    BY <2>1
<1> QED
  BY <1>2, <1>3, <1>4, <1>5, <1>6, ZeroedProfile DEF ParseInv

(* A step that stores q, with b more blocks. *)
LEMMA StoreStep ==
  ASSUME ParseInv, NEW q, NEW b, NEW s, Store(q, b), parsePc' = s,
         IsProfile(q), free_profile(q) = heap + b,
         s \in Stages \ {"done", "failed"}, StageOK(s, q, doc.root, i', j'),
         ContentOK(s, q, doc, i', j'), i' \in Nat \ {0}, j' \in Nat \ {0}
  PROVE  ParseInv'
<1>1. profile' = q /\ heap' = heap + b /\ doc' = doc
  BY DEF Store
<1> QED
  BY <1>1 DEF ParseInv

(* A step that changes neither the profile nor the heap. *)
LEMMA MoveStep ==
  ASSUME ParseInv, NEW s, parsePc' = s, UNCHANGED <<doc, profile, heap>>,
         s \in Stages \ {"failed"}, s = "done" => open' = {}, StageOK(s, profile, doc.root, i', j'),
         ContentOK(s, profile, doc, i', j'), i' \in Nat \ {0}, j' \in Nat \ {0}
  PROVE  ParseInv'
<1>1. profile' = profile /\ heap' = heap /\ doc' = doc
  OBVIOUS
<1>2. free_profile(profile)' = free_profile(profile) /\ (IsProfile(profile)' <=> IsProfile(profile))
  BY <1>1 DEF IsProfile
<1>3. StageOK(parsePc, profile, doc.root, i, j)' /\ ContentOK(parsePc, profile, doc, i, j)'
  BY <1>1
<1> QED
  BY <1>1, <1>2, <1>3 DEF ParseInv

LEMMA CleanupNow ==
  ASSUME ParseInv, NEW err, err # "0", Cleanup(err), err = "EINVAL" /\ ~AllocFails => ~WellFormed
  PROVE  ParseInv'
<1>1. free_profile(profile) = heap + 0
  BY FreedProfileType DEF ParseInv
<1> QED
  BY <1>1, CleanupStep DEF Cleanup

LEMMA ReadFilePreserves ==
  ASSUME ParseInv, OpenFile \/ MeasureFile \/ AllocBuffer \/ ReadBuffer \/ ParseText PROVE ParseInv'
<1>1. parsePc \in Early
  BY DEF OpenFile, MeasureFile, AllocBuffer, ReadBuffer, ParseText, Early
<1>2. profile = Zeroed /\ doc.root \in Roots \cup {Null} /\ i \in Nat \ {0} /\ j \in Nat \ {0}
  BY <1>1 DEF ParseInv, StageOK, Documents
<1>3. \A s \in Early : StageOK(s, profile, doc.root, i, j) /\ ContentOK(s, profile, doc, i, j)
  BY <1>2 DEF StageOK, ContentOK, Early, InRule
<1>4. doc.root # Null => /\ StageOK("default", profile, doc.root, i, j)
                         /\ ContentOK("default", profile, doc, i, j)
  BY <1>2 DEF StageOK, ContentOK, Early, InRule
<1>5. ASSUME NEW s, s \in Early \/ (s = "default" /\ doc.root # Null), Reading(s) PROVE ParseInv'
  <2>1. /\ parsePc' = s /\ UNCHANGED <<doc, profile, heap>> /\ i' = i /\ j' = j
    BY <1>5 DEF Reading, Goto
  <2>2. s \in Stages \ {"failed", "done"} /\ StageOK(s, profile, doc.root, i, j) /\ ContentOK(s, profile, doc, i, j)
    BY <1>3, <1>4, <1>5 DEF Stages, Early
  <2> QED
    BY <1>2, <2>1, <2>2, MoveStep
<1>6. ASSUME NEW s \in {"ENOENT", "EIO", "ENOMEM", "EINVAL"}, Cleanup(s),
             s = "EINVAL" => Root = Null \/ AllocFails
      PROVE  ParseInv'
  BY <1>6, CleanupNow DEF WellFormed
<1>7. \/ \E s \in Early : Reading(s)
      \/ Reading("default") /\ doc.root # Null
      \/ \E s \in {"ENOENT", "EIO", "ENOMEM", "EINVAL"} :
           Cleanup(s) /\ (s = "EINVAL" => Root = Null \/ AllocFails)
  BY DEF OpenFile, MeasureFile, AllocBuffer, ReadBuffer, ParseText, Early, Root
<1> QED
  BY <1>5, <1>6, <1>7

LEMMA DefaultPreserves == ASSUME ParseInv, ParseDefault PROVE ParseInv'
<1>1. profile = Zeroed /\ doc.root \in Roots /\ i \in Nat \ {0} /\ j \in Nat \ {0} /\ heap = 0
  BY ZeroedProfile DEF ParseInv, StageOK, ParseDefault, Early
<1>2. PICK s \in safe_strdup(Root.defaultAction), e \in Number(Root.defaultErrnoRet, SignedInt) :
        IF s.ptr = Null THEN Cleanup("EINVAL")
        ELSE /\ Store([profile EXCEPT !.default_action = s.ptr, !.default_errno_ret = e], s.blocks)
             /\ Goto("archs") /\ UNCHANGED <<i, j>>
  BY DEF ParseDefault
<1>3. /\ s.ptr \in Text /\ e \in Int /\ s.ptr \in {Root.defaultAction, Null}
      /\ s.blocks = Freed(s.ptr) /\ (~AllocFails => s.ptr = Root.defaultAction)
  <2>1. Root.defaultAction \in Text /\ Root.defaultErrnoRet \in Numeric
    BY <1>1 DEF Root, Roots
  <2> QED
    BY <2>1, StringCopied, NumberRead
<1>4. CASE s.ptr = Null
  BY <1>2, <1>3, <1>4, CleanupNow DEF WellFormed
<1>5. CASE s.ptr # Null
  <2> DEFINE q == [Zeroed EXCEPT !.default_action = s.ptr, !.default_errno_ret = e]
  <2>1. /\ q.arch_map = Null /\ q.syscalls = Null /\ q.default_action = s.ptr
        /\ q.arch_map_count = 0 /\ q.syscalls_count = 0
    BY DEF Zeroed
  <2>2. IsProfile(q)
    BY <1>3 DEF IsProfile, SeccompProfile, Zeroed, Array, Text
  <2>3. Store(q, s.blocks) /\ parsePc' = "archs" /\ i' = i /\ j' = j
    BY <1>1, <1>2, <1>5 DEF Goto
  <2> HIDE DEF q
  <2>4. free_profile(q) = heap + s.blocks
    BY <1>1, <1>3, <1>5, <2>1 DEF free_profile, FreedArchs, FreedRules, FreedArray, Freed
  <2>5. StageOK("archs", q, doc.root, i, j) /\ ContentOK("archs", q, doc, i, j)
    BY <1>1, <1>3, <1>5, <2>1 DEF StageOK, ContentOK, Early, InRule, Root
  <2>6. "archs" \in Stages \ {"done", "failed"}
    BY DEF Stages
  <2> QED
    BY <1>1, <2>2, <2>3, <2>4, <2>5, <2>6, StoreStep
<1> QED
  BY <1>4, <1>5

LEMMA AllocArchsPreserves == ASSUME ParseInv, AllocArchs PROVE ParseInv'
<1>1. PICK p : p = profile
  OBVIOUS
<1>2. /\ IsProfile(p) /\ p.arch_map = Null /\ p.syscalls = Null /\ heap = free_profile(p)
      /\ i \in Nat \ {0} /\ j \in Nat \ {0} /\ doc.root \in Roots
      /\ doc.root.defaultAction # Null /\ p.default_action = doc.root.defaultAction
      /\ p.arch_map_count = 0 /\ p.syscalls_count = 0
  BY <1>1 DEF ParseInv, StageOK, ContentOK, AllocArchs, Early
<1>3. CASE Root.archMap \in {Null, << >>}
  <2>1. Reading("syscalls")
    BY <1>3 DEF AllocArchs
  <2>2. /\ parsePc' = "syscalls" /\ UNCHANGED <<doc, profile, heap>> /\ i' = i /\ j' = j
    BY <2>1 DEF Reading, Goto
  <2>3. StageOK("syscalls", profile, doc.root, i, j) /\ "syscalls" \in Stages \ {"failed", "done"}
    BY <1>1, <1>2 DEF StageOK, Early, InRule, Stages
  <2>4. Counted(doc.root.archMap) = 0
    <3>1. Root.archMap = << >> => Len(Root.archMap) = 0
      OBVIOUS
    <3> QED
      BY <1>3, <3>1 DEF Counted, Root
  <2>5. ContentOK("syscalls", profile, doc, i, j)
    BY <1>1, <1>2, <1>3, <2>4 DEF SameCount, Root, ContentOK, Early, InRule
  <2> QED
    BY <1>2, <2>2, <2>3, <2>5, MoveStep
<1>4. CASE Root.archMap \notin {Null, << >>}
  <2>1. PICK n : n = Len(Root.archMap)
    OBVIOUS
  <2>2. n \in Nat /\ n > 0 /\ Root.archMap # Null
    BY <1>2, <1>4, <2>1 DEF Root, Roots, Array
  <2> DEFINE c == [p EXCEPT !.arch_map_count = n]
             q == [c EXCEPT !.arch_map = calloc(n, EmptyArch)]
  <2>3. /\ c.arch_map = Null /\ c.syscalls = Null /\ c.default_action = p.default_action
        /\ IsProfile(c)
    BY <1>2, <2>2 DEF IsProfile, SeccompProfile, Array
  <2>4. calloc(n, EmptyArch) \in Seq(SeccompArchMap) /\ Len(calloc(n, EmptyArch)) = n
    <3>1. EmptyArch \in SeccompArchMap
      BY DEF EmptyArch, SeccompArchMap, Array, Text
    <3> QED
      BY <2>2, <3>1 DEF calloc
  <2>5. calloc(n, EmptyArch) # Null
    BY <2>4, NullIsNoObject
  <2>6. /\ q.arch_map = calloc(n, EmptyArch) /\ q.arch_map_count = n /\ q.syscalls = Null
        /\ q.default_action = p.default_action /\ q.syscalls_count = p.syscalls_count
    BY <1>2 DEF IsProfile, SeccompProfile
  <2>7. IsProfile(q)
    <3>1. q \in SeccompProfile
      BY <1>2, <2>2, <2>4 DEF IsProfile, SeccompProfile, Array
    <3> QED
      BY <2>4, <2>6, <3>1 DEF IsProfile
  <2>8. \/ Store(q, 1) /\ Goto("arch") /\ i' = 1 /\ UNCHANGED j
        \/ CleanupAfter(c, 0, "ENOMEM")
    BY <1>1, <1>4, <2>1 DEF AllocArchs
  <2> HIDE DEF c, q
  <2>9. Freed(p.default_action) \in Nat
    BY FreedType
  <2>10. free_profile(p) = Freed(p.default_action) /\ free_profile(c) = Freed(p.default_action)
    BY <1>2, <2>3, <2>9 DEF free_profile, FreedArchs, FreedRules, FreedArray
  <2>11. free_profile(q) = 1 + Freed(p.default_action)
    <3>1. FreedArchs(q.arch_map, q.arch_map_count) = 1
      BY <2>2, <2>5, <2>6, FreedEmpty
    <3>2. FreedRules(q.syscalls, q.syscalls_count) = 0
      BY <2>6 DEF FreedRules, FreedArray
    <3> QED
      BY <2>6, <2>9, <3>1, <3>2 DEF free_profile
  <2>12. CASE CleanupAfter(c, 0, "ENOMEM")
    <3>1. free_profile(c) = heap + 0
      BY <1>2, <2>9, <2>10
    <3> QED
      BY <2>12, <3>1, CleanupStep
  <2>13. CASE Store(q, 1) /\ Goto("arch") /\ i' = 1 /\ UNCHANGED j
    <3>1. free_profile(q) = heap + 1
      BY <1>2, <2>9, <2>10, <2>11
    <3>2. \A m \in 1 .. q.arch_map_count : q.arch_map[m] = EmptyArch
      BY <2>6 DEF calloc
    <3>3. StageOK("arch", q, doc.root, 1, j) /\ ContentOK("arch", q, doc, 1, j)
      BY <1>2, <2>1, <2>2, <2>5, <2>6, <3>2 DEF StageOK, ContentOK, Early, InRule, Root
    <3>4. "arch" \in Stages \ {"done", "failed"} /\ i' \in Nat \ {0} /\ j' \in Nat \ {0}
      BY <1>2, <2>13 DEF Stages
    <3>5. parsePc' = "arch" /\ i' = 1 /\ j' = j
      BY <2>13 DEF Goto
    <3> QED
      BY <2>7, <2>13, <3>1, <3>3, <3>4, <3>5, StoreStep
  <2> QED
    BY <2>8, <2>12, <2>13
<1> QED
  BY <1>3, <1>4

LEMMA ArchPreserves == ASSUME ParseInv, ParseArch PROVE ParseInv'
<1>1. PICK p, x : p = profile /\ x = i
  OBVIOUS
<1>2. /\ IsProfile(p) /\ p.arch_map # Null /\ p.syscalls = Null /\ heap = free_profile(p)
      /\ x \in Nat \ {0} /\ j \in Nat \ {0} /\ doc.root \in Roots /\ doc.scarce \in BOOLEAN
      /\ Root.archMap # Null /\ Len(Root.archMap) = p.arch_map_count /\ x <= p.arch_map_count /\ p.arch_map_count > 0
      /\ \A n \in x .. p.arch_map_count : p.arch_map[n] = EmptyArch
      /\ parsePc = "arch"
      /\ doc.root.defaultAction # Null /\ p.default_action = doc.root.defaultAction
      /\ p.syscalls_count = 0
      /\ \A n \in 1 .. x - 1 : ArchDone(p.arch_map[n], doc.root.archMap[n], doc.scarce)
  BY <1>1 DEF ParseInv, StageOK, ContentOK, ParseArch, Early, Root, Documents
<1>3. CASE Root.archMap[x] = Null
  <2>1. x \in 1 .. Counted(Root.archMap)
    BY <1>2 DEF Counted, IsProfile, SeccompProfile
  <2>2. ~WellFormed
    BY <1>3, <2>1 DEF WellFormed
  <2> QED
    BY <1>1, <1>3, <2>2, CleanupNow DEF ParseArch
<1>4. CASE Root.archMap[x] # Null
  <2>1. x \in 1 .. Len(Root.archMap) /\ Root.archMap \in Seq(ArchDocs \cup {Null}) /\ p.arch_map_count \in Nat
    BY <1>2 DEF Root, Roots, Array, IsProfile, SeccompProfile
  <2>2. Root.archMap[x] \in ArchDocs
    BY <1>4, <2>1
  <2>3. /\ Root.archMap[x].architecture \in Text
        /\ Root.archMap[x].subArchitectures \in Array(Text)
    BY <2>2 DEF ArchDocs
  <2>4. PICK a \in safe_strdup(Root.archMap[x].architecture),
             sub \in StringArray(Root.archMap[x].subArchitectures) :
            LET m == [architecture |-> a.ptr, sub_architectures |-> sub.ptr,
                      sub_arch_count |-> sub.count]
                q == [p EXCEPT !.arch_map[x] = m]
            IN IF sub.failed
               THEN CleanupAfter(q, a.blocks + sub.blocks, "ENOMEM")
               ELSE Store(q, a.blocks + sub.blocks) /\ i' = x + 1 /\ UNCHANGED <<parsePc, j>>
    BY <1>1, <1>4 DEF ParseArch
  <2>5. /\ a.ptr \in Text /\ sub.ptr \in Array(Text) /\ sub.count \in Nat /\ sub.failed \in BOOLEAN
        /\ a.blocks = Freed(a.ptr) /\ sub.blocks = FreedStrings(sub.ptr, sub.count)
        /\ Kept(a.ptr, Root.archMap[x].architecture, doc.scarce)
        /\ ~sub.failed => StringsKept(sub.ptr, sub.count, Root.archMap[x].subArchitectures, doc.scarce)
        /\ ~AllocFails => /\ a.ptr = Root.archMap[x].architecture
                          /\ sub.ptr = Whole(Root.archMap[x].subArchitectures)
                          /\ sub.count = Counted(Root.archMap[x].subArchitectures)
    BY <1>2, <2>3, StringCopied, StringsMade
  <2>6. PICK m : m = [architecture |-> a.ptr, sub_architectures |-> sub.ptr, sub_arch_count |-> sub.count]
    OBVIOUS
  <2>7. m \in SeccompArchMap
    BY <2>5, <2>6 DEF SeccompArchMap
  <2>8. PICK q : q = WithArch(p, x, m)
    OBVIOUS
  <2>9. \/ CleanupAfter(q, FreedArch(m), "ENOMEM")
        \/ ~sub.failed /\ Store(q, FreedArch(m)) /\ i' = x + 1 /\ UNCHANGED <<parsePc, j>>
    <3>1. FreedArch(m) = a.blocks + sub.blocks
      BY <2>5, <2>6 DEF FreedArch
    <3> QED
      BY <2>4, <2>5, <2>6, <2>8, <3>1 DEF WithArch
  <2>10. x \in 1 .. p.arch_map_count
    BY <1>2, <2>1
  <2>11. /\ IsProfile(q) /\ q.arch_map # Null /\ q.syscalls = p.syscalls
         /\ q.default_action = p.default_action /\ q.syscalls_count = p.syscalls_count
         /\ q.arch_map[x] = m
         /\ q.arch_map_count = p.arch_map_count
         /\ \A n \in 1 .. p.arch_map_count : n # x => q.arch_map[n] = p.arch_map[n]
         /\ free_profile(q) = free_profile(p) + FreedArch(m) - FreedArch(p.arch_map[x])
    BY <1>2, <2>7, <2>8, <2>10, ArchReplaced
  <2>12. FreedArch(p.arch_map[x]) = 0
    <3>1. p.arch_map[x] = EmptyArch
      BY <1>2, <2>1
    <3> QED
      BY <3>1 DEF EmptyArch, FreedArch, FreedStrings, FreedArray, Freed
  <2>13. FreedArch(m) \in Nat /\ free_profile(p) \in Nat
    BY <1>2, <2>7, FreedArchType, FreedProfileType
  <2>14. free_profile(q) = heap + FreedArch(m)
    BY <1>2, <2>11, <2>12, <2>13
  <2>15. CASE CleanupAfter(q, FreedArch(m), "ENOMEM")
    <3>1. FreedArch(m) \in Int
      BY <2>13
    <3> QED
      BY <2>14, <2>15, <3>1, CleanupStep
  <2>16. CASE ~sub.failed /\ Store(q, FreedArch(m)) /\ i' = x + 1 /\ UNCHANGED <<parsePc, j>>
    <3>1. \A n \in x + 1 .. q.arch_map_count : q.arch_map[n] = EmptyArch
      BY <1>2, <2>1, <2>11
    <3>2. StageOK("arch", q, doc.root, x + 1, j)
      BY <1>2, <2>11, <3>1 DEF StageOK, Early, InRule, Root
    <3>3. "arch" \in Stages \ {"done", "failed"} /\ i' \in Nat \ {0} /\ j' \in Nat \ {0}
      BY <1>2, <2>16 DEF Stages
    <3>4. parsePc' = "arch" /\ i' = x + 1 /\ j' = j
      BY <1>2, <2>16
    <3>5. ArchDone(m, doc.root.archMap[x], doc.scarce)
      BY <1>4, <2>5, <2>6, <2>16 DEF ArchDone, ArchOf, ArchKept, AllocFails, Root
    <3>6. \A n \in 1 .. (x + 1) - 1 : ArchDone(q.arch_map[n], doc.root.archMap[n], doc.scarce)
      <4>1. \A n \in 1 .. (x + 1) - 1 : n = x \/ (n \in 1 .. x - 1 /\ n # x /\ n \in 1 .. p.arch_map_count)
        BY <1>2, <2>1
      <4> QED
        BY <1>2, <2>11, <3>5, <4>1
    <3>7. ContentOK("arch", q, doc, x + 1, j)
      BY <1>2, <2>11, <3>6 DEF ContentOK, Early, InRule
    <3> QED
      BY <2>11, <2>14, <2>16, <3>2, <3>3, <3>4, <3>7, StoreStep
  <2> QED
    BY <2>9, <2>15, <2>16
<1> QED
  BY <1>3, <1>4

LEMMA ArchsParsedPreserves == ASSUME ParseInv, ArchsParsed PROVE ParseInv'
<1>1. /\ parsePc' = "syscalls" /\ UNCHANGED <<doc, profile, heap>> /\ i' = i /\ j' = j
  BY DEF ArchsParsed, Reading, Goto
<1>2. StageOK("syscalls", profile, doc.root, i, j) /\ "syscalls" \in Stages \ {"failed", "done"}
  BY DEF ParseInv, ArchsParsed, StageOK, Early, InRule, Stages
<1>3. i \in Nat \ {0} /\ j \in Nat \ {0}
  BY DEF ParseInv
<1>4. PICK p, x : p = profile /\ x = i
  OBVIOUS
<1>5. /\ x \in Nat /\ x > p.arch_map_count /\ p.arch_map_count \in Nat
      /\ p.arch_map_count = Counted(doc.root.archMap)
      /\ p.arch_map # Null /\ Len(p.arch_map) = p.arch_map_count /\ p.arch_map_count > 0
      /\ doc.root.archMap # Null /\ Len(doc.root.archMap) = p.arch_map_count
      /\ doc.root.defaultAction # Null /\ p.default_action = doc.root.defaultAction
      /\ p.syscalls_count = 0
      /\ \A n \in 1 .. x - 1 : ArchDone(p.arch_map[n], doc.root.archMap[n], doc.scarce)
  BY <1>4 DEF ParseInv, ArchsParsed, StageOK, ContentOK, IsProfile, SeccompProfile, Early, InRule, Counted
<1>6. \A n \in 1 .. p.arch_map_count : n \in 1 .. x - 1
  BY <1>5
<1>7. SameCount(p.arch_map, p.arch_map_count, doc.root.archMap)
  BY <1>5 DEF SameCount
<1>8. ContentOK("syscalls", p, doc, x, j)
  BY <1>5, <1>6, <1>7 DEF ContentOK, Early, InRule
<1> QED
  BY <1>1, <1>2, <1>3, <1>4, <1>8, MoveStep

LEMMA AllocRulesPreserves == ASSUME ParseInv, AllocRules PROVE ParseInv'
<1>1. PICK p : p = profile
  OBVIOUS
<1>2. /\ IsProfile(p) /\ p.syscalls = Null /\ heap = free_profile(p)
      /\ i \in Nat \ {0} /\ j \in Nat \ {0} /\ doc.root \in Roots
      /\ doc.root.defaultAction # Null /\ p.default_action = doc.root.defaultAction
      /\ p.syscalls_count = 0 /\ p.arch_map_count = Counted(doc.root.archMap)
      /\ SameCount(p.arch_map, p.arch_map_count, doc.root.archMap)
      /\ \A n \in 1 .. p.arch_map_count : ArchDone(p.arch_map[n], doc.root.archMap[n], doc.scarce)
  BY <1>1 DEF ParseInv, StageOK, ContentOK, AllocRules, Early, InRule
<1>3. CASE Root.syscalls \in {Null, << >>}
  <2>2. /\ parsePc' = "return" /\ UNCHANGED <<doc, profile, heap>> /\ i' = i /\ j' = j
    BY <1>3 DEF AllocRules, Goto
  <2>3. StageOK("return", profile, doc.root, i, j) /\ "return" \in Stages \ {"failed", "done"}
    BY <1>1, <1>2 DEF StageOK, Early, InRule, Stages
  <2>4. Counted(doc.root.syscalls) = 0
    <3>1. Root.syscalls = << >> => Len(Root.syscalls) = 0
      OBVIOUS
    <3> QED
      BY <1>3, <3>1 DEF Counted, Root
  <2>5. ContentOK("return", profile, doc, i, j)
    BY <1>1, <1>2, <1>3, <2>4 DEF SameCount, Root, ContentOK, Early, InRule
  <2> QED
    BY <1>2, <2>2, <2>3, <2>5, MoveStep
<1>4. CASE Root.syscalls \notin {Null, << >>}
  <2>1. PICK n : n = Len(Root.syscalls)
    OBVIOUS
  <2>2. n \in Nat /\ n > 0 /\ Root.syscalls # Null
    BY <1>2, <1>4, <2>1 DEF Root, Roots, Array
  <2> DEFINE c == [p EXCEPT !.syscalls_count = n]
             q == [c EXCEPT !.syscalls = calloc(n, EmptyRule)]
  <2>3. /\ c.arch_map = p.arch_map /\ c.arch_map_count = p.arch_map_count /\ c.syscalls = Null
        /\ c.default_action = p.default_action /\ IsProfile(c)
    BY <1>2, <2>2 DEF IsProfile, SeccompProfile, Array
  <2>4. calloc(n, EmptyRule) \in Seq(SeccompSyscallRule) /\ Len(calloc(n, EmptyRule)) = n
    <3>1. EmptyRule \in SeccompSyscallRule
      BY DEF EmptyRule, SeccompSyscallRule, Array, Text
    <3> QED
      BY <2>2, <3>1 DEF calloc
  <2>5. calloc(n, EmptyRule) # Null
    BY <2>4, NullIsNoObject
  <2>6. /\ q.syscalls = calloc(n, EmptyRule) /\ q.syscalls_count = n /\ q.arch_map = p.arch_map
        /\ q.arch_map_count = p.arch_map_count /\ q.default_action = p.default_action
    BY <1>2 DEF IsProfile, SeccompProfile
  <2>7. IsProfile(q)
    <3>1. q \in SeccompProfile
      BY <1>2, <2>2, <2>4 DEF IsProfile, SeccompProfile, Array
    <3> QED
      BY <1>2, <2>4, <2>6, <3>1 DEF IsProfile
  <2>8. \/ Store(q, 1) /\ Goto("strings") /\ i' = 1 /\ UNCHANGED j
        \/ CleanupAfter(c, 0, "ENOMEM")
    BY <1>1, <1>4, <2>1 DEF AllocRules
  <2> HIDE DEF c, q
  <2>9. Freed(p.default_action) \in Nat /\ FreedArchs(p.arch_map, p.arch_map_count) \in Nat
    BY <1>2, FreedType, FreedProfileType
  <2>10. /\ free_profile(p) = FreedArchs(p.arch_map, p.arch_map_count) + Freed(p.default_action)
         /\ free_profile(c) = FreedArchs(p.arch_map, p.arch_map_count) + Freed(p.default_action)
    BY <1>2, <2>3, <2>9 DEF free_profile, FreedRules, FreedArray
  <2>11. free_profile(q) = FreedArchs(p.arch_map, p.arch_map_count) + Freed(p.default_action) + 1
    <3>1. FreedRules(q.syscalls, q.syscalls_count) = 1
      BY <2>2, <2>5, <2>6, FreedEmpty
    <3> QED
      BY <2>6, <2>9, <3>1 DEF free_profile
  <2>12. CASE CleanupAfter(c, 0, "ENOMEM")
    <3>1. free_profile(c) = heap + 0
      BY <1>2, <2>9, <2>10
    <3> QED
      BY <2>12, <3>1, CleanupStep
  <2>13. CASE Store(q, 1) /\ Goto("strings") /\ i' = 1 /\ UNCHANGED j
    <3>1. free_profile(q) = heap + 1
      BY <1>2, <2>9, <2>10, <2>11
    <3>2. \A m \in 1 .. q.syscalls_count : q.syscalls[m] = EmptyRule
      BY <2>6 DEF calloc
    <3>3. q.syscalls[1] = EmptyRule /\ \A m \in 1 + 1 .. q.syscalls_count : q.syscalls[m] = EmptyRule
      BY <2>2, <2>6, <3>2
    <3>4. StageOK("strings", q, doc.root, 1, j) /\ ContentOK("strings", q, doc, 1, j)
      BY <1>2, <2>1, <2>2, <2>5, <2>6, <3>3 DEF StageOK, ContentOK, Early, InRule, Root
    <3>5. "strings" \in Stages \ {"done", "failed"} /\ i' \in Nat \ {0} /\ j' \in Nat \ {0}
      BY <1>2, <2>13 DEF Stages
    <3>6. parsePc' = "strings" /\ i' = 1 /\ j' = j
      BY <2>13 DEF Goto
    <3> QED
      BY <2>7, <2>13, <3>1, <3>4, <3>5, <3>6, StoreStep
  <2> QED
    BY <2>8, <2>12, <2>13
<1> QED
  BY <1>3, <1>4

(* The current rule becomes r, with b more blocks. *)
LEMMA RuleStoreStep ==
  ASSUME ParseInv, parsePc \in InRule \cup {"strings"}, i <= profile.syscalls_count,
         NEW r \in SeccompSyscallRule, NEW b \in Nat, NEW s \in InRule, NEW y \in Nat \ {0},
         StoreRule(r, b), parsePc' = s, i' = i, j' = y,
         FreedRule(r) = FreedRule(Rule) + b, RuleOK(s, r, RuleDoc, y),
         RuleContent(s, r, RuleDoc, y, doc.scarce)
  PROVE  ParseInv'
<1>1. PICK p, x, q : p = profile /\ x = i /\ q = WithRule(p, x, r)
  OBVIOUS
<1>2. /\ IsProfile(p) /\ p.syscalls # Null /\ heap = free_profile(p)
      /\ x \in Nat \ {0} /\ x <= p.syscalls_count /\ doc.root \in Roots
      /\ doc.root.syscalls # Null /\ Len(doc.root.syscalls) = p.syscalls_count
      /\ p.syscalls_count > 0
      /\ \A n \in x + 1 .. p.syscalls_count : p.syscalls[n] = EmptyRule
  BY <1>1 DEF ParseInv, StageOK, Early, InRule
<1>3. x \in 1 .. p.syscalls_count /\ p.syscalls_count \in Nat
  BY <1>2 DEF IsProfile, SeccompProfile
<1>4. p.syscalls[x] \in SeccompSyscallRule
  BY <1>2, <1>3 DEF IsProfile, SeccompProfile, Array
<1>5. /\ IsProfile(q) /\ q.syscalls # Null /\ q.syscalls_count = p.syscalls_count
      /\ q.default_action = p.default_action
      /\ q.arch_map = p.arch_map /\ q.arch_map_count = p.arch_map_count
      /\ q.syscalls[x] = r /\ \A n \in 1 .. p.syscalls_count : n # x => q.syscalls[n] = p.syscalls[n]
      /\ free_profile(q) = free_profile(p) + FreedRule(r) - FreedRule(p.syscalls[x])
  BY <1>1, <1>2, <1>3, RuleReplaced
<1>6. FreedRule(p.syscalls[x]) \in Nat /\ free_profile(p) \in Nat /\ FreedRule(r) = FreedRule(p.syscalls[x]) + b
  BY <1>1, <1>2, <1>4, FreedRuleType, FreedProfileType DEF Rule
<1>7. free_profile(q) = heap + b
  BY <1>2, <1>5, <1>6
<1>8. Store(q, b)
  BY <1>1 DEF StoreRule, WithRule
<1>9. \A n \in x + 1 .. q.syscalls_count : q.syscalls[n] = EmptyRule
  BY <1>2, <1>3, <1>5
<1>10. StageOK(s, q, doc.root, x, y)
  <2>1. s \notin Early \cup {"default", "failed", "freed", "archs", "arch", "syscalls", "strings"}
    BY DEF InRule, Early
  <2>2. RuleOK(s, q.syscalls[x], doc.root.syscalls[x], y)
    BY <1>1, <1>5 DEF RuleDoc, Root
  <2> QED
    BY <1>2, <1>3, <1>5, <1>9, <2>1, <2>2 DEF StageOK
<1>11. ContentOK(s, q, doc, x, y)
  <2>1. /\ s \notin Early \cup {"default", "failed", "freed", "archs", "arch", "syscalls", "strings", "return", "done"}
        /\ parsePc \notin Early \cup {"default", "failed", "freed"}
    BY DEF InRule, Early
  <2>2. /\ doc.root.defaultAction # Null /\ p.default_action = doc.root.defaultAction
        /\ p.arch_map_count = Counted(doc.root.archMap)
        /\ SameCount(p.arch_map, p.arch_map_count, doc.root.archMap)
        /\ \A n \in 1 .. p.arch_map_count : ArchDone(p.arch_map[n], doc.root.archMap[n], doc.scarce)
        /\ \A n \in 1 .. x - 1 : RuleDone(p.syscalls[n], doc.root.syscalls[n], doc.scarce)
    BY <1>1, <2>1 DEF ParseInv, ContentOK
  <2>3. \A n \in 1 .. x - 1 : n \in 1 .. p.syscalls_count /\ n # x
    BY <1>2, <1>3
  <2>4. \A n \in 1 .. x - 1 : RuleDone(q.syscalls[n], doc.root.syscalls[n], doc.scarce)
    BY <1>5, <2>2, <2>3
  <2>5. RuleContent(s, q.syscalls[x], doc.root.syscalls[x], y, doc.scarce)
    BY <1>1, <1>5 DEF RuleDoc, Root
  <2> QED
    BY <1>5, <2>1, <2>2, <2>4, <2>5 DEF ContentOK
<1>12. s \in Stages \ {"done", "failed"} /\ i' = x /\ j' = y /\ parsePc' = s
  BY <1>1 DEF InRule, Stages
<1> QED
  BY <1>2, <1>5, <1>7, <1>8, <1>10, <1>12, <1>11, StoreStep

(* An error return after a change of the current rule that owns nothing. *)
LEMMA RuleCleanupStep ==
  ASSUME ParseInv, parsePc \in InRule, NEW r \in SeccompSyscallRule,
         FreedRule(r) = FreedRule(Rule), CleanupAfter(WithRule(profile, i, r), 0, "ENOMEM")
  PROVE  ParseInv'
<1>1. PICK p, x, q : p = profile /\ x = i /\ q = WithRule(p, x, r)
  OBVIOUS
<1>2. /\ IsProfile(p) /\ p.syscalls # Null /\ heap = free_profile(p)
      /\ x \in Nat \ {0} /\ x <= p.syscalls_count
  BY <1>1 DEF ParseInv, StageOK, Early, InRule
<1>3. x \in 1 .. p.syscalls_count /\ p.syscalls_count \in Nat
  BY <1>2 DEF IsProfile, SeccompProfile
<1>4. free_profile(q) = free_profile(p) + FreedRule(r) - FreedRule(p.syscalls[x])
  BY <1>1, <1>2, <1>3, RuleReplaced
<1>5. FreedRule(r) \in Nat /\ free_profile(p) \in Nat /\ FreedRule(r) = FreedRule(p.syscalls[x])
  BY <1>1, <1>2, FreedRuleType, FreedProfileType DEF Rule
<1>6. free_profile(q) = heap + 0
  BY <1>2, <1>4, <1>5
<1> QED
  BY <1>1, <1>6, CleanupStep

LEMMA RuleParts ==
  ASSUME NEW r \in SeccompSyscallRule
  PROVE  /\ FreedStrings(r.names, r.names_count) \in Nat /\ FreedArgs(r.args, r.args_count) \in Nat
         /\ FreedFilter(r.include) \in Nat /\ FreedFilter(r.exclude) \in Nat
         /\ Freed(r.action) \in Nat /\ Freed(r.comment) \in Nat
<1>1. /\ r.names_count \in Nat /\ r.args_count \in Nat
      /\ r.include \in SeccompFilter \cup {Null} /\ r.exclude \in SeccompFilter \cup {Null}
  BY DEF SeccompSyscallRule
<1>2. FreedFilter(r.include) \in Nat /\ FreedFilter(r.exclude) \in Nat
  BY <1>1, FreedFilterType DEF FreedFilter
<1> QED
  BY <1>1, <1>2, FreedStringsType, FreedArgsType, FreedType

(* The current rule and the object it is made from. *)
LEMMA CurrentRule ==
  ASSUME ParseInv, parsePc \in InRule
  PROVE  /\ Rule \in SeccompSyscallRule /\ RuleDoc \in RuleDocs /\ RuleOK(parsePc, Rule, RuleDoc, j)
         /\ RuleContent(parsePc, Rule, RuleDoc, j, doc.scarce)
         /\ doc.scarce \in BOOLEAN /\ j \in Nat \ {0} /\ i <= profile.syscalls_count
<1>1. PICK p, x : p = profile /\ x = i
  OBVIOUS
<1>2. /\ IsProfile(p) /\ p.syscalls # Null /\ x \in Nat \ {0} /\ x <= p.syscalls_count
      /\ RuleOK(parsePc, p.syscalls[x], doc.root.syscalls[x], j)
      /\ RuleContent(parsePc, p.syscalls[x], doc.root.syscalls[x], j, doc.scarce)
      /\ j \in Nat \ {0} /\ doc.scarce \in BOOLEAN
  BY <1>1 DEF ParseInv, StageOK, ContentOK, Early, InRule, Documents
<1>3. x \in 1 .. p.syscalls_count
  BY <1>2 DEF IsProfile, SeccompProfile
<1>4. p.syscalls[x] \in SeccompSyscallRule
  BY <1>2, <1>3 DEF IsProfile, SeccompProfile, Array
<1>5. doc.root.syscalls[x] \in RuleDocs
  BY <1>2 DEF RuleOK
<1> QED
  BY <1>1, <1>2, <1>4, <1>5 DEF Rule, RuleDoc, Root

LEMMA StringsPreserve == ASSUME ParseInv, ParseStrings PROVE ParseInv'
<1>1. /\ parsePc = "strings" /\ i <= profile.syscalls_count
  BY DEF ParseStrings
<1>2. CASE RuleDoc = Null
  <2>1. /\ i \in Nat \ {0} /\ Len(doc.root.syscalls) = profile.syscalls_count
        /\ doc.root.syscalls # Null /\ IsProfile(profile)
    BY <1>1 DEF ParseInv, StageOK, Early, InRule
  <2>2. i \in 1 .. Counted(Root.syscalls)
    BY <1>1, <2>1 DEF Counted, Root, IsProfile, SeccompProfile
  <2>3. ~WellFormed
    BY <1>2, <2>2 DEF WellFormed, RuleWellFormed, RuleDoc
  <2> QED
    BY <1>2, <2>3, CleanupNow DEF ParseStrings
<1>3. CASE RuleDoc # Null
  <2>1. /\ IsProfile(profile) /\ profile.syscalls # Null /\ i \in Nat \ {0} /\ doc.root \in Roots
        /\ doc.root.syscalls # Null /\ Len(doc.root.syscalls) = profile.syscalls_count
        /\ Rule = EmptyRule /\ j \in Nat \ {0}
    BY <1>1 DEF ParseInv, StageOK, Early, InRule, Rule, IsProfile, SeccompProfile
  <2>2. i \in 1 .. Len(doc.root.syscalls) /\ doc.root.syscalls \in Seq(RuleDocs \cup {Null})
    BY <1>1, <2>1 DEF Roots, Array, IsProfile, SeccompProfile
  <2>3. RuleDoc \in RuleDocs
    BY <1>3, <2>2 DEF RuleDoc, Root
  <2>4. RuleDoc.action \in Text /\ RuleDoc.comment \in Text
    BY <2>3 DEF RuleDocs
  <2>5. PICK a \in safe_strdup(RuleDoc.action), c \in safe_strdup(RuleDoc.comment) :
          /\ StoreRule([Rule EXCEPT !.action = a.ptr, !.comment = c.ptr], a.blocks + c.blocks)
          /\ Goto("filters") /\ UNCHANGED <<i, j>>
    BY <1>3 DEF ParseStrings
  <2>6. /\ a.ptr \in Text /\ c.ptr \in Text /\ (~AllocFails => a.ptr = RuleDoc.action)
        /\ a.blocks = Freed(a.ptr) /\ c.blocks = Freed(c.ptr)
        /\ Kept(a.ptr, RuleDoc.action, doc.scarce) /\ Kept(c.ptr, RuleDoc.comment, doc.scarce)
    BY <2>4, StringCopied
  <2>7. PICK r : r = [EmptyRule EXCEPT !.action = a.ptr, !.comment = c.ptr]
    OBVIOUS
  <2>8. /\ r \in SeccompSyscallRule /\ r.include = Null /\ r.exclude = Null /\ r.names = Null
        /\ r.args = Null /\ r.args_count = 0 /\ r.action = a.ptr /\ r.comment = c.ptr
    BY <2>6, <2>7 DEF EmptyRule, SeccompSyscallRule, Array, Text
  <2>9. a.blocks \in Nat /\ c.blocks \in Nat
    BY <2>6, FreedType
  <2>10. FreedRule(r) = a.blocks + c.blocks
    BY <2>6, <2>8, <2>9 DEF FreedRule, FreedStrings, FreedArgs, FreedArray, FreedFilter
  <2>11. FreedRule(Rule) = 0
    BY <2>1 DEF EmptyRule, FreedRule, FreedStrings, FreedArgs, FreedArray, FreedFilter, Freed
  <2>12. RuleOK("filters", r, RuleDoc, j) /\ RuleContent("filters", r, RuleDoc, j, doc.scarce)
    BY <2>3, <2>6, <2>8 DEF RuleOK, RuleContent, AllocFails
  <2>13. StoreRule(r, a.blocks + c.blocks) /\ parsePc' = "filters" /\ i' = i /\ j' = j
    BY <2>1, <2>5, <2>7 DEF Goto
  <2>14. /\ "filters" \in InRule /\ parsePc \in InRule \cup {"strings"}
         /\ a.blocks + c.blocks \in Nat /\ FreedRule(r) = FreedRule(Rule) + (a.blocks + c.blocks)
    BY <1>1, <2>9, <2>10, <2>11 DEF InRule
  <2> QED
    BY <1>1, <2>1, <2>8, <2>12, <2>13, <2>14, RuleStoreStep
<1> QED
  BY <1>2, <1>3

LEMMA FiltersPreserve == ASSUME ParseInv, ParseFilters PROVE ParseInv'
<1>1. parsePc = "filters" /\ parsePc \in InRule
  BY DEF ParseFilters, InRule
<1>2. PICK r, o : r = Rule /\ o = RuleDoc
  OBVIOUS
<1>3. /\ r \in SeccompSyscallRule /\ o \in RuleDocs /\ RuleOK("filters", r, o, j)
      /\ RuleContent("filters", r, o, j, doc.scarce)
      /\ doc.scarce \in BOOLEAN /\ j \in Nat \ {0} /\ i <= profile.syscalls_count
  BY <1>1, <1>2, CurrentRule
<1>4. o.include \in FilterDocs \cup {Null} /\ o.exclude \in FilterDocs \cup {Null}
  BY <1>3 DEF RuleDocs
<1>5. PICK inc \in parse_filter(o.include), exc \in parse_filter(o.exclude) :
        StoreRule([r EXCEPT !.include = inc.ptr, !.exclude = exc.ptr], inc.blocks + exc.blocks)
  BY <1>2 DEF ParseFilters
<1>6. /\ inc.ptr \in SeccompFilter \cup {Null} /\ inc.blocks = FreedFilter(inc.ptr)
      /\ exc.ptr \in SeccompFilter \cup {Null} /\ exc.blocks = FreedFilter(exc.ptr)
      /\ FilterKept(inc.ptr, o.include, doc.scarce) /\ FilterKept(exc.ptr, o.exclude, doc.scarce)
      /\ ~AllocFails => inc.ptr = FilterOf(o.include) /\ exc.ptr = FilterOf(o.exclude)
  BY <1>3, <1>4, FilterMade
<1>7. PICK t : t = [r EXCEPT !.include = inc.ptr, !.exclude = exc.ptr]
  OBVIOUS
<1>8. /\ t \in SeccompSyscallRule /\ t.include = inc.ptr /\ t.exclude = exc.ptr
      /\ t.names = r.names /\ t.names_count = r.names_count /\ t.args = r.args
      /\ t.args_count = r.args_count /\ t.action = r.action /\ t.comment = r.comment
  BY <1>3, <1>6, <1>7 DEF SeccompSyscallRule
<1>9. r.include = Null /\ r.exclude = Null /\ r.names = Null /\ r.args = Null
  BY <1>3 DEF RuleOK
<1>10. /\ FreedFilter(inc.ptr) \in Nat /\ FreedFilter(exc.ptr) \in Nat
       /\ FreedRule(t) = FreedRule(r) + (inc.blocks + exc.blocks)
  <2>1. /\ FreedStrings(r.names, r.names_count) = 0 /\ FreedArgs(r.args, r.args_count) = 0
        /\ FreedFilter(r.include) = 0 /\ FreedFilter(r.exclude) = 0
    BY <1>9 DEF FreedStrings, FreedArgs, FreedArray, FreedFilter
  <2>2. FreedFilter(t.include) \in Nat /\ FreedFilter(t.exclude) \in Nat /\ Freed(r.action) \in Nat /\ Freed(r.comment) \in Nat
    BY <1>8, RuleParts, FreedType
  <2>3. FreedRule(r) = Freed(r.action) + Freed(r.comment)
    BY <2>1, <2>2 DEF FreedRule
  <2>4. FreedRule(t) = FreedFilter(t.include) + FreedFilter(t.exclude) + Freed(r.action) + Freed(r.comment)
    BY <1>8, <2>1, <2>2 DEF FreedRule
  <2> QED
    BY <1>6, <1>8, <2>2, <2>3, <2>4
<1>11. RuleOK("names", t, o, j) /\ RuleContent("names", t, o, j, doc.scarce)
  BY <1>3, <1>6, <1>8, <1>9 DEF RuleOK, RuleContent, AllocFails
<1>12. StoreRule(t, inc.blocks + exc.blocks) /\ parsePc' = "names" /\ i' = i /\ j' = j
  BY <1>5, <1>7 DEF ParseFilters, Goto
<1>13. "names" \in InRule /\ parsePc \in InRule \cup {"strings"} /\ inc.blocks + exc.blocks \in Nat
  BY <1>1, <1>6, <1>10 DEF InRule
<1> QED
  BY <1>2, <1>3, <1>8, <1>10, <1>11, <1>12, <1>13, RuleStoreStep

LEMMA NamesPreserve == ASSUME ParseInv, ParseNames PROVE ParseInv'
<1>1. parsePc = "names" /\ parsePc \in InRule
  BY DEF ParseNames, InRule
<1>2. PICK r, o, p, x : r = Rule /\ o = RuleDoc /\ p = profile /\ x = i
  OBVIOUS
<1>3. /\ r \in SeccompSyscallRule /\ o \in RuleDocs /\ RuleOK("names", r, o, j)
      /\ RuleContent("names", r, o, j, doc.scarce)
      /\ doc.scarce \in BOOLEAN /\ j \in Nat \ {0} /\ i <= profile.syscalls_count
  BY <1>1, <1>2, CurrentRule
<1>4. o.names \in Array(Text)
  BY <1>3 DEF RuleDocs
<1>5. PICK n \in StringArray(o.names) :
       IF n.failed
       THEN CleanupAfter([profile EXCEPT !.syscalls[i].names_count = n.count], 0, "ENOMEM")
       ELSE /\ StoreRule([r EXCEPT !.names = n.ptr, !.names_count = n.count], n.blocks)
            /\ Goto("args") /\ UNCHANGED <<i, j>>
  BY <1>2 DEF ParseNames
<1>6. /\ n.ptr \in Array(Text) /\ n.count \in Nat /\ n.blocks = FreedStrings(n.ptr, n.count)
      /\ ~n.failed => StringsKept(n.ptr, n.count, o.names, doc.scarce)
      /\ ~AllocFails => n.ptr = Whole(o.names)
  BY <1>3, <1>4, StringsMade
<1>7. r.names = Null /\ r.args = Null
  BY <1>3 DEF RuleOK
<1>8. CASE n.failed
  <2>1. PICK t : t = [r EXCEPT !.names_count = n.count]
    OBVIOUS
  <2>2. /\ t \in SeccompSyscallRule /\ t.include = r.include /\ t.exclude = r.exclude
        /\ t.names = Null /\ t.args = Null /\ t.action = r.action /\ t.comment = r.comment
    BY <1>3, <1>6, <1>7, <2>1 DEF SeccompSyscallRule
  <2>3. FreedRule(t) = FreedRule(r)
    <3>1. /\ FreedStrings(t.names, t.names_count) = FreedStrings(r.names, r.names_count)
          /\ FreedArgs(t.args, t.args_count) = FreedArgs(r.args, r.args_count)
      BY <1>7, <2>2 DEF FreedStrings, FreedArgs, FreedArray
    <3> QED
      BY <2>2, <3>1 DEF FreedRule
  <2>4. [p EXCEPT !.syscalls[x].names_count = n.count] = WithRule(p, x, t)
    <3>1. t = [p.syscalls[x] EXCEPT !.names_count = n.count]
      BY <1>2, <2>1 DEF Rule
    <3> QED
      BY <3>1 DEF WithRule
  <2>5. CleanupAfter(WithRule(profile, i, t), 0, "ENOMEM")
    BY <1>2, <1>5, <1>8, <2>4
  <2> QED
    BY <1>1, <1>2, <2>2, <2>3, <2>5, RuleCleanupStep
<1>9. CASE ~n.failed
  <2>1. PICK t : t = [r EXCEPT !.names = n.ptr, !.names_count = n.count]
    OBVIOUS
  <2>2. /\ t \in SeccompSyscallRule /\ t.include = r.include /\ t.exclude = r.exclude
        /\ t.names = n.ptr /\ t.names_count = n.count /\ t.args = Null
        /\ t.args_count = r.args_count
        /\ t.action = r.action /\ t.comment = r.comment
    BY <1>3, <1>6, <1>7, <2>1 DEF SeccompSyscallRule
  <2>3. FreedRule(t) = FreedRule(r) + FreedStrings(n.ptr, n.count) /\ FreedStrings(n.ptr, n.count) \in Nat
    <3>1. /\ FreedStrings(r.names, r.names_count) = 0
          /\ FreedArgs(t.args, t.args_count) = 0 /\ FreedArgs(r.args, r.args_count) = 0
      BY <1>7, <2>2 DEF FreedStrings, FreedArgs, FreedArray
    <3>2. /\ FreedFilter(r.include) \in Nat /\ FreedFilter(r.exclude) \in Nat
          /\ Freed(r.action) \in Nat /\ Freed(r.comment) \in Nat
      BY <1>3, RuleParts
    <3>3. FreedStrings(n.ptr, n.count) \in Nat
      BY <1>6, FreedStringsType
    <3> QED
      BY <2>2, <3>1, <3>2, <3>3 DEF FreedRule
  <2>4. RuleOK("args", t, o, j) /\ RuleContent("args", t, o, j, doc.scarce)
    BY <1>3, <1>6, <1>9, <2>2 DEF RuleOK, RuleContent, AllocFails
  <2>5. StoreRule(t, FreedStrings(n.ptr, n.count)) /\ parsePc' = "args" /\ i' = i /\ j' = j
    BY <1>5, <1>6, <1>9, <2>1 DEF Goto
  <2>6. "args" \in InRule /\ parsePc \in InRule \cup {"strings"}
    BY <1>1 DEF InRule
  <2> QED
    BY <1>2, <1>3, <2>2, <2>3, <2>4, <2>5, <2>6, RuleStoreStep
<1> QED
  BY <1>8, <1>9

(* On to the next rule. *)
LEMMA NextRuleStep ==
  ASSUME ParseInv, parsePc \in InRule, Goto("strings"), i' = i + 1,
         UNCHANGED <<doc, profile, j, open, heap, ret>>, RuleDone(Rule, RuleDoc, doc.scarce)
  PROVE  ParseInv'
<1>1. PICK p, x : p = profile /\ x = i
  OBVIOUS
<1>2. /\ IsProfile(p) /\ p.syscalls # Null /\ x \in Nat \ {0} /\ j \in Nat \ {0} /\ doc.root \in Roots
      /\ doc.root.syscalls # Null /\ Len(doc.root.syscalls) = p.syscalls_count
      /\ p.syscalls_count > 0
      /\ \A n \in x + 1 .. p.syscalls_count : p.syscalls[n] = EmptyRule
  BY <1>1 DEF ParseInv, StageOK, Early, InRule
<1>3. p.syscalls_count \in Nat
  BY <1>2 DEF IsProfile, SeccompProfile
<1>4. /\ \A n \in (x + 1) + 1 .. p.syscalls_count : p.syscalls[n] = EmptyRule
      /\ x + 1 > p.syscalls_count \/ p.syscalls[x + 1] = EmptyRule
  BY <1>2, <1>3
<1>5. StageOK("strings", p, doc.root, x + 1, j) /\ "strings" \in Stages \ {"done", "failed"}
  BY <1>2, <1>4 DEF StageOK, Early, InRule, Stages
<1>6. ContentOK("strings", p, doc, x + 1, j)
  <2>1. parsePc \notin Early \cup {"default", "failed", "freed"}
    BY DEF InRule, Early
  <2>2. /\ doc.root.defaultAction # Null /\ p.default_action = doc.root.defaultAction
        /\ p.arch_map_count = Counted(doc.root.archMap)
        /\ SameCount(p.arch_map, p.arch_map_count, doc.root.archMap)
        /\ \A n \in 1 .. p.arch_map_count : ArchDone(p.arch_map[n], doc.root.archMap[n], doc.scarce)
        /\ \A n \in 1 .. x - 1 : RuleDone(p.syscalls[n], doc.root.syscalls[n], doc.scarce)
    BY <1>1, <2>1 DEF ParseInv, ContentOK
  <2>3. RuleDone(p.syscalls[x], doc.root.syscalls[x], doc.scarce)
    BY <1>1 DEF Rule, RuleDoc, Root
  <2>4. \A n \in 1 .. (x + 1) - 1 : n = x \/ n \in 1 .. x - 1
    BY <1>2
  <2>5. \A n \in 1 .. (x + 1) - 1 : RuleDone(p.syscalls[n], doc.root.syscalls[n], doc.scarce)
    BY <2>2, <2>3, <2>4
  <2> QED
    BY <2>2, <2>5 DEF ContentOK, Early, InRule
<1>7. parsePc' = "strings" /\ UNCHANGED <<doc, profile, heap>> /\ i' = x + 1 /\ j' = j
  BY <1>1 DEF Goto
<1>8. /\ StageOK("strings", profile, doc.root, i', j') /\ ContentOK("strings", profile, doc, i', j')
      /\ i' \in Nat \ {0} /\ j' \in Nat \ {0}
  BY <1>1, <1>2, <1>5, <1>7, <1>6
<1> QED
  BY <1>5, <1>7, <1>8, MoveStep

LEMMA AllocArgsPreserves == ASSUME ParseInv, AllocArgs PROVE ParseInv'
<1>1. parsePc = "args" /\ parsePc \in InRule
  BY DEF AllocArgs, InRule
<1>2. CASE RuleDoc.args \in {Null, << >>}
  <2>1. PICK r, o : r = Rule /\ o = RuleDoc
    OBVIOUS
  <2>2. /\ r \in SeccompSyscallRule /\ o \in RuleDocs /\ RuleOK("args", r, o, j)
        /\ RuleContent("args", r, o, j, doc.scarce)
    BY <1>1, <2>1, CurrentRule
  <2>3. Counted(o.args) = 0
    <3>1. o.args = << >> => Len(o.args) = 0
      OBVIOUS
    <3> QED
      BY <1>2, <2>1, <3>1 DEF Counted
  <2>4. r.args = Null /\ r.args_count = 0 /\ o # Null
    <3>1. o \in RuleDocs => o # Null
      BY NullIsNoObject
    <3> QED
      BY <2>2, <3>1 DEF RuleOK, RuleContent
  <2>5. RuleKept(r, o, doc.scarce)
    BY <1>2, <2>1, <2>2, <2>4 DEF RuleKept, RuleContent, SameCount
  <2>6. RuleDone(r, o, doc.scarce)
    BY <2>2, <2>3, <2>4, <2>5 DEF RuleDone, RuleWellFormed, RuleMeans, RuleContent
  <2> QED
    BY <1>1, <1>2, <2>1, <2>6, NextRuleStep DEF AllocArgs
<1>3. CASE RuleDoc.args \notin {Null, << >>}
  <2>1. PICK r, o, p, x, n : r = Rule /\ o = RuleDoc /\ p = profile /\ x = i /\ n = Len(o.args)
    OBVIOUS
  <2>2. /\ r \in SeccompSyscallRule /\ o \in RuleDocs /\ RuleOK("args", r, o, j)
        /\ RuleContent("args", r, o, j, doc.scarce)
        /\ j \in Nat \ {0} /\ i <= profile.syscalls_count
    BY <1>1, <2>1, CurrentRule
  <2>3. o.args # Null /\ n \in Nat /\ n > 0
    BY <1>3, <2>1, <2>2 DEF RuleDocs, Array
  <2>4. r.args = Null
    BY <2>2 DEF RuleOK
  <2>5. PICK a : a = calloc(n, EmptyArg)
    OBVIOUS
  <2>6. a \in Seq(SeccompArgConstraint) /\ Len(a) = n /\ \A m \in 1 .. n : a[m].op = Null
    <3>1. EmptyArg \in SeccompArgConstraint /\ EmptyArg.op = Null
      BY DEF EmptyArg, SeccompArgConstraint, Text
    <3> QED
      BY <2>3, <2>5, <3>1 DEF calloc
  <2>7. a # Null
    BY <2>6, NullIsNoObject
  <2>8. PICK c, t : c = [r EXCEPT !.args_count = n] /\ t = [r EXCEPT !.args_count = n, !.args = a]
    OBVIOUS
  <2>9. /\ c \in SeccompSyscallRule /\ c.include = r.include /\ c.exclude = r.exclude
        /\ c.names = r.names /\ c.names_count = r.names_count /\ c.args = Null
        /\ c.action = r.action /\ c.comment = r.comment
    BY <2>2, <2>3, <2>4, <2>8 DEF SeccompSyscallRule
  <2>10. /\ t \in SeccompSyscallRule /\ t.include = r.include /\ t.exclude = r.exclude
         /\ t.names = r.names /\ t.names_count = r.names_count /\ t.args = a /\ t.args_count = n
         /\ t.action = r.action /\ t.comment = r.comment
    BY <2>2, <2>3, <2>6, <2>8 DEF SeccompSyscallRule, Array
  <2>11. FreedArgs(r.args, r.args_count) = 0 /\ FreedArgs(c.args, c.args_count) = 0
    BY <2>4, <2>9 DEF FreedArgs, FreedArray
  <2>12. FreedArgs(t.args, t.args_count) = 1
    BY <2>3, <2>5, <2>7, <2>10, FreedEmpty
  <2>13. FreedRule(c) = FreedRule(r)
    BY <2>9, <2>11 DEF FreedRule
  <2>14. FreedRule(t) = FreedRule(r) + 1
    <3>1. /\ FreedFilter(r.include) \in Nat /\ FreedFilter(r.exclude) \in Nat
          /\ Freed(r.action) \in Nat /\ Freed(r.comment) \in Nat
          /\ FreedStrings(r.names, r.names_count) \in Nat
      BY <2>2, RuleParts
    <3> QED
      BY <2>10, <2>11, <2>12, <3>1 DEF FreedRule
  <2>15. \/ StoreRule(t, 1) /\ Goto("arg") /\ j' = 1 /\ UNCHANGED i
         \/ CleanupAfter([p EXCEPT !.syscalls[x].args_count = n], 0, "ENOMEM")
    BY <1>3, <2>1, <2>5, <2>8 DEF AllocArgs
  <2>16. CASE CleanupAfter([p EXCEPT !.syscalls[x].args_count = n], 0, "ENOMEM")
    <3>1. c = [p.syscalls[x] EXCEPT !.args_count = n]
      BY <2>1, <2>8 DEF Rule
    <3>2. [p EXCEPT !.syscalls[x].args_count = n] = WithRule(p, x, c)
      BY <3>1 DEF WithRule
    <3>3. CleanupAfter(WithRule(profile, i, c), 0, "ENOMEM")
      BY <2>1, <2>16, <3>2
    <3> QED
      BY <1>1, <2>1, <2>9, <2>13, <3>3, RuleCleanupStep
  <2>17. CASE StoreRule(t, 1) /\ Goto("arg") /\ j' = 1 /\ UNCHANGED i
    <3>1. RuleOK("arg", t, o, 1) /\ RuleContent("arg", t, o, 1, doc.scarce)
      BY <2>1, <2>2, <2>3, <2>6, <2>7, <2>10 DEF RuleOK, RuleContent
    <3>2. StoreRule(t, 1) /\ parsePc' = "arg" /\ i' = i /\ j' = 1
      BY <2>17 DEF Goto
    <3>3. "arg" \in InRule /\ parsePc \in InRule \cup {"strings"} /\ 1 \in Nat \ {0} /\ 1 \in Nat
      BY <1>1 DEF InRule
    <3> QED
      BY <2>1, <2>2, <2>10, <2>14, <3>1, <3>2, <3>3, RuleStoreStep
  <2> QED
    BY <2>15, <2>16, <2>17
<1> QED
  BY <1>2, <1>3

LEMMA ArgPreserves == ASSUME ParseInv, ParseArg PROVE ParseInv'
<1>1. parsePc = "arg" /\ parsePc \in InRule
  BY DEF ParseArg, InRule
<1>2. PICK r, o, y : r = Rule /\ o = RuleDoc /\ y = j
  OBVIOUS
<1>3. /\ r \in SeccompSyscallRule /\ o \in RuleDocs /\ RuleOK("arg", r, o, y)
      /\ RuleContent("arg", r, o, y, doc.scarce)
      /\ y \in Nat \ {0} /\ i <= profile.syscalls_count /\ y <= r.args_count
  BY <1>1, <1>2, CurrentRule DEF ParseArg
<1>4. /\ r.args \in Seq(SeccompArgConstraint) /\ r.args_count \in Nat /\ Len(r.args) = r.args_count
      /\ o.args \in Seq(ArgDocs \cup {Null}) /\ Len(o.args) = r.args_count
      /\ \A n \in y .. r.args_count : r.args[n].op = Null
  BY <1>3 DEF RuleOK, SeccompSyscallRule, RuleDocs, Array
<1>5. y \in 1 .. r.args_count
  BY <1>3, <1>4
<1>6. CASE o.args[y] = Null
  <2>1. y \in 1 .. Counted(o.args)
    BY <1>3, <1>4, <1>5 DEF Counted, RuleOK
  <2>2. ~RuleWellFormed(RuleDoc)
    BY <1>2, <1>6, <2>1 DEF RuleWellFormed
  <2>3. i \in 1 .. Counted(Root.syscalls)
    BY <1>1, <1>3 DEF ParseInv, StageOK, InRule, IsProfile, SeccompProfile, Counted, Root
  <2>4. ~WellFormed
    BY <2>2, <2>3 DEF WellFormed, RuleDoc
  <2> QED
    BY <1>2, <1>6, <2>4, CleanupNow DEF ParseArg
<1>7. CASE o.args[y] # Null
  <2>1. o.args[y] \in ArgDocs
    BY <1>4, <1>5, <1>7
  <2>2. /\ o.args[y].index \in Numeric /\ o.args[y].value \in Numeric
        /\ o.args[y].value_two \in Numeric /\ o.args[y].op \in Text
    BY <2>1 DEF ArgDocs
  <2>3. PICK ix \in Number(o.args[y].index, Unsigned), v \in Number(o.args[y].value, Unsigned),
             w \in Number(o.args[y].value_two, Unsigned), s \in safe_strdup(o.args[y].op) :
          /\ StoreRule([r EXCEPT !.args[y] =
                          [index |-> ix, value |-> v, value_two |-> w, op |-> s.ptr]], s.blocks)
          /\ j' = y + 1 /\ UNCHANGED <<parsePc, i>>
    BY <1>2, <1>7 DEF ParseArg
  <2>4. ix \in Int /\ v \in Int /\ w \in Int /\ s.ptr \in Text /\ s.blocks = Freed(s.ptr)
    BY <2>2, StringCopied, NumberRead
  <2>5. /\ SameNumber(ix, o.args[y].index) /\ SameNumber(v, o.args[y].value)
         /\ SameNumber(w, o.args[y].value_two) /\ Kept(s.ptr, o.args[y].op, doc.scarce)
    BY <2>2, StringCopied, NumberExact
  <2>6. PICK c : c = [index |-> ix, value |-> v, value_two |-> w, op |-> s.ptr]
    OBVIOUS
  <2>7. c \in SeccompArgConstraint /\ c.op = s.ptr /\ ArgKept(c, o.args[y], doc.scarce)
    BY <2>4, <2>6, <2>5 DEF SeccompArgConstraint, ArgKept
  <2>8. PICK a : a = [r.args EXCEPT ![y] = c]
    OBVIOUS
  <2>9. /\ a \in Seq(SeccompArgConstraint) /\ Len(a) = r.args_count /\ a[y] = c
        /\ \A n \in 1 .. r.args_count : n # y => a[n] = r.args[n]
    BY <1>4, <1>5, <2>7, <2>8
  <2>10. a # Null
    BY <2>9, NullIsNoObject
  <2>11. PICK t : t = [r EXCEPT !.args[y] = c]
    OBVIOUS
  <2>12. t = [r EXCEPT !.args = a]
    BY <1>3, <2>8, <2>11 DEF SeccompSyscallRule
  <2>13. /\ t \in SeccompSyscallRule /\ t.include = r.include /\ t.exclude = r.exclude
         /\ t.names = r.names /\ t.names_count = r.names_count /\ t.args = a
         /\ t.args_count = r.args_count /\ t.action = r.action /\ t.comment = r.comment
    BY <1>3, <2>9, <2>12 DEF SeccompSyscallRule, Array
  <2>14. FreedArgs(a, r.args_count) = FreedArgs(r.args, r.args_count) + s.blocks - Freed(r.args[y].op)
    <3>1. y \in 1 .. Len(r.args)
      BY <1>4, <1>5
    <3>2. FreedArgs(a, Len(r.args)) = FreedArgs(r.args, Len(r.args)) + Freed(c.op) - Freed(r.args[y].op)
      BY <1>4, <2>7, <2>8, <3>1, FreedArgsChange
    <3> QED
      BY <1>4, <2>4, <2>7, <3>2
  <2>15. Freed(r.args[y].op) = 0
    BY <1>4, <1>5 DEF Freed
  <2>16. FreedRule(t) = FreedRule(r) + s.blocks /\ s.blocks \in Nat
    <3>1. /\ FreedFilter(r.include) \in Nat /\ FreedFilter(r.exclude) \in Nat
          /\ Freed(r.action) \in Nat /\ Freed(r.comment) \in Nat
          /\ FreedStrings(r.names, r.names_count) \in Nat /\ FreedArgs(r.args, r.args_count) \in Nat
      BY <1>3, RuleParts
    <3>2. s.blocks \in Nat
      BY <2>4, FreedType
    <3> QED
      BY <2>13, <2>14, <2>15, <3>1, <3>2 DEF FreedRule
  <2>17. \A n \in y + 1 .. t.args_count : t.args[n].op = Null
    <3>1. \A n \in y + 1 .. r.args_count : n \in 1 .. r.args_count /\ n # y /\ n \in y .. r.args_count
      BY <1>3, <1>4
    <3> QED
      BY <1>4, <2>9, <2>13, <3>1
  <2>18. \A n \in 1 .. (y + 1) - 1 : o.args[n] # Null /\ ArgKept(t.args[n], o.args[n], doc.scarce)
    <3>1. \A n \in 1 .. (y + 1) - 1 : n = y \/ (n \in 1 .. y - 1 /\ n # y /\ n \in 1 .. r.args_count)
      BY <1>3, <1>4
    <3>2. \A n \in 1 .. y - 1 : o.args[n] # Null /\ ArgKept(r.args[n], o.args[n], doc.scarce)
      BY <1>3 DEF RuleContent
    <3> QED
      BY <1>7, <2>7, <2>9, <2>13, <3>1, <3>2
  <2>19. RuleContent("arg", t, o, y + 1, doc.scarce)
    BY <1>3, <2>13, <2>18 DEF RuleContent
  <2>20. RuleOK("arg", t, o, y + 1)
    BY <1>3, <1>4, <2>9, <2>10, <2>13, <2>17 DEF RuleOK
  <2>21. StoreRule(t, s.blocks) /\ parsePc' = "arg" /\ i' = i /\ j' = y + 1
    BY <1>1, <2>3, <2>6, <2>11
  <2>22. "arg" \in InRule /\ parsePc \in InRule \cup {"strings"} /\ y + 1 \in Nat \ {0}
    BY <1>1, <1>3 DEF InRule
  <2> QED
    BY <1>2, <1>3, <2>13, <2>16, <2>20, <2>21, <2>22, <2>19, RuleStoreStep
<1> QED
  BY <1>6, <1>7

LEMMA ReturnPreserves == ASSUME ParseInv, Return PROVE ParseInv'
<1>1. parsePc' = "done" /\ open' = {} /\ UNCHANGED <<doc, profile, heap>> /\ i' = i /\ j' = j
  BY DEF Return, Goto
<1>2. StageOK("done", profile, doc.root, i, j) /\ "done" \in Stages \ {"failed"}
  BY DEF ParseInv, Return, StageOK, Early, InRule, Stages
<1>3. i \in Nat \ {0} /\ j \in Nat \ {0}
  BY DEF ParseInv
<1>4. CASE parsePc = "return"
  <2>1. ContentOK("done", profile, doc, i, j)
    BY <1>4 DEF ParseInv, ContentOK, Early, InRule
  <2> QED
    BY <1>1, <1>2, <1>3, <2>1, MoveStep
<1>5. CASE parsePc = "strings" /\ i > profile.syscalls_count
  <2>1. PICK p, x : p = profile /\ x = i
    OBVIOUS
  <2>2. /\ x \in Nat /\ x > p.syscalls_count /\ p.syscalls_count \in Nat
        /\ p.syscalls_count = Counted(doc.root.syscalls)
        /\ doc.root.defaultAction # Null /\ p.default_action = doc.root.defaultAction
        /\ p.arch_map_count = Counted(doc.root.archMap)
        /\ SameCount(p.arch_map, p.arch_map_count, doc.root.archMap)
        /\ p.syscalls # Null /\ Len(p.syscalls) = p.syscalls_count /\ p.syscalls_count > 0
        /\ doc.root.syscalls # Null /\ Len(doc.root.syscalls) = p.syscalls_count
        /\ \A n \in 1 .. p.arch_map_count : ArchDone(p.arch_map[n], doc.root.archMap[n], doc.scarce)
        /\ \A n \in 1 .. x - 1 : RuleDone(p.syscalls[n], doc.root.syscalls[n], doc.scarce)
    BY <1>5, <2>1 DEF ParseInv, StageOK, ContentOK, IsProfile, SeccompProfile, Early, InRule, Counted
  <2>3. \A n \in 1 .. p.syscalls_count : n \in 1 .. x - 1
    BY <2>2
  <2>4. SameCount(p.syscalls, p.syscalls_count, doc.root.syscalls)
    BY <2>2 DEF SameCount
  <2>5. ContentOK("done", p, doc, x, j)
    BY <2>2, <2>3, <2>4 DEF ContentOK, Early, InRule
  <2> QED
    BY <1>1, <1>2, <1>3, <2>1, <2>5, MoveStep
<1> QED
  BY <1>4, <1>5 DEF Return

LEMMA ParseStep == ASSUME ParseInv, ParserNext \/ UNCHANGED parserVars PROVE ParseInv'
<1>1. CASE UNCHANGED parserVars
  <2>1. /\ doc' = doc /\ profile' = profile /\ parsePc' = parsePc /\ i' = i /\ j' = j /\ open' = open
        /\ heap' = heap /\ ret' = ret
    BY <1>1 DEF parserVars
  <2>2. /\ StageOK(parsePc, profile, doc.root, i, j)' <=> StageOK(parsePc, profile, doc.root, i, j)
        /\ ContentOK(parsePc, profile, doc, i, j)' <=> ContentOK(parsePc, profile, doc, i, j)
    BY <2>1
  <2>3. (AllocFails' <=> AllocFails) /\ (WellFormed' <=> WellFormed)
    BY <2>1 DEF AllocFails, WellFormed, Root
  <2> QED
    BY <2>1, <2>2, <2>3 DEF ParseInv
<1>2. CASE ArgsParsed
  <2>1. parsePc \in InRule
    BY <1>2 DEF ArgsParsed, InRule
  <2>2. PICK r, o, y : r = Rule /\ o = RuleDoc /\ y = j
    OBVIOUS
  <2>3. /\ r \in SeccompSyscallRule /\ o \in RuleDocs /\ RuleOK("arg", r, o, y)
        /\ RuleContent("arg", r, o, y, doc.scarce) /\ y > r.args_count /\ y \in Nat \ {0}
    BY <1>2, <2>1, <2>2, CurrentRule DEF ArgsParsed
  <2>4. \A n \in 1 .. r.args_count : n \in 1 .. y - 1
    BY <2>3 DEF SeccompSyscallRule
  <2>5. \A n \in 1 .. r.args_count : o.args[n] # Null /\ ArgKept(r.args[n], o.args[n], doc.scarce)
    BY <2>3, <2>4 DEF RuleContent
  <2>6. o.args \notin {Null, << >>} /\ Counted(o.args) = r.args_count /\ o # Null
    <3>1. o.args # Null /\ Len(o.args) = r.args_count /\ r.args_count > 0
      BY <2>3 DEF RuleOK
    <3>2. o.args # << >>
      BY <3>1
    <3> QED
      BY <2>3, <3>1, <3>2, NullIsNoObject DEF Counted
  <2>7. RuleKept(r, o, doc.scarce)
    BY <2>3, <2>5, <2>6 DEF RuleKept, RuleOK, RuleContent, SameCount
  <2>8. RuleDone(r, o, doc.scarce)
    BY <2>3, <2>5, <2>6, <2>7 DEF RuleDone, RuleWellFormed, RuleMeans, RuleContent
  <2> QED
    BY <1>2, <2>1, <2>2, <2>8, NextRuleStep DEF ArgsParsed
<1> QED
  BY <1>1, <1>2, ReadFilePreserves, DefaultPreserves, AllocArchsPreserves, ArchPreserves,
     ArchsParsedPreserves, AllocRulesPreserves, StringsPreserve, FiltersPreserve, NamesPreserve,
     AllocArgsPreserves, ArgPreserves, ReturnPreserves DEF ParserNext

LEMMA ParseImplies == ASSUME ParseInv PROVE HeapReachable /\ OnlyCopiesLost /\ ProfileMeansDocument
<1>1. HeapReachable
  <2>1. parsePc = "failed" => profile = Zeroed
    BY DEF ParseInv, StageOK
  <2> QED
    BY <2>1, ZeroedProfile DEF ParseInv, HeapReachable
<1>2. ASSUME parsePc = "done"
      PROVE  /\ doc.root \in Roots /\ doc.root.defaultAction # Null
             /\ profile.default_action = doc.root.defaultAction
             /\ profile.arch_map_count = Counted(doc.root.archMap)
             /\ SameCount(profile.arch_map, profile.arch_map_count, doc.root.archMap)
             /\ SameCount(profile.syscalls, profile.syscalls_count, doc.root.syscalls)
             /\ \A n \in 1 .. profile.arch_map_count :
                  ArchDone(profile.arch_map[n], doc.root.archMap[n], doc.scarce)
             /\ profile.syscalls_count = Counted(doc.root.syscalls)
             /\ \A n \in 1 .. profile.syscalls_count :
                  RuleDone(profile.syscalls[n], doc.root.syscalls[n], doc.scarce)
  BY <1>2 DEF ParseInv, StageOK, ContentOK, Early
<1>3. OnlyCopiesLost
  BY <1>2 DEF OnlyCopiesLost, RuleDone, ArchDone, Root, AllocFails
<1>4. parsePc = "failed" /\ ret = "EINVAL" /\ ~AllocFails => ~WellFormed
  BY DEF ParseInv
<1>5. ASSUME parsePc = "done", ~AllocFails
      PROVE  /\ WellFormed
             /\ profile.default_action = Root.defaultAction
             /\ profile.arch_map_count = Counted(Root.archMap)
             /\ \A n \in 1 .. profile.arch_map_count : profile.arch_map[n] = ArchOf(Root.archMap[n])
             /\ profile.syscalls_count = Counted(Root.syscalls)
             /\ \A n \in 1 .. profile.syscalls_count : RuleMeans(profile.syscalls[n], Root.syscalls[n])
  <2>1. doc.root # Null
    BY <1>2, <1>5, NullIsNoObject
  <2>2. WellFormed
    BY <1>2, <1>5, <2>1 DEF WellFormed, ArchDone, RuleDone, Root
  <2> QED
    BY <1>2, <1>5, <2>2 DEF ArchDone, RuleDone, Root, AllocFails
<1>6. ProfileMeansDocument
  BY <1>4, <1>5 DEF ProfileMeansDocument
<1> QED
  BY <1>1, <1>3, <1>6

-----------------------------------------------------------------------------
(* The program. *)

-----------------------------------------------------------------------------
(* main() up to fork(). *)

Words == {"t", "p", "l", "h", "?", "word"}

(* The first n words are options, each once, and words passed over. *)
Clean(n) == \A m \in 1 .. n : /\ line[m] \in {"t", "p", "l", "word"}
                              /\ \A o \in 1 .. m - 1 : line[m] = line[o] => line[m] = "word"

Complete3 == Len(line) = 3 /\ {line[n] : n \in 1 .. 3} = {"t", "p", "l"}

(* The options read so far, and what main() owns at each of its calls. *)
StartInv ==
  /\ line \in Seq(Words) /\ optind \in 0 .. Len(line)
  /\ code \in {-1, 0, 1} /\ (code # -1 => pc = "exit")
  /\ pc = "options" => /\ Clean(optind) /\ owned = {} /\ given \in SUBSET {"t", "p", "l"}
                       /\ \A w \in {"t", "p", "l"} : w \in given <=> \E n \in 1 .. optind : line[n] = w
  /\ pc \in {"parse", "runtime", "build", "split", "fork"} => Complete3
  /\ pc = "parse" => owned = {}
  /\ pc = "runtime" => owned = {"profile"}
  /\ pc = "build" => owned = {"profile", "runtime_ctx"}
  /\ pc = "split" => owned = {"profile", "runtime_ctx", "seccomp_ctx"}
  /\ pc = "fork" => owned = {"profile", "runtime_ctx", "seccomp_ctx", "target_argv"}
  /\ code = 0 => optind > 0 /\ line[optind] = "h" /\ Clean(optind - 1) /\ owned = {}

LEMMA GetOptPreserves == ASSUME StartInv, GetOpt PROVE StartInv'
<1>1. /\ line \in Seq(Words) /\ optind \in 0 .. Len(line) /\ pc = "options" /\ code = -1
      /\ Clean(optind) /\ owned = {} /\ given \in SUBSET {"t", "p", "l"}
      /\ \A w \in {"t", "p", "l"} : w \in given <=> \E n \in 1 .. optind : line[n] = w
  BY DEF StartInv, GetOpt
<1>2. PICK n \in optind + 1 .. Len(line) :
        /\ NextOption(n) /\ optind' = n
        /\ CASE line[n] \in {"t", "p", "l"} -> TakeOption(line[n])
             [] line[n] = "h" -> ProgramExit(0) /\ UNCHANGED given
             [] OTHER -> ProgramExit(1) /\ UNCHANGED given
  BY DEF GetOpt
<1>3. line' = line /\ owned' = owned
  BY DEF GetOpt
<1>4. n \in Nat /\ n > 0 /\ n <= Len(line) /\ Len(line) \in Nat /\ optind \in Nat
  BY <1>1, <1>2
<1>5. line[n] # "word" /\ \A m \in optind + 1 .. n - 1 : line[m] = "word"
  BY <1>2 DEF NextOption
<1>6. Clean(n - 1)
  <2> SUFFICES ASSUME NEW m \in 1 .. n - 1
               PROVE  /\ line[m] \in {"t", "p", "l", "word"}
                      /\ \A o \in 1 .. m - 1 : line[m] = line[o] => line[m] = "word"
    BY DEF Clean
  <2>1. CASE m <= optind
    BY <1>1, <1>4, <2>1 DEF Clean
  <2>2. CASE m > optind
    BY <1>4, <1>5, <2>2
  <2> QED
    BY <1>4, <2>1, <2>2
<1>7. \A w \in {"t", "p", "l"} : w \in given <=> \E m \in 1 .. n - 1 : line[m] = w
  <2> SUFFICES ASSUME NEW w \in {"t", "p", "l"}
               PROVE  (\E m \in 1 .. optind : line[m] = w) <=> \E m \in 1 .. n - 1 : line[m] = w
    BY <1>1
  <2>1. \A m \in 1 .. optind : m \in 1 .. n - 1
    BY <1>2, <1>4
  <2>2. \A m \in 1 .. n - 1 : m \in 1 .. optind \/ line[m] # w
    BY <1>4, <1>5
  <2> QED
    BY <2>1, <2>2
<1>8. CASE line[n] \in {"t", "p", "l"} /\ line[n] \notin given
  <2>1. given' = given \cup {line[n]} /\ pc' = pc /\ code' = code
    BY <1>2, <1>8 DEF TakeOption
  <2>2. \A m \in 1 .. n - 1 : line[m] # line[n]
    BY <1>7, <1>8
  <2>3. \A m \in 1 .. n : m \in 1 .. n - 1 \/ m = n
    BY <1>4
  <2>4. Clean(n)
    BY <1>4, <1>6, <1>8, <2>2, <2>3 DEF Clean
  <2>5. \A w \in {"t", "p", "l"} : w \in given' <=> \E m \in 1 .. n : line[m] = w
    BY <1>4, <1>7, <2>1, <2>3
  <2>6. Clean(optind)'
    BY <1>2, <1>3, <2>4 DEF Clean
  <2>7. /\ line' \in Seq(Words) /\ optind' \in 0 .. Len(line') /\ given' \in SUBSET {"t", "p", "l"}
        /\ pc' = "options" /\ code' = -1 /\ owned' = {}
        /\ \A w \in {"t", "p", "l"} : w \in given' <=> \E m \in 1 .. optind' : line'[m] = w
    BY <1>1, <1>2, <1>3, <1>4, <1>8, <2>1, <2>5
  <2> QED
    BY <2>6, <2>7 DEF StartInv
<1>9. CASE line[n] \in {"t", "p", "l"} /\ line[n] \in given
  <2>1. pc' = "exit" /\ code' = 1
    BY <1>2, <1>9 DEF TakeOption, ProgramExit
  <2> QED
    BY <1>1, <1>2, <1>3, <1>4, <2>1 DEF StartInv, Clean
<1>10. CASE line[n] = "h"
  <2>1. pc' = "exit" /\ code' = 0
    BY <1>2, <1>10 DEF ProgramExit
  <2> QED
    BY <1>1, <1>2, <1>3, <1>4, <1>6, <1>10, <2>1 DEF StartInv, Clean
<1>11. CASE line[n] \notin {"t", "p", "l", "h"}
  <2>1. pc' = "exit" /\ code' = 1
    BY <1>2, <1>11 DEF ProgramExit
  <2> QED
    BY <1>1, <1>2, <1>3, <1>4, <2>1 DEF StartInv, Clean
<1> QED
  BY <1>8, <1>9, <1>10, <1>11

LEMMA OptionsDonePreserves == ASSUME StartInv, OptionsDone PROVE StartInv'
<1>1. /\ line \in Seq(Words) /\ optind \in 0 .. Len(line) /\ pc = "options" /\ code = -1
      /\ Clean(optind) /\ owned = {} /\ given \in SUBSET {"t", "p", "l"}
      /\ \A w \in {"t", "p", "l"} : w \in given <=> \E n \in 1 .. optind : line[n] = w
      /\ \A n \in optind + 1 .. Len(line) : line[n] = "word"
  BY DEF StartInv, OptionsDone
<1>2. line' = line /\ optind' = optind /\ given' = given /\ owned' = owned
  BY DEF OptionsDone
<1>3. CASE pc' = "exit"
  <2>1. code' = 1
    BY <1>3 DEF OptionsDone, ProgramExit
  <2> QED
    BY <1>1, <1>2, <1>3, <2>1 DEF StartInv, Clean
<1>4. CASE pc' # "exit"
  <2>1. /\ pc' = "parse" /\ code' = code /\ given = {"t", "p", "l"}
        /\ \A n \in 1 .. Len(line) : line[n] # "word"
    BY <1>4 DEF OptionsDone, ProgramExit
  <2>2. Len(line) \in Nat /\ optind = Len(line)
    BY <1>1, <2>1
  <2>3. \A n \in 1 .. Len(line) : line[n] \in {"t", "p", "l"}
    BY <1>1, <2>1, <2>2 DEF Clean
  <2>4. \A n \in 1 .. Len(line), m \in 1 .. Len(line) : n # m => line[n] # line[m]
    <3> SUFFICES ASSUME NEW n \in 1 .. Len(line), NEW m \in 1 .. Len(line), m < n PROVE line[n] # line[m]
      BY <2>2
    <3>1. m \in 1 .. n - 1
      BY <2>2
    <3> QED
      BY <1>1, <2>1, <2>2, <3>1 DEF Clean
  <2>5. PICK a \in 1 .. Len(line), b \in 1 .. Len(line), c \in 1 .. Len(line) :
          line[a] = "t" /\ line[b] = "p" /\ line[c] = "l"
    BY <1>1, <2>1, <2>2
  <2>6. a # b /\ a # c /\ b # c
    BY <2>5
  <2>7. \A n \in 1 .. Len(line) : n \in {a, b, c}
    BY <2>3, <2>4, <2>5
  <2>8. Len(line) = 3
    BY <2>2, <2>6, <2>7
  <2>9. Complete3
    BY <2>3, <2>5, <2>8 DEF Complete3
  <2> QED
    BY <1>1, <1>2, <2>1, <2>9 DEF StartInv, Complete3
<1> QED
  BY <1>3, <1>4

LEMMA CallsPreserve ==
  ASSUME StartInv, ParseProfile \/ MakeRuntime \/ BuildContext \/ SplitTarget \/ Fork
  PROVE  StartInv'
<1>1. line' = line /\ optind' = optind /\ given' = given
  BY DEF ParseProfile, MakeRuntime, BuildContext, SplitTarget, Fork, Make
<1>2. line \in Seq(Words) /\ optind \in 0 .. Len(line) /\ Complete3 /\ pc # "exit" /\ code = -1
  BY DEF StartInv, ParseProfile, MakeRuntime, BuildContext, SplitTarget, Fork, Make
<1>3. Complete3'
  BY <1>1, <1>2 DEF Complete3
<1>4. CASE pc' = "exit"
  <2>1. code' = 1
    BY <1>2, <1>4 DEF ParseProfile, MakeRuntime, BuildContext, SplitTarget, Fork, Make, ProgramExit
  <2> QED
    BY <1>1, <1>2, <1>4, <2>1 DEF StartInv
<1>5. CASE pc' # "exit"
  <2>1. code' = -1
    BY <1>2, <1>5 DEF ParseProfile, MakeRuntime, BuildContext, SplitTarget, Fork, Make, ProgramExit
  <2>2. \/ pc = "parse" /\ pc' = "runtime" /\ owned' = owned \cup {"profile"}
        \/ pc = "runtime" /\ pc' = "build" /\ owned' = owned \cup {"runtime_ctx"}
        \/ pc = "build" /\ pc' = "split" /\ owned' = owned \cup {"seccomp_ctx"}
        \/ pc = "split" /\ pc' = "fork" /\ owned' = owned \cup {"target_argv"}
        \/ pc' = "observe"
    BY <1>5 DEF ParseProfile, MakeRuntime, BuildContext, SplitTarget, Fork, Make, ProgramExit
  <2>3. /\ pc' = "runtime" => owned' = {"profile"}
        /\ pc' = "build" => owned' = {"profile", "runtime_ctx"}
        /\ pc' = "split" => owned' = {"profile", "runtime_ctx", "seccomp_ctx"}
        /\ pc' = "fork" => owned' = {"profile", "runtime_ctx", "seccomp_ctx", "target_argv"}
    BY <2>2 DEF StartInv
  <2> QED
    BY <1>1, <1>2, <1>3, <2>1, <2>2, <2>3 DEF StartInv
<1> QED
  BY <1>4, <1>5

LEMMA StartStep ==
  ASSUME StartInv, StartNext \/ UNCHANGED startVars PROVE StartInv'
<1>1. CASE UNCHANGED startVars
  <2>1. /\ line' = line /\ optind' = optind /\ given' = given /\ pc' = pc /\ code' = code
        /\ owned' = owned
    BY <1>1 DEF startVars
  <2>2. (Complete3' <=> Complete3) /\ \A n : Clean(n)' <=> Clean(n)
    BY <2>1 DEF Complete3, Clean
  <2>3. (code = 0 => optind > 0 /\ Clean(optind - 1)) => (code' = 0 => optind' > 0 /\ Clean(optind - 1)')
    BY <2>1, <2>2
  <2> QED
    BY <2>1, <2>2, <2>3 DEF StartInv
<1> QED
  BY <1>1, GetOptPreserves, OptionsDonePreserves, CallsPreserve DEF StartNext

-----------------------------------------------------------------------------
(* get_source_location(). *)

(* The mapping that was found, and what addr2line is asked about it. *)
Found(b) == IsCodeOf(b) /\ base = b.start /\ file = PathRead(b.path)
Question(b) == [file |-> PathRead(b.path), offset |-> rip - b.start]

IsBuffer(b) == b.path # NoPath => PathRead(b.path) # Null /\ Question(b) # Null
IsLine(m) == /\ IsBuffer(m) /\ Len(m.rest) \in Nat
             /\ \A q \in 1 .. Len(m.rest) : IsBuffer(m.rest[q])

(* The buffers that the search may stop at: a line, or a further buffer of *)
(* a line that no matching one precedes.                                   *)
Candidate(b) ==
  /\ IsCodeOf(b) /\ IsBuffer(b)
  /\ \/ \E n \in 1 .. Len(maps) : b = maps[n]
     \/ \E n \in 1 .. Len(maps) : \E q \in 1 .. Len(maps[n].rest) :
          b = maps[n].rest[q] /\ \A h \in 1 .. n : ~IsCodeOf(maps[h])

LocInv ==
  /\ Len(maps) \in Nat /\ k \in 0 .. Len(maps)
  /\ \A n \in 1 .. Len(maps) : IsLine(maps[n])
  /\ pieces \in Nat /\ (k > 0 => pieces <= Len(maps[k].rest))
  /\ locPc \in {"fopen", "fgets", "found", "answer", "done"}
  /\ locPc = "fopen" => k = 0
  /\ locPc \in {"fopen", "fgets"} => file = Null /\ \A n \in 1 .. k : ~IsCodeOf(maps[n])
  /\ locPc = "found" => \E b : Candidate(b) /\ Found(b)
  /\ asked # Null => \E b : Candidate(b) /\ asked = Question(b)
  /\ locPc \in {"fopen", "fgets", "found"} => asked = Null
  /\ locPc = "done" => \/ file # Null \/ killed
                       \/ \A n \in 1 .. Len(maps) : ~IsCodeOf(maps[n])
  /\ locPc = "answer" => file # Null

LEMMA LocPreserves == ASSUME LocInv, LocNext \/ UNCHANGED locVars PROVE LocInv'
<1>1. maps' = maps /\ rip' = rip
  BY DEF LocNext, LocStep, OpenMaps, ReadMapping, ReadRest, Examine, NotFound, AskAddr2line, ReadAnswer,
         Step, TargetKilled, locVars
<1>2. Len(maps) \in Nat /\ \A n \in 1 .. Len(maps) : IsLine(maps[n])
  BY DEF LocInv
<1>3. \A b : /\ IsCodeOf(b)' <=> IsCodeOf(b)
             /\ Question(b)' = Question(b) /\ (IsBuffer(b)' <=> IsBuffer(b))
  BY <1>1 DEF IsCodeOf, Matches, Question, IsBuffer
<1>4. \A n \in 1 .. Len(maps) : IsLine(maps[n])'
  BY <1>1, <1>2 DEF IsLine, IsBuffer, Question
<1>5. \A b : Candidate(b)' <=> Candidate(b)
  BY <1>1, <1>3 DEF Candidate
<1>6. CASE OpenMaps
  BY <1>1, <1>2, <1>3, <1>4, <1>5, <1>6 DEF LocInv, OpenMaps, Step, KeepResult
<1>7. CASE ReadMapping
  <2>1. PICK n : n = k + 1
    OBVIOUS
  <2>2. /\ locPc = "fgets" /\ k' = n /\ k < Len(maps) /\ pieces' = 0 /\ Examine(maps[n])
    BY <1>7, <2>1 DEF ReadMapping
  <2>3. /\ n \in 1 .. Len(maps) /\ k \in Nat /\ n > 0
        /\ \A h \in 1 .. n : h \in 1 .. k \/ h = n
    BY <2>1, <2>2 DEF LocInv
  <2>4. /\ killed' = killed /\ asked' = asked /\ asked = Null /\ Len(maps[n].rest) \in Nat
    BY <1>2, <2>2, <2>3 DEF Examine, Step, LocInv, IsLine
  <2>5. CASE IsCodeOf(maps[n])
    <3>1. locPc' = "found" /\ base' = maps[n].start /\ file' = PathRead(maps[n].path)
      BY <2>2, <2>5 DEF Examine, Step
    <3>2. PICK b : b = maps[n]
      OBVIOUS
    <3>3. Candidate(b) /\ IsCodeOf(b)
      BY <1>2, <2>3, <2>5, <3>2 DEF Candidate, IsLine
    <3>4. Candidate(b)' /\ Found(b)'
      BY <1>3, <1>5, <3>1, <3>2, <3>3 DEF Found
    <3> QED
      BY <1>1, <1>2, <1>4, <2>2, <2>3, <2>4, <3>1, <3>4 DEF LocInv
  <2>6. CASE ~IsCodeOf(maps[n])
    <3>1. locPc' = "fgets" /\ base' = base /\ file' = file
      BY <2>2, <2>6 DEF Examine, Step
    <3>2. file = Null /\ \A h \in 1 .. n : ~IsCodeOf(maps[h])
      BY <2>2, <2>3, <2>6 DEF LocInv
    <3> QED
      BY <1>1, <1>2, <1>3, <1>4, <2>2, <2>3, <2>4, <3>1, <3>2 DEF LocInv
  <2> QED
    BY <2>5, <2>6
<1>8. CASE ReadRest
  <2>1. PICK q : q = pieces + 1
    OBVIOUS
  <2>2. /\ locPc = "fgets" /\ k' = k /\ k > 0 /\ pieces # Len(maps[k].rest) /\ pieces' = q
        /\ Examine(maps[k].rest[q])
    BY <1>8, <2>1 DEF ReadRest, LineRead, LocInv
  <2>3. /\ k \in 1 .. Len(maps) /\ pieces \in Nat /\ pieces <= Len(maps[k].rest)
        /\ file = Null /\ asked = Null /\ \A n \in 1 .. k : ~IsCodeOf(maps[n])
    BY <2>2 DEF LocInv
  <2>4. q \in 1 .. Len(maps[k].rest) /\ q \in Nat /\ IsBuffer(maps[k].rest[q])
    BY <1>2, <2>1, <2>2, <2>3 DEF IsLine
  <2>5. killed' = killed /\ asked' = asked
    BY <2>2 DEF Examine, Step
  <2>6. CASE IsCodeOf(maps[k].rest[q])
    <3>1. /\ locPc' = "found" /\ base' = maps[k].rest[q].start
          /\ file' = PathRead(maps[k].rest[q].path)
      BY <2>2, <2>6 DEF Examine, Step
    <3>2. PICK b : b = maps[k].rest[q]
      OBVIOUS
    <3>3. Candidate(b) /\ IsCodeOf(b)
      BY <2>3, <2>4, <2>6, <3>2 DEF Candidate
    <3>4. Candidate(b)' /\ Found(b)'
      BY <1>3, <1>5, <3>1, <3>2, <3>3 DEF Found
    <3> QED
      BY <1>1, <1>2, <1>4, <2>2, <2>3, <2>4, <2>5, <3>1, <3>4 DEF LocInv
  <2>7. CASE ~IsCodeOf(maps[k].rest[q])
    <3>1. locPc' = "fgets" /\ base' = base /\ file' = file
      BY <2>2, <2>7 DEF Examine, Step
    <3> QED
      BY <1>1, <1>2, <1>3, <1>4, <2>2, <2>3, <2>4, <2>5, <3>1 DEF LocInv
  <2> QED
    BY <2>6, <2>7
<1>9. CASE NotFound
  BY <1>1, <1>2, <1>3, <1>4, <1>5, <1>9 DEF LocInv, NotFound, AtEnd, Step, KeepResult
<1>10. CASE AskAddr2line
  <2>1. /\ locPc = "found" /\ k' = k /\ pieces' = pieces /\ base' = base /\ file' = file
        /\ killed' = killed
        /\ \/ locPc' = "answer" /\ asked' = [file |-> file, offset |-> rip - base]
           \/ locPc' = "done" /\ asked' = asked
    BY <1>10 DEF AskAddr2line, Step
  <2>2. PICK b : Candidate(b) /\ Found(b)
    BY <2>1 DEF LocInv
  <2>3. file # Null /\ [file |-> file, offset |-> rip - base] = Question(b)
    BY <2>2 DEF Found, Question, Candidate, IsBuffer, IsCodeOf, Matches
  <2>4. Candidate(b)' /\ Question(b)' = Question(b)
    BY <1>3, <1>5, <2>2
  <2> QED
    BY <1>1, <1>2, <1>3, <1>4, <1>5, <2>1, <2>3, <2>4 DEF LocInv
<1>11. CASE ReadAnswer
  <2>1. /\ locPc = "answer" /\ k' = k /\ pieces' = pieces /\ file' = file /\ killed' = killed
        /\ locPc' = "done" /\ asked' = asked
    BY <1>11 DEF ReadAnswer, Step
  <2> QED
    BY <1>1, <1>2, <1>3, <1>4, <1>5, <2>1 DEF LocInv
<1>12. CASE TargetKilled
  BY <1>1, <1>2, <1>3, <1>4, <1>5, <1>12 DEF LocInv, TargetKilled, Found
<1>13. CASE UNCHANGED locVars
  BY <1>1, <1>2, <1>3, <1>4, <1>5, <1>13 DEF LocInv, locVars, Found
<1> QED
  BY <1>6, <1>7, <1>8, <1>9, <1>10, <1>11, <1>12, <1>13 DEF LocNext, LocStep

LEMMA LocImplies == ASSUME LocInv PROVE RightMapping
<1>1. \A n \in 1 .. Len(maps) : IsCodeOf(maps[n]) <=> FileAt(n)
  BY DEF IsCodeOf, Matches, CodeAt, FileAt
<1>2. \A b : Question(b).file = PathRead(b.path) /\ IsNameIn(PathRead(b.path), b.path)
  BY DEF Question, IsNameIn, PathRead
<1>3. ASSUME asked # Null
      PROVE  \/ \E n \in 1 .. Len(maps) : FileAt(n) /\ IsNameIn(asked.file, maps[n].path)
             \/ \E n \in 1 .. Len(maps) : \E q \in 1 .. Len(maps[n].rest) :
                  /\ Poses(n, q) /\ IsNameIn(asked.file, maps[n].rest[q].path)
                  /\ \A h \in 1 .. n : ~FileAt(h)
  <2>1. PICK b : Candidate(b) /\ asked = Question(b)
    BY <1>3 DEF LocInv
  <2>2. IsNameIn(asked.file, b.path) /\ IsCodeOf(b)
    BY <1>2, <2>1 DEF Candidate
  <2>3. CASE \E n \in 1 .. Len(maps) : b = maps[n]
    BY <1>1, <2>2, <2>3
  <2>4. CASE \E n \in 1 .. Len(maps) : \E q \in 1 .. Len(maps[n].rest) :
               b = maps[n].rest[q] /\ \A h \in 1 .. n : ~IsCodeOf(maps[h])
    <3>1. PICK n \in 1 .. Len(maps) : \E q \in 1 .. Len(maps[n].rest) :
            b = maps[n].rest[q] /\ \A h \in 1 .. n : ~IsCodeOf(maps[h])
      BY <2>4
    <3>2. PICK q \in 1 .. Len(maps[n].rest) :
            b = maps[n].rest[q] /\ \A h \in 1 .. n : ~IsCodeOf(maps[h])
      BY <3>1
    <3>3. Poses(n, q)
      BY <2>2, <3>2 DEF Poses, IsCodeOf, Matches
    <3>4. \A h \in 1 .. n : h \in 1 .. Len(maps)
      BY DEF LocInv
    <3> QED
      BY <1>1, <2>2, <3>2, <3>3, <3>4
  <2> QED
    BY <2>1, <2>3, <2>4 DEF Candidate
<1> QED
  BY <1>1, <1>3 DEF LocInv, RightMapping

-----------------------------------------------------------------------------
(* split_command(). *)

(* vector_push_back() on a vector that has a block. *)
LEMMA PushOnBlock ==
  ASSUME NEW w, NEW e, NEW ok \in BOOLEAN, w.size \in Nat, w.capacity \in Nat, w.data # Null,
         w.size <= w.capacity, w.capacity >= 2,
         Append(w.data, e) # Null
  PROVE  LET p == vector_push_back(w, e, ok) IN
         \/ p.ret = "ERROR" /\ p.vec.data = Null
         \/ /\ p.ret = "SUCCESS" /\ p.blocks = 0 /\ p.vec.size = w.size + 1
            /\ p.vec.data = Append(w.data, e) /\ p.vec.capacity \in Nat
            /\ p.vec.size <= p.vec.capacity /\ p.vec.capacity >= 2
<1> DEFINE p == vector_push_back(w, e, ok)
           g == Grown(w, ok)
           n == Larger(1, w.size * VECTOR_GROWTH_FACTOR)
           m == Larger(n, VECTOR_MINIMUM_CAPACITY)
<1>1. n \in Nat /\ m \in Nat /\ m >= 2 /\ n >= w.size /\ (w.size = w.capacity => n >= 2 /\ m > w.size)
  BY DEF Larger, VECTOR_GROWTH_FACTOR, VECTOR_MINIMUM_CAPACITY
<1>2. CASE w.size # w.capacity
  <2>1. g = Result(w, "SUCCESS", 0)
    BY <1>2 DEF Grown, _vector_should_grow, Success
  <2>2. g.vec = w /\ g.ret = "SUCCESS" /\ g.blocks = 0
    BY <2>1 DEF Result
  <2>3. p = Result(Struct(w.size + 1, w.capacity, Append(w.data, e)), "SUCCESS", 0)
    BY <1>2, <2>2 DEF vector_push_back, vector_is_initialized
  <2>4. /\ p.ret = "SUCCESS" /\ p.blocks = 0 /\ p.vec.size = w.size + 1
        /\ p.vec.data = Append(w.data, e) /\ p.vec.capacity = w.capacity
    BY <2>3 DEF Result, Struct
  <2> QED
    BY <1>2, <2>4
<1>3. CASE w.size = w.capacity /\ ~ok
  <2>1. g = Result(Struct(w.size, w.capacity, Null), "ERROR", 0)
    BY <1>1, <1>3 DEF Grown, _vector_should_grow, _vector_adjust_capacity, _vector_reallocate, VECTOR_MINIMUM_CAPACITY
  <2>2. g.vec.data = Null /\ g.ret = "ERROR"
    BY <2>1 DEF Result, Struct
  <2>3. p = g
    BY <2>2 DEF vector_push_back
  <2> QED
    BY <2>2, <2>3
<1>4. CASE w.size = w.capacity /\ ok
  <2>1. g = Result(Struct(w.size, m, w.data), "SUCCESS", 0)
    <3>1. _vector_reallocate(w, n, ok) = Result(Struct(w.size, m, w.data), "SUCCESS", 0)
      BY <1>1, <1>4 DEF _vector_reallocate, vector_is_initialized, One, VECTOR_MINIMUM_CAPACITY
    <3> QED
      BY <1>4, <3>1 DEF Grown, _vector_should_grow, _vector_adjust_capacity
  <2>2. /\ g.vec.size = w.size /\ g.vec.capacity = m /\ g.vec.data = w.data
        /\ g.ret = "SUCCESS" /\ g.blocks = 0
    BY <2>1 DEF Result, Struct
  <2> HIDE DEF n, m, g
  <2>3. p = Result(Struct(w.size + 1, m, Append(w.data, e)), "SUCCESS", 0)
    BY <1>1, <1>4, <2>2 DEF vector_push_back, vector_is_initialized, g
  <2>4. /\ p.ret = "SUCCESS" /\ p.blocks = 0 /\ p.vec.size = w.size + 1
        /\ p.vec.data = Append(w.data, e) /\ p.vec.capacity = m
    BY <2>3 DEF Result, Struct
  <2>5. w.size + 1 <= m
    BY <1>1, <1>4
  <2> HIDE DEF p
  <2> QED
    BY <1>1, <2>4, <2>5 DEF p
<1> QED
  BY <1>2, <1>3, <1>4

CommandTyped == Len(cmd) \in Nat /\ \A n \in 1 .. Len(cmd) : cmd[n] # "NUL"

(* d holds the words of the command that end before the offset e. *)
Taken(d, e) ==
  /\ d \in Seq(Nat \X Nat)
  /\ \A n \in 1 .. Len(d) : d[n] \in WordSet /\ d[n][1] + d[n][2] <= e
  /\ \A w \in WordSet : w[1] + w[2] <= e => \E n \in 1 .. Len(d) : d[n] = w
  /\ \A n, m \in 1 .. Len(d) : n < m => d[n][1] < d[m][1]

(* Between words, or inside one that began at start. *)
InsideWord ==
  end < Len(cmd) /\ ~isspace(end) =>
    /\ \A n \in start .. end : ~isspace(n)
    /\ start = 0 \/ isspace(start - 1)

SplitInv ==
  /\ CommandTyped /\ start \in Nat /\ end \in 0 .. Len(cmd) /\ start <= end
  /\ splitPc \in {"setup", "scan", "copy", "done", "exit", "freed"}
  /\ args.data # Null => /\ args.size \in Nat /\ args.capacity \in Nat
                         /\ args.size <= args.capacity /\ args.capacity >= 2
                         /\ Taken(args.data, end) /\ args.size = Len(args.data)
  /\ splitHeap \in Int
  /\ splitPc = "setup" => end = 0 /\ splitHeap = 0
  /\ splitPc \in {"setup", "scan"} => InsideWord
  /\ splitPc = "scan" => args.data # Null /\ splitHeap = args.size + 1
  /\ splitPc = "copy" => args.data # Null /\ splitHeap = args.size + 2 /\ args.size > 0 /\ end = Len(cmd)
  /\ splitPc = "done" =>
       \E d : Taken(d, Len(cmd)) /\ Len(d) > 0 /\ argv = Append(d, Null) /\ splitHeap = Len(d) + 1

LEMMA NoWordEndsHere ==
  ASSUME CommandTyped, NEW e \in 0 .. Len(cmd) - 1, NEW w \in WordSet, w[1] + w[2] = e + 1
  PROVE  ~isspace(e) /\ (isspace(e + 1) \/ Char(e + 1) = "NUL")
<1>1. w[1] \in Nat /\ w[2] \in Nat /\ w[2] >= 1 /\ w[1] + w[2] - 1 = e
  BY DEF WordSet, CommandTyped
<1>2. ~isspace(e) /\ (e = Len(cmd) - 1 \/ isspace(e + 1))
  BY <1>1 DEF WordSet, IsWord, CommandTyped
<1> QED
  BY <1>2 DEF Char, CommandTyped

(* A word that ends at end is the one that began at start, and every       *)
(* earlier one began before it.                                            *)
LEMMA WordEnds ==
  ASSUME CommandTyped, start \in Nat, end \in Nat, end < Len(cmd), start <= end, InsideWord, AtLastOfWord
  PROVE  /\ <<start, end - start + 1>> \in WordSet
         /\ \A w \in WordSet : w[1] + w[2] = end + 1 => w = <<start, end - start + 1>>
         /\ \A w \in WordSet : w[1] + w[2] <= end => w[1] < start
<1> DEFINE new == <<start, end - start + 1>>
<1>1. /\ \A n \in start .. end : ~isspace(n)
      /\ start = 0 \/ isspace(start - 1)
      /\ end = Len(cmd) - 1 \/ isspace(end + 1)
  BY DEF InsideWord, AtLastOfWord, Char, CommandTyped
<1>2. new[1] = start /\ new[2] = end - start + 1 /\ new[1] + new[2] - 1 = end
  OBVIOUS
<1>3. new \in WordSet
  BY <1>1, <1>2 DEF WordSet, IsWord, CommandTyped
<1>4. ASSUME NEW w \in WordSet
      PROVE  /\ w[1] \in Nat /\ w[2] \in Nat /\ w[2] >= 1 /\ w = <<w[1], w[2]>>
             /\ w[1] + w[2] <= Len(cmd)
             /\ \A n \in w[1] .. w[1] + w[2] - 1 : ~isspace(n)
             /\ w[1] = 0 \/ isspace(w[1] - 1)
             /\ w[1] + w[2] - 1 = Len(cmd) - 1 \/ isspace(w[1] + w[2] - 1 + 1)
  BY DEF WordSet, IsWord, CommandTyped
<1>5. ASSUME NEW w \in WordSet, w[1] + w[2] = end + 1 PROVE w = new
  <2>1. /\ w[1] \in Nat /\ w[2] \in Nat /\ w[2] >= 1 /\ w = <<w[1], w[2]>>
        /\ \A n \in w[1] .. end : ~isspace(n)
        /\ w[1] = 0 \/ isspace(w[1] - 1)
    BY <1>4, <1>5
  <2>2. ~(w[1] < start)
    <3> SUFFICES ASSUME w[1] < start PROVE FALSE
      OBVIOUS
    <3>1. start - 1 \in w[1] .. end /\ start # 0
      BY <2>1
    <3> QED
      BY <1>1, <2>1, <3>1
  <2>3. ~(w[1] > start)
    <3> SUFFICES ASSUME w[1] > start PROVE FALSE
      OBVIOUS
    <3>1. w[1] - 1 \in start .. end /\ w[1] # 0
      BY <1>5, <2>1
    <3> QED
      BY <1>1, <2>1, <3>1
  <2>4. w[1] = start /\ w[2] = end - start + 1
    BY <1>5, <2>1, <2>2, <2>3
  <2> QED
    BY <2>1, <2>4
<1>6. ASSUME NEW w \in WordSet, w[1] + w[2] <= end PROVE w[1] < start
  <2>1. w[1] \in Nat /\ w[2] \in Nat /\ w[2] >= 1
    BY <1>4
  <2>2. isspace(w[1] + w[2])
    <3>1. w[1] + w[2] - 1 + 1 = w[1] + w[2] /\ w[1] + w[2] - 1 # Len(cmd) - 1
      BY <1>6, <2>1 DEF CommandTyped
    <3> QED
      BY <1>4, <3>1
  <2>3. w[1] + w[2] \notin start .. end
    BY <1>1, <2>2
  <2> QED
    BY <1>6, <2>1, <2>3
<1> QED
  BY <1>3, <1>5, <1>6

(* The next word is appended. *)
LEMMA TakenGrows ==
  ASSUME NEW d, Taken(d, end), end \in Nat, NEW x \in WordSet, x \in Nat \X Nat,
         x[1] + x[2] <= end + 1,
         \A w \in WordSet : w[1] + w[2] = end + 1 => w = x,
         \A w \in WordSet : w[1] + w[2] <= end => w[1] < x[1]
  PROVE  Taken(Append(d, x), end + 1) /\ Len(Append(d, x)) = Len(d) + 1
<1> DEFINE a == Append(d, x)
<1>1. /\ d \in Seq(Nat \X Nat)
      /\ \A n \in 1 .. Len(d) : d[n] \in WordSet /\ d[n][1] + d[n][2] <= end
      /\ \A w \in WordSet : w[1] + w[2] <= end => \E n \in 1 .. Len(d) : d[n] = w
      /\ \A n, m \in 1 .. Len(d) : n < m => d[n][1] < d[m][1]
  BY DEF Taken
<1>2. /\ a \in Seq(Nat \X Nat) /\ Len(a) = Len(d) + 1 /\ Len(d) \in Nat
      /\ a[Len(d) + 1] = x /\ \A n \in 1 .. Len(d) : a[n] = d[n]
  BY <1>1
<1> HIDE DEF a
<1>3. \A n \in 1 .. Len(a) : n \in 1 .. Len(d) \/ n = Len(d) + 1
  BY <1>2
<1>4. \A w \in WordSet : w[1] + w[2] \in Nat
  BY DEF WordSet
<1>5. ASSUME NEW n \in 1 .. Len(a) PROVE a[n] \in WordSet /\ a[n][1] + a[n][2] <= end + 1
  <2>1. CASE n = Len(d) + 1
    BY <1>2, <2>1
  <2>2. CASE n \in 1 .. Len(d)
    <3>1. a[n] \in WordSet /\ a[n][1] + a[n][2] <= end
      BY <1>1, <1>2, <2>2
    <3> QED
      BY <1>4, <3>1
  <2> QED
    BY <1>3, <2>1, <2>2
<1>6. ASSUME NEW w \in WordSet, w[1] + w[2] <= end + 1 PROVE \E n \in 1 .. Len(a) : a[n] = w
  <2>1. CASE w[1] + w[2] = end + 1
    <3>1. w = x /\ Len(d) + 1 \in 1 .. Len(a)
      BY <1>2, <2>1
    <3> QED
      BY <1>2, <3>1
  <2>2. CASE w[1] + w[2] <= end
    <3>1. PICK n \in 1 .. Len(d) : d[n] = w
      BY <1>1, <2>2
    <3>2. n \in 1 .. Len(a)
      BY <1>2
    <3> QED
      BY <1>2, <3>1, <3>2
  <2> QED
    BY <1>4, <1>6, <2>1, <2>2
<1>7. ASSUME NEW n \in 1 .. Len(a), NEW m \in 1 .. Len(a), n < m PROVE a[n][1] < a[m][1]
  <2>1. n \in 1 .. Len(d)
    BY <1>2, <1>7
  <2>2. CASE m \in 1 .. Len(d)
    BY <1>1, <1>2, <1>7, <2>1, <2>2
  <2>3. CASE m = Len(d) + 1
    BY <1>1, <1>2, <2>1, <2>3
  <2> QED
    BY <1>3, <2>2, <2>3
<1> QED
  BY <1>2, <1>5, <1>6, <1>7 DEF Taken, a

(* No word ends at end: the words taken are those that end before end + 1. *)
LEMMA TakenStays ==
  ASSUME NEW d, Taken(d, end), CommandTyped, end \in Nat, end < Len(cmd), ~AtLastOfWord
  PROVE  Taken(d, end + 1)
<1>1. \A w \in WordSet : w[1] + w[2] \in Nat /\ w[1] + w[2] # end + 1
  <2>1. end \in 0 .. Len(cmd) - 1
    BY DEF CommandTyped
  <2>2. \A w \in WordSet : w[1] + w[2] # end + 1
    BY <2>1, NoWordEndsHere DEF AtLastOfWord
  <2> QED
    BY <2>2 DEF WordSet
<1>2. \A w \in WordSet : w[1] + w[2] <= end + 1 <=> w[1] + w[2] <= end
  BY <1>1
<1> QED
  BY <1>2 DEF Taken

LEMMA WordsInvariant == ASSUME cmd' = cmd PROVE WordSet' = WordSet
BY DEF WordSet, IsWord, isspace, Char

LEMMA TakenInvariant ==
  ASSUME cmd' = cmd, NEW d, NEW e, args'.data = d, end' = e, Taken(d, e)
  PROVE  Taken(args.data, end)'
BY WordsInvariant DEF Taken

LEMMA SpacesInvariant ==
  ASSUME cmd' = cmd PROVE (CommandTyped' <=> CommandTyped) /\ \A n : isspace(n)' <=> isspace(n)
BY DEF CommandTyped, isspace, Char

LEMMA NothingTaken == ASSUME CommandTyped PROVE Taken(<< >>, 0)
<1>1. << >> \in Seq(Nat \X Nat) /\ Len(<< >>) = 0
  OBVIOUS
<1>2. \A w \in WordSet : w[1] + w[2] \in Nat /\ w[1] + w[2] > 0
  BY DEF WordSet, CommandTyped
<1> QED
  BY <1>1, <1>2 DEF Taken

LEMMA SetupPreserves == ASSUME SplitInv, SetupArgs PROVE SplitInv'
<1>1. CASE Exit
  <2>1. /\ splitPc' = "exit" /\ cmd' = cmd /\ start' = start /\ end' = end /\ args' = args
        /\ argv' = argv /\ splitHeap' = splitHeap
    BY <1>1 DEF Exit
  <2>2. args.data # Null => Taken(args.data, end)'
    BY <2>1, TakenInvariant DEF SplitInv
  <2> QED
    BY <2>1, <2>2, SpacesInvariant DEF SplitInv
<1>2. CASE ~Exit
  <2>1. /\ splitPc = "setup" /\ args' = vector_setup(4, TRUE).vec /\ splitHeap' = splitHeap + 1
        /\ splitPc' = "scan" /\ cmd' = cmd /\ start' = start /\ end' = end /\ argv' = argv
    BY <1>2 DEF SetupArgs
  <2>2. args' = Struct(0, 4, << >>)
    BY <2>1 DEF vector_setup, Result, Larger, VECTOR_MINIMUM_CAPACITY
  <2>3. args'.size = 0 /\ args'.capacity = 4 /\ args'.data = << >>
    BY <2>2 DEF Struct
  <2>4. << >> # Null /\ Len(<< >>) = 0
    <3>1. << >> \in Seq(Nat \X Nat) /\ Len(<< >>) = 0
      OBVIOUS
    <3> QED
      BY <3>1, NullIsNoArgument, Zenon
  <2>5. Taken(args.data, end)'
    <3>1. CommandTyped /\ end' = 0
      BY <2>1 DEF SplitInv
    <3>2. PICK d : d = << >>
      OBVIOUS
    <3>3. Taken(d, 0) /\ args'.data = d
      BY <2>3, <3>1, <3>2, NothingTaken
    <3> QED
      BY <2>1, <3>1, <3>3, TakenInvariant
  <2>6. InsideWord'
    BY <2>1, SpacesInvariant DEF SplitInv, InsideWord
  <2>7. /\ args'.size \in Nat /\ args'.capacity \in Nat /\ args'.size <= args'.capacity
        /\ args'.capacity >= 2 /\ args'.size = Len(args'.data) /\ args'.data # Null
    BY <2>3, <2>4
  <2>8. splitHeap' = args'.size + 1 /\ splitHeap' \in Int
    <3>1. splitHeap' = 1
      BY <2>1 DEF SplitInv
    <3>2. args'.size = 0
      BY <2>3
    <3> QED
      BY <3>1, <3>2
  <2> QED
    BY <2>1, <2>5, <2>6, <2>7, <2>8, SpacesInvariant DEF SplitInv
<1> QED
  BY <1>1, <1>2

(* exit(EXIT_FAILURE) *)
LEMMA ExitPreserves == ASSUME SplitInv, Exit PROVE SplitInv'
<1>1. /\ splitPc' = "exit" /\ cmd' = cmd /\ start' = start /\ end' = end /\ args' = args
      /\ argv' = argv /\ splitHeap' = splitHeap
  BY DEF Exit
<1>2. args.data # Null => Taken(args.data, end)'
  BY <1>1, TakenInvariant DEF SplitInv
<1> QED
  BY <1>1, <1>2, SpacesInvariant DEF SplitInv

LEMMA TakeWordPreserves == ASSUME SplitInv, TakeWord PROVE SplitInv'
<1>1. CASE Exit
  BY <1>1, ExitPreserves
<1>2. CASE ~Exit
  <2> DEFINE new == <<start, end - start + 1>>
  <2>1. PICK ok \in BOOLEAN :
          LET p == vector_push_back(args, <<start, end - start + 1>>, ok) IN
          /\ args' = p.vec
          /\ splitHeap' = splitHeap + 1 + p.blocks
          /\ end' = end + 1
          /\ splitPc' = IF p.ret = "ERROR" THEN "exit" ELSE "scan"
          /\ UNCHANGED <<cmd, start, argv>>
    BY <1>2 DEF TakeWord
  <2>2. PICK p, d, x : p = vector_push_back(args, new, ok) /\ d = args.data /\ x = new
    OBVIOUS
  <2>3. /\ splitPc = "scan" /\ end < Len(cmd) /\ AtLastOfWord /\ CommandTyped /\ start \in Nat /\ end \in Nat
        /\ start <= end /\ InsideWord /\ args.data # Null /\ splitHeap = args.size + 1
        /\ args.size \in Nat /\ args.capacity \in Nat /\ args.size <= args.capacity /\ args.capacity >= 2
        /\ args.size = Len(args.data) /\ Taken(args.data, end) /\ Len(cmd) \in Nat
    BY DEF TakeWord, Scanning, SplitInv, CommandTyped
  <2>4. /\ x \in WordSet /\ x \in Nat \X Nat /\ x[1] = start /\ x[1] + x[2] = end + 1
        /\ \A w \in WordSet : w[1] + w[2] = end + 1 => w = x
        /\ \A w \in WordSet : w[1] + w[2] <= end => w[1] < x[1]
    BY <2>2, <2>3, WordEnds
  <2>5. Taken(Append(d, x), end + 1) /\ Len(Append(d, x)) = Len(d) + 1
    <3>1. x[1] + x[2] <= end + 1
      BY <2>3, <2>4
    <3>2. Taken(d, end)
      BY <2>2, <2>3
    <3> QED
      BY <2>3, <2>4, <3>1, <3>2, TakenGrows
  <2>6. Append(d, x) # Null
    BY <2>5, NullIsNoArgument DEF Taken
  <2>7. \/ p.ret = "ERROR" /\ p.vec.data = Null
        \/ /\ p.ret = "SUCCESS" /\ p.blocks = 0 /\ p.vec.size = args.size + 1
           /\ p.vec.data = Append(d, x) /\ p.vec.capacity \in Nat
           /\ p.vec.size <= p.vec.capacity /\ p.vec.capacity >= 2
    BY <2>2, <2>3, <2>6, PushOnBlock
  <2>8. /\ args' = p.vec /\ splitHeap' = splitHeap + 1 + p.blocks /\ end' = end + 1
        /\ splitPc' = (IF p.ret = "ERROR" THEN "exit" ELSE "scan")
        /\ cmd' = cmd /\ start' = start /\ argv' = argv
    BY <2>1, <2>2
  <2>9. CommandTyped' /\ start' \in Nat /\ end' \in 0 .. Len(cmd') /\ start' <= end'
    BY <2>3, <2>8, SpacesInvariant
  <2>10. p.blocks \in Int
    <3>1. _vector_reallocate(args, Larger(1, args.size * VECTOR_GROWTH_FACTOR), ok).blocks \in Int
      BY DEF _vector_reallocate, Success, Fault, Result, One
    <3> QED
      BY <2>2, <3>1 DEF vector_push_back, Grown, _vector_adjust_capacity, Success, Fault, Result
  <2>11. CASE p.ret = "ERROR"
    <3>1. splitPc' = "exit" /\ args'.data = Null /\ splitHeap' \in Int
      BY <2>3, <2>7, <2>8, <2>10, <2>11
    <3> QED
      BY <2>9, <3>1 DEF SplitInv
  <2>12. CASE p.ret = "SUCCESS"
    <3>1. /\ splitPc' = "scan" /\ args'.data = Append(d, x) /\ args'.size = args.size + 1
          /\ args'.capacity \in Nat /\ args'.size <= args'.capacity /\ args'.capacity >= 2
          /\ splitHeap' = args'.size + 1 /\ args'.size \in Nat /\ args'.size = Len(args'.data)
          /\ args'.data # Null
      <4>1. /\ p.blocks = 0 /\ p.vec.size = args.size + 1 /\ p.vec.data = Append(d, x)
            /\ p.vec.capacity \in Nat /\ p.vec.size <= p.vec.capacity /\ p.vec.capacity >= 2
        BY <2>7, <2>12
      <4>2. splitPc' = "scan" /\ args' = p.vec
        BY <2>8, <2>12
      <4>3. Len(Append(d, x)) = args.size + 1 /\ args.size + 1 \in Nat
        BY <2>2, <2>3, <2>5
      <4>4. splitHeap' = args.size + 1 + 1
        BY <2>3, <2>8, <4>1
      <4> QED
        BY <2>6, <4>1, <4>2, <4>3, <4>4
    <3>2. PICK y, e : y = Append(d, x) /\ e = end + 1
      OBVIOUS
    <3>3. Taken(args.data, end)'
      BY <2>5, <2>8, <3>1, <3>2, TakenInvariant
    <3>4. InsideWord'
      <4>1. end + 1 < Len(cmd) => isspace(end + 1)
        BY <2>3 DEF AtLastOfWord, Char, CommandTyped
      <4>2. end' < Len(cmd') => isspace(end)'
        BY <2>8, <4>1 DEF isspace, Char
      <4> QED
        BY <4>2 DEF InsideWord
    <3>5. splitHeap' \in Int
      BY <3>1
    <3> QED
      BY <2>9, <3>1, <3>3, <3>4, <3>5 DEF SplitInv
  <2> QED
    BY <2>7, <2>11, <2>12
<1> QED
  BY <1>1, <1>2

(* The pointer moves on, from a place where no word ends. *)
LEMMA MovePreserves == ASSUME SplitInv, SkipBlank \/ Advance PROVE SplitInv'
<1>1. /\ splitPc = "scan" /\ end < Len(cmd) /\ CommandTyped /\ start \in Nat /\ end \in Nat
      /\ start <= end /\ InsideWord /\ args.data # Null /\ splitHeap = args.size + 1
      /\ args.size \in Nat /\ args.capacity \in Nat /\ args.size <= args.capacity /\ args.capacity >= 2
      /\ args.size = Len(args.data) /\ Taken(args.data, end) /\ Len(cmd) \in Nat
  BY DEF SkipBlank, Advance, Scanning, SplitInv, CommandTyped
<1>2. /\ end' = end + 1 /\ cmd' = cmd /\ args' = args /\ argv' = argv /\ splitPc' = splitPc
      /\ splitHeap' = splitHeap /\ start' \in {start, end + 1}
  BY DEF SkipBlank, Advance
<1>3. ~AtLastOfWord
  BY DEF SkipBlank, Advance, AtLastOfWord
<1>4. Taken(args.data, end)'
  <2>1. PICK d, e : d = args.data /\ e = end + 1
    OBVIOUS
  <2>2. Taken(d, e)
    BY <1>1, <1>3, <2>1, TakenStays
  <2> QED
    BY <1>2, <2>1, <2>2, TakenInvariant
<1>5. InsideWord'
  <2> SUFFICES ASSUME end + 1 < Len(cmd), ~isspace(end + 1)
               PROVE  (\A n \in start' .. end + 1 : ~isspace(n)) /\ (start' = 0 \/ isspace(start' - 1))
    <3>1. isspace(end)' = isspace(end + 1)
      BY <1>2 DEF isspace, Char
    <3>2. isspace(start - 1)' = isspace(start' - 1)
      BY <1>2 DEF isspace, Char
    <3> QED
      BY <1>2, <3>1, <3>2, SpacesInvariant DEF InsideWord
  <2>1. CASE SkipBlank
    <3>1. start' = end + 1 /\ isspace(end)
      BY <2>1 DEF SkipBlank
    <3>2. start' - 1 = end /\ \A n \in start' .. end + 1 : n = end + 1
      BY <1>1, <3>1
    <3> QED
      BY <3>1, <3>2
  <2>2. CASE Advance
    <3>1. start' = start /\ ~isspace(end)
      BY <2>2 DEF Advance
    <3>2. \A n \in start .. end + 1 : n \in start .. end \/ n = end + 1
      BY <1>1
    <3> QED
      BY <1>1, <3>1, <3>2 DEF InsideWord
  <2> QED
    BY <2>1, <2>2
<1>6. CommandTyped' /\ start' \in Nat /\ end' \in 0 .. Len(cmd') /\ start' <= end'
  BY <1>1, <1>2, SpacesInvariant
<1> QED
  BY <1>1, <1>2, <1>4, <1>5, <1>6 DEF SplitInv

LEMMA ScanDonePreserves == ASSUME SplitInv, ScanDone PROVE SplitInv'
<1>1. CASE Exit
  BY <1>1, ExitPreserves
<1>2. CASE ~Exit
  <2>1. /\ splitPc = "scan" /\ end = Len(cmd) /\ args.size > 0 /\ splitPc' = "copy"
        /\ splitHeap' = splitHeap + 1 /\ cmd' = cmd /\ start' = start /\ end' = end /\ args' = args
        /\ argv' = argv
    BY <1>2 DEF ScanDone, Scanning, SplitInv, CommandTyped
  <2>2. Taken(args.data, end)'
    BY <2>1, TakenInvariant DEF SplitInv
  <2> QED
    BY <2>1, <2>2, SpacesInvariant DEF SplitInv
<1> QED
  BY <1>1, <1>2

LEMMA CopyPreserves == ASSUME SplitInv, CopyArgs PROVE SplitInv'
<1>1. PICK d : d = args.data
  OBVIOUS
<1>2. /\ splitPc = "copy" /\ d # Null /\ splitHeap = args.size + 2 /\ args.size > 0 /\ end = Len(cmd)
      /\ args.size \in Nat /\ args.size = Len(d) /\ Taken(d, end)
  BY <1>1 DEF CopyArgs, SplitInv
<1>3. /\ cmd' = cmd /\ start' = start /\ end' = end /\ splitPc' = "done"
      /\ argv' = Append([n \in 1 .. args.size |-> vector_get(args, n - 1)], Null)
      /\ args' = Struct(args.size, args.capacity, Null) /\ splitHeap' = splitHeap - 1
  BY <1>1, <1>2 DEF CopyArgs, vector_destroy, Result, One, vector_is_initialized, SplitInv
<1>4. args'.data = Null
  BY <1>3 DEF Struct
<1>5. d \in Seq(Nat \X Nat)
  BY <1>2 DEF Taken
<1>6. [n \in 1 .. args.size |-> vector_get(args, n - 1)] = d
  <2>1. \A n \in 1 .. Len(d) : vector_get(args, n - 1) = d[n]
    BY <1>1, <1>2, <1>5 DEF vector_get, vector_is_initialized
  <2> QED
    BY <1>2, <1>5, <2>1
<1>7. Taken(d, Len(cmd))' /\ Len(d) > 0 /\ argv' = Append(d, Null) /\ splitHeap' = Len(d) + 1
  <2>1. Taken(d, Len(cmd))'
    BY <1>2, <1>3, WordsInvariant DEF Taken
  <2> QED
    BY <1>2, <1>3, <1>6, <2>1
<1>8. splitHeap' \in Int
  BY <1>2, <1>3
<1> QED
  BY <1>3, <1>4, <1>7, <1>8, SpacesInvariant DEF SplitInv

LEMMA SplitStep == ASSUME SplitInv, SplitNext \/ UNCHANGED splitVars PROVE SplitInv'
<1>1. CASE UNCHANGED splitVars
  <2>1. /\ splitPc' = splitPc /\ cmd' = cmd /\ start' = start /\ end' = end /\ args' = args
        /\ argv' = argv /\ splitHeap' = splitHeap
    BY <1>1 DEF splitVars
  <2>2. args.data # Null => Taken(args.data, end)'
    BY <2>1, TakenInvariant DEF SplitInv
  <2>3. InsideWord' <=> InsideWord
    BY <2>1 DEF InsideWord, isspace, Char
  <2>4. \A d : Taken(d, Len(cmd))' <=> Taken(d, Len(cmd))
    BY <2>1, WordsInvariant DEF Taken
  <2> QED
    BY <2>1, <2>2, <2>3, <2>4, SpacesInvariant DEF SplitInv
<1> QED
  BY <1>1, SetupPreserves, TakeWordPreserves, MovePreserves, ScanDonePreserves, CopyPreserves DEF SplitNext

LEMMA TakenCounts ==
  ASSUME NEW d, Taken(d, Len(cmd)), CommandTyped
  PROVE  {d[n] : n \in 1 .. Len(d)} = WordSet /\ Len(d) = Cardinality(WordSet)
<1>1. /\ d \in Seq(Nat \X Nat) /\ Len(d) \in Nat
      /\ \A n \in 1 .. Len(d) : d[n] \in WordSet
      /\ \A n, m \in 1 .. Len(d) : n < m => d[n][1] < d[m][1]
  BY DEF Taken
<1>2. \A w \in WordSet : \E n \in 1 .. Len(d) : d[n] = w
  BY DEF Taken, WordSet, CommandTyped
<1>3. \A n \in 1 .. Len(d) : d[n][1] \in Nat
  BY <1>1
<1>4. \A n, m \in 1 .. Len(d) : d[n] = d[m] => n = m
  <2> SUFFICES ASSUME NEW n \in 1 .. Len(d), NEW m \in 1 .. Len(d), n < m PROVE d[n] # d[m]
    BY <1>1
  <2>1. d[n][1] < d[m][1] /\ d[n][1] \in Nat /\ d[m][1] \in Nat
    BY <1>1, <1>3
  <2> QED
    BY <2>1
<1>5. d \in [1 .. Len(d) -> WordSet]
  BY <1>1
<1>6. d \in Bijection(1 .. Len(d), WordSet)
  BY <1>2, <1>4, <1>5 DEF Bijection, Injection, Surjection, IsInjective
<1>7. Cardinality(WordSet) = Len(d)
  BY <1>1, <1>6, FS_CountingElements DEF ExistsBijection
<1> QED
  BY <1>1, <1>2, <1>7

LEMMA SplitImplies == ASSUME SplitInv PROVE ArgvIsWords /\ InsideCommand
<1>1. ArgvIsWords
  <2> SUFFICES ASSUME splitPc = "done"
               PROVE  /\ argv[Len(argv)] = Null
                      /\ {argv[n] : n \in 1 .. Len(argv) - 1} = WordSet
                      /\ Len(argv) - 1 = Cardinality(WordSet) /\ Len(argv) > 1
                      /\ \A n, m \in 1 .. Len(argv) - 1 : n < m => argv[n][1] < argv[m][1]
    BY DEF ArgvIsWords
  <2>1. PICK d : Taken(d, Len(cmd)) /\ Len(d) > 0 /\ argv = Append(d, Null)
    BY DEF SplitInv
  <2>2. CommandTyped /\ d \in Seq(Nat \X Nat)
    BY <2>1 DEF SplitInv, Taken
  <2>3. d \in Seq((Nat \X Nat) \cup {Null})
    BY <2>2
  <2>4. /\ Len(argv) = Len(d) + 1 /\ Len(d) \in Nat /\ argv[Len(d) + 1] = Null
        /\ \A n \in 1 .. Len(d) : argv[n] = d[n]
    BY <2>1, <2>3
  <2>5. Len(argv) - 1 = Len(d)
    BY <2>4
  <2>6. {argv[n] : n \in 1 .. Len(d)} = {d[n] : n \in 1 .. Len(d)}
    BY <2>4
  <2>7. \A n, m \in 1 .. Len(d) : n < m => argv[n][1] < argv[m][1]
    BY <2>1, <2>4 DEF Taken
  <2>8. {argv[n] : n \in 1 .. Len(d)} = WordSet /\ Len(d) = Cardinality(WordSet)
    BY <2>1, <2>2, <2>6, TakenCounts
  <2>9. Len(argv) > 1
    BY <2>1, <2>4
  <2> QED
    BY <2>4, <2>5, <2>7, <2>8, <2>9
<1>2. InsideCommand
  <2>1. start <= Len(cmd) /\ end <= Len(cmd)
    BY DEF SplitInv, CommandTyped
  <2>2. ASSUME args.data # Null, NEW n \in 1 .. Len(args.data)
        PROVE  args.data[n][1] + args.data[n][2] <= Len(cmd)
    BY <2>2 DEF SplitInv, Taken, WordSet, CommandTyped
  <2>3. args.data # Null => args.size <= args.capacity
    BY DEF SplitInv
  <2> QED
    BY <2>1, <2>2, <2>3 DEF InsideCommand
<1> QED
  BY <1>1, <1>2

(* The loop of main() that frees the arguments up to the NULL pointer. *)
LEMMA ArgvReleased ==
  ASSUME SplitInv, splitPc = "done", "target_argv" \in owned \ owned', ReleaseArgv
  PROVE  SplitInv' /\ splitHeap' = 0
<1>1. PICK d : Taken(d, Len(cmd)) /\ Len(d) > 0 /\ argv = Append(d, Null) /\ splitHeap = Len(d) + 1
  BY DEF SplitInv
<1>2. d \in Seq(Nat \X Nat) /\ d \in Seq((Nat \X Nat) \cup {Null})
  BY <1>1 DEF Taken
<1>3. /\ Len(argv) = Len(d) + 1 /\ Len(d) \in Nat /\ argv[Len(d) + 1] = Null
      /\ \A n \in 1 .. Len(d) : argv[n] = d[n] /\ d[n] \in Nat \X Nat
  BY <1>1, <1>2
<1>4. \A n \in 1 .. Len(argv) : argv[n] = Null <=> n = Len(d) + 1
  BY <1>3, NullIsNoArgument
<1>5. {n \in 1 .. Len(argv) : argv[n] = Null} = {Len(d) + 1}
  BY <1>3, <1>4
<1>6. Min({Len(d) + 1}) = Len(d) + 1
  BY <1>3 DEF Min
<1>7. /\ splitHeap' = splitHeap - (SelectInSeq(argv, LAMBDA a : a = Null) - 1) - 1
      /\ splitPc' = "freed" /\ cmd' = cmd /\ start' = start /\ end' = end /\ args' = args
  BY DEF ReleaseArgv
<1>8. SelectInSeq(argv, LAMBDA a : a = Null) = Len(d) + 1
  BY <1>5, <1>6 DEF SelectInSeq
<1>9. splitHeap' = 0
  BY <1>1, <1>3, <1>7, <1>8
<1>10. args.data # Null => Taken(args.data, end)'
  BY <1>7, TakenInvariant DEF SplitInv
<1>11. CommandTyped' /\ Len(cmd)' = Len(cmd)
  BY <1>7, SpacesInvariant DEF SplitInv
<1>12. SplitInv'
  BY <1>7, <1>9, <1>10, <1>11 DEF SplitInv
<1> QED
  BY <1>9, <1>12

-----------------------------------------------------------------------------
(* The whole process. *)

LEMMA InputsAreTyped == MainInit => StartInv /\ LocInv /\ SplitInv
<1> SUFFICES ASSUME MainInit PROVE StartInv /\ LocInv /\ SplitInv
  OBVIOUS
<1>1. PICK x \in Inputs : line = x.line /\ cmd = x.cmd /\ maps = x.maps /\ rip = x.rip
  BY DEF MainInit
<1>2. /\ line \in Seq(Words)
      /\ cmd \in Seq({cmd[n] : n \in DOMAIN cmd}) /\ \A n \in DOMAIN cmd : cmd[n] # "NUL"
      /\ maps \in Seq({maps[n] : n \in DOMAIN maps}) /\ rip \in Nat
      /\ \A n \in DOMAIN maps : IsLine(maps[n])
  <2>1. ASSUME NEW n \in DOMAIN maps PROVE IsLine(maps[n])
    <3>1. PICK m \in {x.maps[h] : h \in DOMAIN x.maps} : m = maps[n]
      BY <1>1
    <3>2. /\ Readable(m, x) /\ m.rest \in Seq({m.rest[q] : q \in DOMAIN m.rest})
          /\ \A q \in DOMAIN m.rest : Readable(m.rest[q], x)
      BY <3>1, InputsAssumption
    <3>3. \A b : Readable(b, x) => IsBuffer(b)
      BY <1>1 DEF Readable, IsBuffer, Question
    <3>4. Len(m.rest) \in Nat /\ DOMAIN m.rest = 1 .. Len(m.rest)
      BY <3>2
    <3> QED
      BY <3>1, <3>2, <3>3, <3>4 DEF IsLine
  <2> QED
    BY <1>1, <2>1, InputsAssumption DEF Words
<1>3. StartInv
  <2>1. optind = 0 /\ given = {} /\ owned = {} /\ pc = "options" /\ code = -1
    BY DEF MainInit, StartInit
  <2> QED
    BY <1>2, <2>1 DEF StartInv, Clean
<1>4. LocInv
  <2>1. locPc = "fopen" /\ k = 0 /\ pieces = 0 /\ file = Null /\ asked = Null
    BY DEF MainInit, LocInit
  <2>2. Len(maps) \in Nat /\ DOMAIN maps = 1 .. Len(maps)
    BY <1>2
  <2> QED
    BY <1>2, <2>1, <2>2 DEF LocInv
<1>5. SplitInv
  <2>1. start = 0 /\ end = 0 /\ args = Uninitialized /\ splitPc = "setup" /\ splitHeap = 0
    BY DEF MainInit, SplitInit
  <2>2. CommandTyped
    BY <1>2 DEF CommandTyped
  <2>3. args.data = Null
    BY <2>1 DEF Uninitialized, Struct
  <2>4. InsideWord
    BY <2>1 DEF InsideWord
  <2> QED
    BY <2>1, <2>2, <2>3, <2>4 DEF SplitInv, CommandTyped
<1> QED
  BY <1>3, <1>4, <1>5

(* What a step of the process is to the parts it is made of. *)
LEMMA StepsOfParts ==
  ASSUME [MainNext]_mainVars
  PROVE  /\ StartNext \/ UNCHANGED startVars
         /\ LocNext \/ UNCHANGED locVars
         /\ \/ pc = "split" /\ SplitNext /\ UNCHANGED startVars
            \/ UNCHANGED splitVars
            \/ Fork /\ ReleaseArgv
<1>1. CASE ReadOptions
  BY <1>1 DEF ReadOptions, StartNext
<1>2. CASE parse_JSON
  BY <1>2 DEF parse_JSON
<1>3. CASE ParseReturns
  BY <1>3 DEF ParseReturns, StartNext
<1>4. CASE MakeFilter
  BY <1>4 DEF MakeFilter, StartNext
<1>5. CASE split_command
  BY <1>5 DEF split_command
<1>6. CASE SplitReturns
  BY <1>6 DEF SplitReturns, StartNext
<1>7. CASE ForkTarget
  BY <1>7 DEF ForkTarget, StartNext
<1>8. CASE Observing /\ (LocStep \/ TargetKilled)
  BY <1>8 DEF Observing, LocNext
<1>9. CASE UNCHANGED mainVars
  BY <1>9 DEF mainVars
<1> QED
  BY <1>1, <1>2, <1>3, <1>4, <1>5, <1>6, <1>7, <1>8, <1>9 DEF MainNext, MainStep, MainDone

(* How far main() is says how far split_command() is, and the arguments    *)
(* are released before the parent observes.                                *)
SplitLink ==
  /\ pc \in {"options", "parse", "runtime", "build"} => splitPc = "setup"
  /\ pc = "fork" => splitPc = "done"
  /\ pc = "observe" => splitHeap = 0

LEMMA SplitLinkStep ==
  ASSUME StartInv, SplitInv, SplitLink, [MainNext]_mainVars
  PROVE  SplitInv' /\ SplitLink'
<1>1. CASE ReadOptions
  <2>1. pc = "options" /\ pc' \in {"options", "exit", "parse"}
    BY <1>1 DEF ReadOptions, GetOpt, OptionsDone, TakeOption, ProgramExit
  <2>2. UNCHANGED splitVars
    BY <1>1 DEF ReadOptions
  <2> QED
    BY <2>1, <2>2, SplitStep DEF SplitLink, splitVars
<1>2. CASE parse_JSON
  <2>1. UNCHANGED splitVars /\ pc' = pc
    BY <1>2 DEF parse_JSON, startVars
  <2> QED
    BY <2>1, SplitStep DEF SplitLink, splitVars
<1>3. CASE ParseReturns
  <2>1. UNCHANGED splitVars /\ pc = "parse" /\ pc' \in {"runtime", "exit"}
    BY <1>3 DEF ParseReturns, ParseProfile, Make, ProgramExit
  <2> QED
    BY <2>1, SplitStep DEF SplitLink, splitVars
<1>4. CASE MakeFilter
  <2>1. UNCHANGED splitVars /\ pc \in {"runtime", "build"} /\ pc' \in {"build", "split", "exit"}
    BY <1>4 DEF MakeFilter, MakeRuntime, BuildContext, Make, ProgramExit
  <2> QED
    BY <2>1, SplitStep DEF SplitLink, splitVars
<1>5. CASE split_command
  <2>1. SplitNext /\ pc = "split" /\ pc' = "split"
    BY <1>5 DEF split_command, startVars
  <2> QED
    BY <2>1, SplitStep DEF SplitLink
<1>6. CASE SplitReturns
  <2>1. /\ UNCHANGED splitVars /\ pc = "split"
        /\ \/ pc' = "exit"
           \/ pc' = "fork" /\ "target_argv" \in owned'
        /\ "target_argv" \in owned' => splitPc = "done"
    BY <1>6 DEF SplitReturns, SplitTarget, Make, ProgramExit
  <2> QED
    BY <2>1, SplitStep DEF SplitLink, splitVars
<1>7. CASE ForkTarget
  <2>1. pc = "fork" /\ ReleaseArgv /\ splitPc = "done" /\ "target_argv" \in owned
    BY <1>7 DEF ForkTarget, Fork, SplitLink, StartInv
  <2>2. CASE owned' = {"seccomp_ctx"} /\ pc' = "observe"
    BY <2>1, <2>2, ArgvReleased DEF SplitLink
  <2>3. CASE owned' = owned /\ pc' = "exit"
    <3>1. UNCHANGED splitVars
      BY <2>1, <2>3 DEF ReleaseArgv
    <3> QED
      BY <2>3, <3>1, SplitStep DEF SplitLink
  <2> QED
    BY <1>7, <2>2, <2>3 DEF ForkTarget, Fork, ProgramExit
<1>8. CASE Observing /\ (LocStep \/ TargetKilled)
  <2>1. UNCHANGED splitVars /\ pc' = pc
    BY <1>8 DEF Observing, startVars
  <2> QED
    BY <2>1, SplitStep DEF SplitLink, splitVars
<1>9. CASE UNCHANGED mainVars
  <2>1. UNCHANGED splitVars /\ pc' = pc
    BY <1>9 DEF mainVars, startVars
  <2> QED
    BY <2>1, SplitStep DEF SplitLink, splitVars
<1> QED
  BY <1>1, <1>2, <1>3, <1>4, <1>5, <1>6, <1>7, <1>8, <1>9 DEF MainNext, MainStep, MainDone

(* free_profile(), where main() calls it. *)
LEMMA ProfileReleased ==
  ASSUME ParseInv, "profile" \in owned \ owned', ReleaseProfile
  PROVE  ParseInv' /\ heap' = 0
<1>1. /\ heap' = heap - free_profile(profile) /\ profile' = Zeroed /\ parsePc' = "freed"
      /\ doc' = doc /\ i' = i /\ j' = j
  BY DEF ReleaseProfile
<1>2. heap = free_profile(profile) /\ free_profile(profile) \in Nat
  BY FreedProfileType DEF ParseInv
<1>3. heap' = 0
  BY <1>1, <1>2
<1>4. /\ StageOK(parsePc', profile', doc'.root, i', j') /\ ContentOK(parsePc', profile', doc', i', j')
      /\ parsePc' \in Stages
  BY <1>1 DEF StageOK, ContentOK, Early, InRule, Stages
<1> QED
  BY <1>1, <1>3, <1>4, ZeroedProfile DEF ParseInv

(* How far main() is says how far parse_JSON() is; the profile is          *)
(* released before the parent observes, and before any exit up to          *)
(* split_command().                                                        *)
ParseLink ==
  /\ pc = "options" => heap = 0
  /\ pc \in {"runtime", "build", "split", "fork"} => parsePc = "done"
  /\ pc = "observe" => heap = 0
  /\ pc = "exit" /\ heap > 0 => splitPc # "setup"

LEMMA ParseLinkStep ==
  ASSUME StartInv, SplitLink, ParseInv, ParseLink, [MainNext]_mainVars
  PROVE  ParseInv' /\ ParseLink'
<1>1. CASE ReadOptions
  <2>1. pc = "options" /\ pc' \in {"options", "exit", "parse"}
    BY <1>1 DEF ReadOptions, GetOpt, OptionsDone, TakeOption, ProgramExit
  <2>2. UNCHANGED parserVars /\ heap' = heap
    BY <1>1 DEF ReadOptions, parserVars
  <2> QED
    BY <2>1, <2>2, ParseStep DEF ParseLink
<1>2. CASE parse_JSON
  <2>1. ParserNext /\ pc = "parse" /\ pc' = "parse"
    BY <1>2 DEF parse_JSON, startVars
  <2> QED
    BY <2>1, ParseStep DEF ParseLink
<1>3. CASE ParseReturns
  <2>1. /\ UNCHANGED parserVars /\ heap' = heap /\ parsePc' = parsePc /\ parsePc \in {"done", "failed"}
        /\ \/ pc' = "runtime" /\ "profile" \in owned'
           \/ pc' = "exit" /\ owned' = owned
        /\ "profile" \in owned' <=> parsePc = "done"
    BY <1>3 DEF ParseReturns, ParseProfile, Make, ProgramExit, parserVars
  <2>2. owned = {}
    BY <1>3 DEF ParseReturns, ParseProfile, Make, StartInv
  <2>3. parsePc = "failed" => heap = 0
    BY ParseImplies DEF HeapReachable
  <2> QED
    BY <2>1, <2>2, <2>3, ParseStep DEF ParseLink
<1>4. CASE MakeFilter
  <2>1. /\ pc \in {"runtime", "build"} /\ ReleaseProfile
        /\ \/ pc' \in {"build", "split"} /\ owned \subseteq owned'
           \/ pc' = "exit" /\ "profile" \notin owned'
    BY <1>4 DEF MakeFilter, MakeRuntime, BuildContext, Make, ProgramExit
  <2>2. "profile" \in owned
    BY <2>1 DEF StartInv
  <2>3. CASE pc' \in {"build", "split"} /\ owned \subseteq owned'
    <3>1. UNCHANGED parserVars /\ parsePc' = parsePc
      BY <2>1, <2>3 DEF ReleaseProfile, parserVars
    <3> QED
      BY <2>1, <2>3, <3>1, ParseStep DEF ParseLink
  <2>4. CASE pc' = "exit" /\ "profile" \notin owned'
    BY <2>1, <2>2, <2>4, ProfileReleased DEF ParseLink
  <2> QED
    BY <2>1, <2>3, <2>4
<1>5. CASE split_command
  <2>1. UNCHANGED parserVars /\ parsePc' = parsePc /\ pc = "split" /\ pc' = "split"
    BY <1>5 DEF split_command, startVars, parserVars
  <2> QED
    BY <2>1, ParseStep DEF ParseLink
<1>6. CASE SplitReturns
  <2>1. /\ UNCHANGED parserVars /\ parsePc' = parsePc /\ pc = "split" /\ pc' \in {"exit", "fork"}
        /\ splitPc' \in {"done", "exit"}
    BY <1>6 DEF SplitReturns, SplitTarget, Make, ProgramExit, parserVars, splitVars
  <2> QED
    BY <2>1, ParseStep DEF ParseLink
<1>7. CASE ForkTarget
  <2>1. pc = "fork" /\ ReleaseProfile /\ ReleaseArgv /\ splitPc = "done" /\ "profile" \in owned
    BY <1>7 DEF ForkTarget, Fork, SplitLink, StartInv
  <2>2. CASE owned' = {"seccomp_ctx"} /\ pc' = "observe"
    BY <2>1, <2>2, ProfileReleased DEF ParseLink
  <2>3. CASE owned' = owned /\ pc' = "exit"
    <3>1. UNCHANGED parserVars /\ UNCHANGED splitVars
      BY <2>1, <2>3 DEF ReleaseProfile, ReleaseArgv
    <3>2. splitPc' = "done"
      BY <2>1, <3>1 DEF splitVars
    <3> QED
      BY <2>3, <3>1, <3>2, ParseStep DEF ParseLink
  <2> QED
    BY <1>7, <2>2, <2>3 DEF ForkTarget, Fork, ProgramExit
<1>8. CASE Observing /\ (LocStep \/ TargetKilled)
  <2>1. UNCHANGED parserVars /\ heap' = heap /\ parsePc' = parsePc /\ pc' = pc /\ splitPc' = splitPc
    BY <1>8 DEF Observing, startVars, parserVars, splitVars
  <2> QED
    BY <2>1, ParseStep DEF ParseLink
<1>9. CASE UNCHANGED mainVars
  <2>1. UNCHANGED parserVars /\ heap' = heap /\ parsePc' = parsePc /\ pc' = pc /\ splitPc' = splitPc
    BY <1>9 DEF mainVars, startVars, parserVars, splitVars
  <2> QED
    BY <2>1, ParseStep DEF ParseLink
<1> QED
  BY <1>1, <1>2, <1>3, <1>4, <1>5, <1>6, <1>7, <1>8, <1>9 DEF MainNext, MainStep, MainDone

LEMMA ParserStarts == MainInit => ParseInv
<1> SUFFICES ASSUME MainInit PROVE ParseInv
  OBVIOUS
<1>1. doc \in Documents
  BY InputsAssumption DEF MainInit
<1>2. profile = Zeroed /\ parsePc = "fopen" /\ i = 1 /\ j = 1 /\ heap = 0
  BY DEF MainInit, ParserInit
<1>3. StageOK(parsePc, profile, doc.root, i, j) /\ ContentOK(parsePc, profile, doc, i, j)
  BY <1>2 DEF StageOK, ContentOK, Early, InRule
<1>4. parsePc \in Stages /\ i \in Nat \ {0} /\ j \in Nat \ {0}
  BY <1>2 DEF Stages, Early
<1> QED
  BY <1>1, <1>2, <1>3, <1>4, ZeroedProfile DEF ParseInv

(* The inductive invariant of the parent's sequential code: that of each   *)
(* part, and what main()'s own progress says about the others.             *)
PartsInv == StartInv /\ LocInv /\ SplitInv /\ SplitLink /\ ParseInv /\ ParseLink

THEOREM PartsInvariant == MainSpec => []PartsInv
<1>1. MainInit => PartsInv
  <2> SUFFICES ASSUME MainInit PROVE SplitLink /\ ParseLink
    BY InputsAreTyped, ParserStarts DEF PartsInv
  <2> QED
    BY DEF MainInit, StartInit, SplitInit, ParserInit, SplitLink, ParseLink
<1>2. PartsInv /\ [MainNext]_mainVars => PartsInv'
  BY StepsOfParts, StartStep, LocPreserves, SplitLinkStep, ParseLinkStep DEF PartsInv
<1> QED
  BY <1>1, <1>2, PTL DEF MainSpec

(* The target is only started for a complete command line and with         *)
(* everything made, whatever the words of the command line.                *)
THEOREM StartsComplete == MainSpec => []StartedOnlyIfComplete
<1>1. PartsInv => StartedOnlyIfComplete
  BY DEF PartsInv, StartInv, StartedOnlyIfComplete, Complete3, Clean
<1> QED
  BY <1>1, PartsInvariant, PTL

(* addr2line is asked about the mapping that holds the instruction, or     *)
(* about what the rest of an over-long line poses as, for memory maps and  *)
(* lines of any length.                                                    *)
THEOREM MappingCorrect == MainSpec => []RightMapping
<1>1. PartsInv => RightMapping
  BY LocImplies DEF PartsInv
<1> QED
  BY <1>1, PartsInvariant, PTL

(* split_command() returns exactly the words of the command, in order and  *)
(* with a NULL after them, for commands of any length.                     *)
THEOREM SplitCorrect == MainSpec => []ArgvIsWords
<1>1. PartsInv => ArgvIsWords
  BY SplitImplies DEF PartsInv
<1> QED
  BY <1>1, PartsInvariant, PTL

(* The pointers of the tokenizer, and every word it has taken, stay inside *)
(* the command.                                                            *)
THEOREM SplitStaysInside == MainSpec => []InsideCommand
<1>1. PartsInv => InsideCommand
  BY SplitImplies DEF PartsInv
<1> QED
  BY <1>1, PartsInvariant, PTL

(* Every block that a step of parse_JSON() takes from the heap (the arrays, *)
(* the copies of strings, the filters) is one that free_profile() releases *)
(* at that moment, and after an error return none is left, for every       *)
(* document and whichever allocations fail.                                *)
THEOREM ParserOwnsHeap == MainSpec => []HeapReachable
<1>1. PartsInv => HeapReachable
  BY ParseImplies DEF PartsInv
<1> QED
  BY <1>1, PartsInvariant, PTL

(* Whichever allocations fail, a profile that parse_JSON() returns differs *)
(* from its document by missing copies of strings and missing filters only *)
(* (json-parser.c:144-376), for every document.                            *)
THEOREM LossesLimited == MainSpec => []OnlyCopiesLost
<1>1. PartsInv => OnlyCopiesLost
  BY ParseImplies DEF PartsInv
<1> QED
  BY <1>1, PartsInvariant, PTL

(* Without allocation failures parse_JSON() accepts exactly the well-      *)
(* formed documents and returns what they say.                             *)
THEOREM ProfileCorrect == MainSpec => []ProfileMeansDocument
<1>1. PartsInv => ProfileMeansDocument
  BY ParseImplies DEF PartsInv
<1> QED
  BY <1>1, PartsInvariant, PTL

(* The parent observes with every block of the profile and of the argument *)
(* vector released, and an early exit releases the profile too.            *)
THEOREM EverythingReleased == MainSpec => []AllReleased
<1>1. PartsInv => AllReleased
  BY DEF PartsInv, SplitLink, ParseLink, AllReleased
<1> QED
  BY <1>1, PartsInvariant, PTL
=============================================================================
