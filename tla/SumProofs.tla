----------------------------- MODULE SumProofs -----------------------------
(***************************************************************************)
(* Induction over the natural numbers, from the theorem that the strict    *)
(* order of finite sets is well-founded, and what it says about sums.      *)
(***************************************************************************)
EXTENDS Sums, FiniteSets, FiniteSetTheorems, WellFoundedInduction, TLAPS

(* A set of numbers has a least one. *)
LEMMA LeastNumber ==
  ASSUME NEW T, T \subseteq Nat, T # {}
  PROVE  \E x \in T : \A y \in T : x <= y
<1> DEFINE Below == {1 .. n : n \in T}
<1>1. Below # {}
  OBVIOUS
<1>2. Below \subseteq FiniteSubsetsOf(Nat)
  <2> SUFFICES ASSUME NEW n \in T PROVE 1 .. n \in FiniteSubsetsOf(Nat)
    OBVIOUS
  <2>1. n \in Int /\ 1 \in Int
    OBVIOUS
  <2>2. IsFiniteSet(1 .. n)
    BY <2>1, FS_Interval
  <2>3. 1 .. n \subseteq Nat
    OBVIOUS
  <2> QED
    BY <2>2, <2>3 DEF FiniteSubsetsOf
<1>3. IsWellFoundedOn(StrictSubsetOrdering(Nat), FiniteSubsetsOf(Nat))
  BY FS_StrictSubsetOrderingWellFounded
<1>4. \E X \in Below : \A Y \in Below : ~(<<Y, X>> \in StrictSubsetOrdering(Nat))
  <2> HIDE DEF Below
  <2> QED
    BY <1>1, <1>2, <1>3, WFMin
<1>5. PICK x \in T : \A Y \in Below : ~(<<Y, 1 .. x>> \in StrictSubsetOrdering(Nat))
  BY <1>4
<1>6. ASSUME NEW y \in T PROVE x <= y
  <2>1. ~(<<1 .. y, 1 .. x>> \in StrictSubsetOrdering(Nat))
    BY <1>5
  <2>2. 1 .. y \in SUBSET Nat /\ 1 .. x \in SUBSET Nat
    OBVIOUS
  <2>3. ~(1 .. y \subseteq 1 .. x /\ 1 .. y # 1 .. x)
    BY <2>1, <2>2, Zenon DEF StrictSubsetOrdering
  <2>4. x \in Nat /\ y \in Nat
    OBVIOUS
  <2>5. y < x => x \in 1 .. x /\ x \notin 1 .. y
    BY <2>4
  <2>6. y < x => 1 .. y \subseteq 1 .. x
    BY <2>4
  <2> QED
    BY <2>3, <2>4, <2>5, <2>6
<1> QED
  BY <1>6

(* Induction over numbers, for a set. *)
LEMMA Induction ==
  ASSUME NEW T, 0 \in T, \A n \in Nat : n \in T => n + 1 \in T
  PROVE  Nat \subseteq T
<1> SUFFICES ASSUME Nat \ T # {} PROVE FALSE
  OBVIOUS
<1>1. PICK x \in Nat \ T : \A y \in Nat \ T : x <= y
  BY LeastNumber, Zenon
<1>2. x # 0 /\ x - 1 \in Nat /\ x - 1 < x
  BY <1>1
<1>3. x - 1 \in T
  BY <1>1, <1>2
<1> QED
  BY <1>1, <1>2, <1>3

(* s holds the partial sums of f. *)
IsTotal(s, f, n) == s = [k \in 0 .. n |-> IF k = 0 THEN 0 ELSE s[k - 1] + f[k]]

LEMMA TotalExists ==
  ASSUME NEW f, NEW n \in Nat
  PROVE  \E s : IsTotal(s, f, n)
<1> DEFINE T == {m \in Nat : \E s : IsTotal(s, f, m)}
<1>1. 0 \in T
  <2> DEFINE s == [k \in 0 .. 0 |-> 0]
  <2>1. IsTotal(s, f, 0)
    BY DEF IsTotal
  <2> QED
    BY <2>1
<1>2. ASSUME NEW m \in Nat, m \in T PROVE m + 1 \in T
  <2>1. PICK s : IsTotal(s, f, m)
    BY <1>2
  <2> DEFINE t == [k \in 0 .. m + 1 |-> IF k = 0 THEN 0 ELSE s[k - 1] + f[k]]
  <2>2. \A k \in 0 .. m : t[k] = s[k]
    BY <2>1 DEF IsTotal
  <2>3. \A k \in 0 .. m + 1 : k # 0 => k - 1 \in 0 .. m
    OBVIOUS
  <2>4. IsTotal(t, f, m + 1)
    BY <2>2, <2>3 DEF IsTotal
  <2> QED
    BY <2>4
<1> HIDE DEF T
<1>3. Nat \subseteq T
  BY <1>1, <1>2, Induction
<1> QED
  BY <1>3 DEF T

LEMMA TotalDef ==
  ASSUME NEW f, NEW n \in Nat
  PROVE  \E s : IsTotal(s, f, n) /\ Total(f, n) = s[n]
<1> DEFINE c == CHOOSE s : IsTotal(s, f, n)
<1>1. IsTotal(c, f, n)
  BY TotalExists, Zenon
<1>2. Total(f, n) = c[n]
  BY DEF Total, IsTotal
<1> QED
  BY <1>1, <1>2

LEMMA TotalType ==
  ASSUME NEW n \in Nat, NEW f, \A k \in 1 .. n : f[k] \in Nat
  PROVE  Total(f, n) \in Nat
<1>1. PICK s : IsTotal(s, f, n) /\ Total(f, n) = s[n]
  BY TotalDef
<1> DEFINE T == {m \in Nat : m <= n => s[m] \in Nat}
<1>2. 0 \in T
  BY <1>1 DEF IsTotal
<1>3. ASSUME NEW m \in Nat, m \in T PROVE m + 1 \in T
  <2> SUFFICES ASSUME m + 1 <= n PROVE s[m + 1] \in Nat
    OBVIOUS
  <2>1. s[m] \in Nat /\ m + 1 \in 0 .. n /\ m + 1 \in 1 .. n /\ m + 1 # 0 /\ (m + 1) - 1 = m
    BY <1>3
  <2>2. s[m + 1] = s[m] + f[m + 1]
    BY <1>1, <2>1 DEF IsTotal
  <2> QED
    BY <2>1, <2>2
<1> HIDE DEF T
<1>4. n \in T
  BY <1>2, <1>3, Induction
<1> QED
  BY <1>1, <1>4 DEF T

LEMMA TotalZero ==
  ASSUME NEW n \in Nat, NEW f, \A k \in 1 .. n : f[k] = 0
  PROVE  Total(f, n) = 0
<1>1. PICK s : IsTotal(s, f, n) /\ Total(f, n) = s[n]
  BY TotalDef
<1> DEFINE T == {m \in Nat : m <= n => s[m] = 0}
<1>2. 0 \in T
  BY <1>1 DEF IsTotal
<1>3. ASSUME NEW m \in Nat, m \in T PROVE m + 1 \in T
  <2> SUFFICES ASSUME m + 1 <= n PROVE s[m + 1] = 0
    OBVIOUS
  <2>1. s[m] = 0 /\ m + 1 \in 0 .. n /\ m + 1 \in 1 .. n /\ m + 1 # 0 /\ (m + 1) - 1 = m
    BY <1>3
  <2>2. s[m + 1] = s[m] + f[m + 1]
    BY <1>1, <2>1 DEF IsTotal
  <2> QED
    BY <2>1, <2>2
<1> HIDE DEF T
<1>4. n \in T
  BY <1>2, <1>3, Induction
<1> QED
  BY <1>1, <1>4 DEF T

(* A sum changes as much as the one element that changes. *)
LEMMA TotalChange ==
  ASSUME NEW n \in Nat, NEW f, NEW g, NEW x \in 1 .. n,
         \A k \in 1 .. n : f[k] \in Nat /\ g[k] \in Nat /\ (k # x => g[k] = f[k])
  PROVE  Total(g, n) = Total(f, n) + g[x] - f[x]
<1>1. PICK s : IsTotal(s, f, n) /\ Total(f, n) = s[n]
  BY TotalDef
<1>2. PICK t : IsTotal(t, g, n) /\ Total(g, n) = t[n]
  BY TotalDef
<1> DEFINE T == {m \in Nat : m <= n => /\ s[m] \in Int /\ t[m] \in Int
                                       /\ t[m] = IF m < x THEN s[m] ELSE s[m] + g[x] - f[x]}
<1>3. 0 \in T
  BY <1>1, <1>2 DEF IsTotal
<1>4. ASSUME NEW m \in Nat, m \in T PROVE m + 1 \in T
  <2> SUFFICES ASSUME m + 1 <= n
               PROVE  /\ s[m + 1] \in Int /\ t[m + 1] \in Int
                      /\ t[m + 1] = IF m + 1 < x THEN s[m + 1] ELSE s[m + 1] + g[x] - f[x]
    OBVIOUS
  <2>1. /\ s[m] \in Int /\ t[m] \in Int /\ t[m] = IF m < x THEN s[m] ELSE s[m] + g[x] - f[x]
        /\ m + 1 \in 0 .. n /\ m + 1 \in 1 .. n /\ m + 1 # 0 /\ (m + 1) - 1 = m
    BY <1>4
  <2>2. s[m + 1] = s[m] + f[m + 1] /\ t[m + 1] = t[m] + g[m + 1]
    BY <1>1, <1>2, <2>1 DEF IsTotal
  <2>3. f[x] \in Nat /\ g[x] \in Nat /\ f[m + 1] \in Nat /\ g[m + 1] \in Nat
    BY <2>1
  <2>4. CASE m + 1 = x
    BY <2>1, <2>2, <2>3, <2>4
  <2>5. CASE m + 1 # x
    <3>1. g[m + 1] = f[m + 1]
      BY <2>1, <2>5
    <3> QED
      BY <2>1, <2>2, <2>3, <2>5, <3>1
  <2> QED
    BY <2>4, <2>5
<1> HIDE DEF T
<1>5. n \in T
  BY <1>3, <1>4, Induction
<1> QED
  BY <1>1, <1>2, <1>5 DEF T

(* The first element of a sum, and the rest. *)
LEMMA TotalShift ==
  ASSUME NEW n \in Nat, NEW f, NEW g, g[1] \in Nat,
         \A k \in 1 .. n : f[k] \in Nat /\ g[k + 1] = f[k]
  PROVE  Total(g, n + 1) = g[1] + Total(f, n)
<1>1. PICK s : IsTotal(s, f, n) /\ Total(f, n) = s[n]
  BY TotalDef
<1>2. PICK t : IsTotal(t, g, n + 1) /\ Total(g, n + 1) = t[n + 1]
  <2>1. n + 1 \in Nat
    OBVIOUS
  <2> QED
    BY <2>1, TotalDef, Zenon
<1> DEFINE T == {m \in Nat : m <= n => s[m] \in Int /\ t[m + 1] = g[1] + s[m]}
<1>3. 0 \in T
  <2>1. s[0] = 0 /\ t[0] = 0 /\ t[1] = t[0] + g[1]
    BY <1>1, <1>2 DEF IsTotal
  <2> QED
    BY <2>1
<1>4. ASSUME NEW m \in Nat, m \in T PROVE m + 1 \in T
  <2> SUFFICES ASSUME m + 1 <= n
               PROVE  s[m + 1] \in Int /\ t[(m + 1) + 1] = g[1] + s[m + 1]
    OBVIOUS
  <2>1. /\ s[m] \in Int /\ t[m + 1] = g[1] + s[m]
        /\ m + 1 \in 0 .. n /\ m + 1 \in 1 .. n /\ m + 1 # 0 /\ (m + 1) - 1 = m
        /\ m + 2 \in 0 .. n + 1 /\ m + 2 # 0 /\ (m + 2) - 1 = m + 1 /\ (m + 1) + 1 = m + 2
    BY <1>4
  <2>2. s[m + 1] = s[m] + f[m + 1] /\ f[m + 1] \in Nat /\ g[(m + 1) + 1] = f[m + 1]
    BY <1>1, <2>1 DEF IsTotal
  <2>3. t[m + 2] = t[m + 1] + g[m + 2]
    BY <1>2, <2>1 DEF IsTotal
  <2> QED
    BY <2>1, <2>2, <2>3
<1> HIDE DEF T
<1>5. n \in T
  BY <1>3, <1>4, Induction
<1> QED
  BY <1>1, <1>2, <1>5 DEF T
=============================================================================
