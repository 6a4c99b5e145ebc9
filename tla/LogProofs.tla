----------------------------- MODULE LogProofs ------------------------------
(***************************************************************************)
(* Proof that one log file gives back the violations of every run that     *)
(* used it, for any number of runs, violations, failed calls and crashes.  *)
(***************************************************************************)
EXTENDS LogHistory, SumProofs, SequenceTheorems

-----------------------------------------------------------------------------
(* Reading a file, and keeping the runs that logged anything, one element  *)
(* at a time.                                                              *)

(* f holds what has been read after each chunk of s. *)
IsRead(f, s, n) == f = [i \in 0 .. n |-> IF i = 0 THEN << >> ELSE ReadChunk(f[i - 1], s[i])]

LEMMA ReadExists == ASSUME NEW s, NEW n \in Nat PROVE \E f : IsRead(f, s, n)
<1> DEFINE At(f, i) == IF i = 0 THEN << >> ELSE ReadChunk(f[i - 1], s[i])
           T == {m \in Nat : \E f : IsRead(f, s, m)}
<1>1. 0 \in T
  <2> DEFINE f == [m \in 0 .. 0 |-> << >>]
  <2>1. IsRead(f, s, 0)
    BY DEF IsRead
  <2> QED
    BY <2>1
<1>2. ASSUME NEW m \in Nat, m \in T PROVE m + 1 \in T
  <2>1. PICK f : IsRead(f, s, m)
    BY <1>2
  <2> DEFINE g == [i \in 0 .. m + 1 |-> At(f, i)]
  <2>2. ASSUME NEW i \in 0 .. m PROVE g[i] = f[i]
    <3>1. f[i] = At(f, i)
      BY <2>1, Zenon DEF IsRead
    <3>2. i \in 0 .. m + 1
      OBVIOUS
    <3>3. g[i] = At(f, i)
      BY <3>2, Zenon
    <3> QED
      BY <3>1, <3>3, Zenon
  <2>3. \A i \in 0 .. m + 1 : i # 0 => i - 1 \in 0 .. m
    OBVIOUS
  <2>4. ASSUME NEW i \in 0 .. m + 1 PROVE At(f, i) = At(g, i)
    <3>1. CASE i = 0
      BY <3>1, Zenon
    <3>2. CASE i # 0
      <4>1. g[i - 1] = f[i - 1]
        BY <2>2, <2>3, <3>2
      <4> HIDE DEF g
      <4> QED
        BY <3>2, <4>1, Zenon
    <3> QED
      BY <3>1, <3>2
  <2>5. g = [i \in 0 .. m + 1 |-> At(g, i)]
    BY <2>4, Zenon
  <2>6. IsRead(g, s, m + 1)
    <3> HIDE DEF g
    <3> QED
      BY <2>5 DEF IsRead
  <2> QED
    BY <2>6
<1> HIDE DEF T
<1>3. n \in T
  BY <1>1, <1>2, Induction
<1> QED
  BY <1>3 DEF T

LEMMA ReadDef ==
  ASSUME NEW s, Len(s) \in Nat
  PROVE  \E f : IsRead(f, s, Len(s)) /\ RunsIn(s) = f[Len(s)]
<1> DEFINE f == CHOOSE g : IsRead(g, s, Len(s))
<1>1. IsRead(f, s, Len(s))
  BY ReadExists, Zenon
<1>2. RunsIn(s) = f[Len(s)]
  BY Zenon DEF RunsIn, IsRead
<1> QED
  BY <1>1, <1>2

LEMMA ReadEmpty == RunsIn(<< >>) = << >>
<1>1. PICK s : s = << >>
  OBVIOUS
<1>2. Len(s) = 0
  BY <1>1
<1>3. PICK f : IsRead(f, s, Len(s)) /\ RunsIn(s) = f[Len(s)]
  BY <1>2, ReadDef
<1>4. f[0] = << >>
  BY <1>2, <1>3 DEF IsRead
<1> QED
  BY <1>1, <1>2, <1>3, <1>4

LEMMA ReadAppend ==
  ASSUME NEW S, NEW s \in Seq(S), NEW e \in S
  PROVE  RunsIn(Append(s, e)) = ReadChunk(RunsIn(s), e)
<1>1. PICK n : n = Len(s) /\ n \in Nat
  OBVIOUS
<1>2. PICK t : t = Append(s, e)
  OBVIOUS
<1>3. Len(t) = n + 1 /\ t[n + 1] = e /\ \A i \in 1 .. n : t[i] = s[i]
  BY <1>1, <1>2, AppendProperties
<1>4. PICK f : IsRead(f, s, n) /\ RunsIn(s) = f[n]
  BY <1>1, ReadDef
<1>5. PICK g : IsRead(g, t, n + 1) /\ RunsIn(t) = g[n + 1]
  <2>1. Len(t) \in Nat
    BY <1>1, <1>3
  <2> QED
    BY <1>3, <2>1, ReadDef
<1> DEFINE T == {m \in Nat : m <= n => g[m] = f[m]}
<1>6. 0 \in T
  BY <1>1, <1>4, <1>5 DEF IsRead
<1>7. ASSUME NEW m \in Nat, m \in T PROVE m + 1 \in T
  <2> SUFFICES ASSUME m + 1 <= n PROVE g[m + 1] = f[m + 1]
    OBVIOUS
  <2>1. /\ g[m] = f[m] /\ m + 1 # 0 /\ (m + 1) - 1 = m
        /\ m + 1 \in 0 .. n /\ m + 1 \in 0 .. n + 1 /\ m + 1 \in 1 .. n
    BY <1>1, <1>7
  <2>2. f[m + 1] = ReadChunk(f[m], s[m + 1])
    BY <1>4, <2>1 DEF IsRead
  <2>3. g[m + 1] = ReadChunk(g[m], t[m + 1])
    BY <1>5, <2>1 DEF IsRead
  <2> QED
    BY <1>3, <2>1, <2>2, <2>3
<1> HIDE DEF T
<1>8. g[n] = f[n]
  <2>1. n \in T
    BY <1>1, <1>6, <1>7, Induction
  <2> QED
    BY <1>1, <2>1 DEF T
<1>9. g[n + 1] = ReadChunk(g[n], t[n + 1])
  <2>1. n + 1 \in 0 .. n + 1 /\ n + 1 # 0 /\ (n + 1) - 1 = n
    BY <1>1
  <2> QED
    BY <1>5, <2>1 DEF IsRead
<1> QED
  BY <1>2, <1>3, <1>4, <1>5, <1>8, <1>9

(* f holds what has been kept after each run of s. *)
IsKept(f, s, n) == f = [i \in 0 .. n |-> IF i = 0 THEN << >> ELSE KeepRun(f[i - 1], s[i])]

LEMMA KeepExists == ASSUME NEW s, NEW n \in Nat PROVE \E f : IsKept(f, s, n)
<1> DEFINE At(f, i) == IF i = 0 THEN << >> ELSE KeepRun(f[i - 1], s[i])
           T == {m \in Nat : \E f : IsKept(f, s, m)}
<1>1. 0 \in T
  <2> DEFINE f == [m \in 0 .. 0 |-> << >>]
  <2>1. IsKept(f, s, 0)
    BY DEF IsKept
  <2> QED
    BY <2>1
<1>2. ASSUME NEW m \in Nat, m \in T PROVE m + 1 \in T
  <2>1. PICK f : IsKept(f, s, m)
    BY <1>2
  <2> DEFINE g == [i \in 0 .. m + 1 |-> At(f, i)]
  <2>2. ASSUME NEW i \in 0 .. m PROVE g[i] = f[i]
    <3>1. f[i] = At(f, i)
      BY <2>1, Zenon DEF IsKept
    <3>2. i \in 0 .. m + 1
      OBVIOUS
    <3>3. g[i] = At(f, i)
      BY <3>2, Zenon
    <3> QED
      BY <3>1, <3>3, Zenon
  <2>3. \A i \in 0 .. m + 1 : i # 0 => i - 1 \in 0 .. m
    OBVIOUS
  <2>4. ASSUME NEW i \in 0 .. m + 1 PROVE At(f, i) = At(g, i)
    <3>1. CASE i = 0
      BY <3>1, Zenon
    <3>2. CASE i # 0
      <4>1. g[i - 1] = f[i - 1]
        BY <2>2, <2>3, <3>2
      <4> HIDE DEF g
      <4> QED
        BY <3>2, <4>1, Zenon
    <3> QED
      BY <3>1, <3>2
  <2>5. g = [i \in 0 .. m + 1 |-> At(g, i)]
    BY <2>4, Zenon
  <2>6. IsKept(g, s, m + 1)
    <3> HIDE DEF g
    <3> QED
      BY <2>5 DEF IsKept
  <2> QED
    BY <2>6
<1> HIDE DEF T
<1>3. n \in T
  BY <1>1, <1>2, Induction
<1> QED
  BY <1>3 DEF T

LEMMA KeepDef ==
  ASSUME NEW s, Len(s) \in Nat
  PROVE  \E f : IsKept(f, s, Len(s)) /\ NonEmpty(s) = f[Len(s)]
<1> DEFINE f == CHOOSE g : IsKept(g, s, Len(s))
<1>1. IsKept(f, s, Len(s))
  BY KeepExists, Zenon
<1>2. NonEmpty(s) = f[Len(s)]
  BY Zenon DEF NonEmpty, IsKept
<1> QED
  BY <1>1, <1>2

LEMMA KeepEmpty == NonEmpty(<< >>) = << >>
<1>1. PICK s : s = << >>
  OBVIOUS
<1>2. Len(s) = 0
  BY <1>1
<1>3. PICK f : IsKept(f, s, Len(s)) /\ NonEmpty(s) = f[Len(s)]
  BY <1>2, KeepDef
<1>4. f[0] = << >>
  BY <1>2, <1>3 DEF IsKept
<1> QED
  BY <1>1, <1>2, <1>3, <1>4

LEMMA KeepAppend ==
  ASSUME NEW S, NEW s \in Seq(S), NEW e \in S
  PROVE  NonEmpty(Append(s, e)) = KeepRun(NonEmpty(s), e)
<1>1. PICK n : n = Len(s) /\ n \in Nat
  OBVIOUS
<1>2. PICK t : t = Append(s, e)
  OBVIOUS
<1>3. Len(t) = n + 1 /\ t[n + 1] = e /\ \A i \in 1 .. n : t[i] = s[i]
  BY <1>1, <1>2, AppendProperties
<1>4. PICK f : IsKept(f, s, n) /\ NonEmpty(s) = f[n]
  BY <1>1, KeepDef
<1>5. PICK g : IsKept(g, t, n + 1) /\ NonEmpty(t) = g[n + 1]
  <2>1. Len(t) \in Nat
    BY <1>1, <1>3
  <2> QED
    BY <1>3, <2>1, KeepDef
<1> DEFINE T == {m \in Nat : m <= n => g[m] = f[m]}
<1>6. 0 \in T
  BY <1>1, <1>4, <1>5 DEF IsKept
<1>7. ASSUME NEW m \in Nat, m \in T PROVE m + 1 \in T
  <2> SUFFICES ASSUME m + 1 <= n PROVE g[m + 1] = f[m + 1]
    OBVIOUS
  <2>1. /\ g[m] = f[m] /\ m + 1 # 0 /\ (m + 1) - 1 = m
        /\ m + 1 \in 0 .. n /\ m + 1 \in 0 .. n + 1 /\ m + 1 \in 1 .. n
    BY <1>1, <1>7
  <2>2. f[m + 1] = KeepRun(f[m], s[m + 1])
    BY <1>4, <2>1 DEF IsKept
  <2>3. g[m + 1] = KeepRun(g[m], t[m + 1])
    BY <1>5, <2>1 DEF IsKept
  <2> QED
    BY <1>3, <2>1, <2>2, <2>3
<1> HIDE DEF T
<1>8. g[n] = f[n]
  <2>1. n \in T
    BY <1>1, <1>6, <1>7, Induction
  <2> QED
    BY <1>1, <2>1 DEF T
<1>9. g[n + 1] = KeepRun(g[n], t[n + 1])
  <2>1. n + 1 \in 0 .. n + 1 /\ n + 1 # 0 /\ (n + 1) - 1 = n
    BY <1>1
  <2> QED
    BY <1>5, <2>1 DEF IsKept
<1> QED
  BY <1>2, <1>3, <1>4, <1>5, <1>8, <1>9

LEMMA KeepType ==
  ASSUME NEW S, NEW h \in Seq(Seq(S)) PROVE NonEmpty(h) \in Seq(Seq(S))
<1>1. PICK n : n = Len(h) /\ n \in Nat
  OBVIOUS
<1>2. PICK f : IsKept(f, h, n) /\ NonEmpty(h) = f[n]
  BY <1>1, KeepDef
<1> DEFINE T == {m \in Nat : m <= n => f[m] \in Seq(Seq(S))}
<1>3. 0 \in T
  BY <1>1, <1>2 DEF IsKept
<1>4. ASSUME NEW m \in Nat, m \in T PROVE m + 1 \in T
  <2> SUFFICES ASSUME m + 1 <= n PROVE f[m + 1] \in Seq(Seq(S))
    OBVIOUS
  <2>1. /\ f[m] \in Seq(Seq(S)) /\ m + 1 # 0 /\ (m + 1) - 1 = m
        /\ m + 1 \in 0 .. n /\ m + 1 \in 1 .. Len(h)
    BY <1>1, <1>4
  <2>2. f[m + 1] = KeepRun(f[m], h[m + 1])
    BY <1>2, <2>1 DEF IsKept
  <2>3. h[m + 1] \in Seq(S)
    BY <2>1, ElementOfSeq
  <2> QED
    BY <2>1, <2>2, <2>3, AppendProperties DEF KeepRun
<1> HIDE DEF T
<1>5. n \in T
  BY <1>1, <1>3, <1>4, Induction
<1> QED
  BY <1>1, <1>2, <1>5 DEF T

(* h ends in e, after g. *)
EndsIn(h, g, e) == h = Append(g, e) /\ Len(h) = Len(g) + 1 /\ h[Len(h)] = e

LEMMA LastOf ==
  ASSUME NEW S, NEW h \in Seq(S), Len(h) > 0
  PROVE  \E g \in Seq(S), e \in S : EndsIn(h, g, e)
<1>1. h # << >>
  OBVIOUS
<1>2. PICK g \in Seq(S), e \in S : h = Append(g, e)
  BY <1>1, SequenceEmptyOrAppend
<1>3. Len(h) = Len(g) + 1 /\ h[Len(h)] = e
  BY <1>2, AppendProperties
<1> QED
  BY <1>2, <1>3 DEF EndsIn

LEMMA LastReplaced ==
  ASSUME NEW S, NEW h \in Seq(S), NEW g \in Seq(S), NEW e \in S, EndsIn(h, g, e), NEW x \in S
  PROVE  [h EXCEPT ![Len(h)] = x] = Append(g, x)
<1>1. PICK n : n = Len(g) /\ n \in Nat /\ Len(h) = n + 1
  BY DEF EndsIn
<1>2. h = Append(g, e)
  BY DEF EndsIn
<1>3. \A i \in 1 .. n : h[i] = g[i]
  BY <1>1, <1>2, AppendProperties
<1>4. PICK l : l = Len(h) /\ l = n + 1 /\ l \in 1 .. Len(h)
  BY <1>1
<1>5. PICK r : r = [h EXCEPT ![l] = x]
  OBVIOUS
<1>6. /\ r \in Seq(S) /\ Len(r) = Len(h)
      /\ \A i \in 1 .. Len(h) : r[i] = IF i = l THEN x ELSE h[i]
  <2>1. /\ [h EXCEPT ![l] = x] \in Seq(S) /\ Len([h EXCEPT ![l] = x]) = Len(h)
        /\ \A i \in 1 .. Len(h) : [h EXCEPT ![l] = x][i] = IF i = l THEN x ELSE h[i]
    <3>1. l \in 1 .. Len(h)
      BY <1>4
    <3> QED
      BY <3>1, ExceptSeq
  <2> QED
    BY <1>5, <2>1
<1>7. PICK t : t = Append(g, x)
  OBVIOUS
<1>8. t \in Seq(S) /\ Len(t) = n + 1 /\ t[n + 1] = x /\ \A i \in 1 .. n : t[i] = g[i]
  BY <1>1, <1>7, AppendProperties
<1>9. ASSUME NEW i \in 1 .. Len(r) PROVE r[i] = t[i]
  <2>1. i \in 1 .. Len(h) /\ (i = n + 1 \/ i \in 1 .. n)
    BY <1>1, <1>6
  <2>2. CASE i = n + 1
    BY <1>4, <1>6, <1>8, <2>1, <2>2
  <2>3. CASE i \in 1 .. n
    BY <1>1, <1>3, <1>4, <1>6, <1>8, <2>1, <2>3
  <2> QED
    BY <2>1, <2>2, <2>3
<1>10. r = t
  BY <1>1, <1>6, <1>8, <1>9, SeqEqual
<1> QED
  BY <1>4, <1>5, <1>7, <1>10

-----------------------------------------------------------------------------
(* The invariant. *)

HistTypeOK ==
  /\ file \in Seq(Chunk)
  /\ first_in_array \in BOOLEAN
  /\ phase \in {"idle", "logging", "closed", "crashed"}
  /\ history \in Seq(Seq(Records))

(* While a run logs, its flag says whether it has logged anything, and     *)
(* what can be read back is what was logged.                               *)
HistInv ==
  /\ HistTypeOK
  /\ phase = "logging" =>
       Len(history) > 0 /\ (first_in_array <=> history[Len(history)] = << >>)
  /\ RunsRecoverable

LEMMA HistInvInit == Init => HistInv
<1> SUFFICES ASSUME Init PROVE HistInv
  OBVIOUS
<1>1. HistTypeOK /\ phase # "logging"
  BY DEF Init, LoggerInit, HistTypeOK
<1>2. RunsRecoverable
  BY ReadEmpty, KeepEmpty DEF Init, LoggerInit, RunsRecoverable
<1> QED
  BY <1>1, <1>2 DEF HistInv

LEMMA StartKeeps == ASSUME HistInv, StartRun PROVE HistInv'
<1>1. /\ history' = Append(history, << >>) /\ file' = file /\ first_in_array' = TRUE
      /\ phase' = "logging" /\ history \in Seq(Seq(Records))
  BY DEF StartRun, HistInv, HistTypeOK
<1>2. /\ Append(history, << >>) \in Seq(Seq(Records))
      /\ Len(Append(history, << >>)) = Len(history) + 1
      /\ Append(history, << >>)[Len(history) + 1] = << >>
  BY <1>1, AppendProperties
<1>3. history' \in Seq(Seq(Records)) /\ Len(history') > 0 /\ history'[Len(history')] = << >>
  BY <1>1, <1>2
<1>4. NonEmpty(history') = NonEmpty(history)
  <2>1. << >> \in Seq(Records)
    OBVIOUS
  <2> QED
    BY <1>1, <2>1, KeepAppend DEF KeepRun
<1> QED
  BY <1>1, <1>3, <1>4 DEF HistInv, HistTypeOK, RunsRecoverable, RunsIn, NonEmpty

(* A violation is appended to the file: it becomes the last one of the     *)
(* last run that can be read back.                                         *)
LEMMA ChunkRead ==
  ASSUME HistInv, phase = "logging", NEW v \in Records
  PROVE  LET h == [history EXCEPT ![Len(history)] = Append(history[Len(history)], v)]
         IN /\ h \in Seq(Seq(Records)) /\ Len(h) > 0 /\ h[Len(h)] # << >>
            /\ RunsIn(Append(file, ViolationChunk(v))) = NonEmpty(h)
<1> DEFINE S == Seq(Records)
           h == [history EXCEPT ![Len(history)] = Append(history[Len(history)], v)]
           c == ViolationChunk(v)
<1>1. /\ history \in Seq(S) /\ Len(history) > 0 /\ file \in Seq(Chunk)
      /\ first_in_array <=> history[Len(history)] = << >>
      /\ RunsIn(file) = NonEmpty(history)
  BY DEF HistInv, HistTypeOK, RunsRecoverable
<1>2. PICK g \in Seq(S), e \in S : EndsIn(history, g, e)
  <2> HIDE DEF S
  <2> QED
    BY <1>1, LastOf
<1>3. history = Append(g, e) /\ history[Len(history)] = e
  BY <1>2 DEF EndsIn
<1>4. Append(e, v) \in S /\ Append(e, v) # << >> /\ Len(Append(e, v)) = Len(e) + 1
  <2>1. Append(e, v) \in S /\ Len(Append(e, v)) = Len(e) + 1 /\ Len(e) \in Nat
    BY <1>2, AppendProperties
  <2>2. Len(<< >>) = 0
    OBVIOUS
  <2> QED
    BY <2>1, <2>2
<1>5. PICK x \in S : x = Append(e, v) /\ x # << >>
  BY <1>4
<1>6. h = Append(g, x)
  <2>1. [history EXCEPT ![Len(history)] = x] = Append(g, x)
    <3> HIDE DEF S
    <3> QED
      BY <1>1, <1>2, LastReplaced
  <2> QED
    BY <1>3, <1>5, <2>1
<1>7. Append(g, x) \in Seq(S) /\ Len(Append(g, x)) = Len(g) + 1 /\ Append(g, x)[Len(g) + 1] = x
  <2> HIDE DEF S
  <2> QED
    BY <1>2, <1>5, AppendProperties
<1>8. h \in Seq(S) /\ Len(h) > 0 /\ h[Len(h)] # << >>
  <2>1. Len(g) \in Nat
    BY <1>2
  <2> HIDE DEF h, S
  <2> QED
    BY <1>5, <1>6, <1>7, <2>1
<1>9. NonEmpty(h) = Append(NonEmpty(g), x)
  <2>1. NonEmpty(Append(g, x)) = KeepRun(NonEmpty(g), x)
    <3> HIDE DEF S
    <3> QED
      BY <1>2, <1>5, KeepAppend
  <2> HIDE DEF h
  <2> QED
    BY <1>5, <1>6, <2>1 DEF KeepRun
<1>10. NonEmpty(history) = KeepRun(NonEmpty(g), e)
  <2> HIDE DEF S
  <2> QED
    BY <1>2, <1>3, KeepAppend
<1>11. PICK k \in Seq(S) : k = NonEmpty(g)
  BY <1>2, KeepType
<1>12. c \in Chunk /\ c.rec = v /\ c.sep = IF first_in_array THEN "[" ELSE ","
  BY DEF ViolationChunk, Chunk, Seps
<1>13. RunsIn(Append(file, c)) = ReadChunk(RunsIn(file), c)
  <2> HIDE DEF c
  <2> QED
    BY <1>1, <1>12, ReadAppend
<1> HIDE DEF c, h
<1>14. CASE first_in_array
  <2>1. e = << >>
    BY <1>1, <1>3, <1>14
  <2>2. RunsIn(file) = k
    BY <1>1, <1>10, <1>11, <2>1 DEF KeepRun
  <2>3. x = <<v>>
    BY <1>5, <2>1
  <2>4. ReadChunk(k, c) = Append(k, <<v>>)
    BY <1>12, <1>14 DEF ReadChunk
  <2>5. RunsIn(Append(file, c)) = NonEmpty(h)
    BY <1>9, <1>11, <1>13, <2>2, <2>3, <2>4
  <2> QED
    BY <1>8, <2>5 DEF c, h
<1>15. CASE ~first_in_array
  <2>1. e # << >>
    BY <1>1, <1>3, <1>15
  <2>2. PICK r : r = Append(k, e)
    OBVIOUS
  <2>3. RunsIn(file) = r
    BY <1>1, <1>10, <1>11, <2>1, <2>2 DEF KeepRun
  <2>4. r \in Seq(S) /\ Len(r) = Len(k) + 1 /\ r[Len(k) + 1] = e /\ Len(k) \in Nat
    <3> HIDE DEF S
    <3> QED
      BY <1>2, <2>2, <1>11, AppendProperties
  <2>5. EndsIn(r, k, e) /\ r # << >> /\ r[Len(r)] = e
    <3>1. r[Len(r)] = e
      BY <2>4
    <3>2. r # << >>
      BY <1>2, <1>11, <2>2, AppendProperties, SMTT(30)
    <3> QED
      BY <2>2, <2>4, <3>1, <3>2 DEF EndsIn
  <2>6. [r EXCEPT ![Len(r)] = x] = Append(k, x)
    <3>1. r \in Seq(S) /\ k \in Seq(S) /\ e \in S /\ x \in S /\ EndsIn(r, k, e)
      BY <1>2, <1>5, <1>11, <2>4, <2>5
    <3> HIDE DEF S
    <3> QED
      BY <3>1, LastReplaced
  <2>7. ReadChunk(r, c) = [r EXCEPT ![Len(r)] = Append(r[Len(r)], v)]
    BY <1>12, <1>15, <2>5 DEF ReadChunk
  <2>8. ReadChunk(r, c) = Append(k, x)
    BY <1>5, <2>5, <2>6, <2>7
  <2>9. RunsIn(Append(file, c)) = NonEmpty(h)
    BY <1>9, <1>11, <1>13, <2>3, <2>8
  <2> QED
    BY <1>8, <2>9 DEF c, h
<1> QED
  BY <1>14, <1>15

LEMMA LogKeeps ==
  ASSUME HistInv, "write" \notin LogFaults, NEW v \in Records, LogViolation(v) PROVE HistInv'
<1>1. phase = "logging" /\ phase' = phase /\ HistTypeOK
  BY DEF LogViolation, HistInv
<1>2. CASE ViolationNotWritten
  <2>1. ret' = -1 /\ file' = file /\ first_in_array' = first_in_array
    BY <1>2 DEF ViolationNotWritten
  <2>2. history' = history
    BY <2>1 DEF LogViolation
  <2> QED
    BY <1>1, <2>1, <2>2 DEF HistInv, HistTypeOK, RunsRecoverable, RunsIn, NonEmpty
<1>3. CASE ViolationWritten(v)
  <2> DEFINE h == [history EXCEPT ![Len(history)] = Append(history[Len(history)], v)]
  <2>1. ret' = 0 /\ file' = Append(file, ViolationChunk(v)) /\ first_in_array' = FALSE
    BY <1>3 DEF ViolationWritten
  <2>2. history' = h
    BY <2>1 DEF LogViolation
  <2>3. /\ h \in Seq(Seq(Records)) /\ Len(h) > 0 /\ h[Len(h)] # << >>
        /\ RunsIn(Append(file, ViolationChunk(v))) = NonEmpty(h)
    BY <1>1, ChunkRead
  <2>4. ViolationChunk(v) \in Chunk
    BY DEF ViolationChunk, Chunk, Seps
  <2>5. Append(file, ViolationChunk(v)) \in Seq(Chunk)
    BY <1>1, <2>4, AppendProperties DEF HistTypeOK
  <2> HIDE DEF h
  <2>6. HistTypeOK'
    BY <1>1, <2>1, <2>2, <2>3, <2>5 DEF HistTypeOK
  <2>7. RunsRecoverable'
    <3>1. PICK a, b : a = file' /\ b = history'
      OBVIOUS
    <3>2. RunsIn(a) = NonEmpty(b)
      BY <2>1, <2>2, <2>3, <3>1
    <3> QED
      BY <3>1, <3>2 DEF RunsRecoverable, RunsIn, NonEmpty
  <2> QED
    BY <1>1, <2>1, <2>2, <2>3, <2>6, <2>7 DEF HistInv
<1> QED
  BY <1>2, <1>3 DEF LogViolation, log_seccomp_violation, ViolationCutShort

LEMMA CloseKeeps == ASSUME HistInv, Close PROVE HistInv'
<1>1. /\ phase' = "closed" /\ history' = history /\ first_in_array' = first_in_array /\ HistTypeOK
      /\ RunsIn(file) = NonEmpty(history)
  BY DEF Close, logger_close, HistInv, RunsRecoverable
<1>2. file' = file \/ file' = Append(file, CloseChunk)
  BY DEF Close, logger_close
<1>3. CloseChunk \in Chunk /\ CloseChunk.sep = "]"
  BY DEF CloseChunk, Chunk, Seps
<1>4. Append(file, CloseChunk) \in Seq(Chunk)
  BY <1>1, <1>3, AppendProperties DEF HistTypeOK
<1>5. RunsIn(Append(file, CloseChunk)) = RunsIn(file)
  BY <1>1, <1>3, ReadAppend DEF ReadChunk, HistTypeOK
<1>6. HistTypeOK'
  BY <1>1, <1>2, <1>4 DEF HistTypeOK
<1>7. PICK a : a = file' /\ RunsIn(a) = NonEmpty(history)
  BY <1>1, <1>2, <1>5
<1>8. RunsRecoverable'
  BY <1>1, <1>7 DEF RunsRecoverable, RunsIn, NonEmpty
<1> QED
  BY <1>1, <1>6, <1>8 DEF HistInv

LEMMA HistInvNext == HistInv /\ "write" \notin LogFaults /\ [Next]_historyVars => HistInv'
<1> SUFFICES ASSUME HistInv, "write" \notin LogFaults, [Next]_historyVars PROVE HistInv'
  OBVIOUS
<1>1. CASE StartRun
  BY <1>1, StartKeeps
<1>2. CASE \E v \in Records : LogViolation(v)
  BY <1>2, LogKeeps
<1>3. CASE Close
  BY <1>3, CloseKeeps
<1>4. CASE Crash
  BY <1>4 DEF Crash, HistInv, HistTypeOK, RunsRecoverable, RunsIn, NonEmpty
<1>5. CASE UNCHANGED historyVars
  BY <1>5 DEF historyVars, HistInv, HistTypeOK, RunsRecoverable, RunsIn, NonEmpty
<1> QED
  BY <1>1, <1>2, <1>3, <1>4, <1>5 DEF Next

(* When no write error goes unnoticed, whatever the number of runs on the  *)
(* path and of violations in each, whichever calls fail and whichever runs *)
(* crash, the file gives back the violations of every run.                 *)
THEOREM LogReadBack ==
  ASSUME "write" \notin LogFaults
  PROVE  Spec => []RunsRecoverable
<1>1. HistInv /\ [Next]_historyVars => HistInv'
  BY HistInvNext
<1>2. HistInv => RunsRecoverable
  BY DEF HistInv
<1> QED
  BY <1>1, <1>2, HistInvInit, PTL DEF Spec
=============================================================================
