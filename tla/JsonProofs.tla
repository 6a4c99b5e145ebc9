----------------------------- MODULE JsonProofs -----------------------------
(***************************************************************************)
(* Proofs about parson.c: a quoted string is searched and decoded inside   *)
(* its buffers, to exactly what it denotes, and the recursive descent owns *)
(* every block it allocates and nests no deeper than its limit.            *)
(***************************************************************************)
EXTENDS JsonParse, JsonString, SumProofs, SequenceTheorems

-----------------------------------------------------------------------------
(* Texts. *)

(* f holds the first n of the sequences s, one behind the other. *)
IsFlat(f, s, n) == f = [i \in 1 .. n |-> IF i = 1 THEN s[i] ELSE f[i - 1] \o s[i]]

LEMMA FlatExists == ASSUME NEW s, NEW n \in Nat PROVE \E f : IsFlat(f, s, n)
<1> DEFINE T == {m \in Nat : \E f : IsFlat(f, s, m)}
<1>1. 0 \in T
  <2> DEFINE f == [i \in 1 .. 0 |-> IF i = 1 THEN s[i] ELSE s[i]]
  <2>1. \A i \in 1 .. 0 : FALSE
    OBVIOUS
  <2>2. IsFlat(f, s, 0)
    BY <2>1 DEF IsFlat
  <2> QED
    BY <2>2
<1>2. ASSUME NEW m \in Nat, m \in T PROVE m + 1 \in T
  <2>1. PICK f : IsFlat(f, s, m)
    BY <1>2
  <2> DEFINE g == [i \in 1 .. m + 1 |-> IF i = 1 THEN s[i] ELSE f[i - 1] \o s[i]]
  <2>2. ASSUME NEW i \in 1 .. m PROVE g[i] = f[i]
    <3>1. f[i] = IF i = 1 THEN s[i] ELSE f[i - 1] \o s[i]
      BY <2>1, Zenon DEF IsFlat
    <3>2. i \in 1 .. m + 1
      OBVIOUS
    <3>3. g[i] = IF i = 1 THEN s[i] ELSE f[i - 1] \o s[i]
      BY <3>2, Zenon
    <3> QED
      BY <3>1, <3>3, Zenon
  <2>3. \A i \in 1 .. m + 1 : i # 1 => i - 1 \in 1 .. m
    OBVIOUS
  <2>4. IsFlat(g, s, m + 1)
    BY <2>2, <2>3 DEF IsFlat
  <2> QED
    BY <2>4
<1> HIDE DEF T
<1>3. n \in T
  BY <1>1, <1>2, Induction
<1> QED
  BY <1>3 DEF T

LEMMA FlatType ==
  ASSUME NEW s \in Seq(Seq(Int)), NEW f, IsFlat(f, s, Len(s))
  PROVE  \A i \in 1 .. Len(s) : f[i] \in Seq(Int)
<1>1. PICK n : n = Len(s) /\ n \in Nat
  OBVIOUS
<1>2. \A i \in 1 .. n : s[i] \in Seq(Int)
  BY <1>1
<1> DEFINE T == {m \in Nat : m \in 1 .. n => f[m] \in Seq(Int)}
<1>3. 0 \in T
  OBVIOUS
<1>4. ASSUME NEW m \in Nat, m \in T PROVE m + 1 \in T
  <2> SUFFICES ASSUME m + 1 \in 1 .. n PROVE f[m + 1] \in Seq(Int)
    OBVIOUS
  <2>1. f[m + 1] = IF m + 1 = 1 THEN s[m + 1] ELSE f[(m + 1) - 1] \o s[m + 1]
    BY <1>1, Zenon DEF IsFlat
  <2>2. CASE m = 0
    BY <1>2, <2>1, <2>2
  <2>3. CASE m # 0
    <3>1. m \in 1 .. n /\ (m + 1) - 1 = m /\ m + 1 # 1
      BY <1>1, <2>3
    <3>2. f[m] \in Seq(Int) /\ s[m + 1] \in Seq(Int)
      BY <1>2, <1>4, <3>1
    <3> QED
      BY <2>1, <3>1, <3>2, ConcatProperties
  <2> QED
    BY <2>2, <2>3
<1> HIDE DEF T
<1>5. Nat \subseteq T
  BY <1>3, <1>4, Induction
<1> QED
  BY <1>1, <1>5 DEF T

LEMMA FlattenType == ASSUME NEW s \in Seq(Seq(Int)) PROVE FlattenSeq(s) \in Seq(Int)
<1>1. CASE Len(s) = 0
  <2>1. s = << >>
    BY <1>1
  <2> QED
    BY <1>1, <2>1 DEF FlattenSeq
<1>2. CASE Len(s) # 0
  <2> DEFINE n == Len(s)
             f == CHOOSE g : IsFlat(g, s, n)
  <2>1. n \in Nat /\ n \in 1 .. n
    BY <1>2
  <2>2. IsFlat(f, s, n)
    <3> HIDE DEF n
    <3> QED
      BY <2>1, FlatExists, Zenon
  <2>3. FlattenSeq(s) = f[n]
    BY <1>2 DEF FlattenSeq, IsFlat
  <2> HIDE DEF f
  <2> QED
    BY <2>1, <2>2, <2>3, FlatType
<1> QED
  BY <1>1, <1>2

LEMMA RawType == Raw \in Seq([cp : Int, bytes : Seq(Int)])
BY StringAssumption, SMT

LEMMA PieceConstants ==
  /\ \A b \in Escapes : b \in Nat /\ b > 0 /\ b < 256 /\ b # LetterU
  /\ \A u \in Units : u \in Nat /\ u < 65536
BY StringAssumption, SMT DEF LetterU

LEMMA AnyByteType == \A b \in AnyBytes : b \in Int
BY StringAssumption, SMT

LEMMA BytesType == ASSUME NEW p \in Pieces \cup BytePieces PROVE Bytes(p) \in Seq(Int)
<1>1. ASSUME NEW n \in Nat, NEW letter \in Int PROVE HexDigits(n, letter) \in Seq(Int)
  <2>1. \A d \in Int : Hex(d, letter) \in Int
    BY DEF Hex
  <2>2. n \div 4096 \in Int /\ (n \div 256) % 16 \in Int /\ (n \div 16) % 16 \in Int /\ n % 16 \in Int
    OBVIOUS
  <2> QED
    BY <2>1, <2>2 DEF HexDigits
<1>2. CASE p.kind = "raw"
  <2>1. p.n \in 1 .. Len(Raw)
    BY <1>2 DEF Pieces, BytePieces
  <2>2. Raw[p.n] \in [cp : Int, bytes : Seq(Int)]
    BY <2>1, RawType, ElementOfSeq, Zenon
  <2>3. Raw[p.n].bytes \in Seq(Int)
    BY <2>2
  <2> QED
    BY <1>2, <2>3 DEF Bytes
<1>3. CASE p.kind = "esc"
  BY <1>3, PieceConstants, SMT DEF Pieces, BytePieces, Bytes, Backslash
<1>4. CASE p.kind \in {"unit", "UNIT"}
  <2>1. p.n \in Nat
    BY <1>4, PieceConstants, SMT DEF Pieces, BytePieces
  <2>2. <<Backslash, LetterU>> \in Seq(Int)
    BY DEF Backslash, LetterU
  <2>3. HexDigits(p.n, 97) \in Seq(Int) /\ HexDigits(p.n, 65) \in Seq(Int)
    <3>1. 97 \in Int /\ 65 \in Int
      OBVIOUS
    <3> QED
      BY <1>1, <2>1, <3>1, Zenon
  <2>4. /\ <<Backslash, LetterU>> \o HexDigits(p.n, 97) \in Seq(Int)
        /\ <<Backslash, LetterU>> \o HexDigits(p.n, 65) \in Seq(Int)
    BY <2>2, <2>3, ConcatProperties
  <2> QED
    BY <1>4, <2>4 DEF Bytes
<1>5. CASE p.kind = "cut"
  BY <1>5 DEF Bytes, Backslash, LetterU
<1>6. CASE p.kind = "byte"
  <2>1. p.n \in Int
    BY <1>6, AnyByteType, SMT DEF Pieces, BytePieces
  <2> QED
    BY <1>6, <2>1 DEF Bytes
<1>7. p.kind \in {"raw", "esc", "unit", "UNIT", "cut", "byte"}
  BY DEF Pieces, BytePieces
<1> QED
  BY <1>2, <1>3, <1>4, <1>5, <1>6, <1>7

LEMMA PiecesType ==
  ASSUME StringInit
  PROVE  /\ src \in Seq(Pieces \cup BytePieces)
         /\ [n \in 1 .. Len(src) |-> Bytes(src[n])] \in Seq(Seq(Int))
<1>1. src \in Seq(Pieces \cup BytePieces)
  <2>1. CASE src \in SeqOf(Pieces, MaxPieces)
    <3>1. PICK m \in 0 .. MaxPieces : src \in [1 .. m -> Pieces]
      BY <2>1 DEF SeqOf
    <3> QED
      BY <3>1
  <2>2. CASE src \in SeqOf(BytePieces, MaxBytes)
    <3>1. PICK m \in 0 .. MaxBytes : src \in [1 .. m -> BytePieces]
      BY <2>2 DEF SeqOf
    <3> QED
      BY <3>1
  <2> QED
    BY <2>1, <2>2 DEF StringInit
<1>2. \A n \in 1 .. Len(src) : Bytes(src[n]) \in Seq(Int)
  BY <1>1, BytesType
<1>3. Len(src) \in Nat
  BY <1>1
<1> QED
  BY <1>1, <1>2, <1>3

LEMMA OnlyPieces == ASSUME StringInit, OfPieces PROVE src \in Seq(Pieces) /\ CutShort(src)
<1>1. CASE src \in SeqOf(Pieces, MaxPieces) /\ CutShort(src)
  <2>1. PICK m \in 0 .. MaxPieces : src \in [1 .. m -> Pieces]
    BY <1>1 DEF SeqOf
  <2> QED
    BY <1>1, <2>1
<1>2. CASE src \in SeqOf(BytePieces, MaxBytes)
  <2>1. PICK m \in 0 .. MaxBytes : src \in [1 .. m -> BytePieces]
    BY <1>2 DEF SeqOf
  <2>2. m = 0
    <3>1. ASSUME m # 0 PROVE FALSE
      <4>1. 1 \in 1 .. Len(src) /\ src[1] \in BytePieces
        BY <2>1, <3>1
      <4> QED
        BY <4>1 DEF OfPieces, BytePieces
    <3> QED
      BY <3>1
  <2>3. src = << >> /\ Len(src) = 0
    BY <2>1, <2>2
  <2> QED
    BY <2>3 DEF CutShort
<1> QED
  BY <1>1, <1>2 DEF StringInit

(* A text is bytes that end in NUL. *)
IsText(m) == m \in Seq(Int) /\ Len(m) >= 2 /\ m[Len(m)] = 0

LEMMA TextMade == StringInit => IsText(mem)
<1> SUFFICES ASSUME StringInit PROVE IsText(mem)
  OBVIOUS
<1> DEFINE s == [n \in 1 .. Len(src) |-> Bytes(src[n])]
           b == FlattenSeq(s)
<1>1. s \in Seq(Seq(Int))
  BY PiecesType
<1>2. b \in Seq(Int)
  <2> HIDE DEF s
  <2> QED
    BY <1>1, FlattenType
<1>3. PICK rest \in {<<Quote, 0>>, <<Quote, 48, 48, 0>>, <<0>>} : mem = (<<Quote>> \o b) \o rest
  BY DEF StringInit
<1> HIDE DEF b
<1>4. rest \in Seq(Int) /\ Len(rest) >= 1 /\ rest[Len(rest)] = 0
  <2>1. CASE rest = <<Quote, 0>>
    BY <2>1 DEF Quote
  <2>2. CASE rest = <<Quote, 48, 48, 0>>
    BY <2>2 DEF Quote
  <2>3. CASE rest = <<0>>
    BY <2>3
  <2> QED
    BY <2>1, <2>2, <2>3
<1>5. <<Quote>> \in Seq(Int) /\ Len(<<Quote>>) = 1
  BY DEF Quote
<1>6. PICK c : c = <<Quote>> \o b
  OBVIOUS
<1>7. c \in Seq(Int) /\ Len(c) >= 1
  BY <1>2, <1>5, <1>6, ConcatProperties
<1>8. mem \in Seq(Int) /\ Len(mem) = Len(c) + Len(rest) /\ mem[Len(c) + Len(rest)] = rest[Len(rest)]
  BY <1>3, <1>4, <1>6, <1>7, ConcatProperties
<1> QED
  BY <1>4, <1>7, <1>8 DEF IsText

-----------------------------------------------------------------------------
(* Quoted strings. *)

(* S is where the turns of the loop of skip_quotes() began, on the way to  *)
(* the position e: none at a quote or at the NUL, each one byte behind the *)
(* one before it, or two behind a backslash.                               *)
Turns(S, m, e) ==
  /\ S \subseteq 2 .. e /\ 2 \in S /\ e \in S
  /\ \A p \in S : p < e => /\ m[p] # Quote /\ m[p] # 0
                           /\ IF m[p] = Backslash THEN p + 2 \in S ELSE p + 1 \in S

(* process_string() is always where a turn of skip_quotes() began, though  *)
(* its own turns are longer: that is why it cannot pass the closing quote. *)
StringInv ==
  /\ IsText(mem) /\ ptr \in 2 .. Len(mem) /\ end \in Nat
  /\ \E T : out \in Seq(T)
  /\ stringPc \in {"skip", "process", "done", "failed"}
  /\ stringPc = "skip" => end = 0 /\ out = << >> /\ \E S : Turns(S, mem, ptr)
  /\ stringPc \in {"process", "done"} => end # 0
  /\ end # 0 => /\ mem[end] = Quote /\ Len(out) <= ptr - 2 /\ end <= Len(mem)
                /\ \E S : ptr \in S /\ Turns(S, mem, end)
  /\ stringPc = "done" => ptr = end

(* Behind a turn at p that is neither the last nor at a backslash there is *)
(* one at p + 1; behind a backslash, one at p + 2.                         *)
LEMMA TurnStep ==
  ASSUME NEW m, NEW e \in Nat, m[e] = Quote, NEW S, Turns(S, m, e), NEW p \in S, m[p] # Quote
  PROVE  /\ p \in Nat /\ p + 1 <= e /\ m[p] # 0
         /\ IF m[p] = Backslash THEN p + 2 \in S /\ p + 2 <= e ELSE p + 1 \in S
<1>1. p \in 2 .. e /\ p # e
  BY DEF Turns
<1>2. p < e /\ p \in Nat
  BY <1>1
<1> QED
  BY <1>1, <1>2 DEF Turns

(* Four hexadecimal digits are four turns. *)
LEMMA DigitsAreTurns ==
  ASSUME StringInv, end # 0, NEW S, Turns(S, mem, end), NEW p \in S, parse_utf16_hex(p) # -1
  PROVE  p + 4 \in S /\ p + 4 <= end
<1>1. p \in Nat /\ end \in Nat /\ mem[end] = Quote
  BY DEF Turns, StringInv
<1>2. \A c : hex_char_to_int(c) # -1 => c # Quote /\ c # Backslash
  <2>1. hex_char_to_int(Quote) = -1 /\ hex_char_to_int(Backslash) = -1
    BY DEF hex_char_to_int, Quote, Backslash
  <2> QED
    BY <2>1
<1>3. \A n \in 0 .. 3 : hex_char_to_int(mem[p + n]) # -1
  BY DEF parse_utf16_hex
<1>4. \A n \in 0 .. 3 : mem[p + n] # Quote /\ mem[p + n] # Backslash
  BY <1>2, <1>3, Zenon
<1>5. p + 1 \in S
  <2>1. p + 0 = p
    BY <1>1
  <2>2. mem[p] # Quote /\ mem[p] # Backslash
    BY <1>4, <2>1
  <2> QED
    BY <1>1, <2>2, TurnStep
<1>6. p + 2 \in S
  <2>1. mem[p + 1] # Quote /\ mem[p + 1] # Backslash
    BY <1>4
  <2>2. (p + 1) + 1 \in S
    BY <1>1, <1>5, <2>1, TurnStep
  <2> QED
    BY <1>1, <2>2
<1>7. p + 3 \in S
  <2>1. mem[p + 2] # Quote /\ mem[p + 2] # Backslash
    BY <1>4
  <2>2. (p + 2) + 1 \in S
    BY <1>1, <1>6, <2>1, TurnStep
  <2> QED
    BY <1>1, <2>2
<1>8. p + 4 \in S
  <2>1. mem[p + 3] # Quote /\ mem[p + 3] # Backslash
    BY <1>4
  <2>2. (p + 3) + 1 \in S
    BY <1>1, <1>7, <2>1, TurnStep
  <2> QED
    BY <1>1, <2>2
<1> QED
  BY <1>1, <1>8 DEF Turns

(* A code point takes at most four bytes. *)
LEMMA EncodedLength ==
  ASSUME NEW cp \in Int PROVE \E T : EncodeUtf8(cp) \in Seq(T) /\ Len(EncodeUtf8(cp)) <= 4
<1>1. CASE cp < 128
  <2>1. EncodeUtf8(cp) = <<cp>>
    BY <1>1 DEF EncodeUtf8
  <2>2. <<cp>> \in Seq({cp}) /\ Len(<<cp>>) <= 4
    OBVIOUS
  <2>3. EncodeUtf8(cp) \in Seq({cp}) /\ Len(EncodeUtf8(cp)) <= 4
    BY <2>1, <2>2, Zenon
  <2> QED
    BY <2>3, Zenon
<1>2. CASE cp >= 128 /\ cp < 2048
  <2>1. PICK a, b : EncodeUtf8(cp) = <<a, b>>
    BY <1>2 DEF EncodeUtf8
  <2>2. <<a, b>> \in Seq({a, b}) /\ Len(<<a, b>>) <= 4
    OBVIOUS
  <2>3. EncodeUtf8(cp) \in Seq({a, b}) /\ Len(EncodeUtf8(cp)) <= 4
    BY <2>1, <2>2, Zenon
  <2> QED
    BY <2>3, Zenon
<1>3. CASE cp >= 2048 /\ cp < 65536
  <2>1. PICK a, b, c : EncodeUtf8(cp) = <<a, b, c>>
    BY <1>3 DEF EncodeUtf8
  <2>2. <<a, b, c>> \in Seq({a, b, c}) /\ Len(<<a, b, c>>) <= 4
    OBVIOUS
  <2>3. EncodeUtf8(cp) \in Seq({a, b, c}) /\ Len(EncodeUtf8(cp)) <= 4
    BY <2>1, <2>2, Zenon
  <2> QED
    BY <2>3, Zenon
<1>4. CASE cp >= 65536
  <2>1. PICK a, b, c, d : EncodeUtf8(cp) = <<a, b, c, d>>
    BY <1>4 DEF EncodeUtf8
  <2>2. <<a, b, c, d>> \in Seq({a, b, c, d}) /\ Len(<<a, b, c, d>>) <= 4
    OBVIOUS
  <2>3. EncodeUtf8(cp) \in Seq({a, b, c, d}) /\ Len(EncodeUtf8(cp)) <= 4
    BY <2>1, <2>2, Zenon
  <2> QED
    BY <2>3, Zenon
<1> QED
  BY <1>1, <1>2, <1>3, <1>4

(* The search. *)
LEMMA SkipPreserves == ASSUME StringInv, FoundEnd \/ SkipCharacter PROVE StringInv'
<1>1. /\ IsText(mem) /\ ptr \in 2 .. Len(mem) /\ end = 0 /\ out = << >> /\ stringPc = "skip"
      /\ mem' = mem /\ out' = out
  BY DEF StringInv, FoundEnd, SkipCharacter
<1>2. PICK S : Turns(S, mem, ptr)
  BY <1>1 DEF StringInv
<1>3. Len(mem) \in Nat /\ ptr \in Nat /\ mem[Len(mem)] = 0 /\ out \in Seq({})
  BY <1>1 DEF IsText
<1>4. CASE FoundEnd
  <2>1. end' = ptr /\ ptr' = 2 /\ stringPc' = "process" /\ mem[ptr] = Quote
    BY <1>4 DEF FoundEnd
  <2>2. 2 \in S
    BY <1>2 DEF Turns
  <2>3. /\ mem'[end'] = Quote /\ Len(out') <= ptr' - 2 /\ end' <= Len(mem') /\ end' # 0
        /\ ptr' \in 2 .. Len(mem') /\ end' \in Nat
    BY <1>1, <1>3, <2>1
  <2>4. \E U : ptr' \in U /\ Turns(U, mem', end')
    BY <1>1, <1>2, <2>1, <2>2
  <2> QED
    BY <1>1, <1>3, <2>1, <2>3, <2>4 DEF StringInv
<1>5. CASE SkipCharacter
  <2> DEFINE next == IF mem[ptr] = Backslash THEN ptr + 1 ELSE ptr
  <2>1. /\ mem[ptr] # Quote /\ end' = end
        /\ IF mem[next] = 0 THEN stringPc' = "failed" /\ ptr' = next
           ELSE ptr' = next + 1 /\ stringPc' = stringPc
    BY <1>5 DEF SkipCharacter
  <2>2. mem[ptr] = Backslash => ptr < Len(mem)
    BY <1>1, <1>3 DEF Backslash
  <2>3. next \in ptr .. Len(mem)
    BY <1>1, <1>3, <2>2
  <2>4. CASE mem[next] = 0
    <3>1. ptr' \in 2 .. Len(mem')
      BY <1>1, <1>3, <2>1, <2>3, <2>4
    <3> QED
      BY <1>1, <1>3, <2>1, <2>4, <3>1 DEF StringInv
  <2>5. CASE mem[next] # 0
    <3>1. next < Len(mem) /\ ptr' = next + 1 /\ stringPc' = "skip"
      BY <1>1, <1>3, <2>1, <2>3, <2>5
    <3> DEFINE U == S \cup {ptr'}
    <3>2. ptr' = IF mem[ptr] = Backslash THEN ptr + 2 ELSE ptr + 1
      BY <1>3, <3>1
    <3>3. mem[ptr] # 0
      BY <2>5 DEF Backslash
    <3>4. ptr' \in 2 .. Len(mem)
      BY <1>1, <1>3, <2>3, <3>1
    <3>5. U \subseteq 2 .. ptr' /\ 2 \in U /\ ptr' \in U
      BY <1>2, <1>3, <3>2 DEF Turns
    <3>6. \A p \in U : p < ptr' => p \in S /\ (p < ptr \/ p = ptr)
      BY <1>2, <1>3 DEF Turns
    <3>7. ASSUME NEW p \in U, p < ptr'
          PROVE  /\ mem[p] # Quote /\ mem[p] # 0
                 /\ IF mem[p] = Backslash THEN p + 2 \in U ELSE p + 1 \in U
      <4>1. CASE p = ptr
        BY <2>1, <3>2, <3>3, <4>1
      <4>2. CASE p \in S /\ p < ptr
        BY <1>2, <4>2 DEF Turns
      <4> QED
        BY <3>6, <3>7, <4>1, <4>2
    <3> HIDE DEF U
    <3>8. Turns(U, mem, ptr')
      BY <3>5, <3>7 DEF Turns
    <3> QED
      BY <1>1, <1>3, <2>1, <3>1, <3>4, <3>8 DEF StringInv
  <2> QED
    BY <2>4, <2>5
<1> QED
  BY <1>4, <1>5

(* A turn of the decoder that reads r bytes and writes no more than r. *)
LEMMA WritePreserves ==
  ASSUME StringInv, stringPc = "process", mem' = mem, end' = end,
         NEW b, NEW U, b \in Seq(U), NEW r \in Nat, Len(b) <= r, Write(b, r),
         NEW S, Turns(S, mem, end), ptr + r \in S
  PROVE  StringInv'
<1>1. PICK T : out \in Seq(T)
  BY DEF StringInv
<1>2. /\ IsText(mem) /\ ptr \in 2 .. Len(mem) /\ end \in Nat /\ end # 0 /\ end <= Len(mem)
      /\ mem[end] = Quote /\ Len(out) <= ptr - 2
  BY DEF StringInv
<1>3. out' = out \o b /\ ptr' = ptr + r /\ stringPc' = "process"
  BY DEF Write
<1>4. out \in Seq(T \cup U) /\ b \in Seq(T \cup U)
  <2>1. \A A, B, q : q \in Seq(A) /\ A \subseteq B => q \in Seq(B)
    OBVIOUS
  <2>2. T \subseteq T \cup U /\ U \subseteq T \cup U
    OBVIOUS
  <2> QED
    BY <1>1, <2>1, <2>2, Zenon
<1>5. out' \in Seq(T \cup U) /\ Len(out') = Len(out) + Len(b)
  BY <1>3, <1>4, ConcatProperties
<1>6. Len(out) \in Nat /\ Len(b) \in Nat /\ Len(mem) \in Nat /\ ptr \in Nat
  BY <1>2, <1>4 DEF IsText
<1>7. ptr' \in 2 .. end
  BY <1>3 DEF Turns
<1>8. Len(out') <= ptr' - 2 /\ ptr' \in 2 .. Len(mem')
  BY <1>2, <1>3, <1>5, <1>6, <1>7
<1>9. ptr' \in S /\ Turns(S, mem', end')
  BY <1>3
<1> QED
  BY <1>2, <1>3, <1>5, <1>8, <1>9 DEF StringInv

LEMMA HexType == \A p : parse_utf16_hex(p) \in Int
<1>1. \A c : hex_char_to_int(c) \in Int
  BY DEF hex_char_to_int
<1> QED
  BY <1>1 DEF parse_utf16_hex

LEMMA Surrogates ==
  \A u \in Int : (IsLead(u) => u # -1 /\ ~IsTrail(u)) /\ (IsTrail(u) => u # -1)
<1>1. \A u \in Int : IsLead(u) => 0 <= u /\ u <= 56319
  BY DEF IsLead
<1>2. \A u \in Int : IsTrail(u) => 56320 <= u
  BY DEF IsTrail
<1> QED
  BY <1>1, <1>2

(* An escape \uXXXX, or two of them for a surrogate pair. *)
LEMMA EscapePreserves ==
  ASSUME StringInv, stringPc = "process", mem' = mem, end' = end, parse_utf16,
         NEW S, Turns(S, mem, end), ptr \in S, mem[ptr] = Backslash
  PROVE  StringInv'
<1> DEFINE cp == parse_utf16_hex(ptr + 2)
           trail == parse_utf16_hex(ptr + 8)
           both == (cp - 55296) * 1024 + (trail - 56320) + 65536
<1>1. end \in Nat /\ end # 0 /\ mem[end] = Quote /\ ptr \in Nat
  BY DEF StringInv, IsText
<1>2. ptr + 2 \in S
  <2>1. mem[ptr] # Quote
    BY DEF Quote, Backslash
  <2> QED
    BY <1>1, <2>1, TurnStep
<1>3. CASE Refuse
  BY <1>1, <1>3 DEF Refuse, StringInv
<1>4. cp \in Int /\ trail \in Int
  BY HexType
<1>5. cp # -1 => ptr + 6 \in S
  <2>1. cp # -1 => (ptr + 2) + 4 \in S
    BY <1>1, <1>2, DigitsAreTurns
  <2> QED
    BY <1>1, <2>1
<1>6. CASE cp # -1 /\ Write(EncodeUtf8(cp), 6)
  <2>1. PICK T : EncodeUtf8(cp) \in Seq(T) /\ Len(EncodeUtf8(cp)) <= 4
    BY <1>4, EncodedLength
  <2>2. PICK b : b = EncodeUtf8(cp)
    OBVIOUS
  <2>3. b \in Seq(T) /\ Len(b) <= 6 /\ Write(b, 6) /\ ptr + 6 \in S
    BY <1>5, <1>6, <2>1, <2>2
  <2> QED
    BY <2>3, WritePreserves
<1>7. CASE /\ cp # -1 /\ trail # -1 /\ mem[ptr + 6] = Backslash /\ Write(EncodeUtf8(both), 12)
  <2>1. both \in Int
    BY <1>4
  <2>2. PICK T : EncodeUtf8(both) \in Seq(T) /\ Len(EncodeUtf8(both)) <= 4
    BY <2>1, EncodedLength
  <2>3. (ptr + 6) + 2 \in S
    <3>1. mem[ptr + 6] # Quote /\ ptr + 6 \in S
      BY <1>5, <1>7 DEF Quote, Backslash
    <3> QED
      BY <1>1, <1>7, <3>1, TurnStep
  <2>4. ptr + 8 \in S
    BY <1>1, <2>3
  <2>5. (ptr + 8) + 4 \in S
    BY <1>1, <1>7, <2>4, DigitsAreTurns
  <2>6. PICK b : b = EncodeUtf8(both)
    OBVIOUS
  <2>7. b \in Seq(T) /\ Len(b) <= 12 /\ Write(b, 12) /\ ptr + 12 \in S
    BY <1>1, <1>7, <2>2, <2>5, <2>6
  <2> QED
    BY <2>7, WritePreserves
<1>8. /\ IsLead(cp) => cp # -1 /\ ~IsTrail(cp)
      /\ IsTrail(trail) => trail # -1
  <2> HIDE DEF cp, trail
  <2> QED
    BY <1>4, Surrogates, Zenon
<1>9. \/ Refuse
      \/ cp # -1 /\ Write(EncodeUtf8(cp), 6)
      \/ /\ cp # -1 /\ trail # -1 /\ mem[ptr + 6] = Backslash /\ Write(EncodeUtf8(both), 12)
  BY <1>8 DEF parse_utf16
<1> QED
  BY <1>3, <1>6, <1>7, <1>9

(* A turn of the decoder. *)
LEMMA ProcessPreserves == ASSUME StringInv, process_string PROVE StringInv'
<1>1. /\ stringPc = "process" /\ mem' = mem /\ end' = end /\ mem[ptr] # 0 /\ ptr - 2 < end - 2
      /\ end \in Nat /\ end # 0 /\ mem[end] = Quote /\ ptr \in Nat /\ mem[ptr] \in Int
  <2>1. stringPc = "process" /\ mem' = mem /\ end' = end /\ mem[ptr] # 0 /\ ptr - 2 < end - 2
    BY DEF process_string, InsideString
  <2>2. /\ mem \in Seq(Int) /\ ptr \in 2 .. Len(mem) /\ Len(mem) \in Nat
        /\ end \in Nat /\ end # 0 /\ mem[end] = Quote
    BY <2>1 DEF StringInv, IsText
  <2>3. ptr \in Nat /\ ptr \in 1 .. Len(mem)
    BY <2>2
  <2>4. mem[ptr] \in Int
    BY <2>2, <2>3, ElementOfSeq
  <2> QED
    BY <2>1, <2>2, <2>3, <2>4
<1>2. PICK S : ptr \in S /\ Turns(S, mem, end)
  BY <1>1 DEF StringInv
<1>3. mem[ptr] # Quote
  BY <1>1, <1>2 DEF Turns
<1>4. CASE Refuse
  BY <1>1, <1>4 DEF Refuse, StringInv
<1>5. CASE mem[ptr] = Backslash /\ parse_utf16
  BY <1>1, <1>2, <1>5, EscapePreserves
<1>6. CASE mem[ptr] = Backslash /\ Write(<<Unescaped[mem[ptr + 1]]>>, 2)
  <2>1. PICK c : c = Unescaped[mem[ptr + 1]]
    OBVIOUS
  <2>2. PICK b : b = <<c>>
    OBVIOUS
  <2>3. b \in Seq({c}) /\ Len(b) <= 2
    BY <2>2
  <2>4. Write(b, 2)
    BY <1>6, <2>1, <2>2
  <2>5. ptr + 2 \in S
    BY <1>1, <1>2, <1>3, <1>6, TurnStep
  <2> QED
    BY <1>1, <1>2, <2>3, <2>4, <2>5, WritePreserves
<1>7. CASE mem[ptr] # Backslash /\ Write(<<mem[ptr]>>, 1)
  <2>1. PICK b : b = <<mem[ptr]>>
    OBVIOUS
  <2>2. b \in Seq(Int) /\ Len(b) <= 1
    BY <1>1, <2>1
  <2>3. ptr + 1 \in S
    BY <1>1, <1>2, <1>3, <1>7, TurnStep
  <2> QED
    BY <1>1, <1>2, <1>7, <2>1, <2>2, <2>3, WritePreserves
<1>8. \/ Refuse
      \/ mem[ptr] = Backslash /\ parse_utf16
      \/ mem[ptr] = Backslash /\ Write(<<Unescaped[mem[ptr + 1]]>>, 2)
      \/ mem[ptr] # Backslash /\ Write(<<mem[ptr]>>, 1)
  <2>1. CASE mem[ptr] = Backslash
    <3>1. ~(mem[ptr] < 32)
      BY <2>1 DEF Backslash
    <3>2. LetterU \notin DOMAIN Unescaped \/ LetterU \in DOMAIN Unescaped
      OBVIOUS
    <3> QED
      BY <2>1, <3>1 DEF process_string
  <2>2. CASE mem[ptr] # Backslash /\ mem[ptr] < 32
    BY <1>1, <2>2 DEF process_string
  <2>3. CASE mem[ptr] # Backslash /\ mem[ptr] >= 32
    BY <1>1, <2>3 DEF process_string
  <2> QED
    BY <1>1, <2>1, <2>2, <2>3
<1> QED
  BY <1>4, <1>5, <1>6, <1>7, <1>8

(* The search and the decoder together. *)
LEMMA StringSafe == StringSpec => []StringInv
<1>1. StringInit => StringInv
  <2> SUFFICES ASSUME StringInit PROVE StringInv
    OBVIOUS
  <2>1. IsText(mem) /\ ptr = 2 /\ end = 0 /\ out = << >> /\ stringPc = "skip"
    BY TextMade DEF StringInit
  <2>2. ptr \in 2 .. Len(mem) /\ out \in Seq({})
    BY <2>1 DEF IsText
  <2>3. Turns({2}, mem, ptr)
    BY <2>1 DEF Turns
  <2> QED
    BY <2>1, <2>2, <2>3 DEF StringInv
<1>2. ASSUME StringInv, [StringNext]_stringVars PROVE StringInv'
  <2>1. CASE UNCHANGED stringVars
    BY <1>2, <2>1 DEF stringVars, StringInv
  <2>2. CASE Finish
    <3>1. /\ stringPc = "process" /\ stringPc' = "done" /\ ~(mem[ptr] # 0 /\ ptr - 2 < end - 2)
          /\ mem' = mem /\ ptr' = ptr /\ end' = end /\ out' = out
      BY <2>2 DEF Finish, InsideString
    <3>2. PICK S : ptr \in S /\ Turns(S, mem, end)
      BY <1>2, <3>1 DEF StringInv
    <3>3. ptr \in Nat /\ end \in Nat
      BY <1>2 DEF StringInv, IsText
    <3>4. ptr <= end /\ (ptr < end => mem[ptr] # 0)
      BY <3>2 DEF Turns
    <3>5. ptr = end
      BY <3>1, <3>3, <3>4
    <3> QED
      BY <1>2, <3>1, <3>5 DEF StringInv
  <2>3. CASE StringStopped
    BY <2>1, <2>3 DEF StringStopped
  <2> QED
    BY <1>2, <2>1, <2>2, <2>3, SkipPreserves, ProcessPreserves DEF StringNext
<1> QED
  BY <1>1, <1>2, PTL DEF StringSpec

(* Whatever bytes a string is made of: skip_quotes() does not pass the NUL *)
(* of the text, and process_string() stops exactly at the quote it found,  *)
(* writing no more bytes than it read.                                     *)
THEOREM StringStaysInside == StringSpec => []StaysInBuffers
<1>1. StringInv => StaysInBuffers
  <2> SUFFICES ASSUME StringInv PROVE StaysInBuffers
    OBVIOUS
  <2>1. ptr \in 2 .. Len(mem) /\ Len(mem) \in Nat
    BY DEF StringInv, IsText
  <2>2. ASSUME end # 0 PROVE ptr <= end /\ Len(out) <= ptr - 2
    BY <2>2 DEF StringInv, Turns
  <2>3. stringPc = "done" => ptr = end
    BY DEF StringInv
  <2> QED
    BY <2>1, <2>2, <2>3 DEF StaysInBuffers
<1> QED
  BY <1>1, StringSafe, PTL

-----------------------------------------------------------------------------
(* Reading from left to right. *)

ReadAt(f, v, w, i) ==
  IF i > Len(v) THEN << >> ELSE IF v[i] = -1 THEN <<-1>> ELSE <<v[i]>> \o f[i + w[i]]

(* f holds what is read from each place on, beginning with place m. *)
IsReading(f, v, w, m) == f = [i \in m .. Len(v) + 1 |-> ReadAt(f, v, w, i)]

(* Every value lies inside. *)
Advances(v, w) == \A i \in 1 .. Len(v) : v[i] # -1 => w[i] \in 1 .. Len(v) + 1 - i

Legible(v, w) == v \in Seq(Int) /\ Advances(v, w)

LEMMA ReadingExists ==
  ASSUME NEW v \in Seq(Int), NEW w, Advances(v, w)
  PROVE  \E f : IsReading(f, v, w, 1)
<1>1. PICK n : n = Len(v) /\ n \in Nat
  OBVIOUS
<1> DEFINE T == {m \in Nat : m <= n => \E f : IsReading(f, v, w, n + 1 - m)}
<1>2. 0 \in T
  <2> DEFINE f == [i \in n + 1 .. n + 1 |-> << >>]
  <2>1. \A i \in n + 1 .. n + 1 : ReadAt(f, v, w, i) = << >>
    BY <1>1 DEF ReadAt
  <2>2. f = [i \in n + 1 .. n + 1 |-> ReadAt(f, v, w, i)]
    BY <2>1, Zenon
  <2> HIDE DEF f
  <2>3. IsReading(f, v, w, n + 1)
    BY <1>1, <2>2 DEF IsReading
  <2>4. n + 1 - 0 = n + 1
    BY <1>1
  <2> QED
    BY <2>3, <2>4
<1>3. ASSUME NEW m \in Nat, m \in T PROVE m + 1 \in T
  <2> SUFFICES ASSUME m + 1 <= n PROVE \E f : IsReading(f, v, w, n + 1 - (m + 1))
    OBVIOUS
  <2>1. PICK f : IsReading(f, v, w, n + 1 - m)
    BY <1>1, <1>3
  <2>2. PICK a : a = n - m /\ a \in Nat /\ n + 1 - (m + 1) = a /\ n + 1 - m = a + 1 /\ a >= 1
    BY <1>1
  <2> DEFINE g == [i \in a .. n + 1 |-> ReadAt(f, v, w, i)]
  <2>3. ASSUME NEW i \in a + 1 .. n + 1 PROVE g[i] = f[i]
    <3>1. f[i] = ReadAt(f, v, w, i)
      BY <1>1, <2>1, <2>2, Zenon DEF IsReading
    <3>2. i \in a .. n + 1
      BY <1>1, <2>2
    <3>3. g[i] = ReadAt(f, v, w, i)
      BY <3>2, Zenon
    <3> QED
      BY <3>1, <3>3, Zenon
  <2>4. ASSUME NEW i \in a .. n + 1 PROVE ReadAt(f, v, w, i) = ReadAt(g, v, w, i)
    <3> HIDE DEF g
    <3>1. CASE i > n \/ v[i] = -1
      BY <1>1, <3>1 DEF ReadAt
    <3>2. CASE ~(i > n) /\ v[i] # -1
      <4>1. i \in 1 .. n
        BY <1>1, <2>2, <3>2
      <4>2. w[i] \in 1 .. n + 1 - i
        BY <1>1, <3>2, <4>1 DEF Advances
      <4>3. i + w[i] \in a + 1 .. n + 1
        <5>1. PICK x : x = w[i] /\ x \in 1 .. n + 1 - i
          BY <4>2
        <5> QED
          BY <1>1, <2>2, <4>1, <5>1, SMTT(30)
      <4>4. g[i + w[i]] = f[i + w[i]]
        BY <2>3, <4>3
      <4> QED
        BY <4>4 DEF ReadAt
    <3> QED
      BY <3>1, <3>2
  <2>5. g = [i \in a .. n + 1 |-> ReadAt(g, v, w, i)]
    BY <2>4, Zenon
  <2>6. IsReading(g, v, w, a)
    <3> HIDE DEF g
    <3> QED
      BY <1>1, <2>5 DEF IsReading
  <2> QED
    BY <2>2, <2>6
<1> HIDE DEF T
<1>4. n \in T
  BY <1>1, <1>2, <1>3, Induction
<1>5. n + 1 - n = 1
  BY <1>1
<1> QED
  BY <1>1, <1>4, <1>5 DEF T

LEMMA ReadingDef ==
  ASSUME NEW v, NEW w, Legible(v, w)
  PROVE  \E f : IsReading(f, v, w, 1) /\ Reading(v, w) = f[1]
<1> DEFINE f == CHOOSE g : IsReading(g, v, w, 1)
<1>1. IsReading(f, v, w, 1)
  BY ReadingExists, Zenon DEF Legible
<1>2. Reading(v, w) = f[1]
  BY Zenon DEF Reading, IsReading, ReadAt
<1> QED
  BY <1>1, <1>2

(* One step of the reading. *)
LEMMA ReadStep ==
  ASSUME NEW v, NEW w, Legible(v, w), NEW f, IsReading(f, v, w, 1)
  PROVE  /\ f[Len(v) + 1] = << >>
         /\ \A i \in 1 .. Len(v) : f[i] = IF v[i] = -1 THEN <<-1>> ELSE <<v[i]>> \o f[i + w[i]]
<1>1. PICK n : n = Len(v) /\ n \in Nat
  BY DEF Legible
<1>2. ASSUME NEW i \in 1 .. n + 1 PROVE f[i] = ReadAt(f, v, w, i)
  BY <1>1, Zenon DEF IsReading
<1>3. f[n + 1] = << >>
  <2>1. n + 1 \in 1 .. n + 1 /\ n + 1 > n
    BY <1>1
  <2> QED
    BY <1>1, <1>2, <2>1 DEF ReadAt
<1>4. ASSUME NEW i \in 1 .. n PROVE f[i] = IF v[i] = -1 THEN <<-1>> ELSE <<v[i]>> \o f[i + w[i]]
  <2>1. i \in 1 .. n + 1 /\ ~(i > n)
    BY <1>1
  <2> QED
    BY <1>1, <1>2, <2>1 DEF ReadAt
<1> QED
  BY <1>1, <1>3, <1>4

LEMMA ReadType ==
  ASSUME NEW v, NEW w, Legible(v, w), NEW f, IsReading(f, v, w, 1)
  PROVE  \A i \in 1 .. Len(v) + 1 : f[i] \in Seq(Int)
<1>1. PICK n : n = Len(v) /\ n \in Nat
  BY DEF Legible
<1> DEFINE T == {m \in Nat : \A i \in 1 .. n + 1 : i >= n + 1 - m => f[i] \in Seq(Int)}
<1>2. 0 \in T
  <2>1. ASSUME NEW i \in 1 .. n + 1, i >= n + 1 - 0 PROVE f[i] \in Seq(Int)
    <3>1. i = n + 1
      BY <1>1, <2>1
    <3>2. f[n + 1] = << >>
      BY <1>1, ReadStep
    <3> QED
      BY <3>1, <3>2
  <2> QED
    BY <2>1
<1>3. ASSUME NEW m \in Nat, m \in T PROVE m + 1 \in T
  <2>1. ASSUME NEW i \in 1 .. n + 1, i >= n + 1 - (m + 1) PROVE f[i] \in Seq(Int)
    <3>1. CASE i >= n + 1 - m
      BY <1>3, <3>1
    <3>2. CASE ~(i >= n + 1 - m)
      <4>1. i \in 1 .. n
        BY <1>1, <3>2
      <4>2. f[i] = IF v[i] = -1 THEN <<-1>> ELSE <<v[i]>> \o f[i + w[i]]
        BY <1>1, <4>1, ReadStep
      <4>3. CASE v[i] = -1
        BY <4>2, <4>3
      <4>4. CASE v[i] # -1
        <5>1. w[i] \in 1 .. n + 1 - i
          BY <1>1, <4>1, <4>4 DEF Legible, Advances
        <5>2. i + w[i] \in 1 .. n + 1 /\ i + w[i] >= n + 1 - m
          BY <1>1, <2>1, <4>1, <5>1
        <5>3. f[i + w[i]] \in Seq(Int)
          BY <1>3, <5>2
        <5>4. v[i] \in Int
          BY <1>1, <4>1, ElementOfSeq DEF Legible
        <5>5. <<v[i]>> \in Seq(Int)
          BY <5>4
        <5> QED
          BY <4>2, <4>4, <5>3, <5>5, ConcatProperties
      <4> QED
        BY <4>3, <4>4
    <3> QED
      BY <3>1, <3>2
  <2> QED
    BY <1>3, <2>1
<1> HIDE DEF T
<1>4. n \in T
  BY <1>1, <1>2, <1>3, Induction
<1> QED
  BY <1>1, <1>4 DEF T

LEMMA Regrouped ==
  ASSUME NEW p \in Seq(Int), NEW q \in Seq(Int), NEW r \in Seq(Int)
  PROVE  (p \o q) \o r = p \o (q \o r)
BY ConcatAssociative

(* No error was read. *)
Clean(r) == \A n \in 1 .. Len(r) : r[n] # -1

LEMMA CleanConcat ==
  ASSUME NEW r \in Seq(Int), NEW s \in Seq(Int)
  PROVE  Clean(r \o s) <=> Clean(r) /\ Clean(s)
<1>1. PICK t : t = r \o s
  OBVIOUS
<1>2. /\ Len(r) \in Nat /\ Len(s) \in Nat /\ Len(t) = Len(r) + Len(s)
      /\ \A i \in 1 .. Len(r) + Len(s) : t[i] = IF i <= Len(r) THEN r[i] ELSE s[i - Len(r)]
  BY <1>1, ConcatProperties
<1>3. ASSUME Clean(t) PROVE Clean(r) /\ Clean(s)
  <2>1. ASSUME NEW i \in 1 .. Len(r) PROVE r[i] # -1
    <3>1. i \in 1 .. Len(r) + Len(s) /\ i <= Len(r)
      BY <1>2
    <3> QED
      BY <1>2, <1>3, <3>1 DEF Clean
  <2>2. ASSUME NEW i \in 1 .. Len(s) PROVE s[i] # -1
    <3>1. i + Len(r) \in 1 .. Len(r) + Len(s) /\ ~(i + Len(r) <= Len(r)) /\ (i + Len(r)) - Len(r) = i
      BY <1>2
    <3>2. t[i + Len(r)] = s[i]
      BY <1>2, <3>1
    <3> QED
      BY <1>2, <1>3, <3>1, <3>2 DEF Clean
  <2> QED
    BY <2>1, <2>2 DEF Clean
<1>4. ASSUME Clean(r), Clean(s) PROVE Clean(t)
  <2>1. ASSUME NEW i \in 1 .. Len(t) PROVE t[i] # -1
    <3>1. i \in 1 .. Len(r) + Len(s)
      BY <1>2
    <3>2. CASE i <= Len(r)
      <4>1. i \in 1 .. Len(r) /\ t[i] = r[i]
        BY <1>2, <3>1, <3>2
      <4> QED
        BY <1>4, <4>1 DEF Clean
    <3>3. CASE ~(i <= Len(r))
      <4>1. i - Len(r) \in 1 .. Len(s) /\ t[i] = s[i - Len(r)]
        BY <1>2, <3>1, <3>3
      <4> QED
        BY <1>4, <4>1 DEF Clean
    <3> QED
      BY <3>2, <3>3
  <2> QED
    BY <2>1 DEF Clean
<1> QED
  BY <1>1, <1>3, <1>4

(* v and w begin with v1 and w1, as far as those can be read, and go on    *)
(* with v2 and w2.                                                         *)
GoesOn(v1, w1, v2, w2, v, w) ==
  /\ Len(v) = Len(v1) + Len(v2)
  /\ \A i \in 1 .. Len(v1) : v1[i] # -1 => v[i] = v1[i] /\ w[i] = w1[i]
  /\ \A i \in 1 .. Len(v2) : v[Len(v1) + i] = v2[i] /\ w[Len(v1) + i] = w2[i]

(* What is read from the second part alone is read from it at the end. *)
LEMMA ReadSecond ==
  ASSUME NEW v1, NEW w1, Legible(v1, w1),
         NEW v2, NEW w2, Legible(v2, w2),
         NEW v, NEW w, Legible(v, w), GoesOn(v1, w1, v2, w2, v, w),
         NEW g, IsReading(g, v2, w2, 1), NEW h, IsReading(h, v, w, 1)
  PROVE  h[Len(v1) + 1] = g[1]
<1>1. PICK a, b : a = Len(v1) /\ b = Len(v2) /\ a \in Nat /\ b \in Nat /\ Len(v) = a + b
  <2>1. Len(v) = Len(v1) + Len(v2)
    BY Zenon DEF GoesOn
  <2>2. Len(v1) \in Nat /\ Len(v2) \in Nat
    BY DEF Legible
  <2> QED
    BY <2>1, <2>2, Zenon
<1> DEFINE T == {m \in Nat : \A i \in 1 .. b + 1 : i >= b + 1 - m => h[a + i] = g[i]}
<1>2. 0 \in T
  <2>1. ASSUME NEW i \in 1 .. b + 1, i >= b + 1 - 0 PROVE h[a + i] = g[i]
    <3>1. i = b + 1 /\ a + i = (a + b) + 1
      BY <1>1, <2>1
    <3>2. g[b + 1] = << >> /\ h[(a + b) + 1] = << >>
      BY <1>1, ReadStep
    <3> QED
      BY <3>1, <3>2
  <2> QED
    BY <2>1
<1>3. ASSUME NEW m \in Nat, m \in T PROVE m + 1 \in T
  <2>1. ASSUME NEW i \in 1 .. b + 1, i >= b + 1 - (m + 1) PROVE h[a + i] = g[i]
    <3>1. CASE i >= b + 1 - m
      BY <1>3, <3>1
    <3>2. CASE ~(i >= b + 1 - m)
      <4>1. i \in 1 .. b /\ a + i \in 1 .. a + b
        BY <1>1, <3>2
      <4>2. g[i] = IF v2[i] = -1 THEN <<-1>> ELSE <<v2[i]>> \o g[i + w2[i]]
        BY <1>1, <4>1, ReadStep
      <4>3. h[a + i] = IF v[a + i] = -1 THEN <<-1>> ELSE <<v[a + i]>> \o h[(a + i) + w[a + i]]
        BY <1>1, <4>1, ReadStep
      <4>4. v[a + i] = v2[i] /\ w[a + i] = w2[i]
        BY <1>1, <4>1 DEF GoesOn
      <4>5. CASE v2[i] # -1
        <5>1. w2[i] \in 1 .. b + 1 - i
          BY <1>1, <4>1, <4>5 DEF Legible, Advances
        <5>2. i + w2[i] \in 1 .. b + 1 /\ i + w2[i] >= b + 1 - m /\ (a + i) + w2[i] = a + (i + w2[i])
          <6>1. PICK d : d = w2[i] /\ d \in 1 .. b + 1 - i
            BY <5>1
          <6>2. a \in Nat /\ b \in Nat
            BY <1>1
          <6>3. i + d \in 1 .. b + 1 /\ i + d >= b + 1 - m /\ (a + i) + d = a + (i + d)
            BY <2>1, <4>1, <6>1, <6>2
          <6> QED
            BY <6>1, <6>3
        <5>3. h[a + (i + w2[i])] = g[i + w2[i]]
          BY <1>3, <5>2
        <5> QED
          BY <4>2, <4>3, <4>4, <5>2, <5>3
      <4> QED
        BY <4>2, <4>3, <4>4, <4>5
    <3> QED
      BY <3>1, <3>2
  <2> QED
    BY <1>3, <2>1
<1> HIDE DEF T
<1>4. b \in T
  BY <1>1, <1>2, <1>3, Induction
<1>5. 1 \in 1 .. b + 1 /\ 1 >= b + 1 - b
  BY <1>1
<1> QED
  BY <1>1, <1>4, <1>5 DEF T

(* What is read from two parts is what is read from each, if the first one *)
(* can be read.                                                            *)
LEMMA ReadingConcat ==
  ASSUME NEW v1, NEW w1, Legible(v1, w1),
         NEW v2, NEW w2, Legible(v2, w2),
         NEW v, NEW w, Legible(v, w), GoesOn(v1, w1, v2, w2, v, w),
         Clean(Reading(v1, w1))
  PROVE  Reading(v, w) = Reading(v1, w1) \o Reading(v2, w2)
<1>1. PICK f : IsReading(f, v1, w1, 1) /\ Reading(v1, w1) = f[1]
  BY ReadingDef
<1>2. PICK g : IsReading(g, v2, w2, 1) /\ Reading(v2, w2) = g[1]
  BY ReadingDef
<1>3. PICK h : IsReading(h, v, w, 1) /\ Reading(v, w) = h[1]
  BY ReadingDef
<1>4. PICK a, b : a = Len(v1) /\ b = Len(v2) /\ a \in Nat /\ b \in Nat /\ Len(v) = a + b
  <2>1. Len(v) = Len(v1) + Len(v2)
    BY Zenon DEF GoesOn
  <2>2. Len(v1) \in Nat /\ Len(v2) \in Nat
    BY DEF Legible
  <2> QED
    BY <2>1, <2>2, Zenon
<1>5. PICK r : r = g[1] /\ r \in Seq(Int) /\ h[a + 1] = r
  <2>1. 1 \in 1 .. b + 1
    BY <1>4
  <2>2. g[1] \in Seq(Int)
    BY <1>2, <1>4, <2>1, ReadType
  <2>3. h[a + 1] = g[1]
    BY <1>2, <1>3, <1>4, ReadSecond
  <2> QED
    BY <2>2, <2>3
<1> DEFINE T == {m \in Nat : \A i \in 1 .. a + 1 :
                               i >= a + 1 - m /\ Clean(f[i]) => h[i] = f[i] \o r}
<1>6. 0 \in T
  <2>1. ASSUME NEW i \in 1 .. a + 1, i >= a + 1 - 0 PROVE h[i] = f[i] \o r
    <3>1. i = a + 1
      BY <1>4, <2>1
    <3>2. f[a + 1] = << >>
      BY <1>1, <1>4, ReadStep
    <3> QED
      BY <1>5, <3>1, <3>2, ConcatEmptySeq
  <2> QED
    BY <2>1
<1>7. ASSUME NEW m \in Nat, m \in T PROVE m + 1 \in T
  <2>1. ASSUME NEW i \in 1 .. a + 1, i >= a + 1 - (m + 1), Clean(f[i]) PROVE h[i] = f[i] \o r
    <3>1. CASE i >= a + 1 - m
      BY <1>7, <2>1, <3>1
    <3>2. CASE ~(i >= a + 1 - m)
      <4>1. i \in 1 .. a /\ i \in 1 .. a + b
        BY <1>4, <3>2
      <4>2. f[i] = IF v1[i] = -1 THEN <<-1>> ELSE <<v1[i]>> \o f[i + w1[i]]
        BY <1>1, <1>4, <4>1, ReadStep
      <4>3. v1[i] # -1
        <5> SUFFICES ASSUME v1[i] = -1 PROVE FALSE
          OBVIOUS
        <5>1. f[i] = <<-1>>
          BY <4>2, Zenon
        <5>2. PICK e : e = f[i] /\ e = <<-1>>
          BY <5>1, Zenon
        <5>3. Len(e) = 1 /\ e[1] = -1
          BY ONLY <5>2
        <5> QED
          BY <2>1, <5>2, <5>3 DEF Clean
      <4>4. v[i] = v1[i] /\ w[i] = w1[i]
        BY <1>4, <4>1, <4>3 DEF GoesOn
      <4>5. PICK c, j : c = v1[i] /\ j = i + w1[i]
        OBVIOUS
      <4>6. j \in 1 .. a + 1 /\ j >= a + 1 - m
        <5>1. w1[i] \in 1 .. a + 1 - i
          BY <1>4, <4>1, <4>3 DEF Legible, Advances
        <5> QED
          BY <1>4, <2>1, <4>1, <4>5, <5>1
      <4>7. h[i] = <<c>> \o h[j]
        <5>1. h[i] = IF v[i] = -1 THEN <<-1>> ELSE <<v[i]>> \o h[i + w[i]]
          BY <1>3, <1>4, <4>1, ReadStep
        <5> QED
          BY <4>3, <4>4, <4>5, <5>1
      <4>8. f[i] = <<c>> \o f[j]
        BY <4>2, <4>3, <4>5
      <4>9. f[j] \in Seq(Int) /\ <<c>> \in Seq(Int)
        <5>1. c \in Int
          BY <1>4, <4>1, <4>5, ElementOfSeq DEF Legible
        <5>2. f[j] \in Seq(Int)
          BY <1>1, <1>4, <4>6, ReadType
        <5> QED
          BY <5>1, <5>2
      <4>10. PICK p, q : p = <<c>> /\ q = f[j] /\ p \in Seq(Int) /\ q \in Seq(Int)
        BY <4>9
      <4>11. Clean(q)
        BY <2>1, <4>8, <4>10, CleanConcat
      <4>12. h[j] = q \o r
        BY <1>7, <4>6, <4>10, <4>11
      <4>13. (p \o q) \o r = p \o (q \o r)
        <5>1. p \in Seq(Int) /\ q \in Seq(Int) /\ r \in Seq(Int)
          BY <1>5, <4>10
        <5> QED
          BY <5>1, Regrouped
      <4> QED
        BY <4>7, <4>8, <4>10, <4>12, <4>13, Zenon
    <3> QED
      BY <3>1, <3>2
  <2> QED
    BY <1>7, <2>1
<1> HIDE DEF T
<1>8. a \in T
  BY <1>4, <1>6, <1>7, Induction
<1>9. h[1] = f[1] \o r
  <2>1. 1 \in 1 .. a + 1 /\ 1 >= a + 1 - a
    BY <1>4
  <2>2. Clean(f[1])
    BY <1>1
  <2> QED
    BY <1>8, <2>1, <2>2 DEF T
<1> QED
  BY <1>1, <1>2, <1>3, <1>5, <1>9

-----------------------------------------------------------------------------
(* UTF-8. *)

Byte == {n \in Nat : n < 256}

LEMMA WidthRange ==
  ASSUME NEW c \in Byte
  PROVE  /\ num_bytes_in_utf8_sequence(c) \in 0 .. 4
         /\ num_bytes_in_utf8_sequence(c) = 1 <=> c < 128
         /\ num_bytes_in_utf8_sequence(c) = 2 <=> c \in 194 .. 223
         /\ num_bytes_in_utf8_sequence(c) = 3 <=> c \in 224 .. 239
         /\ num_bytes_in_utf8_sequence(c) = 4 <=> c \in 240 .. 244
BY DEF num_bytes_in_utf8_sequence, IS_CONT, Byte

(* It is spelled as it should be. *)
WellSpelled(b, len, cp) ==
  /\ \A n \in 1 .. len - 1 : IS_CONT(b[n])
  /\ ~(cp < 128 /\ len > 1) /\ ~(cp < 2048 /\ len > 2) /\ ~(cp < 65536 /\ len > 3)
  /\ ~(cp > 1114111) /\ ~IsLead(cp) /\ ~IsTrail(cp)

LEMMA Verified ==
  ASSUME NEW b, NEW len, len = num_bytes_in_utf8_sequence(b[0])
  PROVE  verify_utf8_sequence(b) =
           IF len # 0 /\ WellSpelled(b, len, CodePoint(b, len)) THEN CodePoint(b, len) ELSE -1
<1>1. PICK cp : cp = CodePoint(b, len)
  OBVIOUS
<1>2. verify_utf8_sequence(b) =
        IF \/ len = 0
           \/ \E n \in 1 .. len - 1 : ~IS_CONT(b[n])
           \/ cp < 128 /\ len > 1
           \/ cp < 2048 /\ len > 2
           \/ cp < 65536 /\ len > 3
           \/ cp > 1114111
           \/ IsLead(cp)
           \/ IsTrail(cp)
        THEN -1 ELSE cp
  BY <1>1 DEF verify_utf8_sequence
<1>3. WellSpelled(b, len, cp) <=>
        ~(\/ \E n \in 1 .. len - 1 : ~IS_CONT(b[n])
          \/ cp < 128 /\ len > 1
          \/ cp < 2048 /\ len > 2
          \/ cp < 65536 /\ len > 3
          \/ cp > 1114111
          \/ IsLead(cp)
          \/ IsTrail(cp))
  BY DEF WellSpelled
<1> QED
  BY <1>1, <1>2, <1>3

LEMMA SpelledType ==
  ASSUME NEW b \in [0 .. 3 -> Byte], NEW len \in 1 .. 4 PROVE CodePoint(b, len) \in Int
<1>1. b[0] \in Int /\ b[1] \in Int /\ b[2] \in Int /\ b[3] \in Int
  BY DEF Byte
<1> QED
  BY <1>1 DEF CodePoint

LEMMA VerifyType ==
  ASSUME NEW b \in [0 .. 3 -> Byte]
  PROVE  /\ verify_utf8_sequence(b) \in Int
         /\ verify_utf8_sequence(b) # -1 =>
              /\ num_bytes_in_utf8_sequence(b[0]) \in 1 .. 4
              /\ \A n \in 1 .. num_bytes_in_utf8_sequence(b[0]) - 1 : IS_CONT(b[n])
<1>1. PICK len : len = num_bytes_in_utf8_sequence(b[0]) /\ len \in 0 .. 4
  BY WidthRange
<1>2. verify_utf8_sequence(b) =
        IF len # 0 /\ WellSpelled(b, len, CodePoint(b, len)) THEN CodePoint(b, len) ELSE -1
  BY <1>1, Verified
<1>3. len # 0 => len \in 1 .. 4 /\ CodePoint(b, len) \in Int
  BY <1>1, SpelledType
<1>4. WellSpelled(b, len, CodePoint(b, len)) => \A n \in 1 .. len - 1 : IS_CONT(b[n])
  BY DEF WellSpelled
<1> QED
  BY <1>1, <1>2, <1>3, <1>4

(* What is read depends on the bytes that are read only. *)
LEMMA VerifySame ==
  ASSUME NEW b \in [0 .. 3 -> Byte], NEW c \in [0 .. 3 -> Byte], verify_utf8_sequence(b) # -1,
         \A n \in 0 .. num_bytes_in_utf8_sequence(b[0]) - 1 : c[n] = b[n]
  PROVE  verify_utf8_sequence(c) = verify_utf8_sequence(b)
<1>1. PICK len : len = num_bytes_in_utf8_sequence(b[0]) /\ len \in 1 .. 4
  BY VerifyType
<1>2. \A n \in 0 .. len - 1 : c[n] = b[n]
  BY <1>1
<1>3. len = num_bytes_in_utf8_sequence(c[0])
  <2>1. 0 \in 0 .. len - 1
    BY <1>1
  <2> QED
    BY <1>1, <1>2, <2>1
<1>4. CodePoint(c, len) = CodePoint(b, len)
  <2>1. CASE len = 1
    BY <1>2, <2>1 DEF CodePoint
  <2>2. CASE len = 2
    BY <1>2, <2>2 DEF CodePoint
  <2>3. CASE len = 3
    BY <1>2, <2>3 DEF CodePoint
  <2>4. CASE len = 4
    BY <1>2, <2>4 DEF CodePoint
  <2> QED
    BY <1>1, <2>1, <2>2, <2>3, <2>4
<1>5. PICK cp : cp = CodePoint(b, len)
  OBVIOUS
<1>6. WellSpelled(c, len, cp) <=> WellSpelled(b, len, cp)
  <2>1. \A n \in 1 .. len - 1 : c[n] = b[n]
    BY <1>1, <1>2
  <2> QED
    BY <2>1 DEF WellSpelled
<1>7. verify_utf8_sequence(b) = IF len # 0 /\ WellSpelled(b, len, cp) THEN cp ELSE -1
  BY <1>1, <1>5, Verified
<1>8. verify_utf8_sequence(c) = IF len # 0 /\ WellSpelled(c, len, cp) THEN cp ELSE -1
  BY <1>3, <1>4, <1>5, Verified
<1> QED
  BY <1>6, <1>7, <1>8

(* The code points of s, and their widths, at every byte. *)
CodePoints(s) == [i \in 1 .. Len(s) |-> verify_utf8_sequence(Window(s, i))]
Widths(s) == [i \in 1 .. Len(s) |-> num_bytes_in_utf8_sequence(s[i])]

LEMMA WindowType ==
  ASSUME NEW s \in Seq(Byte), NEW i \in 1 .. Len(s)
  PROVE  /\ Window(s, i) \in [0 .. 3 -> Byte] /\ Window(s, i)[0] = s[i]
         /\ \A n \in 0 .. 3 : Window(s, i)[n] = IF i + n <= Len(s) THEN s[i + n] ELSE 0
<1>1. Len(s) \in Nat /\ 0 \in Byte
  BY DEF Byte
<1>2. ASSUME NEW n \in 0 .. 3 PROVE (IF i + n <= Len(s) THEN s[i + n] ELSE 0) \in Byte
  <2>1. i + n <= Len(s) => i + n \in 1 .. Len(s)
    BY <1>1
  <2> QED
    BY <1>1, <2>1
<1>3. 0 \in 0 .. 3 /\ i + 0 = i /\ i <= Len(s)
  BY <1>1
<1> QED
  BY <1>2, <1>3 DEF Window

LEMMA CodePointsLegible ==
  ASSUME NEW s \in Seq(Byte)
  PROVE  Legible(CodePoints(s), Widths(s)) /\ Len(CodePoints(s)) = Len(s)
<1>1. PICK v : v = CodePoints(s)
  OBVIOUS
<1>2. PICK n : n = Len(s) /\ n \in Nat
  OBVIOUS
<1>3. ASSUME NEW i \in 1 .. n
      PROVE  v[i] = verify_utf8_sequence(Window(s, i)) /\ v[i] \in Int
  <2>1. v[i] = verify_utf8_sequence(Window(s, i))
    BY <1>1, <1>2 DEF CodePoints
  <2>2. Window(s, i) \in [0 .. 3 -> Byte]
    BY <1>2, WindowType
  <2> QED
    BY <2>1, <2>2, VerifyType
<1>4. v \in [1 .. n -> Int]
  BY <1>1, <1>2, <1>3 DEF CodePoints
<1>5. v \in Seq(Int) /\ Len(v) = n
  BY <1>2, <1>4
<1>6. ASSUME NEW i \in 1 .. n, v[i] # -1 PROVE Widths(s)[i] \in 1 .. n + 1 - i
  <2>1. PICK b : b = Window(s, i)
    OBVIOUS
  <2>2. /\ b \in [0 .. 3 -> Byte] /\ b[0] = s[i]
        /\ \A m \in 0 .. 3 : b[m] = IF i + m <= n THEN s[i + m] ELSE 0
    BY <1>2, <2>1, WindowType
  <2>3. PICK len : len = num_bytes_in_utf8_sequence(b[0])
    OBVIOUS
  <2>4. len \in 1 .. 4 /\ \A m \in 1 .. len - 1 : IS_CONT(b[m])
    BY <1>3, <1>6, <2>1, <2>2, <2>3, VerifyType
  <2>5. Widths(s)[i] = len
    BY <1>2, <2>2, <2>3 DEF Widths
  <2>6. i + (len - 1) <= n
    <3>1. CASE len = 1
      BY <1>2, <3>1
    <3>2. CASE len # 1
      <4>1. len - 1 \in 1 .. len - 1 /\ len - 1 \in 0 .. 3
        BY <2>4, <3>2
      <4>2. b[len - 1] # 0
        <5>1. IS_CONT(b[len - 1])
          BY <2>4, <4>1
        <5>2. ~IS_CONT(0)
          BY DEF IS_CONT
        <5> QED
          BY <5>1, <5>2
      <4> QED
        BY <2>2, <4>1, <4>2
    <3> QED
      BY <3>1, <3>2
  <2> QED
    BY <1>2, <2>4, <2>5, <2>6
<1> QED
  BY <1>1, <1>2, <1>5, <1>6 DEF Legible, Advances

(* Texts can be read one behind the other. *)
LEMMA Utf8Concat ==
  ASSUME NEW s \in Seq(Byte), NEW t \in Seq(Byte), Clean(is_valid_utf8(s))
  PROVE  is_valid_utf8(s \o t) = is_valid_utf8(s) \o is_valid_utf8(t)
<1>1. PICK u : u = s \o t
  OBVIOUS
<1>2. PICK a, b : a = Len(s) /\ b = Len(t) /\ a \in Nat /\ b \in Nat
  <2>1. Len(s) \in Nat /\ Len(t) \in Nat
    OBVIOUS
  <2> QED
    BY <2>1, Zenon
<1>3. /\ u \in Seq(Byte) /\ Len(u) = a + b
      /\ \A i \in 1 .. a + b : u[i] = IF i <= a THEN s[i] ELSE t[i - a]
  BY <1>1, <1>2, ConcatProperties
<1>4. /\ Legible(CodePoints(s), Widths(s)) /\ Len(CodePoints(s)) = a
      /\ Legible(CodePoints(t), Widths(t)) /\ Len(CodePoints(t)) = b
      /\ Legible(CodePoints(u), Widths(u)) /\ Len(CodePoints(u)) = a + b
  BY <1>2, <1>3, CodePointsLegible
<1>5. ASSUME NEW i \in 1 .. a, CodePoints(s)[i] # -1
      PROVE  CodePoints(u)[i] = CodePoints(s)[i] /\ Widths(u)[i] = Widths(s)[i]
  <2>1. i \in 1 .. a + b /\ u[i] = s[i]
    BY <1>2, <1>3
  <2>2. PICK c, d : c = Window(s, i) /\ d = Window(u, i)
    OBVIOUS
  <2>3. /\ CodePoints(s)[i] = verify_utf8_sequence(c) /\ CodePoints(u)[i] = verify_utf8_sequence(d)
        /\ Widths(s)[i] = num_bytes_in_utf8_sequence(s[i])
        /\ Widths(u)[i] = num_bytes_in_utf8_sequence(u[i])
    BY <1>2, <1>3, <2>1, <2>2 DEF CodePoints, Widths
  <2>4. /\ c \in [0 .. 3 -> Byte] /\ c[0] = s[i]
        /\ \A n \in 0 .. 3 : c[n] = IF i + n <= a THEN s[i + n] ELSE 0
    BY <1>2, <2>2, WindowType
  <2>5. /\ d \in [0 .. 3 -> Byte]
        /\ \A n \in 0 .. 3 : d[n] = IF i + n <= a + b THEN u[i + n] ELSE 0
    BY <1>3, <2>1, <2>2, WindowType, SMTT(30)
  <2>6. PICK len : len = num_bytes_in_utf8_sequence(c[0])
    OBVIOUS
  <2>7. len \in 1 .. 4 /\ len \in 1 .. a + 1 - i
    <3>1. len \in 1 .. 4
      BY <1>5, <2>3, <2>4, <2>6, VerifyType
    <3>2. Widths(s)[i] \in 1 .. a + 1 - i
      BY <1>4, <1>5 DEF Legible, Advances
    <3> QED
      BY <2>3, <2>4, <2>6, <3>1, <3>2
  <2>8. ASSUME NEW n \in 0 .. len - 1 PROVE d[n] = c[n]
    <3>1. n \in 0 .. 3 /\ i + n \in 1 .. a + b /\ i + n <= a /\ i + n <= a + b
      BY <1>2, <2>7
    <3>2. c[n] = s[i + n] /\ d[n] = u[i + n]
      BY <2>4, <2>5, <3>1
    <3>3. u[i + n] = s[i + n]
      BY <1>3, <3>1
    <3> QED
      BY <3>2, <3>3
  <2>9. verify_utf8_sequence(d) = verify_utf8_sequence(c)
    BY <1>5, <2>3, <2>4, <2>5, <2>6, <2>8, VerifySame
  <2> QED
    BY <2>1, <2>3, <2>9
<1>6. ASSUME NEW i \in 1 .. b
      PROVE  CodePoints(u)[a + i] = CodePoints(t)[i] /\ Widths(u)[a + i] = Widths(t)[i]
  <2>1. a + i \in 1 .. a + b /\ ~(a + i <= a) /\ (a + i) - a = i
    BY <1>2
  <2>2. u[a + i] = t[i]
    BY <1>3, <2>1
  <2>3. Window(u, a + i) = Window(t, i)
    <3>1. ASSUME NEW n \in 0 .. 3
          PROVE  (IF (a + i) + n <= a + b THEN u[(a + i) + n] ELSE 0)
                   = (IF i + n <= b THEN t[i + n] ELSE 0)
      <4>1. (a + i) + n <= a + b <=> i + n <= b
        BY <1>2
      <4>2. CASE i + n <= b
        <5>1. (a + i) + n \in 1 .. a + b /\ ~((a + i) + n <= a) /\ ((a + i) + n) - a = i + n
          BY <1>2, <4>2
        <5> QED
          BY <1>3, <4>1, <4>2, <5>1
      <4> QED
        BY <4>1, <4>2
    <3> QED
      BY <1>2, <1>3, <3>1 DEF Window
  <2> QED
    BY <1>2, <1>3, <2>1, <2>2, <2>3 DEF CodePoints, Widths
<1>7. GoesOn(CodePoints(s), Widths(s), CodePoints(t), Widths(t), CodePoints(u), Widths(u))
  BY <1>4, <1>5, <1>6 DEF GoesOn
<1>8. /\ is_valid_utf8(s) = Reading(CodePoints(s), Widths(s))
      /\ is_valid_utf8(t) = Reading(CodePoints(t), Widths(t))
      /\ is_valid_utf8(u) = Reading(CodePoints(u), Widths(u))
  BY Zenon DEF is_valid_utf8, CodePoints, Widths
<1>9. Reading(CodePoints(u), Widths(u))
        = Reading(CodePoints(s), Widths(s)) \o Reading(CodePoints(t), Widths(t))
  <2>1. Clean(Reading(CodePoints(s), Widths(s)))
    BY <1>8, Zenon
  <2> QED
    BY <1>4, <1>7, <2>1, ReadingConcat
<1> QED
  BY <1>1, <1>8, <1>9

LEMMA Utf8Type == ASSUME NEW s \in Seq(Byte) PROVE is_valid_utf8(s) \in Seq(Int)
<1>1. PICK v, w : v = CodePoints(s) /\ w = Widths(s)
  OBVIOUS
<1>2. Legible(v, w)
  BY <1>1, CodePointsLegible
<1>3. PICK f : IsReading(f, v, w, 1) /\ Reading(v, w) = f[1]
  BY <1>2, ReadingDef
<1>4. 1 \in 1 .. Len(v) + 1
  BY <1>2 DEF Legible
<1>5. f[1] \in Seq(Int)
  BY <1>2, <1>3, <1>4, ReadType
<1>6. is_valid_utf8(s) = Reading(v, w)
  BY <1>1, Zenon DEF is_valid_utf8, CodePoints, Widths
<1> QED
  BY <1>3, <1>5, <1>6

(* The bytes e are one code point. *)
LEMMA Utf8One ==
  ASSUME NEW e \in Seq(Byte), Len(e) >= 1, NEW cp \in Int, cp # -1,
         verify_utf8_sequence(Window(e, 1)) = cp, num_bytes_in_utf8_sequence(e[1]) = Len(e)
  PROVE  is_valid_utf8(e) = <<cp>>
<1>1. PICK v, w : v = CodePoints(e) /\ w = Widths(e)
  OBVIOUS
<1>2. Legible(v, w) /\ Len(v) = Len(e)
  BY <1>1, CodePointsLegible
<1>3. PICK f : IsReading(f, v, w, 1) /\ Reading(v, w) = f[1]
  BY <1>2, ReadingDef
<1>4. 1 \in 1 .. Len(e) /\ Len(e) \in Nat /\ 1 + Len(e) = Len(e) + 1
  OBVIOUS
<1>5. v[1] = cp /\ w[1] = Len(e)
  BY <1>1, <1>4 DEF CodePoints, Widths
<1>6. f[1] = <<cp>> \o f[Len(e) + 1] /\ f[Len(e) + 1] = << >>
  <2>1. /\ f[Len(v) + 1] = << >>
        /\ \A i \in 1 .. Len(v) : f[i] = IF v[i] = -1 THEN <<-1>> ELSE <<v[i]>> \o f[i + w[i]]
    BY <1>2, <1>3, ReadStep
  <2>2. f[1] = <<v[1]>> \o f[1 + w[1]]
    BY <1>2, <1>4, <1>5, <2>1
  <2> QED
    BY <1>2, <1>4, <1>5, <2>1, <2>2
<1>7. <<cp>> \o << >> = <<cp>>
  <2>1. <<cp>> \in Seq(Int)
    OBVIOUS
  <2> QED
    BY <2>1, ConcatEmptySeq, Zenon
<1>8. is_valid_utf8(e) = Reading(v, w)
  BY <1>1, Zenon DEF is_valid_utf8, CodePoints, Widths
<1> QED
  BY <1>3, <1>6, <1>7, <1>8

LEMMA Utf8Empty == is_valid_utf8(<< >>) = << >>
<1>1. PICK b : b = << >>
  OBVIOUS
<1>2. b \in Seq(Byte) /\ Len(b) = 0
  BY <1>1
<1>3. Len(CodePoints(b)) = 0 /\ Legible(CodePoints(b), Widths(b))
  BY <1>2, CodePointsLegible
<1>4. PICK g : /\ IsReading(g, CodePoints(b), Widths(b), 1)
               /\ Reading(CodePoints(b), Widths(b)) = g[1]
  BY <1>3, ReadingDef
<1>5. g[0 + 1] = << >>
  BY <1>3, <1>4, ReadStep
<1> QED
  BY <1>1, <1>4, <1>5 DEF is_valid_utf8, CodePoints, Widths

LEMMA CodePointIs ==
  ASSUME NEW b, NEW len
  PROVE  /\ len = 1 => CodePoint(b, len) = b[0]
         /\ len = 2 => CodePoint(b, len) = (b[0] % 32) * 64 + (b[1] % 64)
         /\ len = 3 => CodePoint(b, len) = (b[0] % 16) * 4096 + (b[1] % 64) * 64 + (b[2] % 64)
         /\ len = 4 =>
              CodePoint(b, len)
                = (b[0] % 8) * 262144 + (b[1] % 64) * 4096 + (b[2] % 64) * 64 + (b[3] % 64)
BY SMT DEF CodePoint

LEMMA Split64 ==
  \A x \in Nat : /\ x \div 64 \in Nat /\ x % 64 \in 0 .. 63 /\ x = 64 * (x \div 64) + (x % 64)
OBVIOUS

(* (a + x) % m is x when a is a multiple of m. *)
LEMMA LowBits ==
  /\ \A x \in 0 .. 63 : (128 + x) % 64 = x
  /\ \A x \in 0 .. 31 : (192 + x) % 32 = x
  /\ \A x \in 0 .. 15 : (224 + x) % 16 = x
  /\ \A x \in 0 .. 7 : (240 + x) % 8 = x
OBVIOUS

CodeSpace == {n \in Nat : n <= 1114111}
UnitSpace == {n \in Nat : n < 65536}

LEMMA ContinuationByte == \A x \in 0 .. 63 : IS_CONT(128 + x)
BY DEF IS_CONT

(* What parse_utf16() writes for a code point is read as that code point. *)
LEMMA Encoded ==
  ASSUME NEW cp \in CodeSpace, ~IsLead(cp), ~IsTrail(cp)
  PROVE  EncodeUtf8(cp) \in Seq(Byte) /\ is_valid_utf8(EncodeUtf8(cp)) = <<cp>>
<1>1. cp \in Int /\ cp \in Nat /\ cp # -1
  BY SMT DEF CodeSpace
<1>2. ASSUME NEW e \in Seq(Byte), NEW len \in 1 .. 4, Len(e) = len, EncodeUtf8(cp) = e,
             num_bytes_in_utf8_sequence(e[1]) = len,
             \A n \in 2 .. len : IS_CONT(e[n]),
             CodePoint(Window(e, 1), len) = cp,
             ~(cp < 128 /\ len > 1) /\ ~(cp < 2048 /\ len > 2) /\ ~(cp < 65536 /\ len > 3)
      PROVE  EncodeUtf8(cp) \in Seq(Byte) /\ is_valid_utf8(EncodeUtf8(cp)) = <<cp>>
  <2>1. PICK b : b = Window(e, 1)
    OBVIOUS
  <2>2. 1 \in 1 .. Len(e)
    BY <1>2
  <2>3. b[0] = e[1] /\ \A n \in 0 .. 3 : b[n] = IF 1 + n <= len THEN e[1 + n] ELSE 0
    BY <1>2, <2>1, <2>2, WindowType
  <2>4. ASSUME NEW n \in 1 .. len - 1 PROVE IS_CONT(b[n])
    <3>1. n \in 0 .. 3 /\ 1 + n <= len /\ 1 + n \in 2 .. len
      BY <1>2
    <3> QED
      BY <1>2, <2>3, <3>1
  <2>5. WellSpelled(b, len, cp)
    BY <1>1, <1>2, <2>4, SMT DEF WellSpelled, CodeSpace
  <2>6. len = num_bytes_in_utf8_sequence(b[0]) /\ CodePoint(b, len) = cp /\ len # 0
    BY <1>2, <2>1, <2>3
  <2>7. verify_utf8_sequence(b) = cp
    BY <2>5, <2>6, Verified
  <2>8. is_valid_utf8(e) = <<cp>>
    BY <1>1, <1>2, <2>1, <2>2, <2>7, Utf8One
  <2> QED
    BY <1>2, <2>8
<1>3. CASE cp < 128
  <2>1. PICK e : e = <<cp>>
    OBVIOUS
  <2>2. e \in Seq(Byte) /\ Len(e) = 1 /\ e[1] = cp /\ EncodeUtf8(cp) = e
    BY <1>1, <1>3, <2>1, SMT DEF EncodeUtf8, Byte
  <2>3. num_bytes_in_utf8_sequence(e[1]) = 1
    BY <1>1, <1>3, <2>2, WidthRange DEF Byte
  <2>4. CodePoint(Window(e, 1), 1) = cp
    <3>1. 1 \in 1 .. Len(e) /\ e \in Seq(Byte)
      BY <2>2
    <3>2. Window(e, 1)[0] = e[1]
      BY <3>1, WindowType, ZenonT(40)
    <3> QED
      BY <2>2, <3>2, CodePointIs, SMT
  <2>5. 1 \in 1 .. 4 /\ ~(1 > 1) /\ ~(1 > 2) /\ ~(1 > 3) /\ \A n \in 2 .. 1 : FALSE
    OBVIOUS
  <2> QED
    BY <1>2, <2>2, <2>3, <2>4, <2>5
<1>4. CASE cp >= 128 /\ cp < 2048
  <2>1. PICK a, c : a = cp \div 64 /\ c = cp % 64
    OBVIOUS
  <2>2. a \in 2 .. 31 /\ c \in 0 .. 63 /\ cp = 64 * a + c
    BY <1>1, <1>4, <2>1, Split64
  <2>3. PICK e : e = <<192 + a, 128 + c>>
    OBVIOUS
  <2>4. e \in Seq(Byte) /\ Len(e) = 2 /\ e[1] = 192 + a /\ e[2] = 128 + c
    BY <2>2, <2>3 DEF Byte
  <2>5. EncodeUtf8(cp) = e
    BY <1>1, <1>4, <2>1, <2>3, SMT DEF EncodeUtf8, Cont
  <2>6. num_bytes_in_utf8_sequence(e[1]) = 2
    <3>1. 192 + a \in Byte /\ 192 + a \in 194 .. 223
      BY <2>2 DEF Byte
    <3> QED
      BY <2>4, <3>1, WidthRange
  <2>7. CodePoint(Window(e, 1), 2) = cp
    <3>1. PICK b : b = Window(e, 1)
      OBVIOUS
    <3>2. b[0] = 192 + a /\ b[1] = 128 + c
      <4>1. 1 \in 1 .. Len(e) /\ Len(e) = 2
        BY <2>4
      <4>2. b[0] = e[1] /\ \A n \in 0 .. 3 : b[n] = IF 1 + n <= 2 THEN e[1 + n] ELSE 0
        <5>1. b[0] = e[1] /\ \A n \in 0 .. 3 : b[n] = IF 1 + n <= Len(e) THEN e[1 + n] ELSE 0
          BY <2>4, <3>1, <4>1, WindowType, ZenonT(40)
        <5> QED
          BY <4>1, <5>1
      <4> QED
        BY <2>4, <4>2
    <3>3. CodePoint(b, 2) = (b[0] % 32) * 64 + (b[1] % 64)
      BY CodePointIs, SMT
    <3>4. (192 + a) % 32 = a /\ (128 + c) % 64 = c
      BY <2>2, LowBits
    <3> QED
      BY <2>2, <3>1, <3>2, <3>3, <3>4, SMT
  <2>8. \A n \in 2 .. 2 : IS_CONT(e[n])
    <3>1. IS_CONT(e[2])
      BY <2>2, <2>4, ContinuationByte
    <3>2. \A n \in 2 .. 2 : n = 2
      OBVIOUS
    <3> QED
      BY <3>1, <3>2
  <2>9. 2 \in 1 .. 4 /\ ~(2 > 2) /\ ~(2 > 3) /\ ~(cp < 128)
    BY <1>1, <1>4
  <2> QED
    BY <1>2, <2>4, <2>5, <2>6, <2>7, <2>8, <2>9
<1>5. CASE cp >= 2048 /\ cp < 65536
  <2>1. PICK y, c : y = cp \div 64 /\ c = cp % 64
    OBVIOUS
  <2>2. y \in Nat /\ c \in 0 .. 63 /\ cp = 64 * y + c
    BY <1>1, <2>1, Split64
  <2>3. PICK a, m : a = y \div 64 /\ m = y % 64
    OBVIOUS
  <2>4. a \in Nat /\ m \in 0 .. 63 /\ y = 64 * a + m
    BY <2>2, <2>3, Split64
  <2>5. a \in 0 .. 15 /\ cp = 4096 * a + 64 * m + c
    BY <1>1, <1>5, <2>2, <2>4
  <2>6. cp \div 4096 = a
    BY <1>1, <2>2, <2>4, <2>5
  <2>7. PICK e : e = <<224 + a, 128 + m, 128 + c>>
    OBVIOUS
  <2>8. e \in Seq(Byte) /\ Len(e) = 3 /\ e[1] = 224 + a /\ e[2] = 128 + m /\ e[3] = 128 + c
    BY <2>2, <2>4, <2>5, <2>7 DEF Byte
  <2>9. EncodeUtf8(cp) = e
    BY <1>1, <1>5, <2>1, <2>3, <2>6, <2>7, SMT DEF EncodeUtf8, Cont
  <2>10. num_bytes_in_utf8_sequence(e[1]) = 3
    <3>1. 224 + a \in Byte /\ 224 + a \in 224 .. 239
      BY <2>5 DEF Byte
    <3> QED
      BY <2>8, <3>1, WidthRange
  <2>11. CodePoint(Window(e, 1), 3) = cp
    <3>1. PICK b : b = Window(e, 1)
      OBVIOUS
    <3>2. b[0] = 224 + a /\ b[1] = 128 + m /\ b[2] = 128 + c
      <4>1. 1 \in 1 .. Len(e) /\ Len(e) = 3
        BY <2>8
      <4>2. b[0] = e[1] /\ \A n \in 0 .. 3 : b[n] = IF 1 + n <= 3 THEN e[1 + n] ELSE 0
        <5>1. b[0] = e[1] /\ \A n \in 0 .. 3 : b[n] = IF 1 + n <= Len(e) THEN e[1 + n] ELSE 0
          BY <2>8, <3>1, <4>1, WindowType, ZenonT(40)
        <5> QED
          BY <4>1, <5>1
      <4> QED
        BY <2>8, <4>2
    <3>3. CodePoint(b, 3) = (b[0] % 16) * 4096 + (b[1] % 64) * 64 + (b[2] % 64)
      BY CodePointIs, SMT
    <3>4. (224 + a) % 16 = a /\ (128 + m) % 64 = m /\ (128 + c) % 64 = c
      BY <2>2, <2>4, <2>5, LowBits
    <3> QED
      BY <2>2, <2>4, <2>5, <3>1, <3>2, <3>3, <3>4, SMT
  <2>12. \A n \in 2 .. 3 : IS_CONT(e[n])
    <3>1. IS_CONT(e[2]) /\ IS_CONT(e[3])
      BY <2>2, <2>4, <2>8, ContinuationByte
    <3>2. \A n \in 2 .. 3 : n = 2 \/ n = 3
      OBVIOUS
    <3> QED
      BY <3>1, <3>2
  <2>13. 3 \in 1 .. 4 /\ ~(3 > 3) /\ ~(cp < 128) /\ ~(cp < 2048)
    BY <1>1, <1>5
  <2> QED
    BY <1>2, <2>8, <2>9, <2>10, <2>11, <2>12, <2>13
<1>6. CASE cp >= 65536
  <2>1. PICK z, c : z = cp \div 64 /\ c = cp % 64
    OBVIOUS
  <2>2. z \in Nat /\ c \in 0 .. 63 /\ cp = 64 * z + c
    BY <1>1, <2>1, Split64
  <2>3. PICK y, m : y = z \div 64 /\ m = z % 64
    OBVIOUS
  <2>4. y \in Nat /\ m \in 0 .. 63 /\ z = 64 * y + m
    BY <2>2, <2>3, Split64
  <2>5. PICK a, l : a = y \div 64 /\ l = y % 64
    OBVIOUS
  <2>6. a \in Nat /\ l \in 0 .. 63 /\ y = 64 * a + l
    BY <2>4, <2>5, Split64
  <2>7. a \in 0 .. 4 /\ cp = 262144 * a + 4096 * l + 64 * m + c
    BY <1>1, <2>2, <2>4, <2>6, SMT DEF CodeSpace
  <2>8. cp \div 4096 = y /\ cp \div 262144 = a
    BY <1>1, <2>2, <2>4, <2>6, <2>7, SMT
  <2>9. PICK e : e = <<240 + a, 128 + l, 128 + m, 128 + c>>
    OBVIOUS
  <2>10. /\ e \in Seq(Byte) /\ Len(e) = 4
         /\ e[1] = 240 + a /\ e[2] = 128 + l /\ e[3] = 128 + m /\ e[4] = 128 + c
    BY <2>2, <2>4, <2>6, <2>7, <2>9 DEF Byte
  <2>11. EncodeUtf8(cp) = e
    BY <1>1, <1>6, <2>1, <2>3, <2>5, <2>8, <2>9, SMT DEF EncodeUtf8, Cont
  <2>12. num_bytes_in_utf8_sequence(e[1]) = 4
    <3>1. 240 + a \in Byte /\ 240 + a \in 240 .. 244
      BY <2>7 DEF Byte
    <3> QED
      BY <2>10, <3>1, WidthRange
  <2>13. CodePoint(Window(e, 1), 4) = cp
    <3>1. PICK b : b = Window(e, 1)
      OBVIOUS
    <3>2. b[0] = 240 + a /\ b[1] = 128 + l /\ b[2] = 128 + m /\ b[3] = 128 + c
      BY <2>10, <3>1, WindowType
    <3>3. CodePoint(b, 4) = (b[0] % 8) * 262144 + (b[1] % 64) * 4096 + (b[2] % 64) * 64 + (b[3] % 64)
      BY CodePointIs, SMT
    <3>4. (240 + a) % 8 = a /\ (128 + l) % 64 = l /\ (128 + m) % 64 = m /\ (128 + c) % 64 = c
      BY <2>2, <2>4, <2>6, <2>7, LowBits
    <3> QED
      BY <2>2, <2>4, <2>6, <2>7, <3>1, <3>2, <3>3, <3>4, SMT
  <2>14. \A n \in 2 .. 4 : IS_CONT(e[n])
    <3>1. IS_CONT(e[2]) /\ IS_CONT(e[3]) /\ IS_CONT(e[4])
      <4>1. IS_CONT(128 + l) /\ IS_CONT(128 + m) /\ IS_CONT(128 + c)
        BY <2>2, <2>4, <2>6, ContinuationByte
      <4>2. e[2] = 128 + l /\ e[3] = 128 + m /\ e[4] = 128 + c
        BY <2>10
      <4> QED
        BY <4>1, <4>2
    <3>2. \A n \in 2 .. 4 : n = 2 \/ n = 3 \/ n = 4
      OBVIOUS
    <3> QED
      BY <3>1, <3>2
  <2>15. 4 \in 1 .. 4 /\ ~(cp < 128) /\ ~(cp < 2048) /\ ~(cp < 65536)
    BY <1>1, <1>6
  <2> QED
    BY <1>2, <2>10, <2>11, <2>12, <2>13, <2>14, <2>15
<1> QED
  BY <1>1, <1>3, <1>4, <1>5, <1>6

-----------------------------------------------------------------------------
(* Four hexadecimal digits. *)

LEMMA DigitRead ==
  ASSUME NEW d \in 0 .. 15, NEW letter \in {97, 65}
  PROVE  /\ hex_char_to_int(Hex(d, letter)) = d
         /\ Hex(d, letter) \in 48 .. 102 /\ Hex(d, letter) \notin {0, Quote, Backslash}
<1>1. CASE d < 10
  BY <1>1 DEF hex_char_to_int, Hex, Quote, Backslash
<1>2. CASE ~(d < 10) /\ letter = 97
  BY <1>2 DEF hex_char_to_int, Hex, Quote, Backslash
<1>3. CASE ~(d < 10) /\ letter = 65
  BY <1>3 DEF hex_char_to_int, Hex, Quote, Backslash
<1> QED
  BY <1>1, <1>2, <1>3

(* A code unit and its digits. *)
LEMMA UnitDigits ==
  ASSUME NEW n \in UnitSpace
  PROVE  /\ n \div 4096 \in 0 .. 15 /\ (n \div 256) % 16 \in 0 .. 15
         /\ (n \div 16) % 16 \in 0 .. 15 /\ n % 16 \in 0 .. 15
         /\ n = (n \div 4096) * 4096 + ((n \div 256) % 16) * 256 + ((n \div 16) % 16) * 16 + (n % 16)
<1>1. \A x \in Nat : x \div 16 \in Nat /\ x % 16 \in 0 .. 15 /\ x = 16 * (x \div 16) + (x % 16)
  OBVIOUS
<1>2. n \in Nat /\ n < 65536
  BY SMT DEF UnitSpace
<1>3. PICK x : x = n \div 16 /\ x \in Nat /\ n = 16 * x + (n % 16) /\ n % 16 \in 0 .. 15
  BY <1>1, <1>2
<1>4. PICK y : y = x \div 16 /\ y \in Nat /\ x = 16 * y + (x % 16) /\ x % 16 \in 0 .. 15
  BY <1>1, <1>3
<1>5. PICK a : a = y \div 16 /\ a \in Nat /\ y = 16 * a + (y % 16) /\ y % 16 \in 0 .. 15
  BY <1>1, <1>4
<1>6. n \div 256 = y
  BY <1>2, <1>3, <1>4, SMT
<1>7. n \div 4096 = a /\ a \in 0 .. 15
  BY <1>2, <1>3, <1>4, <1>5, SMT
<1>8. n = a * 4096 + (y % 16) * 256 + (x % 16) * 16 + (n % 16)
  BY <1>2, <1>3, <1>4, <1>5, SMT
<1> QED
  BY <1>3, <1>4, <1>5, <1>6, <1>7, <1>8

(* The digits that a unit is written with are read as that unit. *)
LEMMA UnitRead ==
  ASSUME NEW n \in UnitSpace, NEW letter \in {97, 65}, NEW p \in Nat,
         \A m \in 1 .. 4 : mem[p + m - 1] = HexDigits(n, letter)[m]
  PROVE  parse_utf16_hex(p) = n
<1>0. PICK a, b, c, d :
        n \div 4096 = a /\ (n \div 256) % 16 = b /\ (n \div 16) % 16 = c /\ n % 16 = d
  OBVIOUS
<1>1. /\ n \div 4096 = a /\ (n \div 256) % 16 = b /\ (n \div 16) % 16 = c /\ n % 16 = d
      /\ a \in 0 .. 15 /\ b \in 0 .. 15 /\ c \in 0 .. 15 /\ d \in 0 .. 15
      /\ n = a * 4096 + b * 256 + c * 16 + d
  BY <1>0, UnitDigits
<1>2. PICK h : h = HexDigits(n, letter)
  OBVIOUS
<1>3. h = <<Hex(a, letter), Hex(b, letter), Hex(c, letter), Hex(d, letter)>>
  BY <1>1, <1>2 DEF HexDigits
<1>4. h[1] = Hex(a, letter) /\ h[2] = Hex(b, letter) /\ h[3] = Hex(c, letter) /\ h[4] = Hex(d, letter)
  BY <1>3
<1>5. mem[p] = h[1] /\ mem[p + 1] = h[2] /\ mem[p + 2] = h[3] /\ mem[p + 3] = h[4]
  <2>1. 1 \in 1 .. 4 /\ 2 \in 1 .. 4 /\ 3 \in 1 .. 4 /\ 4 \in 1 .. 4
    OBVIOUS
  <2>2. p + 1 - 1 = p /\ p + 2 - 1 = p + 1 /\ p + 3 - 1 = p + 2 /\ p + 4 - 1 = p + 3
    OBVIOUS
  <2> QED
    BY <1>2, <2>1, <2>2
<1>6. /\ hex_char_to_int(mem[p]) = a /\ mem[p] # 0
      /\ hex_char_to_int(mem[p + 1]) = b /\ mem[p + 1] # 0
      /\ hex_char_to_int(mem[p + 2]) = c /\ mem[p + 2] # 0
      /\ hex_char_to_int(mem[p + 3]) = d /\ mem[p + 3] # 0
  <2>1. \A x \in 0 .. 15 : hex_char_to_int(Hex(x, letter)) = x /\ Hex(x, letter) # 0
    BY DigitRead
  <2> QED
    BY <1>1, <1>4, <1>5, <2>1
<1>7. /\ hex_char_to_int(mem[p]) # -1 /\ hex_char_to_int(mem[p + 1]) # -1
      /\ hex_char_to_int(mem[p + 2]) # -1 /\ hex_char_to_int(mem[p + 3]) # -1
  BY <1>1, <1>6
<1>8. ASSUME NEW m \in 0 .. 3 PROVE hex_char_to_int(mem[p + m]) # -1
  <2>1. CASE m = 0
    <3>1. p + m = p
      BY <2>1
    <3> QED
      BY <1>7, <3>1
  <2>2. CASE m = 1
    BY <1>7, <2>2
  <2>3. CASE m = 2
    BY <1>7, <2>3
  <2>4. CASE m = 3
    BY <1>7, <2>4
  <2> QED
    BY <2>1, <2>2, <2>3, <2>4
<1> QED
  BY <1>1, <1>6, <1>8 DEF parse_utf16_hex

-----------------------------------------------------------------------------
(* Where the pieces of a text are. *)

(* The length of what precedes sequence i. *)
Offset(f, i) == IF i = 1 THEN 0 ELSE Len(f[i - 1])

(* The sequence x is found in y behind position o. *)
FoundAt(x, y, o) == /\ o + Len(x) <= Len(y)
                    /\ \A j \in 1 .. Len(x) : y[o + j] = x[j]

LEMMA FlatPlaces ==
  ASSUME NEW s \in Seq(Seq(Int)), NEW f, IsFlat(f, s, Len(s))
  PROVE  /\ \A i \in 1 .. Len(s) : /\ Offset(f, i) \in Nat
                                   /\ Len(f[i]) = Offset(f, i) + Len(s[i])
         /\ \A n \in 1 .. Len(s) : \A i \in 1 .. n : FoundAt(s[i], f[n], Offset(f, i))
<1>1. PICK n : n = Len(s) /\ n \in Nat
  OBVIOUS
<1>2. \A i \in 1 .. n : s[i] \in Seq(Int) /\ f[i] \in Seq(Int)
  BY <1>1, FlatType
<1>3. ASSUME NEW i \in 1 .. n
      PROVE  f[i] = IF i = 1 THEN s[i] ELSE f[i - 1] \o s[i]
  BY <1>1, Zenon DEF IsFlat
<1>4. ASSUME NEW i \in 1 .. n
      PROVE  /\ Offset(f, i) \in Nat /\ Len(f[i]) = Offset(f, i) + Len(s[i])
             /\ FoundAt(s[i], f[i], Offset(f, i))
             /\ i # 1 => \A j \in 1 .. Len(f[i - 1]) : f[i][j] = f[i - 1][j]
  <2>1. CASE i = 1
    <3>1. f[1] = s[1] /\ Offset(f, 1) = 0 /\ s[1] \in Seq(Int)
      BY <1>2, <1>3, <2>1 DEF Offset
    <3>2. Len(s[1]) \in Nat
      BY <3>1
    <3>3. FoundAt(s[1], f[1], 0)
      BY <3>1, <3>2 DEF FoundAt
    <3> QED
      BY <2>1, <3>1, <3>2, <3>3
  <2>2. CASE i # 1
    <3>1. i - 1 \in 1 .. n
      BY <1>1, <2>2
    <3>2. PICK x, y, z : x = f[i - 1] /\ y = s[i] /\ z = f[i]
      OBVIOUS
    <3>3. x \in Seq(Int) /\ y \in Seq(Int) /\ z = x \o y /\ Offset(f, i) = Len(x)
      BY <1>2, <1>3, <2>2, <3>1, <3>2 DEF Offset
    <3>4. /\ Len(x) \in Nat /\ Len(y) \in Nat /\ Len(z) = Len(x) + Len(y)
          /\ \A j \in 1 .. Len(x) + Len(y) : z[j] = IF j <= Len(x) THEN x[j] ELSE y[j - Len(x)]
      BY <3>3, ConcatProperties
    <3>5. \A j \in 1 .. Len(x) : z[j] = x[j]
      BY <3>4
    <3>6. ASSUME NEW j \in 1 .. Len(y) PROVE z[Len(x) + j] = y[j]
      <4>1. Len(x) + j \in 1 .. Len(x) + Len(y) /\ ~(Len(x) + j <= Len(x)) /\ (Len(x) + j) - Len(x) = j
        BY <3>4
      <4> QED
        BY <3>4, <4>1
    <3>7. FoundAt(y, z, Len(x))
      BY <3>4, <3>6 DEF FoundAt
    <3> QED
      BY <2>2, <3>2, <3>3, <3>4, <3>5, <3>7
  <2> QED
    BY <2>1, <2>2
<1> DEFINE T == {m \in Nat : m \in 1 .. n => \A i \in 1 .. m : FoundAt(s[i], f[m], Offset(f, i))}
<1>5. 0 \in T
  OBVIOUS
<1>6. ASSUME NEW m \in Nat, m \in T PROVE m + 1 \in T
  <2> SUFFICES ASSUME m + 1 \in 1 .. n, NEW i \in 1 .. m + 1
               PROVE  FoundAt(s[i], f[m + 1], Offset(f, i))
    OBVIOUS
  <2>1. CASE i = m + 1
    BY <1>4, <2>1
  <2>2. CASE i # m + 1
    <3>1. i \in 1 .. m /\ m \in 1 .. n /\ i \in 1 .. n /\ m + 1 # 1 /\ (m + 1) - 1 = m
      BY <1>1, <2>2
    <3>2. PICK x, y, z, o : x = s[i] /\ y = f[m] /\ z = f[m + 1] /\ o = Offset(f, i)
      OBVIOUS
    <3>3. FoundAt(x, y, o)
      BY <1>6, <3>1, <3>2
    <3>4. Len(z) >= Len(y) /\ \A j \in 1 .. Len(y) : z[j] = y[j]
      <4>1. Offset(f, m + 1) = Len(y)
        BY <3>1, <3>2 DEF Offset
      <4>2. /\ Len(z) = Offset(f, m + 1) + Len(s[m + 1])
            /\ \A j \in 1 .. Len(f[(m + 1) - 1]) : z[j] = f[(m + 1) - 1][j]
        BY <1>4, <3>1, <3>2
      <4>3. Len(s[m + 1]) \in Nat /\ Len(y) \in Nat
        BY <1>2, <3>1, <3>2
      <4> QED
        BY <3>1, <3>2, <4>1, <4>2, <4>3
    <3>5. Len(x) \in Nat /\ Len(y) \in Nat /\ Len(z) \in Nat /\ o \in Nat
      <4>1. s[i] \in Seq(Int) /\ f[m] \in Seq(Int) /\ f[m + 1] \in Seq(Int)
        BY <1>2, <3>1
      <4>2. x \in Seq(Int) /\ y \in Seq(Int) /\ z \in Seq(Int)
        BY <3>2, <4>1
      <4>3. Offset(f, i) \in Nat
        BY <1>4, <3>1
      <4> QED
        BY <3>2, <4>2, <4>3
    <3>6. ASSUME NEW j \in 1 .. Len(x) PROVE z[o + j] = x[j]
      <4>1. o + j \in 1 .. Len(y)
        BY <3>3, <3>5 DEF FoundAt
      <4> QED
        BY <3>3, <3>4, <4>1 DEF FoundAt
    <3>7. o + Len(x) <= Len(z)
      BY <3>3, <3>4, <3>5 DEF FoundAt
    <3>8. FoundAt(x, z, o)
      BY <3>6, <3>7 DEF FoundAt
    <3> QED
      BY <3>2, <3>8
  <2> QED
    BY <2>1, <2>2
<1> HIDE DEF T
<1>7. Nat \subseteq T
  BY <1>5, <1>6, Induction
<1>8. ASSUME NEW m \in 1 .. n, NEW i \in 1 .. m PROVE FoundAt(s[i], f[m], Offset(f, i))
  <2>1. m \in Nat
    BY <1>1
  <2> QED
    BY <1>7, <2>1 DEF T
<1> QED
  BY <1>1, <1>4, <1>8

(* at[k] is where piece k of s begins in the text m, and the last one is   *)
(* where they end.                                                         *)
Layout(m, s, at) ==
  /\ at \in [1 .. Len(s) + 1 -> Nat] /\ at[1] = 2
  /\ \A k \in 1 .. Len(s) :
       /\ at[k + 1] = at[k] + Len(Bytes(s[k]))
       /\ \A j \in 1 .. Len(Bytes(s[k])) : m[at[k] + j - 1] = Bytes(s[k])[j]
  /\ m[at[Len(s) + 1]] \in {Quote, 0}

LEMMA LaidOut == ASSUME StringInit, OfPieces PROVE \E at : Layout(mem, src, at)
<1> DEFINE s == [n \in 1 .. Len(src) |-> Bytes(src[n])]
<1>1. PICK n : n = Len(src) /\ n \in Nat
  BY PiecesType
<1>2. s \in Seq(Seq(Int)) /\ Len(s) = n /\ \A i \in 1 .. n : s[i] = Bytes(src[i])
  <2>1. s \in Seq(Seq(Int))
    BY PiecesType
  <2>2. Len(s) = n
    BY <1>1
  <2> QED
    BY <1>1, <2>1, <2>2
<1>3. PICK rest \in {<<Quote, 0>>, <<Quote, 48, 48, 0>>, <<0>>} :
        mem = (<<Quote>> \o FlattenSeq(s)) \o rest
  BY DEF StringInit
<1> HIDE DEF s
<1>4. rest \in Seq(Int) /\ Len(rest) >= 1 /\ rest[1] \in {Quote, 0}
  <2>1. CASE rest = <<Quote, 0>>
    BY <2>1 DEF Quote
  <2>2. CASE rest = <<Quote, 48, 48, 0>>
    BY <2>2 DEF Quote
  <2>3. CASE rest = <<0>>
    BY <2>3
  <2> QED
    BY <2>1, <2>2, <2>3
<1>5. PICK b : b = FlattenSeq(s) /\ b \in Seq(Int)
  BY <1>2, FlattenType
<1>6. PICK l : l = Len(b) /\ l \in Nat
  BY <1>5
<1>7. /\ \A j \in 1 .. l : mem[1 + j] = b[j]
      /\ mem[l + 2] = rest[1]
  <2>1. PICK q, c : q = <<Quote>> /\ c = q \o b
    OBVIOUS
  <2>2. q \in Seq(Int) /\ Len(q) = 1
    BY <2>1 DEF Quote
  <2>3. c \in Seq(Int) /\ Len(c) = 1 + l /\ \A j \in 1 .. 1 + l : c[j] = IF j <= 1 THEN q[j] ELSE b[j - 1]
    BY <1>5, <1>6, <2>1, <2>2, ConcatProperties
  <2>4. \A j \in 1 .. (1 + l) + Len(rest) : mem[j] = IF j <= 1 + l THEN c[j] ELSE rest[j - (1 + l)]
    BY <1>3, <1>4, <1>5, <2>1, <2>3, ConcatProperties
  <2>5. Len(rest) \in Nat
    BY <1>4
  <2>6. ASSUME NEW j \in 1 .. l PROVE mem[1 + j] = b[j]
    <3>1. 1 + j \in 1 .. 1 + l /\ 1 + j <= 1 + l /\ ~(1 + j <= 1) /\ (1 + j) - 1 = j
          /\ 1 + j \in 1 .. (1 + l) + Len(rest)
      BY <1>6, <2>5
    <3> QED
      BY <2>3, <2>4, <3>1
  <2>7. l + 2 \in 1 .. (1 + l) + Len(rest) /\ ~(l + 2 <= 1 + l) /\ (l + 2) - (1 + l) = 1
    BY <1>4, <1>6, <2>5
  <2> QED
    BY <2>4, <2>6, <2>7
<1>8. CASE n = 0
  <2>1. l = 0
    BY <1>2, <1>5, <1>6, <1>8 DEF FlattenSeq
  <2> DEFINE at == [k \in 1 .. 1 |-> 2]
  <2>2. at \in [1 .. n + 1 -> Nat] /\ at[1] = 2 /\ at[n + 1] = 2 /\ \A k \in 1 .. n : FALSE
    BY <1>8
  <2>3. mem[2] \in {Quote, 0}
    BY <1>4, <1>7, <2>1
  <2> HIDE DEF at
  <2>4. Layout(mem, src, at)
    BY <1>1, <2>2, <2>3 DEF Layout
  <2> QED
    BY <2>4
<1>9. CASE n # 0
  <2> DEFINE f == CHOOSE g : IsFlat(g, s, n)
  <2>1. IsFlat(f, s, Len(s))
    BY <1>1, <1>2, FlatExists, Zenon
  <2>2. b = f[n]
    BY <1>2, <1>5, <1>9 DEF FlattenSeq, IsFlat
  <2> HIDE DEF f
  <2>3. /\ \A i \in 1 .. n : Offset(f, i) \in Nat /\ Len(f[i]) = Offset(f, i) + Len(s[i])
        /\ \A m \in 1 .. n : \A i \in 1 .. m : FoundAt(s[i], f[m], Offset(f, i))
    BY <1>2, <2>1, FlatPlaces
  <2>4. n \in 1 .. n
    BY <1>1, <1>9
  <2>5. \A i \in 1 .. n : FoundAt(s[i], b, Offset(f, i))
    BY <2>2, <2>3, <2>4
  <2> DEFINE at == [k \in 1 .. n + 1 |-> 2 + Offset(f, k)]
  <2>6. ASSUME NEW k \in 1 .. n
        PROVE  k + 1 \in 1 .. n + 1 /\ Offset(f, k + 1) = Len(f[k])
    <3>1. k + 1 # 1 /\ (k + 1) - 1 = k /\ k + 1 \in 1 .. n + 1
      BY <1>1
    <3> QED
      BY <3>1 DEF Offset
  <2>7. Offset(f, n + 1) = l
    BY <1>6, <2>2, <2>4, <2>6
  <2>8. \A k \in 1 .. n + 1 : Offset(f, k) \in Nat
    <3>1. \A k \in 1 .. n + 1 : k \in 1 .. n \/ k = n + 1
      BY <1>1
    <3> QED
      BY <1>6, <2>3, <2>7, <3>1
  <2>9. at \in [1 .. n + 1 -> Nat] /\ \A k \in 1 .. n + 1 : at[k] = 2 + Offset(f, k)
    BY <2>8
  <2> HIDE DEF at
  <2>10. 1 \in 1 .. n + 1 /\ n + 1 \in 1 .. n + 1
    BY <1>1
  <2>11. at[1] = 2 /\ at[n + 1] = l + 2
    <3>1. Offset(f, 1) = 0
      BY DEF Offset
    <3> QED
      BY <1>6, <2>7, <2>9, <2>10, <3>1
  <2>12. ASSUME NEW k \in 1 .. n
         PROVE  /\ at[k + 1] = at[k] + Len(s[k])
                /\ \A j \in 1 .. Len(s[k]) : mem[at[k] + j - 1] = s[k][j]
    <3>1. PICK o, x : o = Offset(f, k) /\ x = s[k] /\ o \in Nat /\ x \in Seq(Int)
      BY <1>2, <2>3
    <3>2. Len(x) \in Nat
      BY <3>1
    <3>3. k \in 1 .. n + 1
      BY <1>1
    <3>4. at[k] = 2 + o /\ at[k + 1] = 2 + (o + Len(x))
      BY <2>3, <2>6, <2>9, <3>1, <3>3
    <3>5. FoundAt(x, b, o)
      BY <2>5, <3>1
    <3>6. ASSUME NEW j \in 1 .. Len(x) PROVE mem[at[k] + j - 1] = x[j]
      <4>1. o + j \in 1 .. l /\ at[k] + j - 1 = 1 + (o + j)
        <5>1. PICK u : u = Len(x) /\ u \in Nat /\ o + u <= l
          BY <1>6, <3>2, <3>5 DEF FoundAt
        <5>2. o \in Nat /\ l \in Nat /\ j \in 1 .. u /\ at[k] = 2 + o
          BY <1>6, <3>1, <3>4, <5>1
        <5> QED
          BY <5>1, <5>2
      <4>2. mem[1 + (o + j)] = b[o + j]
        BY <1>7, <4>1
      <4> QED
        BY <3>5, <4>1, <4>2 DEF FoundAt
    <3>7. at[k + 1] = at[k] + Len(x)
      <4>1. PICK u : u = Len(x) /\ u \in Nat
        BY <3>2
      <4>2. 2 + (o + u) = (2 + o) + u
        BY <3>1, <4>1
      <4> QED
        BY <3>4, <4>1, <4>2
    <3> QED
      BY <3>1, <3>6, <3>7
  <2>13. mem[at[n + 1]] \in {Quote, 0}
    BY <1>4, <1>7, <2>11
  <2>14. Layout(mem, src, at)
    <3>1. ASSUME NEW k \in 1 .. n
          PROVE  /\ at[k + 1] = at[k] + Len(Bytes(src[k]))
                 /\ \A j \in 1 .. Len(Bytes(src[k])) : mem[at[k] + j - 1] = Bytes(src[k])[j]
      <4>1. s[k] = Bytes(src[k])
        BY <1>2
      <4> QED
        BY <2>12, <4>1
    <3> QED
      BY <1>1, <2>9, <2>11, <2>13, <3>1 DEF Layout
  <2> QED
    BY <2>14
<1> QED
  BY <1>8, <1>9

-----------------------------------------------------------------------------
(* What a piece puts into the text. *)

Plain(p) == p.kind = "raw" /\ Raw[p.n].cp # -1

LEMMA PlainBytes ==
  ASSUME NEW p \in Pieces, Plain(p)
  PROVE  /\ Bytes(p) \in Seq(Byte) /\ Len(Bytes(p)) >= 1
         /\ Raw[p.n].cp \in Int /\ Raw[p.n].cp # -1 /\ is_valid_utf8(Bytes(p)) = <<Raw[p.n].cp>>
         /\ \A j \in 1 .. Len(Bytes(p)) : /\ Bytes(p)[j] \in Byte /\ Bytes(p)[j] >= 32
                                          /\ Bytes(p)[j] # Quote /\ Bytes(p)[j] # Backslash
<1>1. p.kind = "raw" /\ p.n \in 1 .. Len(Raw)
  BY DEF Pieces, Plain
<1>2. PICK c : c = Raw[p.n]
  OBVIOUS
<1>3. c \in [cp : Int, bytes : Seq(Int)]
  BY <1>1, <1>2, RawType, ElementOfSeq, Zenon
<1>4. PICK b : b = c.bytes
  OBVIOUS
<1>5. b \in Seq(Int) /\ c.cp \in Int /\ c.cp # -1 /\ Bytes(p) = b
  BY <1>1, <1>2, <1>3, <1>4 DEF Bytes, Plain
<1>6. is_valid_utf8(b) = <<c.cp>> /\ \A j \in 1 .. Len(b) : /\ b[j] >= 32 /\ b[j] < 256
                                                            /\ b[j] # Quote /\ b[j] # Backslash
  BY <1>1, <1>2, <1>4, <1>5, RawAssumption, SMT
<1>7. \A j \in 1 .. Len(b) : b[j] \in Byte
  <2> TAKE j \in 1 .. Len(b)
  <2>1. b[j] \in Int /\ b[j] >= 32 /\ b[j] < 256
    BY <1>5, <1>6, ElementOfSeq
  <2> QED
    BY <2>1, SMT DEF Byte
<1>8. b \in Seq(Byte)
  <2>1. Len(b) \in Nat /\ b = [j \in 1 .. Len(b) |-> b[j]]
    BY <1>5
  <2> QED
    BY <1>7, <2>1
<1>9. Len(b) >= 1
  <2> SUFFICES ASSUME b = << >> PROVE FALSE
    BY <1>5
  <2> QED
    BY <1>6, Utf8Empty
<1> QED
  BY <1>2, <1>5, <1>6, <1>7, <1>8, <1>9

LEMMA ControlBytes ==
  ASSUME NEW p \in Pieces, p.kind = "raw", ~Plain(p)
  PROVE  Raw[p.n].cp = -1 /\ Len(Bytes(p)) = 1 /\ Bytes(p)[1] \in Nat /\ Bytes(p)[1] < 32
<1>1. p.n \in 1 .. Len(Raw) /\ Raw[p.n].cp = -1
  BY DEF Pieces, Plain
<1>2. PICK b \in 1 .. 31 : Raw[p.n].bytes = <<b>>
  BY <1>1, RawAssumption, Zenon
<1>3. b \in Nat /\ b < 32
  OBVIOUS
<1> QED
  BY <1>1, <1>2, <1>3 DEF Bytes

LEMMA EscapeBytes ==
  ASSUME NEW p \in Pieces, p.kind = "esc"
  PROVE  /\ p.n \in Nat /\ p.n # 0 /\ p.n # LetterU
         /\ Len(Bytes(p)) = 2 /\ Bytes(p)[1] = Backslash /\ Bytes(p)[2] = p.n
<1>1. p.n \in Escapes
  BY DEF Pieces
<1>2. p.n \in Nat /\ p.n # 0 /\ p.n # LetterU
  BY <1>1, PieceConstants
<1> QED
  BY <1>2 DEF Bytes

LEMMA CutBytes ==
  ASSUME NEW p, p.kind = "cut"
  PROVE  /\ Len(Bytes(p)) = 5 /\ Bytes(p)[1] = Backslash /\ Bytes(p)[2] = LetterU
         /\ \A j \in 3 .. 5 : Bytes(p)[j] = 48
BY DEF Bytes

(* Which letters the digits of a unit use. *)
Letter(p) == IF p.kind = "unit" THEN 97 ELSE 65

LEMMA UnitBytes ==
  ASSUME NEW p \in Pieces, IsUnit(p)
  PROVE  /\ p.n \in UnitSpace /\ Letter(p) \in {97, 65}
         /\ Len(Bytes(p)) = 6 /\ Bytes(p)[1] = Backslash /\ Bytes(p)[2] = LetterU
         /\ \A m \in 1 .. 4 : Bytes(p)[m + 2] = HexDigits(p.n, Letter(p))[m]
         /\ \A j \in 3 .. 6 : Bytes(p)[j] \notin {0, Quote, Backslash}
<1>1. p.n \in Units /\ p.kind \in {"unit", "UNIT"}
  BY DEF Pieces, IsUnit
<1>2. p.n \in UnitSpace
  BY <1>1, PieceConstants, SMT DEF UnitSpace
<1>3. Letter(p) \in {97, 65}
  BY DEF Letter
<1>4. PICK n, a : n = p.n /\ a = Letter(p)
  OBVIOUS
<1>5. PICK h : h = HexDigits(n, a)
  OBVIOUS
<1>6. Bytes(p) = <<Backslash, LetterU>> \o h
  BY <1>1, <1>4, <1>5 DEF Bytes, Letter
<1>7. PICK d1, d2, d3, d4 :
        d1 = n \div 4096 /\ d2 = (n \div 256) % 16 /\ d3 = (n \div 16) % 16 /\ d4 = n % 16
  OBVIOUS
<1>8. d1 \in 0 .. 15 /\ d2 \in 0 .. 15 /\ d3 \in 0 .. 15 /\ d4 \in 0 .. 15
  BY <1>2, <1>4, <1>7, UnitDigits
<1>9. PICK b1, b2, b3, b4 : b1 = Hex(d1, a) /\ b2 = Hex(d2, a) /\ b3 = Hex(d3, a) /\ b4 = Hex(d4, a)
  OBVIOUS
<1>10. h = <<b1, b2, b3, b4>>
  BY <1>5, <1>7, <1>9 DEF HexDigits
<1>11. \A x \in {b1, b2, b3, b4} : x \notin {0, Quote, Backslash} /\ x \in Int
  BY <1>3, <1>4, <1>8, <1>9, DigitRead
<1>12. /\ Len(Bytes(p)) = 6 /\ Bytes(p)[1] = Backslash /\ Bytes(p)[2] = LetterU
       /\ Bytes(p)[3] = b1 /\ Bytes(p)[4] = b2 /\ Bytes(p)[5] = b3 /\ Bytes(p)[6] = b4
  <2>1. PICK u : u = <<Backslash, LetterU>>
    OBVIOUS
  <2>2. u \in Seq(Int) /\ Len(u) = 2 /\ u[1] = Backslash /\ u[2] = LetterU
    BY <2>1 DEF Backslash, LetterU
  <2>3. b1 \in Int /\ b2 \in Int /\ b3 \in Int /\ b4 \in Int
    BY <1>11
  <2>4. h \in Seq(Int) /\ Len(h) = 4 /\ h[1] = b1 /\ h[2] = b2 /\ h[3] = b3 /\ h[4] = b4
    BY <1>10, <2>3
  <2>5. PICK b : b = u \o h
    OBVIOUS
  <2>6. /\ Len(b) = Len(u) + Len(h)
        /\ \A i \in 1 .. Len(u) + Len(h) : b[i] = IF i <= Len(u) THEN u[i] ELSE h[i - Len(u)]
    BY <2>2, <2>4, <2>5, ConcatProperties, Zenon
  <2>7. Bytes(p) = b
    BY <1>6, <2>1, <2>5
  <2> QED
    BY <2>2, <2>4, <2>6, <2>7
<1>13. \A m \in 1 .. 4 : Bytes(p)[m + 2] = h[m]
  <2> TAKE m \in 1 .. 4
  <2>1. m = 1 \/ m = 2 \/ m = 3 \/ m = 4
    OBVIOUS
  <2> QED
    BY <1>10, <1>12, <2>1
<1>14. \A j \in 3 .. 6 : Bytes(p)[j] \in {b1, b2, b3, b4}
  BY <1>12
<1> QED
  BY <1>2, <1>3, <1>4, <1>5, <1>11, <1>12, <1>13, <1>14

LEMMA Kinds ==
  ASSUME NEW p \in Pieces
  PROVE  p.kind = "raw" \/ p.kind = "esc" \/ p.kind = "cut" \/ IsUnit(p)
BY DEF Pieces, IsUnit

-----------------------------------------------------------------------------
(* What the pieces denote. *)

Values(s) == [i \in 1 .. Len(s) |-> Denotes(s, i)]
Steps(s) == [i \in 1 .. Len(s) |-> IF Paired(s, i) THEN 2 ELSE 1]

(* Lead and trail units do not overlap, and a pair is a code point that    *)
(* four bytes encode.                                                      *)
LEMMA PairedUnits ==
  ASSUME NEW a \in UnitSpace, NEW b \in UnitSpace, IsLead(a), IsTrail(b),
         NEW c, c = (a - 55296) * 1024 + (b - 56320) + 65536
  PROVE  /\ c \in CodeSpace /\ c \in Int /\ c # -1 /\ ~IsLead(c) /\ ~IsTrail(c)
         /\ c = 65536 + (a - 55296) * 1024 + b - 56320
BY SMT DEF UnitSpace, CodeSpace, IsLead, IsTrail

LEMMA UnitType ==
  ASSUME NEW a \in UnitSpace
  PROVE  a \in CodeSpace /\ a \in Int /\ a # -1 /\ ~(IsLead(a) /\ IsTrail(a))
BY SMT DEF UnitSpace, CodeSpace, IsLead, IsTrail

LEMMA NoUnit == ~IsLead(-1) /\ ~IsTrail(-1)
BY SMT DEF IsLead, IsTrail

LEMMA PairDenotes ==
  ASSUME NEW s, NEW i, Paired(s, i)
  PROVE  Denotes(s, i) = 65536 + (s[i].n - 55296) * 1024 + s[i + 1].n - 56320
<1>1. IsUnit(s[i]) /\ IsLead(s[i].n)
  BY DEF Paired
<1>2. s[i].kind # "raw" /\ s[i].kind # "esc"
  BY <1>1 DEF IsUnit
<1> QED
  BY <1>1, <1>2, SMT DEF Denotes

LEMMA RawDenotes ==
  ASSUME NEW s, NEW i, s[i].kind = "raw" PROVE Denotes(s, i) = Raw[s[i].n].cp /\ ~Paired(s, i)
BY SMT DEF Denotes, Paired, IsUnit

LEMMA EscapeDenotes ==
  ASSUME NEW s, NEW i, s[i].kind = "esc"
  PROVE  /\ Denotes(s, i) = IF s[i].n \in DOMAIN Unescaped THEN Unescaped[s[i].n] ELSE -1
         /\ ~Paired(s, i)
BY SMT DEF Denotes, Paired, IsUnit

LEMMA CutDenotes ==
  ASSUME NEW s, NEW i, s[i].kind = "cut" PROVE Denotes(s, i) = -1 /\ ~Paired(s, i)
BY SMT DEF Denotes, Paired, IsUnit

LEMMA UnitDenotes ==
  ASSUME NEW s, NEW i, IsUnit(s[i]), ~Paired(s, i)
  PROVE  Denotes(s, i) = IF IsLead(s[i].n) \/ IsTrail(s[i].n) THEN -1 ELSE s[i].n
<1>1. s[i].kind # "raw" /\ s[i].kind # "esc"
  BY DEF IsUnit
<1> QED
  BY <1>1, SMT DEF Denotes

(* An escape of two bytes stands for an ASCII character. *)
ToAscii(g) == \A x \in DOMAIN g : g[x] \in Nat /\ g[x] < 128 /\ x # LetterU

LEMMA UnescapedAscii == ToAscii(Unescaped)
<1>1. DOMAIN Unescaped = {34, 92, 47, 98, 102, 110, 114, 116}
  BY DEF Unescaped
<1>2. \A x \in {34, 92, 47, 98, 102, 110, 114, 116} : Unescaped[x] \in Nat /\ Unescaped[x] < 128
  BY DEF Unescaped
<1> QED
  BY <1>1, <1>2 DEF ToAscii, LetterU

LEMMA DenotesType ==
  ASSUME NEW s \in Seq(Pieces), NEW i \in 1 .. Len(s)
  PROVE  Denotes(s, i) \in Int
<1>1. s[i] \in Pieces
  BY ElementOfSeq
<1>2. CASE Plain(s[i])
  BY <1>1, <1>2, PlainBytes, RawDenotes DEF Plain
<1>3. CASE s[i].kind = "raw" /\ ~Plain(s[i])
  BY <1>3, RawDenotes DEF Plain
<1>4. CASE s[i].kind = "esc"
  <2>1. \A x \in DOMAIN Unescaped : Unescaped[x] \in Int
    BY UnescapedAscii DEF ToAscii
  <2> QED
    BY <1>4, <2>1, EscapeDenotes
<1>5. CASE s[i].kind = "cut"
  BY <1>5, CutDenotes
<1>6. CASE IsUnit(s[i]) /\ ~Paired(s, i)
  <2>1. s[i].n \in Int
    BY <1>1, <1>6, UnitBytes, UnitType
  <2> QED
    BY <1>6, <2>1, UnitDenotes
<1>7. CASE Paired(s, i)
  <2>1. i + 1 \in 1 .. Len(s) /\ IsUnit(s[i + 1]) /\ IsUnit(s[i])
    BY <1>7 DEF Paired
  <2>2. s[i + 1] \in Pieces
    BY <2>1, ElementOfSeq
  <2>3. PICK a, b : a = s[i].n /\ b = s[i + 1].n
    OBVIOUS
  <2>4. a \in UnitSpace /\ b \in UnitSpace
    BY <1>1, <2>1, <2>2, <2>3, UnitBytes
  <2>5. a \in Int /\ b \in Int
    BY <2>4, UnitType
  <2>6. Denotes(s, i) = 65536 + (a - 55296) * 1024 + b - 56320
    BY <1>7, <2>3, PairDenotes
  <2> QED
    BY <2>5, <2>6, SMT
<1> QED
  BY <1>1, <1>2, <1>3, <1>4, <1>5, <1>6, <1>7, Kinds

LEMMA PiecesLegible == 
  ASSUME NEW s \in Seq(Pieces)
  PROVE  /\ Legible(Values(s), Steps(s)) /\ Len(Values(s)) = Len(s) /\ Len(s) \in Nat
         /\ \A i \in 1 .. Len(s) : /\ Values(s)[i] = Denotes(s, i)
                                   /\ Steps(s)[i] = IF Paired(s, i) THEN 2 ELSE 1
<1>1. Len(s) \in Nat
  OBVIOUS
<1>2. PICK v, w : v = Values(s) /\ w = Steps(s)
  OBVIOUS
<1>3. \A i \in 1 .. Len(s) : v[i] = Denotes(s, i) /\ w[i] = IF Paired(s, i) THEN 2 ELSE 1
  BY <1>2 DEF Values, Steps
<1>4. v \in Seq(Int) /\ Len(v) = Len(s)
  <2>1. \A i \in 1 .. Len(s) : Denotes(s, i) \in Int
    BY DenotesType
  <2> QED
    BY <1>1, <1>2, <2>1 DEF Values
<1>5. ASSUME NEW i \in 1 .. Len(s) PROVE w[i] \in 1 .. Len(s) + 1 - i
  <2>1. i \in Int /\ i <= Len(s) /\ (Paired(s, i) => i < Len(s))
    BY <1>1 DEF Paired
  <2>2. w[i] = IF Paired(s, i) THEN 2 ELSE 1
    BY <1>3
  <2> QED
    BY <1>1, <2>1, <2>2
<1> QED
  BY <1>1, <1>2, <1>3, <1>4, <1>5 DEF Legible, Advances

(* at and f describe the text: where its pieces lie, and what they denote  *)
(* from each one on.                                                       *)
Known(at, f) ==
  /\ src \in Seq(Pieces) /\ CutShort(src) /\ Layout(mem, src, at)
  /\ IsReading(f, Values(src), Steps(src), 1) /\ Meaning = f[1]

LEMMA KnownReads ==
  ASSUME NEW at, NEW f, Known(at, f)
  PROVE  /\ Len(src) \in Nat /\ f[Len(src) + 1] = << >>
         /\ \A k \in 1 .. Len(src) + 1 : f[k] \in Seq(Int)
         /\ \A k \in 1 .. Len(src) :
              f[k] = IF Denotes(src, k) = -1 THEN <<-1>>
                     ELSE <<Denotes(src, k)>> \o f[k + (IF Paired(src, k) THEN 2 ELSE 1)]
<1>1. PICK v, w : v = Values(src) /\ w = Steps(src)
  OBVIOUS
<1>2. src \in Seq(Pieces) /\ IsReading(f, v, w, 1)
  BY <1>1 DEF Known
<1>3. /\ Legible(v, w) /\ Len(v) = Len(src) /\ Len(src) \in Nat
      /\ \A i \in 1 .. Len(src) : v[i] = Denotes(src, i) /\ w[i] = IF Paired(src, i) THEN 2 ELSE 1
  BY <1>1, <1>2, PiecesLegible
<1>4. /\ f[Len(v) + 1] = << >>
      /\ \A i \in 1 .. Len(v) : f[i] = IF v[i] = -1 THEN <<-1>> ELSE <<v[i]>> \o f[i + w[i]]
  BY <1>2, <1>3, ReadStep
<1>5. \A i \in 1 .. Len(v) + 1 : f[i] \in Seq(Int)
  BY <1>2, <1>3, ReadType
<1> QED
  BY <1>3, <1>4, <1>5

LEMMA KnownAtFirst == ASSUME StringInit, OfPieces PROVE \E at, f : Known(at, f)
<1>1. PICK at : Layout(mem, src, at)
  BY LaidOut
<1>2. src \in Seq(Pieces) /\ CutShort(src)
  BY OnlyPieces
<1>3. PICK f : /\ IsReading(f, Values(src), Steps(src), 1)
               /\ Reading(Values(src), Steps(src)) = f[1]
  BY <1>2, PiecesLegible, ReadingDef
<1>4. Meaning = f[1]
  BY <1>3, Zenon DEF Meaning, MeaningOf, Values, Steps
<1> QED
  BY <1>1, <1>2, <1>3, <1>4 DEF Known

-----------------------------------------------------------------------------
(* Where the pieces lie. *)

LEMMA KnownPlaces ==
  ASSUME NEW at, NEW f, Known(at, f), NEW k \in 1 .. Len(src)
  PROVE  /\ k \in Nat /\ k + 1 \in 1 .. Len(src) + 1 /\ src[k] \in Pieces
         /\ at[k] \in Nat /\ at[k + 1] \in Nat /\ Len(Bytes(src[k])) \in Nat
         /\ at[k + 1] = at[k] + Len(Bytes(src[k]))
         /\ \A j \in 1 .. Len(Bytes(src[k])) : mem[at[k] + j - 1] = Bytes(src[k])[j]
<1>1. src \in Seq(Pieces) /\ Len(src) \in Nat /\ Layout(mem, src, at)
  BY DEF Known
<1>2. k \in Nat /\ k \in 1 .. Len(src) + 1 /\ k + 1 \in 1 .. Len(src) + 1
  BY <1>1
<1>3. src[k] \in Pieces
  BY <1>1, ElementOfSeq
<1>4. Bytes(src[k]) \in Seq(Int)
  BY <1>3, BytesType
<1>5. Len(Bytes(src[k])) \in Nat
  BY <1>4
<1>6. at[k] \in Nat /\ at[k + 1] \in Nat
  BY <1>1, <1>2 DEF Layout
<1> QED
  BY <1>1, <1>2, <1>3, <1>5, <1>6 DEF Layout

(* The end of the pieces. *)
LEMMA KnownEnd ==
  ASSUME NEW at, NEW f, Known(at, f)
  PROVE  /\ Len(src) \in Nat /\ Len(src) + 1 \in 1 .. Len(src) + 1
         /\ at[Len(src) + 1] \in Nat /\ mem[at[Len(src) + 1]] \in {Quote, 0}
<1>1. src \in Seq(Pieces) /\ Len(src) \in Nat /\ Layout(mem, src, at)
  BY DEF Known
<1>2. Len(src) + 1 \in 1 .. Len(src) + 1
  BY <1>1
<1> QED
  BY <1>1, <1>2 DEF Layout

(* The first byte of an escape, and the one behind it. *)
LEMMA EscapeBegins ==
  ASSUME NEW at, NEW f, Known(at, f), NEW k \in 1 .. Len(src), src[k].kind # "raw"
  PROVE  /\ mem[at[k]] = Backslash /\ mem[at[k] + 1] # 0
         /\ src[k].kind = "esc" => /\ mem[at[k] + 1] = src[k].n /\ mem[at[k] + 1] # LetterU
                                   /\ at[k + 1] = at[k] + 2
         /\ src[k].kind # "esc" => mem[at[k] + 1] = LetterU
<1>1. PICK p, b : p = src[k] /\ b = Bytes(src[k])
  OBVIOUS
<1>2. /\ p \in Pieces /\ at[k] \in Nat /\ at[k + 1] = at[k] + Len(b)
      /\ \A j \in 1 .. Len(b) : mem[at[k] + j - 1] = b[j]
  BY <1>1, KnownPlaces
<1>3. ASSUME Len(b) \in Nat, Len(b) >= 2 PROVE mem[at[k]] = b[1] /\ mem[at[k] + 1] = b[2]
  <2>1. 1 \in 1 .. Len(b) /\ 2 \in 1 .. Len(b) /\ at[k] + 1 - 1 = at[k] /\ at[k] + 2 - 1 = at[k] + 1
    BY <1>2, <1>3
  <2>2. mem[at[k] + 1 - 1] = b[1] /\ mem[at[k] + 2 - 1] = b[2]
    BY <1>2, <2>1
  <2> QED
    BY <2>1, <2>2
<1>4. CASE p.kind = "esc"
  <2>1. p.n # 0 /\ p.n # LetterU /\ Len(b) = 2 /\ b[1] = Backslash /\ b[2] = p.n
    BY <1>1, <1>2, <1>4, EscapeBytes
  <2> QED
    BY <1>1, <1>2, <1>3, <1>4, <2>1
<1>5. CASE p.kind # "esc"
  <2>1. Len(b) \in {5, 6} /\ b[1] = Backslash /\ b[2] = LetterU
    <3>1. CASE p.kind = "cut"
      BY <1>1, <3>1, CutBytes
    <3>2. CASE IsUnit(p)
      BY <1>1, <1>2, <3>2, UnitBytes
    <3> QED
      BY <1>1, <1>2, <1>5, <3>1, <3>2, Kinds
  <2>2. LetterU # 0 /\ Len(b) \in Nat /\ Len(b) >= 2
    BY <2>1 DEF LetterU
  <2> QED
    BY <1>1, <1>3, <1>5, <2>1, <2>2
<1> QED
  BY <1>4, <1>5

(* The digits of a unit. *)
LEMMA UnitFound ==
  ASSUME NEW at, NEW f, Known(at, f), NEW k \in 1 .. Len(src), IsUnit(src[k])
  PROVE  /\ parse_utf16_hex(at[k] + 2) = src[k].n /\ src[k].n \in UnitSpace
         /\ at[k + 1] = at[k] + 6
<1>1. PICK p, b, n : p = src[k] /\ b = Bytes(src[k]) /\ n = p.n
  OBVIOUS
<1>2. PICK a : a = Letter(p)
  OBVIOUS
<1>3. /\ p \in Pieces /\ at[k] \in Nat /\ at[k + 1] = at[k] + Len(b)
      /\ \A j \in 1 .. Len(b) : mem[at[k] + j - 1] = b[j]
  BY <1>1, KnownPlaces
<1>4. /\ n \in UnitSpace /\ a \in {97, 65} /\ Len(b) = 6
      /\ \A m \in 1 .. 4 : b[m + 2] = HexDigits(n, a)[m]
  BY <1>1, <1>2, <1>3, UnitBytes
<1>5. PICK z, y : z = at[k] /\ y = z + 2 /\ z \in Nat /\ y \in Nat
  BY <1>3
<1>6. ASSUME NEW m \in 1 .. 4 PROVE mem[y + m - 1] = HexDigits(n, a)[m]
  <2>1. PICK j : j = m + 2
    OBVIOUS
  <2>2. j \in 1 .. 6 /\ z + j - 1 = y + m - 1
    BY <1>5, <2>1, SMTT(30)
  <2>3. j \in 1 .. Len(b)
    BY <1>4, <2>2
  <2>4. mem[z + j - 1] = b[j]
    BY <1>3, <1>5, <2>3
  <2>5. b[j] = HexDigits(n, a)[m]
    BY <1>4, <2>1
  <2> QED
    BY <2>2, <2>4, <2>5
<1>7. parse_utf16_hex(y) = n
  BY <1>4, <1>5, <1>6, UnitRead, Zenon
<1> QED
  BY <1>1, <1>3, <1>4, <1>5, <1>7

(* Three digits and no fourth. *)
LEMMA CutFound ==
  ASSUME NEW at, NEW f, Known(at, f), NEW k \in 1 .. Len(src), src[k].kind = "cut"
  PROVE  parse_utf16_hex(at[k] + 2) = -1
<1>1. PICK b, q : b = Bytes(src[k]) /\ q = at[k + 1]
  OBVIOUS
<1>2. at[k] \in Nat /\ q = at[k] + 5
  <2>1. at[k] \in Nat /\ q = at[k] + Len(b)
    BY <1>1, KnownPlaces
  <2>2. Len(b) = 5
    BY <1>1, CutBytes
  <2> QED
    BY <2>1, <2>2
<1>3. SUFFICES mem[q] = 0 \/ hex_char_to_int(mem[q]) = -1
  <2>1. (at[k] + 2) + 3 = q
    BY <1>2
  <2> QED
    BY <1>3, <2>1 DEF parse_utf16_hex
<1>4. CASE k = Len(src)
  <2>1. mem[q] \in {Quote, 0}
    BY <1>1, <1>4, KnownEnd
  <2>2. hex_char_to_int(Quote) = -1
    BY DEF hex_char_to_int, Quote
  <2> QED
    BY <2>1, <2>2
<1>5. CASE k # Len(src)
  <2>1. k \in 1 .. Len(src) - 1 /\ k + 1 \in 1 .. Len(src)
    BY <1>5, KnownEnd
  <2>2. hex_char_to_int(Bytes(src[k + 1])[1]) = -1
    BY <2>1, Zenon DEF Known, CutShort
  <2>3. PICK p, c : p = src[k + 1] /\ c = Bytes(src[k + 1])
    OBVIOUS
  <2>4. /\ p \in Pieces /\ q \in Nat /\ Len(c) \in Nat
        /\ \A j \in 1 .. Len(c) : mem[q + j - 1] = c[j]
    BY <1>1, <2>1, <2>3, KnownPlaces
  <2>5. Len(c) >= 1
    <3>1. CASE Plain(p)
      BY <2>3, <2>4, <3>1, PlainBytes
    <3>2. CASE p.kind = "raw" /\ ~Plain(p)
      BY <2>3, <2>4, <3>2, ControlBytes
    <3>3. CASE p.kind = "esc"
      BY <2>3, <2>4, <3>3, EscapeBytes
    <3>4. CASE p.kind = "cut"
      BY <2>3, <2>4, <3>4, CutBytes
    <3>5. CASE IsUnit(p)
      BY <2>3, <2>4, <3>5, UnitBytes
    <3> QED
      BY <2>4, <3>1, <3>2, <3>3, <3>4, <3>5, Kinds
  <2>6. 1 \in 1 .. Len(c) /\ q + 1 - 1 = q
    BY <2>4, <2>5
  <2>7. mem[q] = c[1]
    BY <2>4, <2>6
  <2> QED
    BY <2>2, <2>3, <2>7
<1> QED
  BY <1>4, <1>5

(* The first byte of a character that is written as it is. *)
LEMMA RawBegins ==
  ASSUME NEW at, NEW f, Known(at, f), NEW k \in 1 .. Len(src), src[k].kind = "raw"
  PROVE  /\ mem[at[k]] # Backslash /\ mem[at[k]] # Quote
         /\ ~Plain(src[k]) => mem[at[k]] < 32 /\ at[k + 1] = at[k] + 1
<1>1. PICK p, b : p = src[k] /\ b = Bytes(src[k])
  OBVIOUS
<1>2. /\ p \in Pieces /\ at[k] \in Nat /\ at[k + 1] = at[k] + Len(b) /\ Len(b) \in Nat
      /\ \A j \in 1 .. Len(b) : mem[at[k] + j - 1] = b[j]
  BY <1>1, KnownPlaces
<1>3. ASSUME Len(b) >= 1 PROVE mem[at[k]] = b[1] /\ 1 \in 1 .. Len(b)
  <2>1. 1 \in 1 .. Len(b) /\ at[k] + 1 - 1 = at[k]
    BY <1>2, <1>3
  <2> QED
    BY <1>2, <2>1
<1>4. CASE Plain(p)
  BY <1>1, <1>2, <1>3, <1>4, PlainBytes
<1>5. CASE ~Plain(p)
  <2>1. Len(b) = 1 /\ b[1] \in Nat /\ b[1] < 32
    BY <1>1, <1>2, <1>5, ControlBytes
  <2>2. b[1] < 32 /\ b[1] # Backslash /\ b[1] # Quote
    BY <2>1 DEF Backslash, Quote
  <2> QED
    BY <1>1, <1>2, <1>3, <2>1, <2>2
<1> QED
  BY <1>4, <1>5

(* What parse_utf16() finds behind a unit is a trail unit exactly if the   *)
(* next piece is one.                                                      *)
LEMMA TrailFound ==
  ASSUME NEW at, NEW f, Known(at, f), NEW k \in 1 .. Len(src), IsUnit(src[k]), IsLead(src[k].n),
         NEW q, q = at[k + 1]
  PROVE  /\ (mem[q] = Backslash /\ mem[q + 1] = LetterU /\ IsTrail(parse_utf16_hex(q + 2)))
              <=> Paired(src, k)
         /\ Paired(src, k) => /\ parse_utf16_hex(q + 2) = src[k + 1].n /\ src[k + 1].n \in UnitSpace
                              /\ k + 1 \in 1 .. Len(src) /\ at[(k + 1) + 1] = q + 6
<1>1. CASE k = Len(src)
  <2>1. mem[q] # Backslash
    BY <1>1, KnownEnd DEF Quote, Backslash
  <2>2. ~Paired(src, k)
    BY <1>1, KnownEnd DEF Paired
  <2> QED
    BY <2>1, <2>2
<1>2. CASE k # Len(src)
  <2>1. k + 1 \in 1 .. Len(src) /\ k < Len(src)
    BY <1>2, KnownEnd
  <2>2. PICK i, p : i = k + 1 /\ p = src[k + 1]
    OBVIOUS
  <2>3. i \in 1 .. Len(src) /\ p \in Pieces /\ p = src[i] /\ q = at[i]
    BY <2>1, <2>2, KnownPlaces
  <2>4. Paired(src, k) <=> IsUnit(p) /\ IsTrail(p.n)
    BY <2>1, <2>2 DEF Paired
  <2>5. CASE p.kind = "raw"
    <3>1. mem[q] # Backslash
      BY <2>3, <2>5, RawBegins
    <3> QED
      BY <2>4, <2>5, <3>1 DEF IsUnit
  <2>6. CASE p.kind = "esc"
    <3>1. mem[q + 1] # LetterU
      BY <2>3, <2>6, EscapeBegins
    <3> QED
      BY <2>4, <2>6, <3>1 DEF IsUnit
  <2>7. CASE p.kind = "cut"
    <3>1. ~IsTrail(parse_utf16_hex(q + 2))
      BY <2>3, <2>7, CutFound, NoUnit
    <3> QED
      BY <2>4, <2>7, <3>1 DEF IsUnit
  <2>8. CASE IsUnit(p)
    <3>1. p.kind # "raw" /\ p.kind # "esc"
      BY <2>8 DEF IsUnit
    <3>2. mem[q] = Backslash /\ mem[q + 1] = LetterU
      BY <2>3, <3>1, EscapeBegins
    <3>3. parse_utf16_hex(q + 2) = p.n /\ p.n \in UnitSpace /\ at[i + 1] = q + 6
      BY <2>3, <2>8, UnitFound
    <3> QED
      BY <2>1, <2>2, <2>4, <2>8, <3>2, <3>3
  <2> QED
    BY <2>3, <2>5, <2>6, <2>7, <2>8, Kinds
<1> QED
  BY <1>1, <1>2

-----------------------------------------------------------------------------
(* What the decoder has written. *)

(* done is what the pieces before piece k denote. *)
DecodedTo(f, k, done) ==
  done \in Seq(Byte) /\ Clean(is_valid_utf8(done)) /\ f[1] = is_valid_utf8(done) \o f[k]

LEMMA PieceDecoded ==
  ASSUME NEW at, NEW f, Known(at, f), NEW k \in 1 .. Len(src), NEW done, DecodedTo(f, k, done),
         NEW e \in Seq(Byte), NEW c \in Int, c # -1, is_valid_utf8(e) = <<c>>,
         Denotes(src, k) = c, NEW i, i = k + (IF Paired(src, k) THEN 2 ELSE 1)
  PROVE  DecodedTo(f, i, done \o e) /\ i \in 1 .. Len(src) + 1
<1>1. PICK r, g : r = is_valid_utf8(done) /\ g = f[i]
  OBVIOUS
<1>2. i \in 1 .. Len(src) + 1
  <2>1. k \in Nat /\ Len(src) \in Nat /\ k <= Len(src) /\ (Paired(src, k) => k < Len(src))
    BY KnownReads DEF Paired
  <2> QED
    BY <2>1
<1>3. r \in Seq(Int) /\ Clean(r) /\ done \in Seq(Byte) /\ f[1] = r \o f[k] /\ g \in Seq(Int)
  BY <1>1, <1>2, Utf8Type, KnownReads DEF DecodedTo
<1>4. f[k] = <<c>> \o g
  BY <1>1, KnownReads
<1>5. PICK u : u = <<c>>
  OBVIOUS
<1>6. u \in Seq(Int) /\ Clean(u)
  BY <1>5 DEF Clean
<1>7. f[1] = (r \o u) \o g
  <2>1. f[1] = r \o (u \o g)
    BY <1>3, <1>4, <1>5, Zenon
  <2>2. (r \o u) \o g = r \o (u \o g)
    BY <1>3, <1>6, Regrouped, Zenon
  <2> QED
    BY <2>1, <2>2, Zenon
<1>8. is_valid_utf8(done \o e) = r \o u
  BY <1>1, <1>3, <1>5, Utf8Concat
<1>9. Clean(r \o u)
  BY <1>3, <1>6, CleanConcat
<1>10. done \o e \in Seq(Byte)
  BY <1>3, ConcatProperties
<1> QED
  BY <1>1, <1>2, <1>7, <1>8, <1>9, <1>10 DEF DecodedTo

LEMMA PieceRefused ==
  ASSUME NEW at, NEW f, Known(at, f), NEW k \in 1 .. Len(src), NEW done, DecodedTo(f, k, done),
         Denotes(src, k) = -1
  PROVE  ~Clean(f[1])
<1>1. PICK r, u : r = is_valid_utf8(done) /\ u = f[k]
  OBVIOUS
<1>2. r \in Seq(Int) /\ f[1] = r \o u
  BY <1>1, Utf8Type DEF DecodedTo
<1>3. u = <<-1>>
  BY <1>1, KnownReads
<1>4. u \in Seq(Int) /\ ~Clean(u)
  BY <1>3 DEF Clean
<1> QED
  BY <1>2, <1>4, CleanConcat

LEMMA RegroupedBytes ==
  ASSUME NEW p \in Seq(Byte), NEW q \in Seq(Byte), NEW r \in Seq(Byte)
  PROVE  (p \o q) \o r = p \o (q \o r)
BY ConcatAssociative

(* pre is the beginning of a character whose last byte was not read yet. *)
Began(pre, b) ==
  pre \in Seq(Byte) /\ Len(pre) < Len(b) /\ \A j \in 1 .. Len(pre) : pre[j] = b[j]

(* The decoder is at position p and has written o: the pieces before piece *)
(* k, and the beginning of that one.                                       *)
DecodedAt(at, f, p, o, k, done, pre) ==
  /\ DecodedTo(f, k, done) /\ p = at[k] + Len(pre) /\ o = done \o pre
  /\ pre = << >> \/ (k <= Len(src) /\ Plain(src[k]) /\ Began(pre, Bytes(src[k])))

Decoded(at, f, p, o) ==
  \E k \in 1 .. Len(src) + 1 : \E done, pre : DecodedAt(at, f, p, o, k, done, pre)

(* Where a piece begins. *)
LEMMA DecodedBegins ==
  ASSUME NEW at, NEW f, Known(at, f), NEW k \in 1 .. Len(src) + 1, NEW done, DecodedTo(f, k, done)
  PROVE  Decoded(at, f, at[k], done)
<1>1. at[k] \in Nat /\ done \in Seq(Byte)
  BY DEF Known, Layout, DecodedTo
<1>2. at[k] + Len(<< >>) = at[k]
  BY <1>1
<1>3. done \o << >> = done
  BY <1>1, ConcatEmptySeq
<1>4. DecodedAt(at, f, at[k], done, k, done, << >>)
  BY <1>2, <1>3 DEF DecodedAt
<1> QED
  BY <1>4, Zenon DEF Decoded

(* A byte of a plain character is written. *)
LEMMA ByteDecoded ==
  ASSUME NEW at, NEW f, Known(at, f), NEW k \in 1 .. Len(src), NEW done, NEW pre, NEW p, NEW o,
         DecodedAt(at, f, p, o, k, done, pre), Plain(src[k])
  PROVE  /\ mem[p] \in Int /\ mem[p] >= 32 /\ mem[p] # Quote /\ mem[p] # Backslash
         /\ Decoded(at, f, p + 1, o \o <<mem[p]>>)
<1>1. PICK b, j : b = Bytes(src[k]) /\ j = Len(pre)
  OBVIOUS
<1>2. /\ src[k] \in Pieces /\ at[k] \in Nat /\ at[k + 1] = at[k] + Len(b) /\ Len(b) \in Nat
      /\ \A n \in 1 .. Len(b) : mem[at[k] + n - 1] = b[n]
      /\ k + 1 \in 1 .. Len(src) + 1 /\ k \in 1 .. Len(src) + 1
  BY <1>1, KnownPlaces
<1>3. /\ b \in Seq(Byte) /\ Len(b) >= 1
      /\ Raw[src[k].n].cp \in Int /\ Raw[src[k].n].cp # -1 /\ is_valid_utf8(b) = <<Raw[src[k].n].cp>>
      /\ \A n \in 1 .. Len(b) : b[n] \in Byte /\ b[n] >= 32 /\ b[n] # Quote /\ b[n] # Backslash
  BY <1>1, <1>2, PlainBytes
<1>4. Began(pre, b)
  <2>1. CASE pre = << >>
    BY <1>3, <2>1 DEF Began
  <2> QED
    BY <1>1, <2>1 DEF DecodedAt
<1>5. j \in Nat /\ j < Len(b) /\ pre \in Seq(Byte)
  BY <1>1, <1>4 DEF Began
<1>6. j + 1 \in 1 .. Len(b) /\ p = at[k] + j /\ p + 1 = at[k] + (j + 1)
  <2>1. p = at[k] + j
    BY <1>1 DEF DecodedAt
  <2>2. PICK z : z = at[k] /\ z \in Nat
    BY <1>2
  <2> QED
    BY <1>2, <1>5, <2>1, <2>2
<1>7. mem[p] = b[j + 1]
  <2>1. at[k] + (j + 1) - 1 = p
    BY <1>2, <1>5, <1>6
  <2> QED
    BY <1>2, <1>6, <2>1
<1>8. mem[p] \in Byte /\ mem[p] >= 32 /\ mem[p] # Quote /\ mem[p] # Backslash
  BY <1>3, <1>6, <1>7
<1>9. mem[p] \in Int
  BY <1>8, SMT DEF Byte
<1>10. PICK c, x : c = pre \o x /\ x = <<mem[p]>>
  OBVIOUS
<1>11. x \in Seq(Byte) /\ Len(x) = 1 /\ x[1] = mem[p]
  BY <1>8, <1>10
<1>12. /\ c \in Seq(Byte) /\ Len(c) = j + 1
       /\ \A n \in 1 .. j + 1 : c[n] = IF n <= j THEN pre[n] ELSE x[n - j]
  BY <1>1, <1>5, <1>10, <1>11, ConcatProperties
<1>13. \A n \in 1 .. j + 1 : c[n] = b[n]
  <2> TAKE n \in 1 .. j + 1
  <2>1. CASE n <= j
    BY <1>1, <1>4, <1>5, <1>12, <2>1 DEF Began
  <2>2. CASE ~(n <= j)
    <3>1. n = j + 1 /\ n - j = 1
      BY <1>5, <2>2
    <3> QED
      BY <1>7, <1>11, <1>12, <2>2, <3>1
  <2> QED
    BY <2>1, <2>2
<1>14. DecodedTo(f, k, done) /\ done \in Seq(Byte) /\ o = done \o pre
  BY DEF DecodedAt, DecodedTo
<1>15. o \o <<mem[p]>> = done \o c
  <2>1. (done \o pre) \o x = done \o (pre \o x)
    BY <1>5, <1>11, <1>14, RegroupedBytes, Zenon
  <2> QED
    BY <1>10, <1>14, <2>1, Zenon
<1>16. CASE j + 1 = Len(b)
  <2>1. c = b
    BY <1>3, <1>12, <1>13, <1>16, SeqEqual
  <2>2. Denotes(src, k) = Raw[src[k].n].cp /\ ~Paired(src, k)
    BY RawDenotes DEF Plain
  <2>3. DecodedTo(f, k + 1, done \o b)
    BY <1>3, <1>14, <2>2, PieceDecoded
  <2>4. p + 1 = at[k + 1]
    BY <1>2, <1>6, <1>16
  <2>5. Decoded(at, f, at[k + 1], done \o b)
    BY <1>2, <2>3, DecodedBegins
  <2> QED
    BY <1>8, <1>9, <1>15, <2>1, <2>4, <2>5
<1>17. CASE j + 1 # Len(b)
  <2>1. Began(c, b)
    BY <1>2, <1>5, <1>12, <1>13, <1>17 DEF Began
  <2>2. k <= Len(src)
    BY <1>2, KnownReads
  <2>3. DecodedAt(at, f, p + 1, done \o c, k, done, c)
    BY <1>1, <1>6, <1>12, <1>14, <2>1, <2>2 DEF DecodedAt
  <2>4. Decoded(at, f, p + 1, done \o c)
    BY <1>2, <2>3, Zenon DEF Decoded
  <2> QED
    BY <1>8, <1>9, <1>15, <2>4
<1> QED
  BY <1>16, <1>17

(* A turn of the decoder: it writes what a piece denotes, or refuses what  *)
(* has no meaning.                                                         *)
Turned(at, f) ==
  \/ stringPc' = "failed" /\ ~Clean(f[1])
  \/ stringPc' = stringPc /\ Decoded(at, f, ptr', out')

(* The code unit at the backslash, and whether a trail unit is behind it. *)
LEMMA Utf16Cases ==
  ASSUME parse_utf16, NEW c, c = parse_utf16_hex(ptr + 2), NEW t, t = parse_utf16_hex(ptr + 8)
  PROVE  \/ (c = -1 \/ IsTrail(c)) /\ Refuse
         \/ c # -1 /\ ~IsLead(c) /\ ~IsTrail(c) /\ Write(EncodeUtf8(c), 6)
         \/ /\ IsLead(c) /\ mem[ptr + 6] = Backslash /\ mem[ptr + 7] = LetterU /\ IsTrail(t)
            /\ Write(EncodeUtf8((c - 55296) * 1024 + (t - 56320) + 65536), 12)
         \/ /\ IsLead(c) /\ ~(mem[ptr + 6] = Backslash /\ mem[ptr + 7] = LetterU /\ IsTrail(t))
            /\ Refuse
BY SMT DEF parse_utf16

LEMMA UnitTurn ==
  ASSUME NEW at, NEW f, Known(at, f), NEW k \in 1 .. Len(src), IsUnit(src[k]),
         ptr = at[k], DecodedTo(f, k, out), parse_utf16
  PROVE  Turned(at, f)
<1>1. PICK n, c, q, t :
        n = src[k].n /\ c = parse_utf16_hex(ptr + 2) /\ q = ptr + 6 /\ t = parse_utf16_hex(ptr + 8)
  OBVIOUS
<1>2. n \in UnitSpace /\ c = n /\ q = at[k + 1]
  BY <1>1, UnitFound
<1>3. /\ ptr + 7 = q + 1 /\ ptr + 8 = q + 2 /\ ptr + 12 = q + 6 /\ ptr \in Nat
      /\ k \in Nat /\ k + 1 \in 1 .. Len(src) + 1
  <2>1. ptr \in Nat /\ k \in Nat /\ k + 1 \in 1 .. Len(src) + 1
    BY KnownPlaces
  <2>2. q = ptr + 6
    BY <1>1
  <2> QED
    BY <2>1, <2>2, SMTT(30)
<1> DEFINE both == mem[q] = Backslash /\ mem[q + 1] = LetterU /\ IsTrail(t)
<1>5. \/ IsTrail(n) /\ Refuse
      \/ ~IsLead(n) /\ ~IsTrail(n) /\ Write(EncodeUtf8(n), 6)
      \/ IsLead(n) /\ both /\ Write(EncodeUtf8((n - 55296) * 1024 + (t - 56320) + 65536), 12)
      \/ IsLead(n) /\ ~both /\ Refuse
  <2>1. n # -1
    BY <1>2, UnitType
  <2>2. \/ (n = -1 \/ IsTrail(n)) /\ Refuse
        \/ n # -1 /\ ~IsLead(n) /\ ~IsTrail(n) /\ Write(EncodeUtf8(n), 6)
        \/ /\ IsLead(n) /\ mem[ptr + 6] = Backslash /\ mem[ptr + 7] = LetterU /\ IsTrail(t)
           /\ Write(EncodeUtf8((n - 55296) * 1024 + (t - 56320) + 65536), 12)
        \/ /\ IsLead(n) /\ ~(mem[ptr + 6] = Backslash /\ mem[ptr + 7] = LetterU /\ IsTrail(t))
           /\ Refuse
    <3>1. n = parse_utf16_hex(ptr + 2) /\ t = parse_utf16_hex(ptr + 8)
      BY <1>1, <1>2
    <3> QED
      BY <3>1, Utf16Cases, SMT
  <2>3. mem[ptr + 6] = mem[q] /\ mem[ptr + 7] = mem[q + 1]
    BY <1>1, <1>3
  <2> QED
    BY <2>1, <2>2, <2>3, SMT
<1>6. ~(IsLead(n) /\ IsTrail(n)) /\ n \in CodeSpace /\ n \in Int /\ n # -1
  BY <1>2, UnitType
<1>7. ~IsLead(n) => ~Paired(src, k)
  BY <1>1 DEF Paired
<1>8. ASSUME ~Paired(src, k), IsLead(n) \/ IsTrail(n), Refuse PROVE Turned(at, f)
  <2>1. Denotes(src, k) = -1
    BY <1>1, <1>8, UnitDenotes
  <2>2. ~Clean(f[1])
    BY <2>1, PieceRefused
  <2> QED
    BY <1>8, <2>2 DEF Turned, Refuse
<1>9. CASE IsTrail(n) /\ Refuse
  BY <1>6, <1>7, <1>8, <1>9
<1>10. CASE ~IsLead(n) /\ ~IsTrail(n) /\ Write(EncodeUtf8(n), 6)
  <2>1. PICK e : e = EncodeUtf8(n)
    OBVIOUS
  <2>2. e \in Seq(Byte) /\ is_valid_utf8(e) = <<n>>
    BY <1>6, <1>10, <2>1, Encoded
  <2>3. Denotes(src, k) = n /\ ~Paired(src, k)
    BY <1>1, <1>7, <1>10, UnitDenotes
  <2>4. DecodedTo(f, k + 1, out \o e)
    BY <1>6, <2>2, <2>3, PieceDecoded
  <2>5. Decoded(at, f, at[k + 1], out \o e)
    BY <1>3, <2>4, DecodedBegins
  <2>6. ptr' = at[k + 1] /\ out' = out \o e /\ stringPc' = stringPc
    BY <1>1, <1>2, <1>10, <2>1 DEF Write
  <2> QED
    BY <2>5, <2>6 DEF Turned
<1>11. IsLead(n) =>
         /\ both <=> Paired(src, k)
         /\ Paired(src, k) => /\ t = src[k + 1].n /\ src[k + 1].n \in UnitSpace /\ IsTrail(t)
                              /\ k + 1 \in 1 .. Len(src) /\ at[(k + 1) + 1] = q + 6
  <2>1. t = parse_utf16_hex(q + 2)
    BY <1>1, <1>3
  <2>2. ASSUME IsLead(n)
        PROVE  /\ (mem[q] = Backslash /\ mem[q + 1] = LetterU /\ IsTrail(t)) <=> Paired(src, k)
               /\ Paired(src, k) => /\ t = src[k + 1].n /\ src[k + 1].n \in UnitSpace
                                    /\ k + 1 \in 1 .. Len(src) /\ at[(k + 1) + 1] = q + 6
    BY <1>1, <1>2, <2>1, <2>2, TrailFound, SMT
  <2> QED
    BY <2>2, Zenon
<1>12. CASE IsLead(n) /\ both /\ Write(EncodeUtf8((n - 55296) * 1024 + (t - 56320) + 65536), 12)
  <2>1. PICK z, e : z = (n - 55296) * 1024 + (t - 56320) + 65536 /\ e = EncodeUtf8(z)
    OBVIOUS
  <2>2. /\ Paired(src, k) /\ t = src[k + 1].n /\ t \in UnitSpace /\ IsTrail(t)
        /\ k + 1 \in 1 .. Len(src) /\ at[(k + 1) + 1] = q + 6
    BY <1>11, <1>12
  <2>3. /\ z \in CodeSpace /\ z \in Int /\ z # -1 /\ ~IsLead(z) /\ ~IsTrail(z)
        /\ z = 65536 + (n - 55296) * 1024 + t - 56320
    BY <1>2, <1>12, <2>1, <2>2, PairedUnits, SMT
  <2>4. e \in Seq(Byte) /\ is_valid_utf8(e) = <<z>>
    BY <2>1, <2>3, Encoded
  <2>5. Denotes(src, k) = z
    BY <1>1, <2>2, <2>3, PairDenotes, SMT
  <2>6. PICK i : i = k + 2
    OBVIOUS
  <2>7. DecodedTo(f, i, out \o e) /\ i \in 1 .. Len(src) + 1
    BY <2>2, <2>3, <2>4, <2>5, <2>6, PieceDecoded
  <2>8. Decoded(at, f, at[i], out \o e)
    BY <2>7, DecodedBegins
  <2>9. (k + 1) + 1 = i
    BY <1>3, <2>6
  <2>10. ptr' = at[i] /\ out' = out \o e /\ stringPc' = stringPc
    <3>1. Write(e, 12)
      BY <1>12, <2>1, SMT
    <3> QED
      BY <1>3, <2>2, <2>9, <3>1 DEF Write
  <2> QED
    BY <2>8, <2>10 DEF Turned
<1>13. CASE IsLead(n) /\ ~both /\ Refuse
  BY <1>8, <1>11, <1>13
<1> QED
  BY <1>5, <1>9, <1>10, <1>12, <1>13

LEMMA CutTurn ==
  ASSUME NEW at, NEW f, Known(at, f), NEW k \in 1 .. Len(src), src[k].kind = "cut",
         ptr = at[k], DecodedTo(f, k, out), parse_utf16
  PROVE  Turned(at, f)
<1>1. parse_utf16_hex(ptr + 2) = -1
  BY CutFound
<1>2. Refuse
  BY <1>1, NoUnit, Utf16Cases, SMT
<1>3. ~Clean(f[1])
  BY CutDenotes, PieceRefused
<1> QED
  BY <1>2, <1>3 DEF Turned, Refuse

LEMMA EscapeTurn ==
  ASSUME NEW at, NEW f, Known(at, f), NEW k \in 1 .. Len(src), src[k].kind = "esc",
         ptr = at[k], DecodedTo(f, k, out),
         IF src[k].n \in DOMAIN Unescaped THEN Write(<<Unescaped[src[k].n]>>, 2) ELSE Refuse
  PROVE  Turned(at, f)
<1>1. PICK n : n = src[k].n
  OBVIOUS
<1>2. /\ Denotes(src, k) = IF n \in DOMAIN Unescaped THEN Unescaped[n] ELSE -1
      /\ ~Paired(src, k)
  BY <1>1, EscapeDenotes
<1>3. CASE n \in DOMAIN Unescaped
  <2>1. PICK c, e : c = Unescaped[n] /\ e = <<c>>
    OBVIOUS
  <2>2. c \in Nat /\ c < 128
    BY <1>3, <2>1, UnescapedAscii DEF ToAscii
  <2>3. c \in CodeSpace /\ c \in Int /\ c # -1 /\ ~IsLead(c) /\ ~IsTrail(c)
    BY <2>2, SMT DEF CodeSpace, IsLead, IsTrail
  <2>4. EncodeUtf8(c) = e
    <3>1. ~(c >= 128)
      BY <2>2
    <3> QED
      BY <2>1, <2>2, <3>1, SMTT(30) DEF EncodeUtf8
  <2>5. e \in Seq(Byte) /\ is_valid_utf8(e) = <<c>>
    BY <2>3, <2>4, Encoded
  <2>6. Denotes(src, k) = c
    BY <1>2, <1>3, <2>1
  <2>7. DecodedTo(f, k + 1, out \o e) /\ k + 1 \in 1 .. Len(src) + 1
    BY <1>2, <2>3, <2>5, <2>6, PieceDecoded
  <2>8. Decoded(at, f, at[k + 1], out \o e)
    BY <2>7, DecodedBegins
  <2>9. ptr' = ptr + 2 /\ out' = out \o e /\ stringPc' = stringPc
    BY <1>1, <1>3, <2>1, Zenon DEF Write
  <2>10. at[k + 1] = ptr + 2
    BY EscapeBegins
  <2> QED
    BY <2>8, <2>9, <2>10 DEF Turned
<1>4. CASE n \notin DOMAIN Unescaped
  <2>1. ~Clean(f[1])
    BY <1>2, <1>4, PieceRefused
  <2> QED
    BY <1>1, <1>4, <2>1 DEF Turned, Refuse
<1> QED
  BY <1>3, <1>4

LEMMA ControlTurn ==
  ASSUME NEW at, NEW f, Known(at, f), NEW k \in 1 .. Len(src), src[k].kind = "raw", ~Plain(src[k]),
         DecodedTo(f, k, out), Refuse
  PROVE  Turned(at, f)
<1>1. Denotes(src, k) = -1
  BY RawDenotes DEF Plain
<1>2. ~Clean(f[1])
  BY <1>1, PieceRefused
<1> QED
  BY <1>2 DEF Turned, Refuse

(* process_string(), whatever the piece. *)
LEMMA PieceTurn ==
  ASSUME NEW at, NEW f, Known(at, f), NEW k \in 1 .. Len(src), NEW done, NEW pre,
         DecodedAt(at, f, ptr, out, k, done, pre), process_string
  PROVE  Turned(at, f)
<1>1. CASE Plain(src[k])
  <2>1. PICK c : c = mem[ptr]
    OBVIOUS
  <2>2. /\ c \in Int /\ c >= 32 /\ c # Backslash
        /\ Decoded(at, f, ptr + 1, out \o <<c>>)
    BY <1>1, <2>1, ByteDecoded
  <2>3. ~(c < 32)
    BY <2>2
  <2>4. Write(<<c>>, 1)
    BY <2>1, <2>2, <2>3 DEF process_string
  <2> QED
    BY <2>2, <2>4 DEF Turned, Write
<1>2. ASSUME ~Plain(src[k]) PROVE ptr = at[k] /\ DecodedTo(f, k, out)
  <2>1. pre = << >> /\ ptr = at[k] + Len(pre) /\ out = done \o pre /\ DecodedTo(f, k, done)
    BY <1>2 DEF DecodedAt
  <2>2. done \in Seq(Byte) /\ at[k] \in Nat
    BY <2>1, KnownPlaces DEF DecodedTo
  <2>3. Len(pre) = 0 /\ done \o pre = done
    BY <2>1, <2>2, ConcatEmptySeq
  <2>4. ptr = at[k] /\ out = done
    BY <2>1, <2>2, <2>3
  <2> QED
    BY <2>1, <2>4
<1>3. CASE src[k].kind = "raw" /\ ~Plain(src[k])
  <2>1. mem[ptr] # Backslash /\ mem[ptr] < 32
    BY <1>2, <1>3, RawBegins
  <2>2. Refuse
    <3>1. PICK c : c = mem[ptr]
      OBVIOUS
    <3>2. c \in Nat
      <4>1. PICK b : b = Bytes(src[k])
        OBVIOUS
      <4>2. src[k] \in Pieces /\ at[k] \in Nat /\ \A j \in 1 .. Len(b) : mem[at[k] + j - 1] = b[j]
        BY <4>1, KnownPlaces
      <4>3. Len(b) = 1 /\ b[1] \in Nat
        BY <1>3, <4>1, <4>2, ControlBytes
      <4>4. 1 \in 1 .. Len(b) /\ at[k] + 1 - 1 = at[k]
        BY <4>2, <4>3
      <4>5. mem[at[k]] = b[1]
        BY <4>2, <4>4
      <4> QED
        BY <1>2, <1>3, <3>1, <4>3, <4>5
    <3>3. ~(c >= 32)
      BY <2>1, <3>1, <3>2
    <3> QED
      BY <2>1, <3>1, <3>3 DEF process_string
  <2> QED
    BY <1>2, <1>3, <2>2, ControlTurn
<1>4. ASSUME src[k].kind # "raw" PROVE mem[ptr] = Backslash /\ ~(mem[ptr] < 32)
  <2>1. ptr = at[k]
    BY <1>2, <1>4 DEF Plain
  <2>2. mem[ptr] = Backslash
    BY <1>4, <2>1, EscapeBegins
  <2> QED
    BY <2>2 DEF Backslash
<1>5. CASE src[k].kind = "esc"
  <2>1. ptr = at[k] /\ DecodedTo(f, k, out)
    BY <1>2, <1>5 DEF Plain
  <2>2. mem[ptr + 1] = src[k].n /\ mem[ptr + 1] # LetterU /\ mem[ptr] = Backslash /\ ~(mem[ptr] < 32)
    BY <1>4, <1>5, <2>1, EscapeBegins
  <2>3. IF src[k].n \in DOMAIN Unescaped THEN Write(<<Unescaped[src[k].n]>>, 2) ELSE Refuse
    <3>1. CASE src[k].n \in DOMAIN Unescaped
      <4>1. Write(<<Unescaped[mem[ptr + 1]]>>, 2)
        BY <2>2, <3>1, Zenon DEF process_string
      <4> QED
        BY <2>2, <3>1, <4>1, Zenon
    <3>2. CASE src[k].n \notin DOMAIN Unescaped
      BY <2>2, <3>2, Zenon DEF process_string
    <3> QED
      BY <3>1, <3>2
  <2> QED
    BY <1>5, <2>1, <2>3, EscapeTurn
<1>6. CASE src[k].kind = "cut" \/ IsUnit(src[k])
  <2>1. src[k].kind # "raw" /\ src[k].kind # "esc" /\ ~Plain(src[k])
    BY <1>6 DEF IsUnit, Plain
  <2>2. ptr = at[k] /\ DecodedTo(f, k, out)
    BY <1>2, <2>1
  <2>3. mem[ptr + 1] = LetterU /\ mem[ptr] = Backslash /\ ~(mem[ptr] < 32)
    BY <1>4, <2>1, <2>2, EscapeBegins
  <2>4. LetterU \notin DOMAIN Unescaped
    BY UnescapedAscii DEF ToAscii
  <2>5. parse_utf16
    BY <2>3, <2>4, Zenon DEF process_string
  <2> QED
    BY <1>6, <2>2, <2>5, UnitTurn, CutTurn
<1> QED
  BY <1>1, <1>3, <1>5, <1>6, KnownPlaces, Kinds

-----------------------------------------------------------------------------
(* The search and the decoder on a text made of pieces. *)

(* skip_quotes() is at byte j of piece k: where it begins, inside a        *)
(* character, or among the digits of an escape, but not at the byte behind *)
(* its backslash.                                                          *)
Inside(k, j) ==
  k <= Len(src) /\ j < Len(Bytes(src[k])) /\ (src[k].kind = "raw" \/ j = 0 \/ j >= 2)

SearchedAt(at, p, k, j) == p = at[k] + j /\ (j = 0 \/ Inside(k, j))

Searched(at, p) == \E k \in 1 .. Len(src) + 1 : \E j \in Nat : SearchedAt(at, p, k, j)

(* A piece has a first byte. *)
LEMMA SomeByte ==
  ASSUME NEW p \in Pieces
  PROVE  /\ Len(Bytes(p)) \in Nat /\ Len(Bytes(p)) >= 1
         /\ p.kind # "raw" => Len(Bytes(p)) >= 2
<1>1. Len(Bytes(p)) \in Nat
  <2>1. Bytes(p) \in Seq(Int)
    BY BytesType
  <2> QED
    BY <2>1
<1>2. CASE Plain(p)
  BY <1>1, <1>2, PlainBytes DEF Plain
<1>3. CASE p.kind = "raw" /\ ~Plain(p)
  BY <1>1, <1>3, ControlBytes
<1>4. CASE p.kind = "esc"
  BY <1>1, <1>4, EscapeBytes
<1>5. CASE p.kind = "cut"
  BY <1>1, <1>5, CutBytes
<1>6. CASE IsUnit(p)
  BY <1>1, <1>6, UnitBytes
<1> QED
  BY <1>2, <1>3, <1>4, <1>5, <1>6, Kinds

(* No byte the search looks at is the quote, and the only backslashes are  *)
(* the ones that begin an escape.                                          *)
LEMMA NoQuoteInside ==
  ASSUME NEW at, NEW f, Known(at, f), NEW k \in 1 .. Len(src), NEW j \in Nat, Inside(k, j),
         NEW p, p = at[k] + j
  PROVE  mem[p] # Quote /\ (mem[p] = Backslash => j = 0 /\ src[k].kind # "raw")
<1>1. PICK b : b = Bytes(src[k])
  OBVIOUS
<1>2. /\ src[k] \in Pieces /\ at[k] \in Nat /\ Len(b) \in Nat
      /\ \A n \in 1 .. Len(b) : mem[at[k] + n - 1] = b[n]
  BY <1>1, KnownPlaces
<1>3. PICK n : n = j + 1
  OBVIOUS
<1>4. n \in 1 .. Len(b) /\ at[k] + n - 1 = p
  BY <1>1, <1>2, <1>3 DEF Inside
<1>5. mem[p] = b[n]
  BY <1>2, <1>4
<1>6. CASE Plain(src[k])
  BY <1>1, <1>2, <1>4, <1>5, <1>6, PlainBytes
<1>7. CASE src[k].kind = "raw" /\ ~Plain(src[k])
  <2>1. Len(b) = 1 /\ b[1] \in Nat /\ b[1] < 32
    BY <1>1, <1>2, <1>7, ControlBytes
  <2>2. n = 1
    BY <1>4, <2>1
  <2> QED
    BY <1>5, <2>1, <2>2 DEF Quote, Backslash
<1>8. CASE src[k].kind # "raw" /\ j = 0
  <2>1. mem[at[k]] = Backslash
    BY <1>8, EscapeBegins
  <2>2. p = at[k]
    BY <1>2, <1>8
  <2> QED
    BY <1>8, <2>1, <2>2 DEF Quote, Backslash
<1>9. CASE src[k].kind # "raw" /\ j # 0
  <2>1. n >= 3 /\ n <= Len(b) /\ n \in Nat
    BY <1>1, <1>2, <1>3, <1>4, <1>9 DEF Inside
  <2>2. b[n] \notin {0, Quote, Backslash}
    <3>1. CASE src[k].kind = "esc"
      <4>1. Len(b) = 2
        BY <1>1, <1>2, <3>1, EscapeBytes
      <4> QED
        BY <2>1, <4>1
    <3>2. CASE src[k].kind = "cut"
      <4>1. Len(b) = 5 /\ \A i \in 3 .. 5 : b[i] = 48
        BY <1>1, <3>2, CutBytes
      <4>2. n \in 3 .. 5
        BY <2>1, <4>1
      <4> QED
        BY <4>1, <4>2 DEF Quote, Backslash
    <3>3. CASE IsUnit(src[k])
      <4>1. Len(b) = 6 /\ \A i \in 3 .. 6 : b[i] \notin {0, Quote, Backslash}
        BY <1>1, <1>2, <3>3, UnitBytes
      <4>2. n \in 3 .. 6
        BY <2>1, <4>1
      <4> QED
        BY <4>1, <4>2
    <3> QED
      BY <1>2, <1>9, <3>1, <3>2, <3>3, Kinds
  <2> QED
    BY <1>5, <2>2
<1> QED
  BY <1>6, <1>7, <1>8, <1>9 DEF Plain

(* The search finds the quote behind the last piece, *)
LEMMA QuoteFound ==
  ASSUME NEW at, NEW f, Known(at, f), NEW p, Searched(at, p), mem[p] = Quote
  PROVE  p = at[Len(src) + 1]
<1>1. PICK k \in 1 .. Len(src) + 1, j \in Nat : SearchedAt(at, p, k, j)
  BY DEF Searched
<1>2. Len(src) \in Nat /\ at[Len(src) + 1] \in Nat
  BY KnownEnd
<1>3. CASE k \in 1 .. Len(src)
  <2>1. src[k] \in Pieces
    BY <1>3, KnownPlaces
  <2>2. Inside(k, j)
    <3>1. CASE j = 0
      <4>1. Len(Bytes(src[k])) \in Nat /\ Len(Bytes(src[k])) >= 1
        BY <2>1, SomeByte
      <4> QED
        BY <1>2, <1>3, <3>1, <4>1 DEF Inside
    <3> QED
      BY <1>1, <3>1 DEF SearchedAt
  <2>3. p = at[k] + j
    BY <1>1 DEF SearchedAt
  <2> QED
    BY <1>3, <2>2, <2>3, NoQuoteInside
<1>4. CASE k \notin 1 .. Len(src)
  <2>1. k = Len(src) + 1 /\ ~(k <= Len(src))
    BY <1>2, <1>4
  <2>2. p = at[k] + j /\ j = 0
    BY <1>1, <2>1 DEF SearchedAt, Inside
  <2> QED
    BY <1>2, <2>1, <2>2
<1> QED
  BY <1>3, <1>4

(* and goes from piece to piece on its way there. *)
LEMMA SearchGoesOn ==
  ASSUME NEW at, NEW f, Known(at, f), NEW p, Searched(at, p), mem[p] # Quote,
         NEW n, n = IF mem[p] = Backslash THEN p + 1 ELSE p, mem[n] # 0
  PROVE  Searched(at, n + 1)
<1>1. PICK k \in 1 .. Len(src) + 1, j \in Nat : SearchedAt(at, p, k, j)
  BY DEF Searched
<1>2. Len(src) \in Nat /\ mem[at[Len(src) + 1]] \in {Quote, 0} /\ at[Len(src) + 1] \in Nat
  BY KnownEnd
<1>3. p = at[k] + j /\ (j = 0 \/ Inside(k, j))
  BY <1>1 DEF SearchedAt
<1>4. k \in 1 .. Len(src)
  <2> SUFFICES ASSUME k = Len(src) + 1 PROVE FALSE
    BY <1>2
  <2>1. j = 0 /\ p = at[Len(src) + 1]
    BY <1>2, <1>3 DEF Inside
  <2>2. mem[p] = 0
    BY <1>2, <2>1
  <2>3. mem[p] # Backslash
    BY <2>2 DEF Backslash
  <2> QED
    BY <2>2, <2>3
<1>5. PICK b, L : b = Bytes(src[k]) /\ L = Len(b)
  OBVIOUS
<1>6. /\ src[k] \in Pieces /\ at[k] \in Nat /\ at[k + 1] = at[k] + L /\ L \in Nat
      /\ k + 1 \in 1 .. Len(src) + 1 /\ k <= Len(src) /\ at[k + 1] \in Nat
  BY <1>2, <1>4, <1>5, KnownPlaces
<1>7. L >= 1 /\ (src[k].kind # "raw" => L >= 2)
  BY <1>5, <1>6, SomeByte
<1>8. Inside(k, j)
  BY <1>3, <1>5, <1>6, <1>7 DEF Inside
<1>9. mem[p] = Backslash => j = 0 /\ src[k].kind # "raw"
  BY <1>3, <1>4, <1>8, NoQuoteInside
<1>10. j < L /\ (src[k].kind = "raw" \/ j = 0 \/ j >= 2)
  BY <1>5, <1>8 DEF Inside
<1>11. PICK i : i = IF mem[p] = Backslash THEN 2 ELSE j + 1
  OBVIOUS
<1>12. i \in Nat /\ i <= L /\ n + 1 = at[k] + i
  <2>1. PICK a \in Nat : a = at[k]
    BY <1>6
  <2>2. p = a + j /\ L \in Nat /\ j < L
    BY <1>3, <1>6, <1>10, <2>1
  <2>3. \/ j = 0 /\ L >= 2 /\ i = 2 /\ n = p + 1
        \/ i = j + 1 /\ n = p
    BY <1>7, <1>9, <1>11
  <2>4. i \in Nat /\ i <= L /\ n + 1 = a + i
    BY ONLY <2>2, <2>3, a \in Nat, j \in Nat
  <2> QED
    BY <2>1, <2>4
<1>13. src[k].kind = "raw" \/ i >= 2
  <2>1. CASE j = 0 /\ src[k].kind # "raw"
    <3>1. mem[at[k]] = Backslash
      BY <1>4, <2>1, EscapeBegins
    <3>2. p = at[k]
      BY <1>3, <1>6, <2>1
    <3> QED
      BY <1>11, <3>1, <3>2
  <2>2. CASE j >= 2
    BY <1>11, <2>2
  <2> QED
    BY <1>10, <2>1, <2>2
<1>14. CASE i = L
  <2>1. SearchedAt(at, n + 1, k + 1, 0)
    BY <1>6, <1>12, <1>14 DEF SearchedAt
  <2> QED
    BY <1>6, <2>1 DEF Searched
<1>15. CASE i # L
  <2>1. Inside(k, i)
    BY <1>5, <1>6, <1>12, <1>13, <1>15 DEF Inside
  <2>2. SearchedAt(at, n + 1, k, i)
    BY <1>12, <2>1 DEF SearchedAt
  <2> QED
    BY <1>12, <2>2 DEF Searched
<1> QED
  BY <1>14, <1>15

(* At the quote, everything is decoded. *)
LEMMA AllDecoded ==
  ASSUME NEW at, NEW f, Known(at, f), NEW p, NEW o, Decoded(at, f, p, o), mem[p] = Quote
  PROVE  is_valid_utf8(o) = f[1] /\ Clean(f[1])
<1>1. PICK k \in 1 .. Len(src) + 1 : \E done, pre : DecodedAt(at, f, p, o, k, done, pre)
  BY Zenon DEF Decoded
<1>2. PICK done, pre : DecodedAt(at, f, p, o, k, done, pre)
  BY <1>1
<1>3. Len(src) \in Nat /\ f[Len(src) + 1] = << >>
  BY KnownReads
<1>4. CASE k \in 1 .. Len(src)
  <2>1. src[k] \in Pieces /\ at[k] \in Nat
    BY <1>4, KnownPlaces
  <2>2. CASE Plain(src[k])
    BY <1>2, <1>4, <2>2, ByteDecoded
  <2>3. CASE ~Plain(src[k])
    <3>1. pre = << >> /\ p = at[k] + Len(pre)
      BY <1>2, <2>3 DEF DecodedAt
    <3>2. p = at[k]
      BY <2>1, <3>1
    <3>3. mem[p] # Quote
      <4>1. CASE src[k].kind = "raw"
        BY <1>4, <3>2, <4>1, RawBegins
      <4>2. CASE src[k].kind # "raw"
        <5>1. mem[p] = Backslash
          BY <1>4, <3>2, <4>2, EscapeBegins
        <5> QED
          BY <5>1 DEF Backslash, Quote
      <4> QED
        BY <4>1, <4>2
    <3> QED
      BY <3>3
  <2> QED
    BY <2>2, <2>3
<1>5. CASE k \notin 1 .. Len(src)
  <2>1. k = Len(src) + 1 /\ ~(k <= Len(src))
    BY <1>3, <1>5
  <2>2. pre = << >> /\ o = done \o pre /\ DecodedTo(f, k, done)
    BY <1>2, <2>1 DEF DecodedAt
  <2>3. PICK r : r = is_valid_utf8(done)
    OBVIOUS
  <2>4. done \in Seq(Byte) /\ Clean(r) /\ f[1] = r \o << >>
    BY <1>3, <2>1, <2>2, <2>3 DEF DecodedTo
  <2>5. r \in Seq(Int) /\ o = done
    BY <2>2, <2>3, <2>4, Utf8Type, ConcatEmptySeq
  <2>6. f[1] = r
    BY <2>4, <2>5, ConcatEmptySeq
  <2> QED
    BY <2>3, <2>4, <2>5, <2>6
<1> QED
  BY <1>4, <1>5

(* How far the search and the decoder are on the text, and what they have  *)
(* found out.                                                              *)
Progress(at, f) ==
  /\ end # 0 => end = at[Len(src) + 1]
  /\ stringPc = "skip" => Searched(at, ptr)
  /\ stringPc = "process" => Decoded(at, f, ptr, out)
  /\ stringPc = "done" => is_valid_utf8(out) = f[1] /\ Clean(f[1])
  /\ stringPc = "failed" => end = 0 \/ ~Clean(f[1])

TextInv == OfPieces => \E at, f : Known(at, f) /\ Progress(at, f)

LEMMA TextInit == StringInit => TextInv
<1> SUFFICES ASSUME StringInit, OfPieces PROVE \E at, f : Known(at, f) /\ Progress(at, f)
  BY DEF TextInv
<1>1. PICK at, f : Known(at, f)
  BY KnownAtFirst
<1>2. ptr = 2 /\ end = 0 /\ stringPc = "skip"
  BY DEF StringInit
<1>3. at[1] = 2 /\ 1 \in 1 .. Len(src) + 1
  BY <1>1, KnownEnd DEF Known, Layout
<1>4. SearchedAt(at, ptr, 1, 0)
  BY <1>2, <1>3 DEF SearchedAt
<1>5. Searched(at, ptr)
  BY <1>3, <1>4 DEF Searched
<1>6. Progress(at, f)
  BY <1>2, <1>5 DEF Progress
<1> QED
  BY <1>1, <1>6

(* Nothing changes the text. *)
LEMMA KnownForever ==
  ASSUME NEW at, NEW f, Known(at, f), src' = src, mem' = mem PROVE Known(at, f)'
BY DEF Known, Meaning

LEMMA TextStep ==
  ASSUME StringInv, StringInv', TextInv, [StringNext]_stringVars PROVE TextInv'
<1>2. src' = src /\ mem' = mem
  BY DEF StringNext, stringVars, FoundEnd, SkipCharacter, process_string, Finish, StringStopped
<1> SUFFICES ASSUME OfPieces' PROVE (\E at, f : Known(at, f) /\ Progress(at, f))'
  BY DEF TextInv
<1>0. OfPieces
  BY <1>2 DEF OfPieces
<1>1. PICK at, f : Known(at, f) /\ Progress(at, f)
  BY <1>0 DEF TextInv
<1>3. Known(at, f)'
  BY <1>1, <1>2, KnownForever
<1> SUFFICES Progress(at, f)'
  BY <1>3
<1>4. /\ \A p : Searched(at, p)' <=> Searched(at, p)
      /\ Searched(at, ptr)' <=> Searched(at, ptr')
  BY <1>2 DEF Searched, SearchedAt, Inside
<1>5. Decoded(at, f, ptr, out)' <=> Decoded(at, f, ptr', out')
  BY <1>2 DEF Decoded, DecodedAt
<1>6. CASE UNCHANGED stringVars
  <2>1. UNCHANGED <<src, mem, ptr, end, out, stringPc>>
    BY <1>6 DEF stringVars
  <2>2. Searched(at, ptr)' <=> Searched(at, ptr)
    BY <1>4, <2>1
  <2>3. Decoded(at, f, ptr, out)' <=> Decoded(at, f, ptr, out)
    BY <1>5, <2>1
  <2> QED
    BY <1>1, <2>1, <2>2, <2>3 DEF Progress
<1>7. CASE FoundEnd
  <2>1. /\ stringPc = "skip" /\ mem[ptr] = Quote /\ end' = ptr /\ ptr' = 2 /\ stringPc' = "process"
        /\ out' = out
    BY <1>7 DEF FoundEnd
  <2>2. Searched(at, ptr) /\ out = << >>
    BY <1>1, <2>1 DEF Progress, StringInv
  <2>3. end' = at[Len(src) + 1]
    BY <1>1, <2>1, <2>2, QuoteFound
  <2>4. at[1] = 2 /\ 1 \in 1 .. Len(src) + 1 /\ f[1] \in Seq(Int)
    <3>1. at[1] = 2 /\ 1 \in 1 .. Len(src) + 1
      BY <1>1, KnownEnd DEF Known, Layout
    <3> QED
      BY <1>1, <3>1, KnownReads
  <2>5. DecodedTo(f, 1, << >>)
    <3>1. << >> \in Seq(Byte)
      OBVIOUS
    <3>2. is_valid_utf8(<< >>) = << >>
      BY Utf8Empty
    <3>3. << >> \o f[1] = f[1] /\ Clean(<< >>)
      BY <2>4, ConcatEmptySeq DEF Clean
    <3> QED
      BY <3>1, <3>2, <3>3 DEF DecodedTo
  <2>6. Decoded(at, f, at[1], << >>)
    BY <1>1, <2>4, <2>5, DecodedBegins
  <2>7. Decoded(at, f, ptr', out')
    BY <2>1, <2>2, <2>4, <2>6
  <2> QED
    BY <1>2, <1>5, <2>1, <2>3, <2>7 DEF Progress
<1>8. CASE SkipCharacter
  <2>1. PICK n : n = IF mem[ptr] = Backslash THEN ptr + 1 ELSE ptr
    OBVIOUS
  <2>2. /\ stringPc = "skip" /\ mem[ptr] # Quote /\ end' = end
        /\ \/ stringPc' = "failed"
           \/ mem[n] # 0 /\ ptr' = n + 1 /\ stringPc' = stringPc
    BY <1>8, <2>1 DEF SkipCharacter
  <2>3. end = 0 /\ Searched(at, ptr)
    BY <1>1, <2>2 DEF Progress, StringInv
  <2>4. CASE stringPc' = "failed"
    BY <2>2, <2>3, <2>4 DEF Progress
  <2>5. CASE mem[n] # 0 /\ ptr' = n + 1 /\ stringPc' = stringPc
    <3>1. Searched(at, n + 1)
      BY <1>1, <2>1, <2>2, <2>3, <2>5, SearchGoesOn
    <3>2. Searched(at, ptr)'
      BY <1>4, <2>5, <3>1
    <3> QED
      BY <2>2, <2>3, <2>5, <3>2 DEF Progress
  <2> QED
    BY <2>2, <2>4, <2>5
<1>9. CASE process_string
  <2>1. stringPc = "process" /\ end' = end /\ ptr - 2 < end - 2
    BY <1>9 DEF process_string, InsideString
  <2>2. end # 0 /\ end = at[Len(src) + 1] /\ Decoded(at, f, ptr, out) /\ ptr \in Nat /\ end \in Nat
    BY <1>1, <2>1 DEF Progress, StringInv
  <2>3. PICK k \in 1 .. Len(src) + 1 : \E done, pre : DecodedAt(at, f, ptr, out, k, done, pre)
    BY <2>2, Zenon DEF Decoded
  <2>4. PICK done, pre : DecodedAt(at, f, ptr, out, k, done, pre)
    BY <2>3
  <2>5. k \in 1 .. Len(src)
    <3>1. Len(src) \in Nat
      BY <1>1, KnownEnd
    <3> SUFFICES ASSUME k = Len(src) + 1 PROVE FALSE
      BY <3>1
    <3>2. ~(k <= Len(src))
      BY <3>1
    <3>3. pre = << >> /\ ptr = at[k] + Len(pre)
      BY <2>4, <3>2 DEF DecodedAt
    <3>4. ptr = end
      BY <2>2, <3>3
    <3> QED
      BY <2>1, <2>2, <3>4
  <2>6. Turned(at, f)
    BY <1>1, <1>9, <2>4, <2>5, PieceTurn
  <2>7. CASE stringPc' = "failed" /\ ~Clean(f[1])
    BY <1>2, <2>1, <2>2, <2>7 DEF Progress
  <2>8. CASE stringPc' = stringPc /\ Decoded(at, f, ptr', out')
    BY <1>2, <1>5, <2>1, <2>2, <2>8 DEF Progress
  <2> QED
    BY <2>6, <2>7, <2>8 DEF Turned
<1>10. CASE Finish
  <2>1. stringPc = "process" /\ stringPc' = "done" /\ UNCHANGED <<ptr, end, out>>
    BY <1>10 DEF Finish
  <2>2. end # 0 /\ end = at[Len(src) + 1] /\ Decoded(at, f, ptr, out)
    BY <1>1, <2>1 DEF Progress, StringInv
  <2>3. ptr' = end' /\ mem[end] = Quote
    BY <2>1, <2>2 DEF StringInv
  <2>4. is_valid_utf8(out) = f[1] /\ Clean(f[1])
    BY <1>1, <2>1, <2>2, <2>3, AllDecoded
  <2> QED
    BY <1>2, <2>1, <2>2, <2>4 DEF Progress
<1>11. CASE StringStopped
  BY <1>6, <1>11 DEF StringStopped
<1> QED
  BY <1>6, <1>7, <1>8, <1>9, <1>10, <1>11 DEF StringNext

LEMMA TextSafe == StringSpec => []TextInv
<1> QED
  BY TextInit, TextStep, StringSafe, PTL DEF StringSpec

(* Whatever characters, escapes and code units a text is made of: if       *)
(* process_string() accepts it, what it wrote is UTF-8 and has exactly the *)
(* code points that the text denotes, surrogate pairs included.            *)
THEOREM StringDecodes == StringSpec => []DecodesText
<1>1. TextInv => DecodesText
  <2> SUFFICES ASSUME TextInv, OfPieces, stringPc = "done"
               PROVE  is_valid_utf8(out) = Meaning /\ \A k \in 1 .. Len(Meaning) : Meaning[k] # -1
    BY DEF DecodesText
  <2>1. PICK at, f : Known(at, f) /\ Progress(at, f)
    BY DEF TextInv
  <2>2. Meaning = f[1] /\ is_valid_utf8(out) = f[1] /\ Clean(f[1])
    BY <2>1 DEF Known, Progress
  <2> QED
    BY <2>2 DEF Clean
<1> QED
  BY <1>1, TextSafe, PTL

(* process_string() refuses a text only if one of its escapes or           *)
(* characters has no meaning: an unknown escape, a missing digit, half of  *)
(* a surrogate pair, a control character.  skip_quotes() refuses only one  *)
(* that never ends.                                                        *)
THEOREM StringRefuses == StringSpec => []RefusesOnlyErrors
<1>1. TextInv => RefusesOnlyErrors
  <2> SUFFICES ASSUME TextInv, OfPieces, stringPc = "failed"
               PROVE  end = 0 \/ \E k \in 1 .. Len(Meaning) : Meaning[k] = -1
    BY DEF RefusesOnlyErrors
  <2>1. PICK at, f : Known(at, f) /\ Progress(at, f)
    BY DEF TextInv
  <2>2. Meaning = f[1] /\ (end = 0 \/ ~Clean(f[1]))
    BY <2>1 DEF Known, Progress
  <2> QED
    BY <2>2 DEF Clean
<1> QED
  BY <1>1, TextSafe, PTL

-----------------------------------------------------------------------------
(* The recursive descent: who owns the blocks. *)

Frames ==
  [kind : {"object", "array"}, blocks : Nat, key : StringTokens \cup {NoKey},
   keys : SUBSET StringTokens, count : Nat]

(* A call that waits for the value of a member holds its key, if it parses *)
(* an object.                                                              *)
Keyed(frame) == frame.key # NoKey <=> frame.kind = "object"

HeldBy(st) == Total([n \in 1 .. Len(st) |-> Owned(st[n])], Len(st))

(* The calls st at the program point p, with v blocks in the value that    *)
(* was returned and h in the heap.                                         *)
Ownership(p, st, v, h) ==
  /\ st \in Seq(Frames) /\ v \in Nat /\ h = v + HeldBy(st)
  /\ p \in {"value", "opened", "key", "short", "colon", "returned", "after", "comma", "close",
            "done", "null", "failed"}
  /\ p \notin {"returned", "done"} => v = 0
  /\ p \in {"failed", "done"} => st = << >>
  /\ p \in {"opened", "key", "after", "comma", "close"} => st # << >> /\ Head(st).key = NoKey
  /\ p \in {"key", "short", "colon"} => st # << >> /\ Head(st).kind = "object"
  /\ p \in {"value", "returned", "short", "colon", "null"} /\ st # << >> => Keyed(Head(st))
  /\ \A n \in 2 .. Len(st) : Keyed(st[n])

LEMMA OwnedType == \A f \in Frames : Owned(f) \in Nat
BY DEF Owned, Frames

(* What one call owns. *)
LEMMA OwnedParts ==
  ASSUME NEW f \in Frames
  PROVE  /\ f.key = NoKey => Owned(f) = f.blocks
         /\ f.key # NoKey => Owned(f) = 1 + f.blocks
<1>1. f.blocks \in Nat
  BY DEF Frames
<1> QED
  BY <1>1 DEF Owned

(* What all calls hold: the innermost one and the others. *)
LEMMA HeldTop ==
  ASSUME NEW st \in Seq(Frames), st # << >>
  PROVE  /\ Head(st) = st[1] /\ Head(st) \in Frames /\ Tail(st) \in Seq(Frames)
         /\ Len(st) \in Nat /\ Len(st) >= 1 /\ Len(Tail(st)) = Len(st) - 1
         /\ \A n \in 1 .. Len(st) - 1 : Tail(st)[n] = st[n + 1]
         /\ HeldBy(Tail(st)) \in Nat /\ HeldBy(st) = Owned(Head(st)) + HeldBy(Tail(st))
<1>1. /\ Head(st) = st[1] /\ Head(st) \in Frames /\ Tail(st) \in Seq(Frames)
      /\ Len(st) \in Nat /\ Len(st) >= 1 /\ Len(Tail(st)) = Len(st) - 1
  BY HeadTailProperties, EmptySeq
<1>2. \A n \in 1 .. Len(st) - 1 : Tail(st)[n] = st[n + 1]
  OBVIOUS
<1>3. PICK n : n \in Nat /\ n = Len(st) - 1
  <2>1. Len(st) - 1 \in Nat
    BY <1>1
  <2> QED
    BY <2>1, Zenon
<1>4. PICK g : g = [k \in 1 .. Len(st) |-> Owned(st[k])]
  OBVIOUS
<1>5. PICK f : f = [k \in 1 .. n |-> Owned(Tail(st)[k])]
  OBVIOUS
<1>6. ASSUME NEW k \in 1 .. n PROVE f[k] \in Nat /\ g[k + 1] = f[k]
  <2>1. k + 1 \in 1 .. Len(st) /\ k \in 1 .. Len(st) - 1
    BY <1>1, <1>3
  <2>2. st[k + 1] \in Frames /\ Tail(st)[k] = st[k + 1]
    BY <1>2, <2>1, ElementOfSeq
  <2>3. f[k] = Owned(st[k + 1]) /\ g[k + 1] = Owned(st[k + 1])
    BY <1>4, <1>5, <2>1, <2>2, Zenon
  <2> QED
    BY <2>2, <2>3, OwnedType
<1>7. g[1] = Owned(Head(st)) /\ g[1] \in Nat
  <2>1. 1 \in 1 .. Len(st)
    BY <1>1
  <2>2. g[1] = Owned(Head(st))
    BY <1>1, <1>4, <2>1
  <2> QED
    BY <1>1, <2>2, OwnedType
<1>8. Total(g, n + 1) = g[1] + Total(f, n)
  BY <1>3, <1>6, <1>7, TotalShift
<1>9. Total(f, n) \in Nat
  BY <1>3, <1>6, TotalType
<1>10. HeldBy(st) = Total(g, n + 1) /\ HeldBy(Tail(st)) = Total(f, n)
  <2>1. Len(st) = n + 1 /\ Len(Tail(st)) = n
    BY <1>1, <1>3
  <2> QED
    BY <1>4, <1>5, <2>1 DEF HeldBy
<1> QED
  BY <1>1, <1>2, <1>7, <1>8, <1>9, <1>10

LEMMA HeldNone == HeldBy(<< >>) = 0
<1>1. Len(<< >>) = 0 /\ 0 \in Nat /\ \A n \in 1 .. 0 : FALSE
  OBVIOUS
<1>2. PICK f : f = [n \in 1 .. Len(<< >>) |-> Owned(<< >>[n])]
  OBVIOUS
<1>3. Total(f, 0) = 0
  BY <1>1, TotalZero
<1> QED
  BY <1>1, <1>2, <1>3 DEF HeldBy

LEMMA HeldType == ASSUME NEW st \in Seq(Frames) PROVE HeldBy(st) \in Nat
<1>1. CASE st = << >>
  BY <1>1, HeldNone
<1>2. CASE st # << >>
  <2>1. Owned(Head(st)) \in Nat
    BY <1>2, HeldTop, OwnedType
  <2> QED
    BY <1>2, <2>1, HeldTop
<1> QED
  BY <1>1, <1>2

(* A call that begins. *)
LEMMA HeldPush ==
  ASSUME NEW st \in Seq(Frames), NEW f \in Frames, NEW su, su = <<f>> \o st
  PROVE  /\ su \in Seq(Frames) /\ su # << >> /\ Head(su) = f /\ Tail(su) = st
         /\ Len(su) = Len(st) + 1 /\ HeldBy(su) = Owned(f) + HeldBy(st)
<1>1. PICK one : one = <<f>>
  OBVIOUS
<1>2. one \in Seq(Frames) /\ Len(one) = 1 /\ one[1] = f
  BY <1>1
<1>3. Len(st) \in Nat
  OBVIOUS
<1>4. /\ su \in Seq(Frames) /\ Len(su) = 1 + Len(st)
      /\ \A n \in 1 .. 1 + Len(st) : su[n] = IF n <= 1 THEN one[n] ELSE st[n - 1]
  BY <1>1, <1>2, ConcatProperties
<1>5. su # << >> /\ su[1] = f
  BY <1>2, <1>3, <1>4
<1>6. /\ Head(su) = f /\ Tail(su) \in Seq(Frames) /\ Len(Tail(su)) = Len(st)
      /\ \A n \in 1 .. Len(st) : Tail(su)[n] = su[n + 1]
  BY <1>3, <1>4, <1>5, HeldTop
<1>7. \A n \in 1 .. Len(st) : Tail(su)[n] = st[n]
  BY <1>3, <1>4, <1>6
<1>8. Tail(su) = st
  BY <1>6, <1>7, SeqEqual
<1>9. HeldBy(su) = Owned(Head(su)) + HeldBy(Tail(su))
  BY <1>4, <1>5, HeldTop, Zenon
<1>10. Len(su) = Len(st) + 1
  BY <1>3, <1>4
<1>11. HeldBy(su) = Owned(f) + HeldBy(st)
  BY <1>6, <1>8, <1>9, Zenon
<1> QED
  BY <1>4, <1>5, <1>6, <1>8, <1>10, <1>11, Zenon

(* The innermost call changes. *)
LEMMA HeldSet ==
  ASSUME NEW st \in Seq(Frames), st # << >>, NEW f \in Frames, NEW su, su = [st EXCEPT ![1] = f]
  PROVE  /\ su \in Seq(Frames) /\ su # << >> /\ Head(su) = f /\ Tail(su) = Tail(st)
         /\ Len(su) = Len(st) /\ HeldBy(su) = Owned(f) + HeldBy(Tail(st))
<1>1. Len(st) \in Nat /\ Len(st) >= 1 /\ Len(Tail(st)) = Len(st) - 1 /\ Tail(st) \in Seq(Frames)
  BY HeldTop
<1>2. su \in Seq(Frames) /\ Len(su) = Len(st) /\ su[1] = f
  BY <1>1
<1>3. \A n \in 1 .. Len(st) - 1 : su[n + 1] = st[n + 1]
  BY <1>1
<1>4. su # << >>
  BY <1>1, <1>2
<1>5. /\ Head(su) = f /\ Tail(su) \in Seq(Frames) /\ Len(Tail(su)) = Len(st) - 1
      /\ \A n \in 1 .. Len(st) - 1 : Tail(su)[n] = su[n + 1]
  BY <1>2, <1>4, HeldTop
<1>6. \A n \in 1 .. Len(st) - 1 : Tail(st)[n] = st[n + 1]
  BY HeldTop
<1>7. \A n \in 1 .. Len(st) - 1 : Tail(su)[n] = Tail(st)[n]
  BY <1>3, <1>5, <1>6
<1>8. Tail(su) = Tail(st)
  BY <1>1, <1>5, <1>7, SeqEqual
<1> QED
  BY <1>2, <1>4, <1>5, <1>8, HeldTop

(* A call of parse_object_value() or parse_array_value() begins. *)
LEMMA OpenOwns ==
  ASSUME NEW st, NEW h, Ownership("value", st, 0, h), NEW kd \in {"object", "array"}
  PROVE  Ownership("opened", <<NewFrame(kd)>> \o st, 0, h + 2)
<1>1. PICK f : f = NewFrame(kd)
  OBVIOUS
<1>2. f \in Frames /\ f.key = NoKey /\ Owned(f) = 2
  BY <1>1 DEF NewFrame, Frames, Owned
<1>3. PICK su : su = <<f>> \o st
  OBVIOUS
<1>4. /\ st \in Seq(Frames) /\ h = 0 + HeldBy(st)
      /\ st # << >> => Keyed(Head(st))
      /\ \A n \in 2 .. Len(st) : Keyed(st[n])
  BY DEF Ownership
<1>5. /\ su \in Seq(Frames) /\ su # << >> /\ Head(su) = f /\ Tail(su) = st
      /\ Len(su) = Len(st) + 1 /\ HeldBy(su) = Owned(f) + HeldBy(st)
  BY <1>2, <1>3, <1>4, HeldPush, Zenon
<1>6. ASSUME NEW n \in 2 .. Len(su) PROVE Keyed(su[n])
  <2>1. PICK m : m = n - 1
    OBVIOUS
  <2>2. Len(st) \in Nat
    BY <1>4
  <2>3. m \in 1 .. Len(st) /\ m + 1 = n /\ m \in 1 .. Len(su) - 1
    BY <1>5, <2>1, <2>2
  <2>4. su[n] = st[m]
    BY <1>5, <2>3, HeldTop
  <2>5. CASE m = 1
    <3>1. st # << >>
      BY <2>3
    <3>2. Head(st) = st[1]
      BY <1>4, <3>1, HeldTop
    <3> QED
      BY <1>4, <2>4, <2>5, <3>1, <3>2
  <2>6. CASE m # 1
    <3>1. m \in 2 .. Len(st)
      BY <2>3, <2>6
    <3> QED
      BY <1>4, <2>4, <3>1
  <2> QED
    BY <2>5, <2>6
<1>7. h + 2 = 0 + HeldBy(su)
  <2>1. HeldBy(st) \in Nat
    BY <1>4, HeldType
  <2> QED
    BY <1>2, <1>4, <1>5, <2>1
<1>8. Ownership("opened", su, 0, h + 2)
  BY <1>2, <1>5, <1>6, <1>7 DEF Ownership
<1> QED
  BY <1>1, <1>3, <1>8

(* The calls below the innermost one. *)
LEMMA TailKeyed ==
  ASSUME NEW st \in Seq(Frames), st # << >>, \A n \in 2 .. Len(st) : Keyed(st[n])
  PROVE  /\ Tail(st) # << >> => Keyed(Head(Tail(st)))
         /\ \A n \in 1 .. Len(Tail(st)) : Keyed(Tail(st)[n])
<1>1. /\ Len(st) \in Nat /\ Len(Tail(st)) = Len(st) - 1 /\ Tail(st) \in Seq(Frames)
      /\ \A n \in 1 .. Len(st) - 1 : Tail(st)[n] = st[n + 1]
  BY HeldTop
<1>2. ASSUME NEW n \in 1 .. Len(Tail(st)) PROVE Keyed(Tail(st)[n])
  <2>1. n + 1 \in 2 .. Len(st) /\ n \in 1 .. Len(st) - 1
    BY <1>1
  <2> QED
    BY <1>1, <2>1
<1>3. ASSUME Tail(st) # << >> PROVE Keyed(Head(Tail(st)))
  <2>1. Head(Tail(st)) = Tail(st)[1] /\ Len(Tail(st)) >= 1 /\ Len(Tail(st)) \in Nat
    BY <1>1, <1>3, HeldTop
  <2>2. 1 \in 1 .. Len(Tail(st))
    BY <2>1
  <2> QED
    BY <1>2, <2>1, <2>2
<1> QED
  BY <1>2, <1>3

(* The value of the innermost call goes to its caller. *)
LEMMA ReturnOwns ==
  ASSUME NEW p \in {"opened", "close"}, NEW st, NEW v, NEW h, Ownership(p, st, v, h)
  PROVE  Ownership("returned", Tail(st), Head(st).blocks, h)
<1>1. /\ st \in Seq(Frames) /\ v = 0 /\ h = v + HeldBy(st) /\ st # << >> /\ Head(st).key = NoKey
      /\ \A n \in 2 .. Len(st) : Keyed(st[n])
  BY DEF Ownership
<1>2. /\ Head(st) \in Frames /\ Tail(st) \in Seq(Frames) /\ HeldBy(Tail(st)) \in Nat
      /\ HeldBy(st) = Owned(Head(st)) + HeldBy(Tail(st))
  BY <1>1, HeldTop
<1>3. Head(st).blocks \in Nat /\ Owned(Head(st)) = Head(st).blocks
  BY <1>1, <1>2 DEF Frames, Owned
<1>4. PICK su, w : su = Tail(st) /\ w = Head(st).blocks
  OBVIOUS
<1>5. /\ su # << >> => Keyed(Head(su))
      /\ \A n \in 1 .. Len(su) : Keyed(su[n])
  BY <1>1, <1>4, TailKeyed
<1>6. \A n \in 2 .. Len(su) : Keyed(su[n])
  <2>1. Len(su) \in Nat
    BY <1>2, <1>4
  <2> QED
    BY <1>5, <2>1
<1>7. h = w + HeldBy(su) /\ w \in Nat /\ su \in Seq(Frames)
  BY <1>1, <1>2, <1>3, <1>4
<1>8. Ownership("returned", su, w, h)
  BY <1>5, <1>6, <1>7 DEF Ownership
<1> QED
  BY <1>4, <1>8

(* A call that releases what it owns, and the value it was given. *)
LEMMA GiveUpOwns ==
  ASSUME NEW p, NEW st, NEW v, NEW h, Ownership(p, st, v, h), st # << >>,
         NEW d, d = v + Owned(Head(st))
  PROVE  Ownership("null", Tail(st), 0, h - d)
<1>1. /\ st \in Seq(Frames) /\ v \in Nat /\ h = v + HeldBy(st)
      /\ \A n \in 2 .. Len(st) : Keyed(st[n])
  BY DEF Ownership
<1>2. /\ Head(st) \in Frames /\ Tail(st) \in Seq(Frames) /\ HeldBy(Tail(st)) \in Nat
      /\ HeldBy(st) = Owned(Head(st)) + HeldBy(Tail(st)) /\ Owned(Head(st)) \in Nat
  BY <1>1, HeldTop, OwnedType
<1>3. PICK su, g : su = Tail(st) /\ g = h - d
  OBVIOUS
<1>4. su # << >> => Keyed(Head(su))
  BY <1>1, <1>3, TailKeyed
<1>5. \A n \in 2 .. Len(su) : Keyed(su[n])
  <2>1. Len(su) \in Nat
    BY <1>2, <1>3
  <2>2. \A n \in 1 .. Len(su) : Keyed(su[n])
    BY <1>1, <1>3, TailKeyed
  <2> QED
    BY <2>1, <2>2
<1>6. g = 0 + HeldBy(su)
  BY <1>1, <1>2, <1>3
<1>7. Ownership("null", su, 0, g)
  BY <1>1, <1>2, <1>3, <1>4, <1>5, <1>6 DEF Ownership
<1> QED
  BY <1>3, <1>7

(* The innermost call of st becomes f. *)
TopBecomes(su, st, f) == su = [st EXCEPT ![1] = f]

(* The innermost call changes, and owns d blocks more than it did. *)
LEMMA ChangeOwns ==
  ASSUME NEW p, NEW st, NEW v, NEW h, Ownership(p, st, v, h), st # << >>,
         NEW f \in Frames, NEW su, TopBecomes(su, st, f),
         NEW d \in Int, Owned(f) = Owned(Head(st)) + d
  PROVE  /\ su \in Seq(Frames) /\ su # << >> /\ Head(su) = f /\ Len(su) = Len(st)
         /\ HeldBy(su) = HeldBy(st) + d
         /\ \A n \in 2 .. Len(su) : Keyed(su[n])
<1>1. /\ st \in Seq(Frames) /\ v \in Nat /\ h = v + HeldBy(st)
      /\ \A n \in 2 .. Len(st) : Keyed(st[n])
  BY DEF Ownership
<1>2. /\ Head(st) \in Frames /\ HeldBy(Tail(st)) \in Nat /\ Len(st) \in Nat
      /\ HeldBy(st) = Owned(Head(st)) + HeldBy(Tail(st)) /\ Owned(Head(st)) \in Nat
  BY <1>1, HeldTop, OwnedType
<1>3. /\ su \in Seq(Frames) /\ su # << >> /\ Head(su) = f
      /\ Len(su) = Len(st) /\ HeldBy(su) = Owned(f) + HeldBy(Tail(st))
  BY <1>1, HeldSet DEF TopBecomes
<1>4. HeldBy(su) = HeldBy(st) + d
  BY <1>1, <1>2, <1>3
<1>5. ASSUME NEW n \in 2 .. Len(su) PROVE Keyed(su[n])
  <2>1. n \in 2 .. Len(st) /\ n # 1
    BY <1>2, <1>3
  <2>2. su[n] = st[n]
    BY <1>1, <2>1 DEF TopBecomes
  <2> QED
    BY <1>1, <2>1, <2>2
<1> QED
  BY <1>3, <1>4, <1>5

(* A key was read. *)
LEMMA KeyOwns ==
  ASSUME NEW st, NEW v, NEW h, Ownership("key", st, v, h), NEW s \in StringTokens,
         NEW p \in {"short", "colon"}
  PROVE  Ownership(p, [st EXCEPT ![1].key = s], v, h + 1)
<1>1. /\ st \in Seq(Frames) /\ v = 0 /\ h = v + HeldBy(st) /\ st # << >>
      /\ Head(st).key = NoKey /\ Head(st).kind = "object"
  BY DEF Ownership
<1>2. Head(st) = st[1] /\ Head(st) \in Frames /\ HeldBy(st) \in Nat
  BY <1>1, HeldTop, HeldType
<1>3. PICK f : f = [Head(st) EXCEPT !.key = s]
  OBVIOUS
<1>4. s # NoKey
  BY JsonAssumption DEF StringTokens
<1>5. f \in Frames /\ f.key = s /\ f.kind = "object" /\ Owned(f) = Owned(Head(st)) + 1
  <2>1. PICK x \in Frames : x = Head(st)
    BY <1>2
  <2>2. f = [kind |-> x.kind, blocks |-> x.blocks, key |-> s, keys |-> x.keys, count |-> x.count]
    BY <1>3, <2>1 DEF Frames
  <2>3. f \in Frames /\ f.key = s /\ f.kind = x.kind /\ f.blocks = x.blocks
    BY <2>2 DEF Frames
  <2>4. x.key = NoKey /\ x.kind = "object" /\ x.blocks \in Nat
    BY <1>1, <2>1 DEF Frames
  <2>5. Owned(f) = Owned(x) + 1
    BY <1>4, <2>3, <2>4 DEF Owned
  <2> QED
    BY <2>1, <2>3, <2>4, <2>5
<1>6. PICK su : TopBecomes(su, st, f)
  BY DEF TopBecomes
<1>7. [st EXCEPT ![1].key = s] = su
  BY <1>2, <1>3, <1>6 DEF TopBecomes
<1>8. /\ su \in Seq(Frames) /\ su # << >> /\ Head(su) = f
      /\ HeldBy(su) = HeldBy(st) + 1
      /\ \A n \in 2 .. Len(su) : Keyed(su[n])
  <2>1. PICK d : d = 1
    OBVIOUS
  <2>2. d \in Int /\ Owned(f) = Owned(Head(st)) + d
    BY <1>5, <2>1
  <2>3. /\ su \in Seq(Frames) /\ su # << >> /\ Head(su) = f /\ HeldBy(su) = HeldBy(st) + d
        /\ \A n \in 2 .. Len(su) : Keyed(su[n])
    BY <1>1, <1>5, <1>6, <2>2, ChangeOwns
  <2> QED
    BY <2>1, <2>3, Zenon
<1>9. h + 1 = v + HeldBy(su)
  BY <1>1, <1>2, <1>8
<1>10. Ownership(p, su, v, h + 1)
  BY <1>1, <1>4, <1>5, <1>8, <1>9 DEF Ownership, Keyed
<1> QED
  BY <1>7, <1>10

(* f is the container x with one member more. *)
Extended(f, x, nb, ks) ==
  f = [kind |-> x.kind, key |-> NoKey, count |-> x.count + 1, blocks |-> nb, keys |-> ks]

(* json_object_add() or json_array_add() takes the value, v blocks, and    *)
(* its key; a blocks were allocated for the arrays.                        *)
LEMMA AddOwns ==
  ASSUME NEW st, NEW v, NEW h, Ownership("returned", st, v, h), st # << >>, NEW a \in Nat,
         NEW b, b = IF Head(st).kind = "object" THEN 1 ELSE 0,
         NEW ks, ks = IF Head(st).kind = "object" THEN Head(st).keys \cup {Head(st).key}
                      ELSE Head(st).keys,
         NEW f, Extended(f, Head(st), Head(st).blocks + v + a + b, ks),
         NEW su, TopBecomes(su, st, f)
  PROVE  Ownership("after", su, 0, h + a)
<1>1. st \in Seq(Frames) /\ v \in Nat /\ h = v + HeldBy(st) /\ Keyed(Head(st))
  BY DEF Ownership
<1>2. Head(st) \in Frames /\ HeldBy(st) \in Nat
  BY <1>1, HeldTop, HeldType
<1>3. PICK x \in Frames : x = Head(st)
  BY <1>2
<1>4. PICK nb, nc : nb = x.blocks + v + a + b /\ nc = x.count + 1
  OBVIOUS
<1>5. f \in Frames /\ f.key = NoKey /\ Owned(f) = Owned(Head(st)) + (v + a)
  <2>1. x.blocks \in Nat /\ x.count \in Nat /\ x.kind \in {"object", "array"}
    BY DEF Frames
  <2>2. b \in Nat /\ (b = 1 <=> x.kind = "object") /\ (b = 0 <=> x.kind # "object")
    BY <1>3
  <2>3. nb \in Nat /\ nc \in Nat /\ nb = x.blocks + b + (v + a)
    <3>1. PICK xb, xc : xb = x.blocks /\ xc = x.count
      OBVIOUS
    <3>2. xb \in Nat /\ xc \in Nat /\ v \in Nat /\ b \in Nat
      BY <1>1, <2>1, <2>2, <3>1
    <3>3. nb = xb + v + a + b /\ nc = xc + 1
      BY <1>4, <3>1
    <3>4. nb \in Nat
      BY <3>2, <3>3
    <3>5. nc \in Nat
      BY <3>2, <3>3
    <3>6. nb = xb + b + (v + a)
      BY <3>2, <3>3
    <3> QED
      BY <3>1, <3>4, <3>5, <3>6
  <2>4. ks \in SUBSET StringTokens
    BY <1>1, <1>3 DEF Keyed, Frames
  <2>5. f = [kind |-> x.kind, key |-> NoKey, count |-> nc, blocks |-> nb, keys |-> ks]
    BY <1>3, <1>4, Zenon DEF Extended
  <2>6. f \in Frames
    BY <2>1, <2>3, <2>4, <2>5 DEF Frames
  <2>7. f.key = NoKey /\ f.blocks = nb
    BY <2>5
  <2>8. Owned(f) = nb
    BY <2>3, <2>7 DEF Owned
  <2>9. Owned(x) = x.blocks + b
    BY <1>1, <1>3, <2>1, <2>2 DEF Owned, Keyed
  <2> QED
    BY <1>3, <2>3, <2>6, <2>7, <2>8, <2>9
<1>6. v + a \in Int
  BY <1>1
<1>7. /\ su \in Seq(Frames) /\ su # << >> /\ Head(su) = f
      /\ HeldBy(su) = HeldBy(st) + (v + a)
      /\ \A n \in 2 .. Len(su) : Keyed(su[n])
  <2>1. PICK d : d = v + a
    OBVIOUS
  <2>2. d \in Int /\ Owned(f) = Owned(Head(st)) + d /\ f \in Frames
    BY <1>5, <1>6, <2>1, Zenon
  <2>3. /\ su \in Seq(Frames) /\ su # << >> /\ Head(su) = f /\ HeldBy(su) = HeldBy(st) + d
        /\ \A n \in 2 .. Len(su) : Keyed(su[n])
    BY <2>2, ChangeOwns
  <2> QED
    BY <2>1, <2>3, Zenon
<1>8. h + a = 0 + HeldBy(su)
  BY <1>1, <1>2, <1>7
<1> QED
  BY <1>5, <1>7, <1>8 DEF Ownership

HeapInv == Ownership(pc, stack, value, heap)

(* NULL is returned to the call that asked for a value. *)
LEMMA NullPreserves ==
  ASSUME HeapInv, pc = "value", NEW r, ReturnNull(r)
  PROVE  HeapInv'
<1>1. pc' = "null" /\ stack' = stack /\ value' = value /\ heap' = heap
  BY DEF ReturnNull
<1>2. Ownership("value", stack, value, heap)
  BY DEF HeapInv
<1>3. Ownership("null", stack, value, heap)
  BY <1>2 DEF Ownership
<1> QED
  BY <1>1, <1>3 DEF HeapInv

(* A call releases all it owns. *)
LEMMA GiveUpPreserves ==
  ASSUME HeapInv, stack # << >>, NEW r, NEW n, n = value + Owned(Head(stack)), GiveUp(r, n)
  PROVE  HeapInv'
<1>1. pc' = "null" /\ stack' = Tail(stack) /\ value' = 0 /\ heap' = heap - n
  BY DEF GiveUp
<1>2. Ownership("null", Tail(stack), 0, heap - n)
  BY GiveUpOwns DEF HeapInv
<1> QED
  BY <1>1, <1>2 DEF HeapInv

(* The error returns: without a key, with one, and with a value too. *)
LEMMA Releases ==
  ASSUME HeapInv, stack # << >>
  PROVE  /\ Top.blocks \in Nat /\ value \in Nat
         /\ pc \in {"opened", "key", "after", "comma", "close"} => Top.blocks = value + Owned(Head(stack))
         /\ pc \in {"short", "colon"} => 1 + Top.blocks = value + Owned(Head(stack))
         /\ pc \in {"returned", "null"} /\ InObject =>
              1 + value + Top.blocks = value + Owned(Head(stack))
         /\ pc \in {"returned", "null"} /\ ~InObject =>
              value + Top.blocks = value + Owned(Head(stack))
<1>1. Ownership(pc, stack, value, heap) /\ Top = Head(stack)
  BY DEF HeapInv, Top
<1>2. PICK x : x = Head(stack)
  OBVIOUS
<1>3. x \in Frames /\ value \in Nat
  BY <1>1, <1>2, HeldTop DEF Ownership
<1>4. PICK b \in Nat : b = x.blocks
  BY <1>3 DEF Frames
<1>5. (x.key = NoKey => Owned(x) = b) /\ (x.key # NoKey => Owned(x) = 1 + b)
  BY <1>3, <1>4, OwnedParts
<1>6. /\ pc \in {"opened", "key", "after", "comma", "close"} => x.key = NoKey /\ value = 0
      /\ pc \in {"short", "colon"} => x.key # NoKey /\ value = 0
      /\ pc \in {"returned", "null"} => (x.key # NoKey <=> x.kind = "object")
  BY <1>1, <1>2 DEF Ownership, Keyed
<1>7. InObject <=> x.kind = "object"
  BY <1>1, <1>2 DEF InObject
<1> QED
  BY <1>1, <1>2, <1>3, <1>4, <1>5, <1>6, <1>7

(* Only the program point changes. *)
LEMMA NextElementPreserves ==
  ASSUME HeapInv, pc \in {"opened", "comma"}, NextElement
  PROVE  HeapInv'
<1>1. /\ stack' = stack /\ value' = value /\ heap' = heap
      /\ pc' = IF tok = "NUL" THEN "close" ELSE IF InObject THEN "key" ELSE "value"
  BY DEF NextElement
<1>2. Ownership(pc, stack, value, heap)
  BY DEF HeapInv
<1>3. Ownership(pc', stack, value, heap)
  BY <1>1, <1>2 DEF Ownership, Keyed, InObject, Top
<1> QED
  BY <1>1, <1>3 DEF HeapInv

LEMMA ReturnPreserves ==
  ASSUME HeapInv, pc \in {"opened", "close"}, ReturnValue
  PROVE  HeapInv'
<1>1. pc' = "returned" /\ stack' = Tail(stack) /\ value' = Head(stack).blocks /\ heap' = heap
  BY DEF ReturnValue, Top
<1>2. Ownership("returned", Tail(stack), Head(stack).blocks, heap)
  BY ReturnOwns DEF HeapInv
<1> QED
  BY <1>1, <1>2 DEF HeapInv

LEMMA HeapStep == ASSUME HeapInv, JsonNext PROVE HeapInv'
<1>1. Ownership(pc, stack, value, heap)
  BY DEF HeapInv
<1>2. pc \notin {"returned", "done"} => value = 0
  BY <1>1 DEF Ownership
<1>3. CASE parse_value
  <2>1. value = 0 /\ pc = "value"
    BY <1>2, <1>3 DEF parse_value
  <2>2. ASSUME NEW r, ReturnNull(r) PROVE HeapInv'
    BY <2>1, <2>2, NullPreserves
  <2>3. ASSUME NEW kd \in {"object", "array"}, OpenContainer(kd) PROVE HeapInv'
    <3>1. CASE ReturnNull("memory")
      BY <2>2, <3>1
    <3>2. CASE /\ stack' = <<NewFrame(kd)>> \o stack /\ heap' = heap + 2 /\ pc' = "opened"
               /\ value' = value
      <4>1. Ownership("opened", <<NewFrame(kd)>> \o stack, 0, heap + 2)
        BY <1>1, <2>1, OpenOwns
      <4> QED
        BY <2>1, <3>2, <4>1 DEF HeapInv
    <3> QED
      BY <2>3, <3>1, <3>2 DEF OpenContainer
  <2>4. ASSUME NEW n \in Nat, Scalar(n) PROVE HeapInv'
    <3>1. CASE ReturnNull("memory")
      BY <2>2, <3>1
    <3>2. CASE value' = n /\ heap' = heap + n /\ pc' = "returned" /\ stack' = stack
      <4>1. stack \in Seq(Frames) /\ heap = 0 + HeldBy(stack) /\ HeldBy(stack) \in Nat
        BY <1>1, <2>1, HeldType DEF Ownership
      <4>2. heap + n = n + HeldBy(stack)
        BY <4>1
      <4>3. Ownership("returned", stack, n, heap + n)
        BY <1>1, <2>1, <4>2 DEF Ownership
      <4> QED
        BY <3>2, <4>3 DEF HeapInv
    <3> QED
      BY <2>4, <3>1, <3>2 DEF Scalar
  <2>5. CASE value' = 1 /\ heap' = heap + 1 /\ pc' = "returned" /\ stack' = stack
    <3>1. stack \in Seq(Frames) /\ heap = 0 + HeldBy(stack) /\ HeldBy(stack) \in Nat
      BY <1>1, <2>1, HeldType DEF Ownership
    <3>2. heap + 1 = 1 + HeldBy(stack)
      BY <3>1
    <3>3. Ownership("returned", stack, 1, heap + 1)
      BY <1>1, <2>1, <3>2 DEF Ownership
    <3> QED
      BY <2>5, <3>3 DEF HeapInv
  <2>6. \/ \E r : ReturnNull(r)
        \/ OpenContainer("object") \/ OpenContainer("array") \/ Scalar(2) \/ Scalar(1)
        \/ value' = 1 /\ heap' = heap + 1 /\ pc' = "returned" /\ stack' = stack
    <3>1. CASE TooDeep
      BY <1>3, <3>1 DEF parse_value
    <3>2. CASE ~TooDeep
      BY <1>3, <3>2 DEF parse_value, parse_number_value
    <3> QED
      BY <3>1, <3>2
  <2> QED
    BY <2>2, <2>3, <2>4, <2>5, <2>6
<1>4. CASE AfterOpen
  BY <1>4, ReturnPreserves, NextElementPreserves DEF AfterOpen
<1>5. CASE ParseKey
  <2>1. pc = "key" /\ value = 0
    BY <1>2, <1>5 DEF ParseKey
  <2>2. CASE /\ tok \in StringTokens /\ stack' = [stack EXCEPT ![1].key = tok] /\ heap' = heap + 1
             /\ pc' \in {"colon", "short"} /\ value' = value
    <3>1. PICK p \in {"colon", "short"} : p = pc'
      BY <2>2
    <3>2. Ownership(p, [stack EXCEPT ![1].key = tok], value, heap + 1)
      BY <1>1, <2>1, <2>2, KeyOwns
    <3> QED
      BY <2>2, <3>1, <3>2 DEF HeapInv
  <2>3. CASE GiveUp("memory", Top.blocks) \/ GiveUp("syntax", Top.blocks)
    <3>1. stack # << >>
      BY <1>1, <2>1 DEF Ownership
    <3>2. Top.blocks = value + Owned(Head(stack))
      BY <2>1, <3>1, Releases
    <3> QED
      BY <2>3, <3>1, <3>2, GiveUpPreserves
  <2> QED
    BY <1>5, <2>2, <2>3 DEF ParseKey, StringTokens
<1>6. CASE ParseColon
  <2>1. pc = "colon" /\ value = 0
    BY <1>2, <1>6 DEF ParseColon
  <2>2. CASE GiveUp("syntax", 1 + Top.blocks)
    <3>1. stack # << >>
      BY <1>1, <2>1 DEF Ownership
    <3>2. 1 + Top.blocks = value + Owned(Head(stack))
      BY <2>1, <3>1, Releases
    <3> QED
      BY <2>2, <3>1, <3>2, GiveUpPreserves
  <2>3. CASE pc' = "value" /\ stack' = stack /\ value' = value /\ heap' = heap
    BY <1>1, <2>1, <2>3 DEF Ownership, HeapInv
  <2> QED
    BY <1>6, <2>2, <2>3 DEF ParseColon
<1>7. CASE AddMember
  <2>1. pc = "returned" /\ stack # << >>
    BY <1>7 DEF AddMember
  <2>2. ASSUME NEW r, \/ InObject /\ GiveUp(r, 1 + value + Top.blocks)
                      \/ ~InObject /\ GiveUp(r, value + Top.blocks)
        PROVE  HeapInv'
    BY <2>1, <2>2, Releases, GiveUpPreserves
  <2>3. CASE /\ stack' = [stack EXCEPT ![1] =
                  [kind |-> Top.kind, key |-> NoKey, count |-> Top.count + 1,
                   blocks |-> Top.blocks + value + Arrays + (IF InObject THEN 1 ELSE 0),
                   keys |-> IF InObject THEN Top.keys \cup {Top.key} ELSE Top.keys]]
             /\ heap' = heap + Arrays /\ value' = 0 /\ pc' = "after"
    <3>1. PICK a \in Nat : a = Arrays
      BY DEF Arrays
    <3>2. PICK b, ks : /\ b = IF InObject THEN 1 ELSE 0
                       /\ ks = IF InObject THEN Top.keys \cup {Top.key} ELSE Top.keys
      OBVIOUS
    <3>3. PICK f : Extended(f, Head(stack), Head(stack).blocks + value + a + b, ks)
      BY DEF Extended
    <3>4. TopBecomes(stack', stack, f)
      BY <2>3, <3>1, <3>2, <3>3 DEF TopBecomes, Extended, Top
    <3>5. /\ b = IF Head(stack).kind = "object" THEN 1 ELSE 0
          /\ ks = IF Head(stack).kind = "object" THEN Head(stack).keys \cup {Head(stack).key}
                  ELSE Head(stack).keys
      BY <3>2 DEF InObject, Top
    <3>6. PICK su : su = stack'
      OBVIOUS
    <3>7. Ownership("after", su, 0, heap + a)
      BY <1>1, <2>1, <3>3, <3>4, <3>5, <3>6, AddOwns
    <3> QED
      BY <2>3, <3>1, <3>6, <3>7 DEF HeapInv
  <2> QED
    BY <1>7, <2>2, <2>3 DEF AddMember
<1>8. CASE AfterMember
  <2>1. /\ pc = "after" /\ pc' \in {"comma", "close"} /\ stack' = stack /\ value' = value
        /\ heap' = heap
    BY <1>8 DEF AfterMember
  <2> QED
    BY <1>1, <2>1 DEF Ownership, HeapInv
<1>9. CASE AfterComma
  <2>1. CASE pc' = "close" /\ stack' = stack /\ value' = value /\ heap' = heap
    BY <1>1, <1>9, <2>1 DEF Ownership, HeapInv, AfterComma
  <2>2. CASE NextElement
    BY <1>9, <2>2, NextElementPreserves DEF AfterComma
  <2> QED
    BY <1>9, <2>1, <2>2 DEF AfterComma
<1>10. CASE CloseContainer
  <2>1. pc = "close" /\ value = 0
    BY <1>2, <1>10 DEF CloseContainer
  <2>2. CASE ReturnValue
    BY <2>1, <2>2, ReturnPreserves
  <2>3. CASE GiveUp("memory", Top.blocks) \/ GiveUp("syntax", Top.blocks)
    <3>1. stack # << >>
      BY <1>1, <2>1 DEF Ownership
    <3>2. Top.blocks = value + Owned(Head(stack))
      BY <2>1, <3>1, Releases
    <3> QED
      BY <2>3, <3>1, <3>2, GiveUpPreserves
  <2> QED
    BY <1>10, <2>2, <2>3 DEF CloseContainer
<1>11. CASE ReturnRoot
  BY <1>1, <1>11 DEF ReturnRoot, Ownership, HeapInv
<1>12. CASE NullMember
  <2>1. pc = "null" /\ stack # << >> /\ value = 0
    BY <1>2, <1>12 DEF NullMember
  <2>2. CASE InObject /\ GiveUp(why, 1 + Top.blocks)
    <3>1. 1 + Top.blocks = value + Owned(Head(stack))
      BY <2>1, <2>2, Releases
    <3> QED
      BY <2>1, <2>2, <3>1, GiveUpPreserves
  <2>3. CASE ~InObject /\ GiveUp(why, Top.blocks)
    <3>1. Top.blocks = value + Owned(Head(stack))
      BY <2>1, <2>3, Releases
    <3> QED
      BY <2>1, <2>3, <3>1, GiveUpPreserves
  <2> QED
    BY <1>12, <2>2, <2>3 DEF NullMember
<1>13. CASE NullRoot
  BY <1>1, <1>13 DEF NullRoot, Ownership, HeapInv
<1>15. CASE RefuseKey
  <2>1. pc = "short" /\ GiveUp("syntax", 1 + Top.blocks)
    BY <1>15 DEF RefuseKey
  <2>2. stack # << >>
    BY <1>1, <2>1 DEF Ownership
  <2>3. 1 + Top.blocks = value + Owned(Head(stack))
    BY <2>1, <2>2, Releases
  <2> QED
    BY <2>1, <2>2, <2>3, GiveUpPreserves
<1>14. CASE JsonStopped
  BY <1>14 DEF JsonStopped, jsonVars, HeapInv
<1> QED
  BY <1>3, <1>4, <1>5, <1>6, <1>7, <1>8, <1>9, <1>10, <1>11, <1>12, <1>13, <1>14, <1>15
  DEF JsonNext

LEMMA HeapSafe == JsonSpec => []HeapInv
<1>1. JsonInit => HeapInv
  <2> SUFFICES ASSUME JsonInit PROVE HeapInv
    OBVIOUS
  <2>1. pc = "value" /\ stack = << >> /\ value = 0 /\ heap = 0
    BY DEF JsonInit
  <2>2. << >> \in Seq(Frames) /\ 0 = 0 + HeldBy(<< >>) /\ \A n \in 2 .. Len(<< >>) : FALSE
    BY HeldNone
  <2> QED
    BY <2>1, <2>2 DEF HeapInv, Ownership
<1>2. HeapInv /\ [JsonNext]_jsonVars => HeapInv'
  <2>1. ASSUME HeapInv, UNCHANGED jsonVars PROVE HeapInv'
    BY <2>1 DEF jsonVars, HeapInv
  <2> QED
    BY <2>1, HeapStep
<1> QED
  BY <1>1, <1>2, PTL DEF JsonSpec

(* However a text ends, every block of parse_value() and its callers is    *)
(* owned: NULL leaves none behind, and the tree that is returned owns all. *)
THEOREM TreeOwned == JsonSpec => []TreeOwnsHeap
<1>1. HeapInv => TreeOwnsHeap
  <2> SUFFICES ASSUME HeapInv PROVE TreeOwnsHeap
    OBVIOUS
  <2>1. heap = value + HeldBy(stack) /\ Held = HeldBy(stack)
    BY DEF HeapInv, Ownership, HeldBy, Held
  <2>2. pc = "failed" => value = 0 /\ stack = << >>
    BY DEF HeapInv, Ownership
  <2>3. pc = "failed" => heap = 0
    BY <2>1, <2>2, HeldNone
  <2> QED
    BY <2>1, <2>3 DEF TreeOwnsHeap
<1> QED
  BY <1>1, HeapSafe, PTL

-----------------------------------------------------------------------------
(* The recursive descent: how deep it nests. *)

(* The places before k that hold one of A. *)
Places(t, k, A) == {m \in 1 .. k - 1 : t[m] \in A}

Hit(x, A) == IF x \in A THEN 1 ELSE 0

LEMMA PlacesFinite ==
  ASSUME NEW t, NEW k \in Nat, NEW A
  PROVE  IsFiniteSet(Places(t, k, A)) /\ Cardinality(Places(t, k, A)) \in Nat
<1>1. IsFiniteSet(1 .. k - 1)
  BY FS_Interval
<1>2. Places(t, k, A) \subseteq 1 .. k - 1
  BY DEF Places
<1> QED
  BY <1>1, <1>2, FS_Subset, FS_CardinalityType

MorePlaces(u, t, n, x, A) ==
  /\ \A k \in 1 .. n + 1 : Places(u, k, A) = Places(t, k, A)
  /\ Cardinality(Places(u, n + 2, A)) = Cardinality(Places(t, n + 1, A)) + Hit(x, A)

(* u is t, n tokens long, and one token more. *)
Grown(u, t, n, x) == n = Len(t) /\ u = Append(t, x)

LEMMA PlacesAppend ==
  ASSUME NEW T, NEW t \in Seq(T), NEW x \in T, NEW A, NEW n, NEW u, Grown(u, t, n, x)
  PROVE  MorePlaces(u, t, n, x, A)
<1>1. n \in Nat /\ u[n + 1] = x /\ \A m \in 1 .. n : u[m] = t[m]
  BY AppendProperties DEF Grown
<1>2. \A k \in 1 .. n + 1 : Places(u, k, A) = Places(t, k, A)
  BY <1>1 DEF Places
<1>3. PICK P, Q : P = Places(t, n + 1, A) /\ Q = Places(u, n + 2, A)
  OBVIOUS
<1>4. n + 1 \notin P /\ IsFiniteSet(P) /\ Cardinality(P) \in Nat
  <2>1. n + 1 \in Nat /\ n + 1 \notin 1 .. (n + 1) - 1
    BY <1>1
  <2>2. n + 1 \notin P
    BY <1>3, <2>1 DEF Places
  <2> QED
    BY <1>3, <2>1, <2>2, PlacesFinite
<1>5. (n + 2) - 1 = n + 1 /\ (n + 1) - 1 = n /\ \A m : m \in 1 .. n + 1 <=> m \in 1 .. n \/ m = n + 1
  BY <1>1
<1>6. CASE x \in A
  <2>1. Q = P \cup {n + 1}
    BY <1>1, <1>3, <1>5, <1>6 DEF Places
  <2>2. Cardinality(Q) = Cardinality(P) + 1
    BY <1>4, <2>1, FS_AddElement
  <2> QED
    BY <1>2, <1>3, <1>6, <2>2 DEF Hit, MorePlaces
<1>7. CASE x \notin A
  <2>1. Q = P
    BY <1>1, <1>3, <1>5, <1>7 DEF Places
  <2>2. Cardinality(Q) = Cardinality(P) + 0
    BY <1>4, <2>1
  <2> QED
    BY <1>2, <1>3, <1>7, <2>2 DEF Hit, MorePlaces
<1> QED
  BY <1>6, <1>7

(* What a token does to the depth. *)
Change(x) == IF x \in {"{", "["} THEN 1 ELSE IF x \in {"}", "]"} THEN -1 ELSE 0

LEMMA DepthAppend ==
  ASSUME NEW T, NEW t \in Seq(T), NEW x \in T, NEW n, NEW u, Grown(u, t, n, x)
  PROVE  /\ n \in Nat /\ Len(u) = n + 1 /\ u \in Seq(T)
         /\ \A k \in 1 .. n + 1 : DepthIn(u, 1, k) = DepthIn(t, 1, k)
         /\ DepthIn(u, 1, n + 2) = DepthIn(t, 1, n + 1) + Change(x)
<1>1. n \in Nat /\ Len(u) = n + 1 /\ u \in Seq(T)
  BY AppendProperties DEF Grown
<1>2. PICK O, C : O = {"{", "["} /\ C = {"}", "]"}
  OBVIOUS
<1>3. \A s, k : DepthIn(s, 1, k) = Cardinality(Places(s, k, O)) - Cardinality(Places(s, k, C))
  BY <1>2 DEF DepthIn, Places
<1>4. MorePlaces(u, t, n, x, O)
  BY PlacesAppend, Zenon
<1>5. MorePlaces(u, t, n, x, C)
  BY PlacesAppend, Zenon
<1>6. \A k \in 1 .. n + 1 : DepthIn(u, 1, k) = DepthIn(t, 1, k)
  BY <1>3, <1>4, <1>5 DEF MorePlaces
<1>7. PICK a, c : a = Cardinality(Places(t, n + 1, O)) /\ c = Cardinality(Places(t, n + 1, C))
  OBVIOUS
<1>8. a \in Nat /\ c \in Nat
  <2>1. n + 1 \in Nat
    BY <1>1
  <2> QED
    BY <1>7, <2>1, PlacesFinite
<1>9. DepthIn(u, 1, n + 2) = (a + Hit(x, O)) - (c + Hit(x, C))
  BY <1>3, <1>4, <1>5, <1>7 DEF MorePlaces
<1>10. DepthIn(t, 1, n + 1) = a - c
  BY <1>3, <1>7
<1>11. (a + Hit(x, O)) - (c + Hit(x, C)) = (a - c) + Change(x)
  <2>1. x \in O => x \notin C /\ Change(x) = 1
    BY <1>2 DEF Change
  <2>2. x \notin O /\ x \in C => Change(x) = -1
    BY <1>2 DEF Change
  <2>3. x \notin O /\ x \notin C => Change(x) = 0
    BY <1>2 DEF Change
  <2> QED
    BY <1>8, <2>1, <2>2, <2>3 DEF Hit
<1> QED
  BY <1>1, <1>6, <1>9, <1>10, <1>11

(* The depth of the text t is the number n of calls that have not returned *)
(* (the second part: as long as no call returned NULL), and the limit was  *)
(* kept all the way.                                                       *)
Depth(t, p, n, w) ==
  /\ t \in Seq(Tokens \cup {"NUL"})
  /\ p \notin {"null", "failed"} => n = DepthIn(t, 1, Len(t) + 1) /\ w # "nesting"
  /\ \A k \in 1 .. Len(t) + 1 : DepthIn(t, 1, k) <= MAX_NESTING + 1
  /\ w = "nesting" => DeeperThan(t, MAX_NESTING)

DepthInv == tok \in Tokens \cup {"NUL"} /\ Depth(text, pc, Len(stack), why)

(* A token is consumed, and the number of calls changes with it. *)
LEMMA SkipDepth ==
  ASSUME NEW t, NEW p, NEW n \in Nat, NEW w, Depth(t, p, n, w), p \notin {"null", "failed"},
         NEW x \in Tokens \cup {"NUL"}, n + Change(x) <= MAX_NESTING + 1, NEW q
  PROVE  Depth(Append(t, x), q, n + Change(x), w)
<1>1. PICK u, len : u = Append(t, x) /\ len = Len(t)
  OBVIOUS
<1>2. PICK T : T = Tokens \cup {"NUL"}
  OBVIOUS
<1>3. /\ t \in Seq(T) /\ x \in T /\ n = DepthIn(t, 1, len + 1) /\ w # "nesting"
      /\ \A k \in 1 .. len + 1 : DepthIn(t, 1, k) <= MAX_NESTING + 1
  BY <1>1, <1>2 DEF Depth
<1>4. Grown(u, t, len, x)
  BY <1>1 DEF Grown
<1>5. /\ len \in Nat /\ Len(u) = len + 1 /\ u \in Seq(T)
      /\ \A k \in 1 .. len + 1 : DepthIn(u, 1, k) = DepthIn(t, 1, k)
      /\ DepthIn(u, 1, len + 2) = DepthIn(t, 1, len + 1) + Change(x)
  BY <1>3, <1>4, DepthAppend
<1>6. Len(u) + 1 = len + 2 /\ \A k \in 1 .. Len(u) + 1 : k \in 1 .. len + 1 \/ k = len + 2
  BY <1>5
<1>7. n + Change(x) = DepthIn(u, 1, Len(u) + 1)
  BY <1>3, <1>5, <1>6
<1>8. ASSUME NEW k \in 1 .. Len(u) + 1 PROVE DepthIn(u, 1, k) <= MAX_NESTING + 1
  <2>1. CASE k \in 1 .. len + 1
    BY <1>3, <1>5, <2>1
  <2>2. CASE k = len + 2
    BY <1>6, <1>7, <2>2
  <2> QED
    BY <1>6, <2>1, <2>2
<1>9. Depth(u, q, n + Change(x), w)
  BY <1>2, <1>3, <1>5, <1>7, <1>8 DEF Depth
<1> QED
  BY <1>1, <1>9

LEMMA LimitType == MAX_NESTING \in Nat
BY JsonAssumption, Zenon

(* A step that consumes no token and neither begins nor ends a call. *)
LEMMA LookDepth ==
  ASSUME DepthInv, Look, Len(stack') = Len(stack), why' = why,
         pc \in {"null", "failed"} => pc' \in {"null", "failed"}
  PROVE  DepthInv'
<1>1. text' = text /\ tok' = tok
  BY DEF Look
<1>2. Depth(text, pc', Len(stack), why)
  BY DEF DepthInv, Depth
<1> QED
  BY <1>1, <1>2 DEF DepthInv

(* What all error returns do. *)
Refused(r) == Look /\ pc' = "null" /\ why' = r

LEMMA Refusals == ASSUME NEW r PROVE (ReturnNull(r) \/ \E n : GiveUp(r, n)) => Refused(r)
BY DEF ReturnNull, GiveUp, Refused

LEMMA FailDepth ==
  ASSUME DepthInv, NEW r, Refused(r), r = "nesting" => DeeperThan(text, MAX_NESTING)
  PROVE  DepthInv'
<1>1. text' = text /\ tok' = tok /\ why' = r /\ pc' = "null"
  BY DEF Refused, Look
<1>2. PICK n : n = Len(stack')
  OBVIOUS
<1>3. Depth(text, "null", n, r)
  BY DEF DepthInv, Depth
<1> QED
  BY <1>1, <1>2, <1>3 DEF DepthInv

(* The calls that have not returned, before NULL is. *)
LEMMA CallsCounted ==
  ASSUME HeapInv, DepthInv, pc \notin {"null", "failed"}
  PROVE  /\ Len(stack) \in Nat /\ Len(stack) = DepthIn(text, 1, Len(text) + 1)
         /\ Len(stack) <= MAX_NESTING + 1 /\ Len(text) + 1 \in 1 .. Len(text) + 1
<1>1. stack \in Seq(Frames) /\ text \in Seq(Tokens \cup {"NUL"})
  BY DEF HeapInv, Ownership, DepthInv, Depth
<1>2. Len(stack) \in Nat /\ Len(text) \in Nat
  BY <1>1, LenProperties
<1>3. Len(text) + 1 \in 1 .. Len(text) + 1
  BY <1>2
<1>4. Len(stack) = DepthIn(text, 1, Len(text) + 1)
  BY DEF DepthInv, Depth
<1>5. DepthIn(text, 1, Len(text) + 1) <= MAX_NESTING + 1
  BY <1>3 DEF DepthInv, Depth
<1> QED
  BY <1>2, <1>3, <1>4, <1>5

LEMMA TokenDepth ==
  ASSUME HeapInv, DepthInv, SKIP_CHAR, pc \notin {"null", "failed"}, why' = why,
         Len(stack') = Len(stack) + Change(tok),
         Len(stack) <= MAX_NESTING \/ Change(tok) \in {0, -1}
  PROVE  DepthInv'
<1>1. Len(stack) \in Nat /\ Len(stack) <= MAX_NESTING + 1
  BY CallsCounted
<1>2. Change(tok) \in {0, 1, -1}
  BY DEF Change
<1>3. Len(stack) + Change(tok) <= MAX_NESTING + 1
  BY <1>1, <1>2, LimitType
<1>4. Depth(text, pc, Len(stack), why) /\ tok \in Tokens \cup {"NUL"}
  BY DEF DepthInv
<1>5. Depth(Append(text, tok), pc', Len(stack) + Change(tok), why)
  BY <1>1, <1>3, <1>4, SkipDepth
<1>6. text' = Append(text, tok) /\ tok' \in Tokens \cup {"NUL"}
  BY DEF SKIP_CHAR
<1> QED
  BY <1>5, <1>6 DEF DepthInv

LEMMA Changes ==
  /\ Change("{") = 1 /\ Change("[") = 1 /\ Change("}") = -1 /\ Change("]") = -1
  /\ Change("n") = 0 /\ Change(",") = 0 /\ Change(":") = 0
  /\ \A s \in StringTokens : Change(s) = 0
<1>1. \A s \in StringTokens : s \notin {"{", "[", "}", "]"}
  BY JsonAssumption DEF StringTokens
<1> QED
  BY <1>1 DEF Change

LEMMA ReturnDepth ==
  ASSUME HeapInv, DepthInv, ReturnValue, pc \in {"opened", "close"}, tok = Closer(Top.kind)
  PROVE  DepthInv'
<1>1. stack \in Seq(Frames) /\ stack # << >>
  BY DEF HeapInv, Ownership
<1>2. Len(stack) \in Nat /\ Len(Tail(stack)) = Len(stack) - 1
  BY <1>1, HeldTop
<1>3. Change(tok) = -1
  BY Changes DEF Closer
<1>4. Len(stack') = Len(stack) + Change(tok)
  BY <1>2, <1>3 DEF ReturnValue
<1> QED
  BY <1>3, <1>4, TokenDepth DEF ReturnValue

LEMMA DepthStep == ASSUME HeapInv, DepthInv, JsonNext PROVE DepthInv'
<1>1. CASE parse_value
  <2>1. pc = "value"
    BY <1>1 DEF parse_value
  <2>2. stack \in Seq(Frames) /\ Len(stack) \in Nat
    BY <2>1, CallsCounted DEF HeapInv, Ownership
  <2>3. CASE TooDeep
    <3>1. Refused("nesting")
      BY <1>1, <2>3, Refusals DEF parse_value
    <3>2. DepthIn(text, 1, Len(text) + 1) > MAX_NESTING /\ Len(text) + 1 \in 1 .. Len(text) + 1
      BY <2>1, <2>3, CallsCounted DEF TooDeep
    <3>3. DeeperThan(text, MAX_NESTING)
      BY <3>2 DEF DeeperThan
    <3> QED
      BY <3>1, <3>3, FailDepth
  <2>4. CASE ~TooDeep
    <3>1. Len(stack) <= MAX_NESTING
      BY <2>2, <2>4, LimitType DEF TooDeep
    <3>2. ASSUME NEW r, ReturnNull(r), r # "nesting" PROVE DepthInv'
      BY <3>2, FailDepth, Refusals
    <3>3. ASSUME NEW kd \in {"object", "array"}, OpenContainer(kd), tok \in {"{", "["}
          PROVE  DepthInv'
      <4>1. CASE ReturnNull("memory")
        BY <3>2, <4>1
      <4>2. CASE SKIP_CHAR /\ stack' = <<NewFrame(kd)>> \o stack /\ why' = why
        <5>1. PICK su : su = <<NewFrame(kd)>> \o stack
          OBVIOUS
        <5>2. NewFrame(kd) \in Frames
          BY DEF NewFrame, Frames
        <5>3. Len(su) = Len(stack) + 1
          BY <2>2, <5>1, <5>2, HeldPush
        <5>4. Change(tok) = 1
          BY <3>3, Changes
        <5>5. Len(stack') = Len(stack) + Change(tok)
          BY <4>2, <5>1, <5>3, <5>4
        <5> QED
          BY <2>1, <3>1, <4>2, <5>5, TokenDepth
      <4> QED
        BY <3>3, <4>1, <4>2 DEF OpenContainer
    <3>4. ASSUME NEW n, Scalar(n), Change(tok) = 0 PROVE DepthInv'
      <4>1. CASE ReturnNull("memory")
        BY <3>2, <4>1
      <4>2. CASE SKIP_CHAR /\ stack' = stack /\ why' = why
        <5>1. Len(stack') = Len(stack) + Change(tok)
          BY <2>2, <3>4, <4>2
        <5> QED
          BY <2>1, <3>1, <4>2, <5>1, TokenDepth
      <4> QED
        BY <3>4, <4>1, <4>2 DEF Scalar
    <3>5. \/ tok = "{" /\ OpenContainer("object")
          \/ tok = "[" /\ OpenContainer("array")
          \/ tok \in StringTokens /\ Scalar(2)
          \/ tok \in NumberTokens /\ parse_number_value
          \/ ReturnNull("syntax")
      BY <1>1, <2>4 DEF parse_value
    <3>6. CASE tok \in NumberTokens /\ parse_number_value
      <4>1. CASE tok \in {"n", "lax"} /\ Scalar(1)
        BY <3>4, <4>1 DEF Change
      <4>2. CASE ReturnNull("number") \/ ReturnNull("memory")
        BY <3>2, <4>2
      <4>3. CASE pc' = "returned" /\ Look /\ stack' = stack /\ why' = why
        BY <2>1, <4>3, LookDepth
      <4> QED
        BY <3>6, <4>1, <4>2, <4>3 DEF parse_number_value
    <3> QED
      BY <3>2, <3>3, <3>4, <3>5, <3>6, Changes
  <2> QED
    BY <2>3, <2>4
<1>2. ASSUME NextElement, pc \in {"opened", "comma"} PROVE DepthInv'
  BY <1>2, LookDepth DEF NextElement
<1>3. CASE AfterOpen
  BY <1>2, <1>3, ReturnDepth DEF AfterOpen
<1>4. CASE ParseKey
  <2>1. pc = "key"
    BY <1>4 DEF ParseKey
  <2>2. CASE /\ tok \in Strings /\ SKIP_CHAR /\ stack' = [stack EXCEPT ![1].key = tok]
             /\ why' = why
    <3>1. Len(stack) \in Nat /\ stack \in Seq(Frames)
      BY <2>1, CallsCounted DEF HeapInv, Ownership
    <3>2. Len(stack') = Len(stack)
      BY <2>2, <3>1
    <3>3. Change(tok) = 0
      BY <2>2, Changes DEF StringTokens
    <3>4. Len(stack') = Len(stack) + Change(tok)
      BY <3>1, <3>2, <3>3
    <3> QED
      BY <2>1, <2>2, <3>3, <3>4, TokenDepth
  <2>3. CASE GiveUp("memory", Top.blocks) \/ GiveUp("syntax", Top.blocks)
    BY <2>3, FailDepth, Refusals
  <2>4. CASE /\ stack' = [stack EXCEPT ![1].key = tok] /\ pc' = "short" /\ Look /\ why' = why
    <3>1. Len(stack') = Len(stack)
      BY <2>4 DEF HeapInv, Ownership
    <3> QED
      BY <2>1, <2>4, <3>1, LookDepth
  <2> QED
    BY <1>4, <2>2, <2>3, <2>4 DEF ParseKey
<1>5. ASSUME pc \in {"colon", "after"}, SKIP_CHAR, stack' = stack, why' = why, tok \in {":", ","}
      PROVE  DepthInv'
  <2>1. Len(stack) \in Nat
    BY <1>5, CallsCounted
  <2>2. Change(tok) = 0
    BY <1>5, Changes
  <2>3. Len(stack') = Len(stack)
    BY <1>5, Zenon
  <2>4. Len(stack') = Len(stack) + Change(tok)
    BY <2>1, <2>2, <2>3
  <2> QED
    BY <1>5, <2>2, <2>4, TokenDepth
<1>6. CASE ParseColon
  BY <1>5, <1>6, FailDepth, Refusals DEF ParseColon
<1>7. CASE AddMember
  <2>1. CASE \E r, n : GiveUp(r, n) /\ r # "nesting"
    BY <2>1, FailDepth, Refusals
  <2>2. CASE /\ stack' = [stack EXCEPT ![1] =
                  [kind |-> Top.kind, key |-> NoKey, count |-> Top.count + 1,
                   blocks |-> Top.blocks + value + Arrays + (IF InObject THEN 1 ELSE 0),
                   keys |-> IF InObject THEN Top.keys \cup {Top.key} ELSE Top.keys]]
             /\ pc' = "after" /\ Look /\ why' = why
    <3>1. pc = "returned"
      BY <1>7 DEF AddMember
    <3>2. PICK f : stack' = [stack EXCEPT ![1] = f]
      BY <2>2
    <3>3. stack \in Seq(Frames)
      BY DEF HeapInv, Ownership
    <3>4. Len(stack') = Len(stack)
      BY <3>2, <3>3
    <3> QED
      BY <2>2, <3>1, <3>4, LookDepth
  <2> QED
    BY <1>7, <2>1, <2>2 DEF AddMember
<1>8. CASE AfterMember
  <2>1. CASE tok = ","
    BY <1>5, <1>8, <2>1 DEF AfterMember
  <2>2. CASE tok # ","
    BY <1>8, <2>2, LookDepth DEF AfterMember
  <2> QED
    BY <2>1, <2>2
<1>9. CASE AfterComma
  <2>1. CASE tok = Closer(Top.kind)
    BY <1>9, <2>1, LookDepth DEF AfterComma
  <2>2. CASE tok # Closer(Top.kind)
    BY <1>2, <1>9, <2>2 DEF AfterComma
  <2> QED
    BY <2>1, <2>2
<1>10. CASE CloseContainer
  <2>1. CASE GiveUp("memory", Top.blocks) \/ GiveUp("syntax", Top.blocks)
    BY <2>1, FailDepth, Refusals
  <2>2. CASE tok = Closer(Top.kind) /\ ReturnValue
    BY <1>10, <2>2, ReturnDepth DEF CloseContainer
  <2> QED
    BY <1>10, <2>1, <2>2 DEF CloseContainer
<1>11. CASE ReturnRoot
  BY <1>11, LookDepth DEF ReturnRoot
<1>12. CASE NullMember
  <2>1. Refused(why) /\ pc = "null"
    BY <1>12, Refusals DEF NullMember
  <2>2. why = "nesting" => DeeperThan(text, MAX_NESTING)
    BY DEF DepthInv, Depth
  <2> QED
    BY <2>1, <2>2, FailDepth
<1>13. CASE NullRoot
  BY <1>13, LookDepth DEF NullRoot
<1>15. CASE RefuseKey
  BY <1>15, FailDepth, Refusals DEF RefuseKey
<1>14. CASE JsonStopped
  BY <1>14 DEF JsonStopped, jsonVars, DepthInv
<1> QED
  BY <1>1, <1>3, <1>4, <1>6, <1>7, <1>8, <1>9, <1>10, <1>11, <1>12, <1>13, <1>14, <1>15
  DEF JsonNext

LEMMA DepthSafe == JsonSpec => []DepthInv
<1>1. JsonInit => DepthInv
  <2> SUFFICES ASSUME JsonInit PROVE DepthInv
    OBVIOUS
  <2>1. text = << >> /\ stack = << >> /\ why = "" /\ pc = "value" /\ tok \in Tokens \cup {"NUL"}
    BY DEF JsonInit
  <2>2. text \in Seq(Tokens \cup {"NUL"}) /\ Len(text) = 0 /\ Len(stack) = 0
    <3>1. \A T : << >> \in Seq(T) /\ Len(<< >>) = 0
      OBVIOUS
    <3> QED
      BY <2>1, <3>1, Zenon
  <2>3. DepthIn(text, 1, 1) = 0
    <3>1. \A A : {m \in 1 .. 1 - 1 : text[m] \in A} = {}
      OBVIOUS
    <3>2. Cardinality({}) = 0
      BY FS_EmptySet
    <3> QED
      BY <3>1, <3>2 DEF DepthIn
  <2>4. 0 + 1 = 1 /\ \A k \in 1 .. 0 + 1 : k = 1
    OBVIOUS
  <2>5. 0 <= MAX_NESTING + 1
    BY LimitType
  <2> QED
    BY <2>1, <2>2, <2>3, <2>4, <2>5 DEF DepthInv, Depth
<1>2. HeapInv /\ DepthInv /\ [JsonNext]_jsonVars => DepthInv'
  <2>1. ASSUME DepthInv, UNCHANGED jsonVars PROVE DepthInv'
    BY <2>1 DEF jsonVars, DepthInv
  <2> QED
    BY <2>1, DepthStep
<1> QED
  BY <1>1, <1>2, HeapSafe, PTL DEF JsonSpec

(* MAX_NESTING decides, for every text and every limit: what parse_value() *)
(* accepts nests one level deeper at most, and it refuses only what nests  *)
(* deeper than the limit.                                                  *)
THEOREM NestingLimited == JsonSpec => []NestingLimit
<1>1. DepthInv => NestingLimit
  <2> SUFFICES ASSUME DepthInv PROVE NestingLimit
    OBVIOUS
  <2>1. ASSUME DeeperThan(text, MAX_NESTING + 1) PROVE FALSE
    <3>1. PICK k \in 1 .. Len(text) + 1 : DepthIn(text, 1, k) > MAX_NESTING + 1
      BY <2>1 DEF DeeperThan
    <3>2. DepthIn(text, 1, k) <= MAX_NESTING + 1
      BY DEF DepthInv, Depth
    <3>3. DepthIn(text, 1, k) \in Int /\ MAX_NESTING \in Nat
      <4>1. k \in Nat /\ text \in Seq(Tokens \cup {"NUL"})
        BY DEF DepthInv, Depth
      <4>2. PICK O, C : O = {"{", "["} /\ C = {"}", "]"}
        OBVIOUS
      <4>3. DepthIn(text, 1, k) = Cardinality(Places(text, k, O)) - Cardinality(Places(text, k, C))
        BY <4>2 DEF DepthIn, Places
      <4>4. Cardinality(Places(text, k, O)) \in Nat /\ Cardinality(Places(text, k, C)) \in Nat
        BY <4>1, PlacesFinite
      <4> QED
        BY <4>3, <4>4, LimitType
    <3> QED
      BY <3>1, <3>2, <3>3
  <2>2. why = "nesting" => DeeperThan(text, MAX_NESTING)
    BY DEF DepthInv, Depth
  <2> QED
    BY <2>1, <2>2 DEF NestingLimit
<1> QED
  BY <1>1, DepthSafe, PTL

-----------------------------------------------------------------------------
(* The grammar. *)

(* f holds where parts begin, for the first k places of t. *)
IsStarts(f, t, k) == f = [j \in 1 .. k |-> StartsAt(f, t, j)]

(* The texts, and the starts, agree as far as what begins before j goes. *)
Agree(f, g, t, u, j) == /\ \A m \in 1 .. j - 1 : f[m] = g[m]
                        /\ \A m \in 1 .. j : t[m] = u[m]

LEMMA SameDepth ==
  ASSUME NEW t, NEW u, NEW i \in Nat, i >= 1, NEW k \in Nat, \A m \in 1 .. k : t[m] = u[m]
  PROVE  \A n \in 0 .. k + 1 : DepthIn(t, i, n) = DepthIn(u, i, n)
<1> TAKE n \in 0 .. k + 1
<1>1. ASSUME NEW m \in i .. n - 1 PROVE t[m] = u[m]
  <2>1. m \in 1 .. k
    OBVIOUS
  <2> QED
    BY <2>1
<1>2. ASSUME NEW A PROVE {m \in i .. n - 1 : t[m] \in A} = {m \in i .. n - 1 : u[m] \in A}
  BY <1>1
<1> QED
  BY <1>2, Zenon DEF DepthIn

LEMMA SameKeys ==
  ASSUME NEW t, NEW u, NEW i \in Nat, i >= 1, NEW k \in Nat, \A m \in 1 .. k : t[m] = u[m]
  PROVE  KeysIn(t, i, k) = KeysIn(u, i, k)
<1>1. ASSUME NEW m \in i + 1 .. k - 1
      PROVE  t[m + 1] = u[m + 1] /\ DepthIn(t, i, m) = DepthIn(u, i, m)
  <2>1. m \in 0 .. k + 1 /\ m + 1 \in 1 .. k
    OBVIOUS
  <2> QED
    BY <2>1, SameDepth
<1> QED
  BY <1>1 DEF KeysIn

(* The parts of StartsAt. *)
Bracketed(f, t, j, kind, i) ==
  /\ t[i] = Opener(kind) /\ t[j] = Closer(kind)
  /\ \/ i = j - 1
     \/ i + 1 \in f[j - 1][kind]
     \/ t[j - 1] = "," /\ i + 1 \in f[j - 2][kind]
  /\ kind = "object" => Distinct(t, KeysIn(t, i, j - 1))

ValuesAt(f, t, j) ==
  {i \in {j} : t[i] \in Scalars} \cup {i \in 1 .. j - 1 : Bracketed(f, t, j, "object", i)}
    \cup {i \in 1 .. j - 1 : Bracketed(f, t, j, "array", i)}

PairsAt(f, t, j) ==
  {i \in 1 .. j - 2 : t[i] \in Strings /\ t[i + 1] = ":" /\ i + 2 \in ValuesAt(f, t, j)}

ListsAt(f, t, j, kind, members) ==
  members \cup UNION {f[c - 1][kind] : c \in {c \in 2 .. j - 1 : t[c] = "," /\ c + 1 \in members}}

LEMMA StartsParts ==
  ASSUME NEW f, NEW t, NEW j
  PROVE  /\ StartsAt(f, t, j).value = ValuesAt(f, t, j)
         /\ StartsAt(f, t, j).object = ListsAt(f, t, j, "object", PairsAt(f, t, j))
         /\ StartsAt(f, t, j).array = ListsAt(f, t, j, "array", ValuesAt(f, t, j))
         /\ StartsAt(f, t, j) = [value |-> ValuesAt(f, t, j),
                                 object |-> ListsAt(f, t, j, "object", PairsAt(f, t, j)),
                                 array |-> ListsAt(f, t, j, "array", ValuesAt(f, t, j))]
<1>1. StartsAt(f, t, j) = [value |-> ValuesAt(f, t, j),
                           object |-> ListsAt(f, t, j, "object", PairsAt(f, t, j)),
                           array |-> ListsAt(f, t, j, "array", ValuesAt(f, t, j))]
  BY Zenon DEF StartsAt, ValuesAt, PairsAt, ListsAt, Bracketed
<1> QED
  BY <1>1

(* What begins where at j depends on the text up to j only. *)
LEMMA SameStarts ==
  ASSUME NEW f, NEW g, NEW t, NEW u, NEW j \in Nat, j >= 1, Agree(f, g, t, u, j)
  PROVE  StartsAt(f, t, j) = StartsAt(g, u, j)
<1>1. ASSUME NEW i \in 1 .. j - 1, NEW kind
      PROVE  Bracketed(f, t, j, kind, i) <=> Bracketed(g, u, j, kind, i)
  <2>1. t[i] = u[i] /\ t[j] = u[j] /\ t[j - 1] = u[j - 1] /\ f[j - 1] = g[j - 1]
    <3>1. i \in 1 .. j /\ j \in 1 .. j /\ j - 1 \in 1 .. j /\ j - 1 \in 1 .. j - 1
      OBVIOUS
    <3> QED
      BY <3>1 DEF Agree
  <2>2. KeysIn(t, i, j - 1) = KeysIn(u, i, j - 1)
    <3>1. i \in Nat /\ i >= 1 /\ j - 1 \in Nat
      OBVIOUS
    <3>2. \A m \in 1 .. j - 1 : t[m] = u[m]
      BY DEF Agree
    <3> QED
      BY <3>1, <3>2, SameKeys
  <2>3. Distinct(t, KeysIn(t, i, j - 1)) <=> Distinct(u, KeysIn(u, i, j - 1))
    <3>1. \A m \in KeysIn(t, i, j - 1) : t[m] = u[m]
      BY DEF Agree, KeysIn
    <3> QED
      BY <2>2, <3>1 DEF Distinct
  <2>4. i # j - 1 => f[j - 2] = g[j - 2]
    <3>1. i # j - 1 => j - 2 \in 1 .. j - 1
      OBVIOUS
    <3> QED
      BY <3>1 DEF Agree
  <2> QED
    BY <2>1, <2>3, <2>4 DEF Bracketed
<1>2. t[j] = u[j] /\ \A i \in {j} : t[i] = u[i]
  BY DEF Agree
<1>3. PICK vf, vg : vf = ValuesAt(f, t, j) /\ vg = ValuesAt(g, u, j)
  OBVIOUS
<1>4. vf = vg
  BY <1>1, <1>2, <1>3 DEF ValuesAt
<1>5. PICK pf, pg : pf = PairsAt(f, t, j) /\ pg = PairsAt(g, u, j)
  OBVIOUS
<1>6. pf = pg
  <2>1. \A i \in 1 .. j - 2 : t[i] = u[i] /\ t[i + 1] = u[i + 1]
    <3> TAKE i \in 1 .. j - 2
    <3>1. i \in 1 .. j /\ i + 1 \in 1 .. j
      OBVIOUS
    <3> QED
      BY <3>1 DEF Agree
  <2> QED
    BY <1>3, <1>4, <1>5, <2>1 DEF PairsAt
<1>7. ASSUME NEW kind, NEW ms PROVE ListsAt(f, t, j, kind, ms) = ListsAt(g, u, j, kind, ms)
  <2>1. \A c \in 2 .. j - 1 : t[c] = u[c] /\ f[c - 1] = g[c - 1]
    <3> TAKE c \in 2 .. j - 1
    <3>1. c \in 1 .. j /\ c - 1 \in 1 .. j - 1
      OBVIOUS
    <3> QED
      BY <3>1 DEF Agree
  <2>2. {c \in 2 .. j - 1 : t[c] = "," /\ c + 1 \in ms} = {c \in 2 .. j - 1 : u[c] = "," /\ c + 1 \in ms}
    BY <2>1
  <2>3. PICK C : C = {c \in 2 .. j - 1 : t[c] = "," /\ c + 1 \in ms}
    OBVIOUS
  <2>4. \A c \in C : f[c - 1][kind] = g[c - 1][kind]
    BY <2>1, <2>3
  <2>5. UNION {f[c - 1][kind] : c \in C} = UNION {g[c - 1][kind] : c \in C}
    BY <2>4
  <2> QED
    BY <2>2, <2>3, <2>5, Zenon DEF ListsAt
<1>8. PICK lf, lg, af, ag :
        /\ lf = ListsAt(f, t, j, "object", pf) /\ lg = ListsAt(g, u, j, "object", pf)
        /\ af = ListsAt(f, t, j, "array", vf) /\ ag = ListsAt(g, u, j, "array", vf)
  OBVIOUS
<1>9. lf = lg /\ af = ag
  BY <1>7, <1>8, Zenon
<1>10. StartsAt(f, t, j) = [value |-> vf, object |-> lf, array |-> af]
  BY <1>3, <1>5, <1>8, StartsParts
<1>11. StartsAt(g, u, j) = [value |-> vf, object |-> lg, array |-> ag]
  BY <1>3, <1>4, <1>5, <1>6, <1>8, StartsParts
<1> QED
  BY <1>9, <1>10, <1>11

-----------------------------------------------------------------------------
(* The recursive descent: what it accepts. *)

(* The part h .. j of t is a value; the part behind the bracket at i that  *)
(* ends at j is a list of members.                                         *)
Valued(t, h, j) == j \in 1 .. Len(t) /\ h \in Starts(t)[j].value
Listed(t, kind, i, j) == j \in 1 .. Len(t) /\ i + 1 \in Starts(t)[j][kind]

(* A member of the container that begins at i may begin at h. *)
MemberNext(t, kind, i, h) ==
  h = i + 1 \/ (h - 1 \in 1 .. Len(t) /\ t[h - 1] = "," /\ Listed(t, kind, i, h - 2))

(* The value of a member may begin at h, behind its key and the colon if   *)
(* it is an object's.                                                      *)
ValueNext(t, frame, i, h) ==
  IF frame.kind = "array" THEN MemberNext(t, "array", i, h)
  ELSE /\ h - 2 \in 1 .. Len(t) /\ t[h - 2] = frame.key /\ frame.key \in Strings
       /\ h - 1 \in 1 .. Len(t) /\ t[h - 1] = ":" /\ MemberNext(t, "object", i, h - 2)

(* The keys of an object are the ones it remembers, and they differ;       *)
(* the last one apart, as long as its value is parsed.                     *)
Settled(t, frame, i) ==
  LET places == KeysIn(t, i, Len(t))
  IN frame.kind = "object" => frame.keys = {t[m] : m \in places} /\ Distinct(t, places)

Pending(t, frame, i) ==
  LET places == KeysIn(t, i, Len(t))
  IN frame.kind = "object" =>
       \E q \in places : /\ t[q] = frame.key
                         /\ frame.keys = {t[m] : m \in places \ {q}} /\ Distinct(t, places \ {q})

(* The calls st, with their brackets at b: the outermost one began with    *)
(* the text, and every other one with the value that its caller waits for. *)
Calls(t, st, b) ==
  /\ b \in [1 .. Len(st) -> 1 .. Len(t)]
  /\ st # << >> => b[Len(st)] = 1
  /\ \A k \in 1 .. Len(st) :
       t[b[k]] = Opener(st[k].kind) /\ DepthIn(t, b[k], Len(t) + 1) = k
  /\ \A k \in 2 .. Len(st) : ValueNext(t, st[k], b[k], b[k - 1]) /\ Pending(t, st[k], b[k])

(* What the innermost call has parsed, at the program point p. *)
Parsed(t, p, frame, i) ==
  LET n == Len(t)
      kind == frame.kind
  IN /\ IF p \in {"value", "returned"} THEN Pending(t, frame, i) ELSE Settled(t, frame, i)
     /\ p = "value" => ValueNext(t, frame, i, n + 1)
     /\ p = "returned" => \E h \in 1 .. n : ValueNext(t, frame, i, h) /\ Valued(t, h, n)
     /\ p = "opened" => i = n
     /\ p = "key" => MemberNext(t, "object", i, n + 1)
     /\ p = "colon" => frame.key \in Strings /\ t[n] = frame.key /\ MemberNext(t, "object", i, n)
     /\ p = "after" => Listed(t, kind, i, n)
     /\ p = "comma" => t[n] = "," /\ Listed(t, kind, i, n - 1)
     /\ p = "close" => i = n \/ Listed(t, kind, i, n) \/ (t[n] = "," /\ Listed(t, kind, i, n - 1))

ParsedAll(t, p) ==
  /\ p \in {"value", "returned", "done"}
  /\ p = "value" => t = << >>
  /\ p \in {"returned", "done"} => Valued(t, 1, Len(t))

Accepted(t, p, st, b) ==
  Calls(t, st, b) /\ IF st = << >> THEN ParsedAll(t, p) ELSE Parsed(t, p, st[1], b[1])

LEMMA StartsExist ==
  ASSUME NEW t, NEW k \in Nat PROVE \E f : IsStarts(f, t, k)
<1> DEFINE T == {m \in Nat : \E f : IsStarts(f, t, m)}
<1>1. 0 \in T
  <2>1. PICK f : f = [j \in 1 .. 0 |-> StartsAt(<< >>, t, j)]
    OBVIOUS
  <2>2. \A j \in 1 .. 0 : FALSE
    OBVIOUS
  <2>3. IsStarts(f, t, 0)
    BY <2>1, <2>2 DEF IsStarts
  <2> QED
    BY <2>3
<1>2. ASSUME NEW m \in Nat, m \in T PROVE m + 1 \in T
  <2>1. PICK f : IsStarts(f, t, m)
    BY <1>2
  <2>2. PICK g : g = [j \in 1 .. m + 1 |-> StartsAt(f, t, j)]
    OBVIOUS
  <2>3. ASSUME NEW j \in 1 .. m PROVE g[j] = f[j]
    <3>1. f[j] = StartsAt(f, t, j)
      BY <2>1, Zenon DEF IsStarts
    <3>2. j \in 1 .. m + 1
      OBVIOUS
    <3>3. g[j] = StartsAt(f, t, j)
      BY <2>2, <3>2, Zenon
    <3> QED
      BY <3>1, <3>3
  <2>4. ASSUME NEW j \in 1 .. m + 1 PROVE StartsAt(f, t, j) = StartsAt(g, t, j)
    <3>1. \A i \in 1 .. j - 1 : i \in 1 .. m
      OBVIOUS
    <3>2. Agree(f, g, t, t, j)
      BY <2>3, <3>1 DEF Agree
    <3>3. j \in Nat /\ j >= 1
      OBVIOUS
    <3> QED
      BY <3>2, <3>3, SameStarts
  <2>5. IsStarts(g, t, m + 1)
    BY <2>2, <2>4, Zenon DEF IsStarts
  <2> QED
    BY <2>5
<1> HIDE DEF T
<1>3. k \in T
  BY <1>1, <1>2, Induction
<1> QED
  BY <1>3 DEF T

LEMMA StartsDef == ASSUME NEW t, Len(t) \in Nat PROVE IsStarts(Starts(t), t, Len(t))
<1> DEFINE f == CHOOSE g : IsStarts(g, t, Len(t))
<1>1. IsStarts(f, t, Len(t))
  BY StartsExist, Zenon
<1>2. Starts(t) = f
  BY Zenon DEF Starts, IsStarts
<1> QED
  BY <1>1, <1>2

LEMMA StartsRule ==
  ASSUME NEW t, Len(t) \in Nat, NEW j \in 1 .. Len(t)
  PROVE  Starts(t)[j] = StartsAt(Starts(t), t, j)
<1>1. PICK f : f = Starts(t)
  OBVIOUS
<1>2. f = [i \in 1 .. Len(t) |-> StartsAt(f, t, i)]
  BY <1>1, StartsDef, Zenon DEF IsStarts
<1>3. f[j] = StartsAt(f, t, j)
  BY <1>2, Zenon
<1> QED
  BY <1>1, <1>3

(* A longer text has the same parts in its beginning. *)
LEMMA StartsKept ==
  ASSUME NEW t, Len(t) \in Nat, NEW u, Len(u) \in Nat, NEW n \in Nat, n <= Len(t), n <= Len(u),
         \A m \in 1 .. n : t[m] = u[m]
  PROVE  \A j \in 1 .. n : Starts(u)[j] = Starts(t)[j]
<1>1. PICK f, g : f = Starts(t) /\ g = Starts(u)
  OBVIOUS
<1> DEFINE T == {m \in Nat : \A j \in 1 .. m : j <= n => f[j] = g[j]}
<1>2. 0 \in T
  OBVIOUS
<1>3. ASSUME NEW m \in Nat, m \in T PROVE m + 1 \in T
  <2> SUFFICES ASSUME m + 1 <= n PROVE f[m + 1] = g[m + 1]
    BY <1>3
  <2>1. m + 1 \in 1 .. Len(t) /\ m + 1 \in 1 .. Len(u) /\ m + 1 \in Nat /\ m + 1 >= 1
    OBVIOUS
  <2>2. f[m + 1] = StartsAt(f, t, m + 1)
    BY <1>1, <2>1, StartsRule, Zenon
  <2>3. g[m + 1] = StartsAt(g, u, m + 1)
    BY <1>1, <2>1, StartsRule, Zenon
  <2>4. Agree(f, g, t, u, m + 1)
    <3>1. \A i \in 1 .. (m + 1) - 1 : i \in 1 .. m /\ i <= n
      OBVIOUS
    <3>2. \A i \in 1 .. m + 1 : i \in 1 .. n
      OBVIOUS
    <3> QED
      BY <1>3, <3>1, <3>2 DEF Agree
  <2> QED
    <3>1. PICK j : j = m + 1
      OBVIOUS
    <3>2. j \in Nat /\ j >= 1 /\ Agree(f, g, t, u, j)
      BY <2>1, <2>4, <3>1
    <3>3. StartsAt(f, t, j) = StartsAt(g, u, j)
      BY <3>2, SameStarts
    <3> QED
      BY <2>2, <2>3, <3>1, <3>3
<1> HIDE DEF T
<1>4. Nat \subseteq T
  BY <1>2, <1>3, Induction
<1>5. ASSUME NEW j \in 1 .. n PROVE f[j] = g[j]
  <2>1. j \in Nat /\ j \in 1 .. j /\ j <= n
    OBVIOUS
  <2> QED
    BY <1>4, <2>1 DEF T
<1> QED
  BY <1>1, <1>5

LEMMA ValuesRule ==
  ASSUME NEW t, Len(t) \in Nat, NEW j \in 1 .. Len(t)
  PROVE  Starts(t)[j].value = ValuesAt(Starts(t), t, j)
<1>1. PICK f : f = Starts(t)
  OBVIOUS
<1>2. f[j] = StartsAt(f, t, j)
  BY <1>1, StartsRule
<1>3. f[j].value = ValuesAt(f, t, j)
  BY <1>2, StartsParts
<1> QED
  BY <1>1, <1>3

(* The rules of the grammar. *)
LEMMA ScalarRule ==
  ASSUME NEW t, Len(t) \in Nat, NEW j \in 1 .. Len(t), t[j] \in Scalars
  PROVE  Valued(t, j, j)
<1>1. j \in ValuesAt(Starts(t), t, j)
  BY DEF ValuesAt
<1> QED
  BY <1>1, ValuesRule DEF Valued

LEMMA BracketRule ==
  ASSUME NEW t, Len(t) \in Nat, NEW j \in 1 .. Len(t), NEW i \in 1 .. j - 1,
         NEW kind \in {"object", "array"}, t[i] = Opener(kind), t[j] = Closer(kind),
         \/ i = j - 1
         \/ Listed(t, kind, i, j - 1)
         \/ t[j - 1] = "," /\ Listed(t, kind, i, j - 2),
         kind = "object" => Distinct(t, KeysIn(t, i, j - 1))
  PROVE  Valued(t, i, j)
<1>1. Bracketed(Starts(t), t, j, kind, i)
  BY DEF Bracketed, Listed
<1>2. i \in ValuesAt(Starts(t), t, j)
  BY <1>1 DEF ValuesAt
<1> QED
  BY <1>2, ValuesRule DEF Valued

(* A member that ends at j, and begins at h: a value in an array, a key,   *)
(* a colon and a value in an object.                                       *)
IsMember(t, kind, h, j) ==
  IF kind = "array" THEN Valued(t, h, j)
  ELSE h \in 1 .. j - 2 /\ t[h] \in Strings /\ t[h + 1] = ":" /\ Valued(t, h + 2, j)

LEMMA ListRule ==
  ASSUME NEW t, Len(t) \in Nat, NEW j \in 1 .. Len(t), NEW kind \in {"object", "array"},
         NEW i \in Nat, NEW h \in 1 .. j, IsMember(t, kind, h, j), MemberNext(t, kind, i, h)
  PROVE  Listed(t, kind, i, j)
<1>1. PICK f, ms : f = Starts(t) /\ ms = IF kind = "array" THEN ValuesAt(f, t, j) ELSE PairsAt(f, t, j)
  OBVIOUS
<1>2. f[j].value = ValuesAt(f, t, j) /\ f[j][kind] = ListsAt(f, t, j, kind, ms)
  <2>1. f[j] = StartsAt(f, t, j)
    BY <1>1, StartsRule
  <2>2. CASE kind = "array"
    BY <1>1, <2>1, <2>2, StartsParts
  <2>3. CASE kind = "object"
    BY <1>1, <2>1, <2>3, StartsParts
  <2> QED
    BY <2>2, <2>3
<1>3. h \in ms
  <2>1. CASE kind = "array"
    BY <1>1, <1>2, <2>1 DEF IsMember, Valued
  <2>2. CASE kind = "object"
    BY <1>1, <1>2, <2>2 DEF IsMember, Valued, PairsAt
  <2> QED
    BY <2>1, <2>2
<1>4. CASE h = i + 1
  BY <1>1, <1>2, <1>3, <1>4 DEF ListsAt, Listed
<1>5. CASE h # i + 1
  <2>1. h - 1 \in 1 .. Len(t) /\ t[h - 1] = "," /\ h - 2 \in 1 .. Len(t) /\ i + 1 \in f[h - 2][kind]
    BY <1>1, <1>5 DEF MemberNext, Listed
  <2>2. PICK c : c = h - 1
    OBVIOUS
  <2>3. c \in 2 .. j - 1 /\ c + 1 = h /\ c - 1 = h - 2
    <3>0. PICK a, l : a = h - 2 /\ l = Len(t)
      OBVIOUS
    <3>1. h \in Int /\ h <= j /\ a >= 1
      <4>1. l \in Nat /\ j \in 1 .. l /\ h \in 1 .. j /\ a \in 1 .. l
        BY <2>1, <3>0
      <4> QED
        BY <4>1
    <3> QED
      BY <2>2, <3>0, <3>1
  <2>4. i + 1 \in ListsAt(f, t, j, kind, ms)
    BY <1>3, <2>1, <2>2, <2>3 DEF ListsAt
  <2> QED
    BY <1>1, <1>2, <2>4 DEF Listed
<1> QED
  BY <1>4, <1>5

(* u is t, n tokens long, and one token more. *)
Longer(u, t, n, x) ==
  n \in Nat /\ Len(t) = n /\ Len(u) = n + 1 /\ u[n + 1] = x /\ \A m \in 1 .. n : u[m] = t[m]

(* What was a value, or a list of members, still is one. *)
LEMMA PartsKept ==
  ASSUME NEW t, NEW u, NEW n, NEW x, Longer(u, t, n, x)
  PROVE  /\ \A h, j : Valued(t, h, j) => Valued(u, h, j)
         /\ \A kind, i, j : Listed(t, kind, i, j) => Listed(u, kind, i, j)
         /\ \A kind, i, h : MemberNext(t, kind, i, h) => MemberNext(u, kind, i, h)
         /\ \A frame, i, h : ValueNext(t, frame, i, h) => ValueNext(u, frame, i, h)
<1>1. /\ n \in Nat /\ Len(t) = n /\ Len(u) = n + 1 /\ \A m \in 1 .. n : t[m] = u[m]
      /\ \A j \in 1 .. n : j \in 1 .. n + 1
  BY DEF Longer
<1>2. \A j \in 1 .. n : Starts(u)[j] = Starts(t)[j]
  <2>1. n <= Len(t) /\ n <= Len(u) /\ Len(t) \in Nat /\ Len(u) \in Nat
    BY <1>1
  <2> QED
    BY <1>1, <2>1, StartsKept
<1>3. ASSUME NEW h, NEW j, Valued(t, h, j) PROVE Valued(u, h, j)
  BY <1>1, <1>2, <1>3, Zenon DEF Valued
<1>4. ASSUME NEW kind, NEW i, NEW j, Listed(t, kind, i, j) PROVE Listed(u, kind, i, j)
  BY <1>1, <1>2, <1>4, Zenon DEF Listed
<1>5. ASSUME NEW kind, NEW i, NEW h, MemberNext(t, kind, i, h) PROVE MemberNext(u, kind, i, h)
  BY <1>1, <1>4, <1>5, Zenon DEF MemberNext
<1>6. ASSUME NEW frame, NEW i, NEW h, ValueNext(t, frame, i, h) PROVE ValueNext(u, frame, i, h)
  <2>1. CASE frame.kind = "array"
    BY <1>5, <1>6, <2>1, Zenon DEF ValueNext
  <2>2. CASE frame.kind # "array"
    BY <1>1, <1>5, <1>6, <2>2, Zenon DEF ValueNext
  <2> QED
    BY <2>1, <2>2
<1> QED
  BY <1>3, <1>4, <1>5, <1>6, Zenon

(* The places from i on, before k, that hold one of A. *)
Spots(t, i, k, A) == {m \in i .. k - 1 : t[m] \in A}

LEMMA SpotsGrow ==
  ASSUME NEW t, NEW u, NEW n, NEW x, Longer(u, t, n, x), NEW i \in 1 .. n + 1, NEW A
  PROVE  /\ Cardinality(Spots(t, i, n + 1, A)) \in Nat
         /\ Cardinality(Spots(u, i, n + 2, A)) = Cardinality(Spots(t, i, n + 1, A)) + Hit(x, A)
<1>1. n \in Nat /\ u[n + 1] = x /\ \A m \in i .. n : u[m] = t[m]
  BY DEF Longer
<1>2. PICK P, Q : P = Spots(t, i, n + 1, A) /\ Q = Spots(u, i, n + 2, A)
  OBVIOUS
<1>3. (n + 2) - 1 = n + 1 /\ (n + 1) - 1 = n /\ \A m : m \in i .. n + 1 <=> m \in i .. n \/ m = n + 1
  BY <1>1
<1>4. n + 1 \notin P /\ IsFiniteSet(P) /\ Cardinality(P) \in Nat
  <2>1. n + 1 \notin i .. n /\ IsFiniteSet(i .. n)
    <3>1. i \in Int /\ n \in Int
      BY <1>1
    <3> QED
      BY <1>1, <3>1, FS_Interval
  <2>2. P \subseteq i .. n
    BY <1>2, <1>3 DEF Spots
  <2> QED
    BY <2>1, <2>2, FS_Subset, FS_CardinalityType
<1>5. CASE x \in A
  <2>1. Q = P \cup {n + 1}
    BY <1>1, <1>2, <1>3, <1>5 DEF Spots
  <2>2. Cardinality(Q) = Cardinality(P) + 1
    BY <1>4, <2>1, FS_AddElement
  <2> QED
    BY <1>2, <1>4, <1>5, <2>2 DEF Hit
<1>6. CASE x \notin A
  <2>1. Q = P
    BY <1>1, <1>2, <1>3, <1>6 DEF Spots
  <2>2. Cardinality(Q) = Cardinality(P) + 0
    BY <1>4, <2>1
  <2> QED
    BY <1>2, <1>4, <1>6, <2>2 DEF Hit
<1> QED
  BY <1>5, <1>6

LEMMA DepthGrows ==
  ASSUME NEW t, NEW u, NEW n, NEW x, Longer(u, t, n, x), NEW i \in 1 .. n + 1
  PROVE  DepthIn(t, i, n + 1) \in Int /\ DepthIn(u, i, n + 2) = DepthIn(t, i, n + 1) + Change(x)
<1>1. PICK O, C : O = {"{", "["} /\ C = {"}", "]"}
  OBVIOUS
<1>2. \A s, k : DepthIn(s, i, k) = Cardinality(Spots(s, i, k, O)) - Cardinality(Spots(s, i, k, C))
  BY <1>1 DEF DepthIn, Spots
<1>3. PICK a, c : a = Cardinality(Spots(t, i, n + 1, O)) /\ c = Cardinality(Spots(t, i, n + 1, C))
  OBVIOUS
<1>4. a \in Nat /\ c \in Nat
  BY <1>3, SpotsGrow
<1>5. Cardinality(Spots(u, i, n + 2, O)) = a + Hit(x, O)
  BY <1>3, SpotsGrow
<1>6. Cardinality(Spots(u, i, n + 2, C)) = c + Hit(x, C)
  BY <1>3, SpotsGrow
<1>7. (a + Hit(x, O)) - (c + Hit(x, C)) = (a - c) + Change(x)
  <2>1. x \in O => x \notin C /\ Change(x) = 1
    BY <1>1 DEF Change
  <2>2. x \notin O /\ x \in C => Change(x) = -1
    BY <1>1 DEF Change
  <2>3. x \notin O /\ x \notin C => Change(x) = 0
    BY <1>1 DEF Change
  <2> QED
    BY <1>4, <2>1, <2>2, <2>3 DEF Hit
<1>8. DepthIn(t, i, n + 1) = a - c /\ a - c \in Int
  BY <1>2, <1>3, <1>4
<1> QED
  BY <1>2, <1>5, <1>6, <1>7, <1>8

(* Nothing is open where the counting begins. *)
LEMMA DepthNone == ASSUME NEW t, NEW i \in Nat PROVE DepthIn(t, i, i) = 0
<1>1. ASSUME NEW A PROVE {m \in i .. i - 1 : t[m] \in A} = {}
  OBVIOUS
<1>2. Cardinality({}) = 0
  BY FS_EmptySet
<1>3. DepthIn(t, i, i) = 0 - 0
  BY <1>1, <1>2, Zenon DEF DepthIn
<1> QED
  BY <1>3

(* The keys of a text that grew. *)
LEMMA KeysGrow ==
  ASSUME NEW t, NEW u, NEW n, NEW x, Longer(u, t, n, x), NEW i \in 1 .. n
  PROVE  /\ KeysIn(u, i, n + 1) =
              KeysIn(t, i, n) \cup {m \in {n} : x = ":" /\ i < n /\ DepthIn(t, i, n) = 1}
         /\ \A m \in KeysIn(u, i, n + 1) : u[m] = t[m]
         /\ KeysIn(t, i, n) \subseteq 1 .. n - 1
<1>1. n \in Nat /\ u[n + 1] = x /\ \A m \in 1 .. n : t[m] = u[m]
  BY DEF Longer
<1>2. ASSUME NEW m \in i + 1 .. n PROVE DepthIn(u, i, m) = DepthIn(t, i, m) /\ u[m] = t[m]
  <2>1. m \in 0 .. n + 1 /\ m \in 1 .. n /\ i \in Nat /\ i >= 1
    BY <1>1
  <2> QED
    BY <1>1, <2>1, SameDepth
<1>3. (n + 1) - 1 = n
  BY <1>1
<1>4. ASSUME NEW m
      PROVE  m \in KeysIn(u, i, n + 1) <=>
               m \in KeysIn(t, i, n) \/ (m = n /\ x = ":" /\ i < n /\ DepthIn(t, i, n) = 1)
  <2>1. CASE m \in i + 1 .. n - 1
    <3>1. m \in i + 1 .. n /\ m + 1 \in i + 1 .. n /\ m # n
      BY <1>1, <2>1
    <3>2. u[m + 1] = t[m + 1] /\ DepthIn(u, i, m) = DepthIn(t, i, m)
      BY <1>2, <3>1
    <3> QED
      BY <1>3, <2>1, <3>1, <3>2 DEF KeysIn
  <2>2. CASE m = n
    <3>1. n \notin i + 1 .. n - 1 /\ (n \in i + 1 .. n <=> i < n)
      BY <1>1
    <3>2. i < n => DepthIn(u, i, n) = DepthIn(t, i, n)
      BY <1>2, <3>1
    <3> QED
      BY <1>1, <1>3, <2>2, <3>1, <3>2 DEF KeysIn
  <2>3. CASE m \notin i + 1 .. n - 1 /\ m # n
    <3>1. m \notin i + 1 .. n
      BY <1>1, <2>3
    <3> QED
      BY <1>3, <2>3, <3>1 DEF KeysIn
  <2> QED
    BY <2>1, <2>2, <2>3
<1>5. KeysIn(t, i, n) \subseteq 1 .. n - 1
  BY <1>1 DEF KeysIn
<1>6. KeysIn(u, i, n + 1) \subseteq i + 1 .. n
  BY <1>3 DEF KeysIn
<1> QED
  BY <1>2, <1>4, <1>5, <1>6

(* A token that is no bracket does not change the depth. *)
LEMMA DepthBefore ==
  ASSUME NEW t, NEW n \in Nat, n >= 1, NEW i \in 1 .. n, Change(t[n]) = 0
  PROVE  DepthIn(t, i, n + 1) = DepthIn(t, i, n)
<1>1. t[n] \notin {"{", "["} /\ t[n] \notin {"}", "]"}
  <2>1. ASSUME NEW x PROVE x \in {"{", "["} => Change(x) = 1
    BY Zenon DEF Change
  <2>2. ASSUME NEW x PROVE x \in {"}", "]"} => x \notin {"{", "["} /\ Change(x) = -1
    BY DEF Change
  <2>3. 0 # 1 /\ 0 # -1
    OBVIOUS
  <2> QED
    BY <2>1, <2>2, <2>3, Zenon
<1>2. ASSUME NEW A, t[n] \notin A
      PROVE  {m \in i .. (n + 1) - 1 : t[m] \in A} = {m \in i .. n - 1 : t[m] \in A}
  <2>1. \A m : m \in i .. (n + 1) - 1 <=> m \in i .. n - 1 \/ m = n
    OBVIOUS
  <2> QED
    BY <1>2, <2>1
<1> QED
  BY <1>1, <1>2, Zenon DEF DepthIn

(* The token is no colon behind a key of the container at i. *)
LEMMA KeysKept ==
  ASSUME NEW t, NEW u, NEW n, NEW x, Longer(u, t, n, x), NEW i \in 1 .. n, NEW frame,
         x # ":" \/ DepthIn(t, i, n) # 1
  PROVE  /\ Settled(t, frame, i) => Settled(u, frame, i)
         /\ Pending(t, frame, i) => Pending(u, frame, i)
<1>1. PICK P : P = KeysIn(t, i, n)
  OBVIOUS
<1>2. KeysIn(u, i, n + 1) = P /\ \A m \in P : u[m] = t[m]
  BY <1>1, KeysGrow
<1>3. Len(t) = n /\ Len(u) = n + 1
  BY DEF Longer
<1>4. ASSUME Settled(t, frame, i) PROVE Settled(u, frame, i)
  <2> SUFFICES ASSUME frame.kind = "object" PROVE frame.keys = {u[m] : m \in P} /\ Distinct(u, P)
    BY <1>2, <1>3, Zenon DEF Settled
  <2>1. frame.keys = {t[m] : m \in P} /\ Distinct(t, P)
    BY <1>1, <1>3, <1>4, Zenon DEF Settled
  <2> QED
    BY <1>2, <2>1 DEF Distinct
<1>5. ASSUME Pending(t, frame, i) PROVE Pending(u, frame, i)
  <2> SUFFICES ASSUME frame.kind = "object"
               PROVE  \E q \in P : /\ u[q] = frame.key
                                   /\ frame.keys = {u[m] : m \in P \ {q}} /\ Distinct(u, P \ {q})
    BY <1>2, <1>3, Zenon DEF Pending
  <2>1. PICK q \in P : /\ t[q] = frame.key
                       /\ frame.keys = {t[m] : m \in P \ {q}} /\ Distinct(t, P \ {q})
    BY <1>1, <1>3, <1>5, Zenon DEF Pending
  <2>2. u[q] = frame.key /\ frame.keys = {u[m] : m \in P \ {q}} /\ Distinct(u, P \ {q})
    BY <1>2, <2>1 DEF Distinct
  <2> QED
    BY <2>2
<1> QED
  BY <1>4, <1>5

(* The colon behind the key at n. *)
LEMMA KeyAdded ==
  ASSUME NEW t, NEW u, NEW n, Longer(u, t, n, ":"), NEW i \in 1 .. n, i < n, DepthIn(t, i, n) = 1,
         NEW frame, t[n] = frame.key, Settled(t, frame, i)
  PROVE  Pending(u, frame, i)
<1>1. PICK P, Q : P = KeysIn(t, i, n) /\ Q = KeysIn(u, i, n + 1)
  OBVIOUS
<1>2. Q = P \cup {n} /\ (\A m \in Q : u[m] = t[m]) /\ P \subseteq 1 .. n - 1
  <2>1. /\ Q = P \cup {m \in {n} : ":" = ":" /\ i < n /\ DepthIn(t, i, n) = 1}
        /\ (\A m \in Q : u[m] = t[m]) /\ P \subseteq 1 .. n - 1
    BY <1>1, KeysGrow
  <2> QED
    BY <2>1
<1>3. n \notin P
  BY <1>2 DEF Longer
<1>4. n \in Q /\ Q \ {n} = P
  BY <1>2, <1>3
<1>5. Len(t) = n /\ Len(u) = n + 1
  BY DEF Longer
<1> SUFFICES ASSUME frame.kind = "object"
             PROVE  \E q \in Q : /\ u[q] = frame.key
                                 /\ frame.keys = {u[m] : m \in Q \ {q}} /\ Distinct(u, Q \ {q})
  BY <1>1, <1>5, Zenon DEF Pending
<1>6. frame.keys = {t[m] : m \in P} /\ Distinct(t, P)
  BY <1>1, <1>5, Zenon DEF Settled
<1>7. \A m \in P : u[m] = t[m]
  BY <1>2
<1>8. frame.keys = {u[m] : m \in P} /\ Distinct(u, P)
  BY <1>6, <1>7 DEF Distinct
<1>9. u[n] = frame.key
  BY <1>2, <1>4
<1> QED
  BY <1>4, <1>8, <1>9

(* The value is there, and its key is not among the others. *)
LEMMA KeySettled ==
  ASSUME NEW t, NEW i, NEW frame, Pending(t, frame, i), NEW next, next.kind = frame.kind,
         frame.kind = "object" => frame.key \notin frame.keys /\ next.keys = frame.keys \cup {frame.key}
  PROVE  Settled(t, next, i)
<1>1. PICK P : P = KeysIn(t, i, Len(t))
  OBVIOUS
<1> SUFFICES ASSUME frame.kind = "object" PROVE next.keys = {t[m] : m \in P} /\ Distinct(t, P)
  BY <1>1, Zenon DEF Settled
<1>2. PICK q \in P : /\ t[q] = frame.key
                     /\ frame.keys = {t[m] : m \in P \ {q}} /\ Distinct(t, P \ {q})
  BY <1>1, Zenon DEF Pending
<1>3. next.keys = {t[m] : m \in P}
  BY <1>2
<1>4. \A m \in P \ {q} : t[m] # t[q]
  BY <1>2
<1>5. Distinct(t, P)
  BY <1>2, <1>4 DEF Distinct
<1> QED
  BY <1>3, <1>5

(* The same frames; of the innermost one, only the kind is. *)
Alike(st2, st) ==
  /\ Len(st) \in Nat /\ Len(st2) = Len(st) /\ (st = << >> <=> st2 = << >>)
  /\ \A k \in 1 .. Len(st) : st2[k].kind = st[k].kind
  /\ \A k \in 2 .. Len(st) : st2[k] = st[k]

(* A token that neither begins nor ends a call; a colon is behind one.     *)
Neutral(t, n, x) == Change(x) = 0 /\ (x = ":" => n >= 1 /\ Change(t[n]) = 0)

LEMMA CallsKept ==
  ASSUME NEW t, NEW u, NEW n, NEW x, Longer(u, t, n, x), Neutral(t, n, x),
         NEW st, NEW b, Calls(t, st, b), NEW st2, Alike(st2, st)
  PROVE  Calls(u, st2, b)
<1>0. /\ Change(x) = 0 /\ (x = ":" => n >= 1 /\ Change(t[n]) = 0)
      /\ Len(st) \in Nat /\ Len(st2) = Len(st) /\ (st = << >> <=> st2 = << >>)
      /\ \A k \in 1 .. Len(st) : st2[k].kind = st[k].kind
      /\ \A k \in 2 .. Len(st) : st2[k] = st[k]
  BY DEF Neutral, Alike
<1> USE <1>0
<1>1. n \in Nat /\ Len(t) = n /\ Len(u) = n + 1 /\ \A m \in 1 .. n : u[m] = t[m]
  BY DEF Longer
<1>2. PICK l : l = Len(st)
  OBVIOUS
<1>3. b \in [1 .. l -> 1 .. n] /\ (st # << >> => b[l] = 1)
  BY <1>1, <1>2 DEF Calls
<1>4. b \in [1 .. l -> 1 .. n + 1]
  BY <1>1, <1>2, <1>3
<1>5. ASSUME NEW k \in 1 .. l
      PROVE  u[b[k]] = Opener(st2[k].kind) /\ DepthIn(u, b[k], n + 2) = k
             /\ DepthIn(t, b[k], n + 1) = k
  <2>1. t[b[k]] = Opener(st[k].kind) /\ DepthIn(t, b[k], n + 1) = k
    BY <1>1, <1>2 DEF Calls
  <2>2. b[k] \in 1 .. n /\ b[k] \in 1 .. n + 1
    BY <1>1, <1>3
  <2>3. DepthIn(u, b[k], n + 2) = k + 0
    BY <2>1, <2>2, DepthGrows
  <2>4. k + 0 = k
    BY <1>2
  <2> QED
    BY <1>1, <1>2, <2>1, <2>2, <2>3, <2>4
<1>6. ASSUME NEW k \in 2 .. l
      PROVE  ValueNext(u, st2[k], b[k], b[k - 1]) /\ Pending(u, st2[k], b[k])
  <2>1. ValueNext(t, st[k], b[k], b[k - 1]) /\ Pending(t, st[k], b[k]) /\ st2[k] = st[k]
    BY <1>2 DEF Calls
  <2>2. ValueNext(u, st[k], b[k], b[k - 1])
    BY <2>1, PartsKept, Zenon
  <2>3. b[k] \in 1 .. n /\ k \in 1 .. l
    BY <1>2, <1>3
  <2>4. x # ":" \/ DepthIn(t, b[k], n) # 1
    <3> SUFFICES ASSUME x = ":" PROVE DepthIn(t, b[k], n) # 1
      OBVIOUS
    <3>1. DepthIn(t, b[k], n + 1) = DepthIn(t, b[k], n)
      BY <1>1, <2>3, DepthBefore
    <3>2. DepthIn(t, b[k], n + 1) = k /\ k # 1
      BY <1>2, <1>5, <2>3
    <3> QED
      BY <3>1, <3>2
  <2>5. Pending(u, st[k], b[k])
    BY <2>1, <2>3, <2>4, KeysKept
  <2> QED
    BY <2>1, <2>2, <2>5
<1>7. Len(u) + 1 = n + 2
  BY <1>1
<1> QED
  BY <1>1, <1>2, <1>3, <1>4, <1>5, <1>6, <1>7, Zenon DEF Calls

(* The bracket x was consumed. *)
Bracket(u, t, n, x, change) == Longer(u, t, n, x) /\ Change(x) = change /\ x # ":"

(* A value may begin behind t, the text of the calls st. *)
Expected(t, n, st, b) ==
  /\ st \in Seq(Frames) /\ Calls(t, st, b)
  /\ st = << >> => n = 0
  /\ st # << >> => ValueNext(t, st[1], b[1], n + 1) /\ Pending(t, st[1], b[1])

Pushed(st2, st, frame, x) == x = Opener(frame.kind) /\ frame.keys = {} /\ st2 = <<frame>> \o st

(* A call begins with the bracket x. *)
LEMMA CallBegins ==
  ASSUME NEW t, NEW u, NEW n, NEW x, Bracket(u, t, n, x, 1), NEW st, NEW b, Expected(t, n, st, b),
         NEW frame, NEW st2, Pushed(st2, st, frame, x)
  PROVE  \E c : Calls(u, st2, c) /\ c[1] = n + 1 /\ st2[1] = frame /\ Settled(u, frame, n + 1)
<1>0. /\ Longer(u, t, n, x) /\ Change(x) = 1 /\ x # ":"
      /\ st \in Seq(Frames) /\ Calls(t, st, b)
      /\ st = << >> => n = 0
      /\ st # << >> => ValueNext(t, st[1], b[1], n + 1) /\ Pending(t, st[1], b[1])
      /\ x = Opener(frame.kind) /\ frame.keys = {} /\ st2 = <<frame>> \o st
  BY DEF Bracket, Expected, Pushed
<1> USE <1>0
<1>1. n \in Nat /\ Len(t) = n /\ Len(u) = n + 1 /\ u[n + 1] = x /\ \A m \in 1 .. n : u[m] = t[m]
  BY DEF Longer
<1>2. PICK l : l = Len(st)
  OBVIOUS
<1>3. /\ l \in Nat /\ Len(st2) = l + 1 /\ st2 # << >> /\ st2[1] = frame
      /\ \A k \in 2 .. l + 1 : st2[k] = st[k - 1]
      /\ st # << >> <=> l > 0
  BY <1>2
<1>4. b \in [1 .. l -> 1 .. n] /\ (st # << >> => b[l] = 1)
  BY <1>1, <1>2 DEF Calls
<1>5. PICK c : c = [k \in 1 .. l + 1 |-> IF k = 1 THEN n + 1 ELSE b[k - 1]]
  OBVIOUS
<1>6. /\ c[1] = n + 1 /\ \A k \in 2 .. l + 1 : c[k] = b[k - 1] /\ c[k] \in 1 .. n
  <2>1. 1 \in 1 .. l + 1 /\ \A k \in 2 .. l + 1 : k \in 1 .. l + 1 /\ k # 1 /\ k - 1 \in 1 .. l
    BY <1>3
  <2> QED
    BY <1>4, <1>5, <2>1
<1>7. c \in [1 .. l + 1 -> 1 .. n + 1] /\ c[l + 1] = 1
  <2>1. \A k \in 1 .. l + 1 : c[k] \in 1 .. n + 1
    <3> TAKE k \in 1 .. l + 1
    <3>1. k = 1 \/ k \in 2 .. l + 1
      BY <1>3
    <3>2. n + 1 \in 1 .. n + 1 /\ \A m \in 1 .. n : m \in 1 .. n + 1
      BY <1>1
    <3> QED
      BY <1>6, <3>1, <3>2
  <2>2. ASSUME l = 0 PROVE c[l + 1] = 1
    <3>1. l + 1 = 1 /\ n + 1 = 1
      BY <1>3, <2>2
    <3> QED
      BY <1>6, <3>1
  <2>3. ASSUME l # 0 PROVE c[l + 1] = 1
    <3>1. l + 1 \in 2 .. l + 1 /\ (l + 1) - 1 = l /\ st # << >>
      BY <1>3, <2>3
    <3> QED
      BY <1>4, <1>6, <3>1
  <2> QED
    BY <1>5, <2>1, <2>2, <2>3
<1>8. ASSUME NEW k \in 1 .. l + 1
      PROVE  u[c[k]] = Opener(st2[k].kind) /\ DepthIn(u, c[k], n + 2) = k
  <2>1. CASE k = 1
    <3>1. n + 1 \in 1 .. n + 1 /\ n + 1 \in Nat
      BY <1>1
    <3>2. DepthIn(u, n + 1, n + 2) = 0 + 1
      BY <3>1, DepthGrows, DepthNone
    <3> QED
      BY <1>1, <1>3, <1>6, <2>1, <3>2
  <2>2. CASE k # 1
    <3>1. k \in 2 .. l + 1 /\ k - 1 \in 1 .. l
      BY <1>3, <2>2
    <3>2. PICK o, i : o = k - 1 /\ i = c[k]
      OBVIOUS
    <3>3. i = b[o] /\ i \in 1 .. n /\ i \in 1 .. n + 1 /\ o \in 1 .. l /\ st2[k] = st[o] /\ o + 1 = k
      BY <1>1, <1>3, <1>6, <3>1, <3>2
    <3>4. t[i] = Opener(st[o].kind) /\ DepthIn(t, i, n + 1) = o
      BY <1>1, <1>2, <3>3 DEF Calls
    <3>5. DepthIn(u, i, n + 2) = o + 1
      BY <3>3, <3>4, DepthGrows
    <3> QED
      BY <1>1, <3>2, <3>3, <3>4, <3>5
  <2> QED
    BY <2>1, <2>2
<1>9. ASSUME NEW k \in 2 .. l + 1
      PROVE  ValueNext(u, st2[k], c[k], c[k - 1]) /\ Pending(u, st2[k], c[k])
  <2>1. PICK o, i : o = k - 1 /\ i = c[k]
    OBVIOUS
  <2>2. i = b[o] /\ i \in 1 .. n /\ o \in 1 .. l /\ st2[k] = st[o] /\ st # << >>
    BY <1>3, <1>6, <2>1
  <2>3. ValueNext(t, st[o], i, c[o]) /\ Pending(t, st[o], i)
    <3>1. CASE o = 1
      BY <1>6, <2>2, <3>1
    <3>2. CASE o # 1
      <4>1. o \in 2 .. l /\ o \in 2 .. l + 1
        BY <1>3, <2>2, <3>2
      <4>2. c[o] = b[o - 1]
        BY <1>6, <4>1
      <4>3. ValueNext(t, st[o], b[o], b[o - 1]) /\ Pending(t, st[o], b[o])
        BY <1>2, <4>1 DEF Calls
      <4> QED
        BY <2>2, <4>2, <4>3
    <3> QED
      BY <3>1, <3>2
  <2>4. ValueNext(u, st[o], i, c[o])
    BY <2>3, PartsKept, Zenon
  <2>5. Pending(u, st[o], i)
    BY <2>2, <2>3, KeysKept
  <2> QED
    BY <2>1, <2>2, <2>4, <2>5
<1>10. Len(u) + 1 = n + 2
  BY <1>1
<1>11. Calls(u, st2, c)
  BY <1>1, <1>3, <1>7, <1>8, <1>9, <1>10, Zenon DEF Calls
<1>12. Settled(u, frame, n + 1)
  <2>1. KeysIn(u, n + 1, n + 1) = {}
    BY <1>1 DEF KeysIn
  <2>2. {u[m] : m \in {}} = {} /\ Distinct(u, {})
    BY DEF Distinct
  <2> QED
    BY <1>1, <2>1, <2>2, Zenon DEF Settled
<1> QED
  BY <1>3, <1>6, <1>11, <1>12

Popped(st2, st) == st \in Seq(Frames) /\ st # << >> /\ st2 = Tail(st)

(* The innermost call ends with the bracket x. *)
LEMMA CallEnds ==
  ASSUME NEW t, NEW u, NEW n, NEW x, Bracket(u, t, n, x, -1), NEW st, NEW st2, Popped(st2, st),
         NEW b, Calls(t, st, b)
  PROVE  \E c : /\ Calls(u, st2, c)
                /\ st2 = << >> => b[1] = 1
                /\ st2 # << >> => ValueNext(u, st2[1], c[1], b[1]) /\ Pending(u, st2[1], c[1])
<1>0. /\ Longer(u, t, n, x) /\ Change(x) = -1 /\ x # ":"
      /\ st \in Seq(Frames) /\ st # << >> /\ st2 = Tail(st)
  BY DEF Bracket, Popped
<1> USE <1>0
<1>1. n \in Nat /\ Len(t) = n /\ Len(u) = n + 1 /\ \A m \in 1 .. n : u[m] = t[m]
  BY DEF Longer
<1>2. PICK l : l = Len(st) - 1
  OBVIOUS
<1>3. /\ l \in Nat /\ Len(st) = l + 1 /\ Len(st2) = l
      /\ \A k \in 1 .. l : st2[k] = st[k + 1]
      /\ st2 # << >> <=> l > 0
  <2>1. st2 \in Seq(Frames) /\ Len(st) \in Nat /\ Len(st) >= 1 /\ Len(st2) = Len(st) - 1
    BY HeldTop
  <2>2. \A k \in 1 .. Len(st) - 1 : st2[k] = st[k + 1]
    BY HeldTop
  <2>3. l \in Nat /\ Len(st) = l + 1 /\ Len(st2) = l
    BY <1>2, <2>1
  <2>4. st2 = << >> <=> Len(st2) = 0
    BY <2>1, EmptySeq
  <2> QED
    BY <1>2, <2>2, <2>3, <2>4
<1>4. b \in [1 .. l + 1 -> 1 .. n] /\ b[l + 1] = 1
  BY <1>1, <1>3 DEF Calls
<1>5. PICK c : c = [k \in 1 .. l |-> b[k + 1]]
  OBVIOUS
<1>6. \A k \in 1 .. l : c[k] = b[k + 1] /\ c[k] \in 1 .. n /\ c[k] \in 1 .. n + 1
  <2>1. \A k \in 1 .. l : k + 1 \in 1 .. l + 1
    BY <1>3
  <2>2. \A k \in 1 .. l : c[k] \in 1 .. n
    BY <1>4, <1>5, <2>1
  <2>3. \A m \in 1 .. n : m \in 1 .. n + 1
    BY <1>1
  <2> QED
    BY <1>5, <2>2, <2>3
<1>7. c \in [1 .. l -> 1 .. n + 1] /\ (st2 # << >> => c[l] = 1)
  <2>1. l > 0 => l \in 1 .. l
    BY <1>3
  <2> QED
    BY <1>3, <1>4, <1>5, <1>6, <2>1
<1>8. ASSUME NEW k \in 1 .. l
      PROVE  u[c[k]] = Opener(st2[k].kind) /\ DepthIn(u, c[k], n + 2) = k
  <2>1. PICK o, i : o = k + 1 /\ i = c[k]
    OBVIOUS
  <2>2. i = b[o] /\ i \in 1 .. n /\ i \in 1 .. n + 1 /\ o \in 1 .. l + 1 /\ st2[k] = st[o]
    BY <1>3, <1>6, <2>1
  <2>3. t[i] = Opener(st[o].kind) /\ DepthIn(t, i, n + 1) = o
    BY <1>1, <1>3, <2>2 DEF Calls
  <2>4. DepthIn(u, i, n + 2) = o + (-1)
    BY <2>2, <2>3, DepthGrows
  <2>5. o + (-1) = k
    BY <1>3, <2>1
  <2> QED
    BY <1>1, <2>1, <2>2, <2>3, <2>4, <2>5
<1>9. ASSUME NEW k \in 1 .. l
      PROVE  ValueNext(u, st2[k], c[k], b[k]) /\ Pending(u, st2[k], c[k])
  <2>1. PICK o, i : o = k + 1 /\ i = c[k]
    OBVIOUS
  <2>2. i = b[o] /\ i \in 1 .. n /\ o \in 2 .. l + 1 /\ st2[k] = st[o] /\ o - 1 = k
    BY <1>3, <1>6, <2>1
  <2>3. ValueNext(t, st[o], i, b[k]) /\ Pending(t, st[o], i)
    BY <1>3, <2>2 DEF Calls
  <2>4. ValueNext(u, st[o], i, b[k])
    BY <2>3, PartsKept, Zenon
  <2>5. Pending(u, st[o], i)
    BY <2>2, <2>3, KeysKept
  <2> QED
    BY <2>1, <2>2, <2>4, <2>5
<1>10. ASSUME NEW k \in 2 .. l
       PROVE  ValueNext(u, st2[k], c[k], c[k - 1]) /\ Pending(u, st2[k], c[k])
  <2>1. k \in 1 .. l /\ k - 1 \in 1 .. l /\ (k - 1) + 1 = k
    BY <1>3
  <2>2. c[k - 1] = b[k]
    BY <1>6, <2>1
  <2> QED
    BY <1>9, <2>1, <2>2
<1>11. Len(u) + 1 = n + 2
  BY <1>1
<1>12. Calls(u, st2, c)
  BY <1>1, <1>3, <1>7, <1>8, <1>10, <1>11, Zenon DEF Calls
<1>13. st2 = << >> => b[1] = 1
  BY <1>3, <1>4
<1>14. st2 # << >> => ValueNext(u, st2[1], c[1], b[1]) /\ Pending(u, st2[1], c[1])
  <2>1. st2 # << >> => 1 \in 1 .. l
    BY <1>3
  <2> QED
    BY <1>9, <2>1
<1> QED
  BY <1>12, <1>13, <1>14

(* What is known of the innermost call and its bracket at i. *)
Inner(t, p, st, b, i) ==
  /\ Calls(t, st, b) /\ st # << >> /\ i = b[1] /\ Parsed(t, p, st[1], i)
  /\ st \in Seq(Frames) /\ st[1] \in Frames /\ Len(st) \in Nat /\ 1 \in 1 .. Len(st)
  /\ i \in 1 .. Len(t) /\ t[i] = Opener(st[1].kind) /\ DepthIn(t, i, Len(t) + 1) = 1

LEMMA InnerFound ==
  ASSUME NEW t, NEW p, NEW st \in Seq(Frames), st # << >>, NEW b, Accepted(t, p, st, b)
  PROVE  Inner(t, p, st, b, b[1])
<1>1. Len(st) \in Nat /\ 1 \in 1 .. Len(st) /\ st[1] \in Frames
  <2>1. Len(st) \in Nat /\ Len(st) >= 1 /\ st[1] \in Frames
    BY HeldTop
  <2> QED
    BY <2>1
<1>2. Calls(t, st, b) /\ Parsed(t, p, st[1], b[1])
  BY DEF Accepted
<1>3. t[b[1]] = Opener(st[1].kind) /\ DepthIn(t, b[1], Len(t) + 1) = 1 /\ b[1] \in 1 .. Len(t)
  BY <1>1, <1>2 DEF Calls
<1> QED
  BY <1>1, <1>2, <1>3 DEF Inner

(* The same calls, what is parsed of the innermost one apart. *)
LEMMA CallsSame ==
  ASSUME NEW t, NEW st, NEW b, Calls(t, st, b), NEW st2, Alike(st2, st)
  PROVE  Calls(t, st2, b)
BY Zenon DEF Calls, Alike

LEMMA AlikeSelf == ASSUME NEW st \in Seq(Frames) PROVE Alike(st, st)
BY DEF Alike

(* The first frame of a stack is another one, of the same kind. *)
LEMMA TopSet ==
  ASSUME NEW st \in Seq(Frames), st # << >>, NEW f, f.kind = st[1].kind,
         NEW st2, st2 = [st EXCEPT ![1] = f]
  PROVE  st2 # << >> /\ st2[1] = f /\ Alike(st2, st)
<1>1. Len(st) \in Nat /\ 1 \in 1 .. Len(st)
  BY HeldTop
<1>2. st2[1] = f /\ Len(st2) = Len(st) /\ \A k \in 2 .. Len(st) : st2[k] = st[k]
  BY <1>1
<1>3. st2 # << >>
  <2>1. Len(<< >>) = 0 /\ Len(st) # 0
    BY <1>1
  <2> QED
    BY <1>2, <2>1
<1>4. ASSUME NEW k \in 1 .. Len(st) PROVE st2[k].kind = st[k].kind
  <2>1. k = 1 \/ k \in 2 .. Len(st)
    BY <1>1
  <2> QED
    BY <1>2, <2>1
<1> QED
  BY <1>1, <1>2, <1>3, <1>4 DEF Alike

(* A scalar is a value. *)
LEMMA ScalarAccepted ==
  ASSUME NEW t, NEW u, NEW n, NEW x \in Scalars, Longer(u, t, n, x), Change(x) = 0, x # ":",
         NEW st \in Seq(Frames), NEW b, Accepted(t, "value", st, b)
  PROVE  Accepted(u, "returned", st, b)
<1>1. n \in Nat /\ Len(t) = n /\ Len(u) = n + 1 /\ u[n + 1] = x
  BY DEF Longer
<1>2. Calls(t, st, b)
  BY DEF Accepted
<1>3. Calls(u, st, b)
  <2>1. Neutral(t, n, x) /\ Alike(st, st)
    BY AlikeSelf DEF Neutral
  <2> QED
    BY <1>2, <2>1, CallsKept
<1>4. Valued(u, n + 1, n + 1)
  <2>1. PICK j : j = n + 1
    OBVIOUS
  <2>2. j \in 1 .. Len(u) /\ Len(u) \in Nat /\ u[j] \in Scalars
    BY <1>1, <2>1
  <2>3. Valued(u, j, j)
    BY <2>2, ScalarRule
  <2> QED
    BY <2>1, <2>3
<1>5. CASE st = << >>
  <2>1. n = 0
    <3>1. t = << >>
      BY <1>5 DEF Accepted, ParsedAll
    <3> QED
      BY <1>1, <3>1
  <2>2. n + 1 = 1
    BY <2>1
  <2>3. Valued(u, 1, Len(u))
    BY <1>1, <1>4, <2>2
  <2>4. ParsedAll(u, "returned")
    BY <2>3 DEF ParsedAll
  <2> QED
    BY <1>3, <1>5, <2>4 DEF Accepted
<1>6. CASE st # << >>
  <2>1. PICK i : Inner(t, "value", st, b, i) /\ i = b[1]
    BY <1>6, InnerFound
  <2>2. i \in 1 .. n /\ Pending(t, st[1], i) /\ ValueNext(t, st[1], i, n + 1)
    BY <1>1, <2>1 DEF Inner, Parsed
  <2>3. Pending(u, st[1], i)
    BY <2>2, KeysKept
  <2>4. ValueNext(u, st[1], i, n + 1)
    BY <2>2, PartsKept, Zenon
  <2>5. n + 1 \in 1 .. n + 1
    BY <1>1
  <2>6. Parsed(u, "returned", st[1], i)
    BY <1>1, <1>4, <2>3, <2>4, <2>5 DEF Parsed
  <2> QED
    BY <1>3, <1>6, <2>1, <2>6 DEF Accepted
<1> QED
  BY <1>5, <1>6

(* An opening bracket begins a call. *)
LEMMA OpenAccepted ==
  ASSUME NEW t, NEW u, NEW n, NEW x, Bracket(u, t, n, x, 1),
         NEW st \in Seq(Frames), NEW b, Accepted(t, "value", st, b),
         NEW frame, NEW st2, Pushed(st2, st, frame, x), st2 # << >>
  PROVE  \E c : Accepted(u, "opened", st2, c)
<1>1. n \in Nat /\ Len(t) = n /\ Len(u) = n + 1
  BY DEF Bracket, Longer
<1>2. Calls(t, st, b)
  BY DEF Accepted
<1>3. ASSUME st = << >> PROVE n = 0
  <2>1. t = << >>
    BY <1>3 DEF Accepted, ParsedAll
  <2> QED
    BY <1>1, <2>1
<1>4. ASSUME st # << >> PROVE ValueNext(t, st[1], b[1], n + 1) /\ Pending(t, st[1], b[1])
  BY <1>1, <1>4 DEF Accepted, Parsed
<1>5. PICK c : Calls(u, st2, c) /\ c[1] = n + 1 /\ st2[1] = frame /\ Settled(u, frame, n + 1)
  <2>1. Expected(t, n, st, b)
    BY <1>2, <1>3, <1>4 DEF Expected
  <2> QED
    BY <2>1, CallBegins, Zenon
<1>6. Parsed(u, "opened", st2[1], c[1])
  BY <1>1, <1>5 DEF Parsed
<1>7. Accepted(u, "opened", st2, c)
  BY <1>5, <1>6 DEF Accepted
<1> QED
  BY <1>7

(* A closing bracket ends a call: what it parsed is a value. *)
LEMMA CloseAccepted ==
  ASSUME NEW t, NEW u, NEW n, NEW x, Bracket(u, t, n, x, -1), NEW st, NEW st2, Popped(st2, st),
         NEW b, NEW p \in {"opened", "close"}, Accepted(t, p, st, b), x = Closer(st[1].kind)
  PROVE  \E c : Accepted(u, "returned", st2, c)
<1>0. Longer(u, t, n, x) /\ st \in Seq(Frames) /\ st # << >>
  BY DEF Bracket, Popped
<1> USE <1>0
<1>1. n \in Nat /\ Len(t) = n /\ Len(u) = n + 1 /\ u[n + 1] = x /\ \A m \in 1 .. n : t[m] = u[m]
  BY DEF Longer
<1>2. PICK i : Inner(t, p, st, b, i) /\ i = b[1]
  BY InnerFound
<1>3. PICK kind : kind = st[1].kind
  OBVIOUS
<1>4. i \in 1 .. n /\ kind \in {"object", "array"} /\ t[i] = Opener(kind) /\ Calls(t, st, b)
  BY <1>1, <1>2, <1>3 DEF Inner, Frames
<1>5. /\ Settled(t, st[1], i)
      /\ i = n \/ Listed(t, kind, i, n) \/ (t[n] = "," /\ Listed(t, kind, i, n - 1))
  BY <1>1, <1>2, <1>3 DEF Inner, Parsed
<1>6. i = n \/ Listed(u, kind, i, n) \/ (u[n] = "," /\ Listed(u, kind, i, n - 1))
  <2>1. n \in 1 .. n
    BY <1>1, <1>4
  <2>2. t[n] = u[n]
    BY <1>1, <2>1
  <2>3. \A j : Listed(t, kind, i, j) => Listed(u, kind, i, j)
    BY PartsKept, Zenon
  <2> QED
    BY <1>5, <2>2, <2>3, Zenon
<1>7. kind = "object" => Distinct(u, KeysIn(u, i, n))
  <2> SUFFICES ASSUME kind = "object" PROVE Distinct(u, KeysIn(u, i, n))
    OBVIOUS
  <2>1. PICK P : P = KeysIn(t, i, n)
    OBVIOUS
  <2>2. Distinct(t, P)
    BY <1>1, <1>3, <1>5, <2>1 DEF Settled
  <2>3. i \in Nat /\ i >= 1
    BY <1>4
  <2>4. KeysIn(u, i, n) = P
    BY <1>1, <2>1, <2>3, SameKeys
  <2>5. \A m \in P : t[m] = u[m]
    <3>1. P \subseteq 1 .. n
      BY <1>1, <1>4, <2>1 DEF KeysIn
    <3> QED
      BY <1>1, <3>1
  <2> QED
    BY <2>2, <2>4, <2>5 DEF Distinct
<1>8. Valued(u, i, n + 1)
  <2>1. PICK j : j = n + 1
    OBVIOUS
  <2>2. j \in 1 .. Len(u) /\ Len(u) \in Nat /\ i \in 1 .. j - 1 /\ j - 1 = n /\ j - 2 = n - 1
    BY <1>1, <1>4, <2>1
  <2>3. u[i] = Opener(kind) /\ u[j] = Closer(kind)
    BY <1>1, <1>3, <1>4, <2>1
  <2>4. \/ i = j - 1
        \/ Listed(u, kind, i, j - 1)
        \/ u[j - 1] = "," /\ Listed(u, kind, i, j - 2)
    BY <1>6, <2>2
  <2>5. kind = "object" => Distinct(u, KeysIn(u, i, j - 1))
    BY <1>7, <2>2
  <2>6. Valued(u, i, j)
    BY <1>4, <2>2, <2>3, <2>4, <2>5, BracketRule
  <2> QED
    BY <2>1, <2>6
<1>9. PICK c : /\ Calls(u, st2, c)
               /\ st2 = << >> => b[1] = 1
               /\ st2 # << >> => ValueNext(u, st2[1], c[1], b[1]) /\ Pending(u, st2[1], c[1])
  BY <1>4, CallEnds, Zenon
<1>10. Accepted(u, "returned", st2, c)
  <2>1. CASE st2 = << >>
    <3>1. Valued(u, 1, Len(u))
      BY <1>1, <1>2, <1>8, <1>9, <2>1
    <3>2. ParsedAll(u, "returned")
      BY <3>1 DEF ParsedAll
    <3> QED
      BY <1>9, <2>1, <3>2 DEF Accepted
  <2>2. CASE st2 # << >>
    <3>1. i \in 1 .. n + 1
      BY <1>1, <1>4
    <3>2. ValueNext(u, st2[1], c[1], i) /\ Pending(u, st2[1], c[1])
      BY <1>2, <1>9, <2>2
    <3>3. Parsed(u, "returned", st2[1], c[1])
      BY <1>1, <1>8, <3>1, <3>2 DEF Parsed
    <3> QED
      BY <1>9, <2>2, <3>3 DEF Accepted
  <2> QED
    BY <2>1, <2>2
<1> QED
  BY <1>10

(* A key is consumed and held. *)
LEMMA KeyAccepted ==
  ASSUME NEW t, NEW u, NEW n, NEW x \in Strings, Longer(u, t, n, x), Change(x) = 0, x # ":",
         NEW st \in Seq(Frames), st # << >>, NEW b, Accepted(t, "key", st, b),
         NEW st2, st2 = [st EXCEPT ![1].key = x]
  PROVE  Accepted(u, "colon", st2, b)
<1>1. n \in Nat /\ Len(t) = n /\ Len(u) = n + 1 /\ u[n + 1] = x
  BY DEF Longer
<1>2. PICK i : Inner(t, "key", st, b, i) /\ i = b[1]
  BY InnerFound
<1>3. PICK f : f = [st[1] EXCEPT !.key = x]
  OBVIOUS
<1>4. f.kind = st[1].kind /\ f.keys = st[1].keys /\ f.key = x
  <2>1. st[1] \in Frames
    BY <1>2 DEF Inner
  <2> QED
    BY <1>3, <2>1 DEF Frames
<1>5. st2 = [st EXCEPT ![1] = f]
  BY <1>3
<1>6. st2 # << >> /\ st2[1] = f /\ Alike(st2, st)
  BY <1>4, <1>5, TopSet
<1>7. Calls(u, st2, b)
  <2>1. Calls(t, st, b) /\ Neutral(t, n, x)
    BY <1>2 DEF Inner, Neutral
  <2> QED
    BY <1>6, <2>1, CallsKept
<1>8. Settled(t, st[1], i) /\ MemberNext(t, "object", i, n + 1) /\ i \in 1 .. n
  BY <1>1, <1>2 DEF Inner, Parsed
<1>9. Settled(u, st[1], i)
  BY <1>8, KeysKept
<1>10. Settled(u, f, i)
  BY <1>4, <1>9 DEF Settled
<1>11. MemberNext(u, "object", i, n + 1)
  BY <1>8, PartsKept, Zenon
<1>12. Parsed(u, "colon", f, i)
  BY <1>1, <1>4, <1>10, <1>11 DEF Parsed
<1> QED
  BY <1>2, <1>6, <1>7, <1>12 DEF Accepted

(* The colon behind it is consumed. *)
LEMMA ColonAccepted ==
  ASSUME NEW t, NEW u, NEW n, Longer(u, t, n, ":"),
         NEW st \in Seq(Frames), st # << >>, NEW b, Accepted(t, "colon", st, b), Keyed(st[1])
  PROVE  Accepted(u, "value", st, b)
<1>1. n \in Nat /\ Len(t) = n /\ Len(u) = n + 1 /\ u[n + 1] = ":" /\ \A m \in 1 .. n : u[m] = t[m]
  BY DEF Longer
<1>2. PICK i, key : Inner(t, "colon", st, b, i) /\ i = b[1] /\ key = st[1].key
  BY InnerFound
<1>3. /\ Settled(t, st[1], i) /\ key \in Strings /\ t[n] = key /\ MemberNext(t, "object", i, n)
      /\ i \in 1 .. n /\ t[i] = Opener(st[1].kind) /\ DepthIn(t, i, n + 1) = 1 /\ Len(st) \in Nat
      /\ Calls(t, st, b)
  BY <1>1, <1>2 DEF Inner, Parsed
<1>4. st[1].kind = "object"
  BY <1>2, <1>3, JsonAssumption DEF Keyed
<1>5. Change(t[n]) = 0 /\ t[n] # "{"
  <2>1. key \in StringTokens /\ key # "{"
    BY <1>3, JsonAssumption DEF StringTokens
  <2> QED
    BY <1>3, <2>1, Changes
<1>6. i < n /\ n >= 1
  <2>1. i # n
    <3>1. Opener("object") = "{"
      BY Zenon DEF Opener
    <3>2. t[i] = "{"
      BY <1>3, <1>4, <3>1
    <3> QED
      BY <1>5, <3>2
  <2> QED
    BY <1>1, <1>3, <2>1
<1>7. DepthIn(t, i, n) = 1
  BY <1>1, <1>3, <1>5, <1>6, DepthBefore
<1>8. Pending(u, st[1], i)
  BY <1>2, <1>3, <1>6, <1>7, KeyAdded
<1>9. Calls(u, st, b)
  <2>1. Neutral(t, n, ":") /\ Alike(st, st)
    BY <1>5, <1>6, Changes, AlikeSelf DEF Neutral
  <2> QED
    BY <1>3, <2>1, CallsKept
<1>10. ValueNext(u, st[1], i, n + 2)
  <2>1. PICK h : h = n + 2
    OBVIOUS
  <2>2. h - 2 = n /\ h - 1 = n + 1 /\ n \in 1 .. n + 1 /\ n + 1 \in 1 .. n + 1 /\ n \in 1 .. n
    BY <1>1, <1>6, <2>1
  <2>3. MemberNext(u, "object", i, n)
    BY <1>3, PartsKept, Zenon
  <2>4. u[n] = key
    BY <1>1, <1>3, <2>2
  <2>5. ValueNext(u, st[1], i, h)
    BY <1>1, <1>2, <1>3, <1>4, <2>2, <2>3, <2>4 DEF ValueNext
  <2> QED
    BY <2>1, <2>5
<1>11. (n + 1) + 1 = n + 2
  BY <1>1
<1>12. Parsed(u, "value", st[1], i)
  BY <1>1, <1>8, <1>10, <1>11 DEF Parsed
<1> QED
  BY <1>2, <1>9, <1>12 DEF Accepted

IsComma(x) == x = ","

(* A comma behind a member is consumed. *)
LEMMA CommaAccepted ==
  ASSUME NEW t, NEW u, NEW n, NEW x, IsComma(x), Longer(u, t, n, x),
         NEW st \in Seq(Frames), st # << >>, NEW b, Accepted(t, "after", st, b)
  PROVE  Accepted(u, "comma", st, b)
<1>1. n \in Nat /\ Len(t) = n /\ Len(u) = n + 1 /\ u[n + 1] = x
  BY DEF Longer
<1>2. PICK i, kind : Inner(t, "after", st, b, i) /\ i = b[1] /\ kind = st[1].kind
  BY InnerFound
<1>3. /\ Settled(t, st[1], i) /\ Listed(t, kind, i, n) /\ i \in 1 .. n /\ Calls(t, st, b)
  BY <1>1, <1>2 DEF Inner, Parsed
<1>4. Change(x) = 0 /\ x # ":"
  BY Changes DEF IsComma
<1>5. Settled(u, st[1], i)
  BY <1>3, <1>4, KeysKept
<1>6. Listed(u, kind, i, n)
  BY <1>3, PartsKept, Zenon
<1>7. Calls(u, st, b)
  <2>1. Neutral(t, n, x) /\ Alike(st, st)
    BY <1>4, AlikeSelf DEF Neutral
  <2> QED
    BY <1>3, <2>1, CallsKept
<1>8. (n + 1) - 1 = n
  BY <1>1
<1>9. u[Len(u)] = "," /\ Listed(u, kind, i, Len(u) - 1)
  BY <1>1, <1>6, <1>8, Zenon DEF IsComma
<1>10. Parsed(u, "comma", st[1], i)
  BY <1>2, <1>5, <1>9 DEF Parsed
<1> QED
  BY <1>2, <1>7, <1>10 DEF Accepted

(* The loop goes on to the next element or to its end. *)
LEMMA LoopAccepted ==
  ASSUME NEW t, Len(t) \in Nat, NEW st \in Seq(Frames), st # << >>, NEW b,
         NEW p \in {"opened", "comma", "after"}, Accepted(t, p, st, b), NEW q,
         \/ q = "close"
         \/ p # "after" /\ q = "key" /\ st[1].kind = "object"
         \/ p # "after" /\ q = "value" /\ st[1].kind # "object"
  PROVE  Accepted(t, q, st, b)
<1>1. PICK n, i, kind : n = Len(t) /\ Inner(t, p, st, b, i) /\ i = b[1] /\ kind = st[1].kind
  BY InnerFound
<1>2. /\ Settled(t, st[1], i) /\ Calls(t, st, b) /\ kind \in {"object", "array"} /\ n \in Nat
      /\ i \in 1 .. n
      /\ p = "opened" => i = n
      /\ p = "after" => Listed(t, kind, i, n)
      /\ p = "comma" => t[n] = "," /\ Listed(t, kind, i, n - 1)
  BY <1>1 DEF Inner, Parsed, Frames
<1>3. p # "after" => MemberNext(t, kind, i, n + 1)
  <2>1. CASE p = "opened"
    BY <1>2, <2>1 DEF MemberNext
  <2>2. CASE p = "comma"
    <3>1. (n + 1) - 1 = n /\ (n + 1) - 2 = n - 1 /\ n \in 1 .. n
      <4>1. n \in Nat /\ i \in 1 .. n
        BY <1>2
      <4> QED
        BY <4>1
    <3> QED
      BY <1>1, <1>2, <2>2, <3>1 DEF MemberNext
  <2> QED
    BY <2>1, <2>2
<1>4. CASE q = "close"
  <2>1. Parsed(t, "close", st[1], i)
    BY <1>1, <1>2 DEF Parsed
  <2> QED
    BY <1>1, <1>2, <1>4, <2>1 DEF Accepted
<1>5. CASE p # "after" /\ q = "key" /\ kind = "object"
  <2>1. Parsed(t, "key", st[1], i)
    BY <1>1, <1>2, <1>3, <1>5 DEF Parsed
  <2> QED
    BY <1>1, <1>2, <1>5, <2>1 DEF Accepted
<1>6. CASE p # "after" /\ q = "value" /\ kind # "object"
  <2>1. kind = "array"
    BY <1>2, <1>6
  <2>2. ValueNext(t, st[1], i, n + 1) /\ Pending(t, st[1], i)
    BY <1>1, <1>3, <1>6, <2>1 DEF ValueNext, Pending
  <2>3. Parsed(t, "value", st[1], i)
    BY <1>1, <2>2 DEF Parsed
  <2> QED
    BY <1>1, <1>2, <1>6, <2>3 DEF Accepted
<1> QED
  BY <1>1, <1>4, <1>5, <1>6

(* A member is added to its container. *)
LEMMA MemberAccepted ==
  ASSUME NEW t, Len(t) \in Nat, NEW st \in Seq(Frames), st # << >>, NEW b,
         Accepted(t, "returned", st, b), NEW f, f.kind = st[1].kind,
         st[1].kind = "object" =>
           st[1].key \notin st[1].keys /\ f.keys = st[1].keys \cup {st[1].key},
         NEW st2, st2 = [st EXCEPT ![1] = f]
  PROVE  Accepted(t, "after", st2, b)
<1>1. PICK n, i, kind : n = Len(t) /\ Inner(t, "returned", st, b, i) /\ i = b[1] /\ kind = st[1].kind
  BY InnerFound
<1>2. /\ Pending(t, st[1], i) /\ Calls(t, st, b) /\ kind \in {"object", "array"} /\ n \in Nat
      /\ i \in 1 .. n /\ \E h \in 1 .. n : ValueNext(t, st[1], i, h) /\ Valued(t, h, n)
  BY <1>1 DEF Inner, Parsed, Frames
<1>3. PICK h \in 1 .. n : ValueNext(t, st[1], i, h) /\ Valued(t, h, n)
  BY <1>2
<1>4. Listed(t, kind, i, n)
  <2>1. n \in 1 .. Len(t) /\ i \in Nat /\ Len(t) \in Nat
    BY <1>1, <1>2
  <2>2. CASE kind = "array"
    <3>1. MemberNext(t, "array", i, h) /\ IsMember(t, "array", h, n)
      BY <1>1, <1>3, <2>2 DEF ValueNext, IsMember
    <3> QED
      BY <1>3, <2>1, <2>2, <3>1, ListRule
  <2>3. CASE kind = "object"
    <3>1. PICK g, l : g = h - 2 /\ l = Len(t)
      OBVIOUS
    <3>2. /\ g \in 1 .. l /\ t[g] = st[1].key /\ st[1].key \in Strings
          /\ t[h - 1] = ":" /\ MemberNext(t, "object", i, g)
      BY <1>1, <1>3, <2>3, <3>1 DEF ValueNext
    <3>3. g + 1 = h - 1 /\ g + 2 = h /\ g \in 1 .. n - 2 /\ g \in 1 .. n
      <4>1. g \in 1 .. l
        BY <3>2
      <4> QED
        BY <1>2, <1>3, <3>1, <4>1
    <3>4. IsMember(t, "object", g, n)
      BY <1>3, <3>2, <3>3 DEF IsMember
    <3> QED
      BY <2>1, <2>3, <3>2, <3>3, <3>4, ListRule
  <2> QED
    BY <1>2, <2>2, <2>3
<1>5. st2 # << >> /\ st2[1] = f /\ Alike(st2, st)
  BY TopSet
<1>6. Calls(t, st2, b)
  BY <1>2, <1>5, CallsSame
<1>7. Settled(t, f, i)
  BY <1>2, KeySettled
<1>8. Parsed(t, "after", f, i)
  BY <1>1, <1>4, <1>7 DEF Parsed
<1> QED
  BY <1>1, <1>5, <1>6, <1>8 DEF Accepted

(* As long as no call returned NULL. *)
(* What was consumed is the beginning of a value; or a number was returned *)
(* for a minus that was not consumed, and only the root gets on with that. *)
Taken == \E b : Accepted(text, pc, stack, b)
Stuck == /\ tok = "minus" /\ pc \in {"returned", "after", "close", "done"}
         /\ stack = << >> => text = << >>

AcceptInv == pc \notin {"null", "short", "failed"} => Taken \/ Stuck

LEMMA NowAccepted ==
  ASSUME NEW t, NEW p, NEW st, NEW b, Accepted(t, p, st, b), text' = t, pc' = p, stack' = st
  PROVE  AcceptInv'
BY DEF AcceptInv, Taken

LEMMA TextGrows ==
  ASSUME DepthInv, SKIP_CHAR PROVE Longer(text', text, Len(text), tok)
<1>1. PICK T : T = Tokens \cup {"NUL"}
  OBVIOUS
<1>2. text \in Seq(T) /\ tok \in T /\ text' = Append(text, tok)
  BY <1>1 DEF DepthInv, Depth, SKIP_CHAR
<1> QED
  BY <1>2, AppendProperties DEF Longer

(* A call ends. *)
LEMMA ReturnAccepts ==
  ASSUME HeapInv, DepthInv, Taken, ReturnValue, pc \in {"opened", "close"},
         tok = Closer(Top.kind)
  PROVE  AcceptInv'
<1>1. stack \in Seq(Frames) /\ stack # << >>
  BY DEF HeapInv, Ownership
<1>2. /\ SKIP_CHAR /\ stack' = Tail(stack) /\ pc' = "returned" /\ Head(stack) = stack[1]
      /\ stack[1] \in Frames
  BY <1>1, HeldTop DEF ReturnValue
<1>3. Change(tok) = -1 /\ tok # ":" /\ tok = Closer(stack[1].kind)
  <2>1. tok = "}" \/ tok = "]"
    BY DEF Closer
  <2> QED
    BY <1>2, <2>1, Changes DEF Top
<1>4. PICK t, u, n, x, st, st2 :
        /\ t = text /\ u = text' /\ n = Len(text) /\ x = tok /\ st = stack /\ st2 = stack'
  OBVIOUS
<1>5. Bracket(u, t, n, x, -1) /\ Popped(st2, st)
  BY <1>1, <1>2, <1>3, <1>4, TextGrows DEF Bracket, Popped
<1>6. PICK b : Accepted(t, pc, st, b)
  BY <1>4 DEF Taken
<1>7. x = Closer(st[1].kind)
  BY <1>3, <1>4
<1>8. PICK c : Accepted(u, "returned", st2, c)
  BY <1>5, <1>6, <1>7, CloseAccepted
<1> QED
  BY <1>2, <1>4, <1>8, NowAccepted

(* The loop goes on, or to its end. *)
LEMMA NextAccepts ==
  ASSUME HeapInv, DepthInv, Taken, pc \in {"opened", "comma"}, NextElement
  PROVE  AcceptInv'
<1>1. stack \in Seq(Frames) /\ stack # << >> /\ text \in Seq(Tokens \cup {"NUL"})
  BY DEF HeapInv, Ownership, DepthInv, Depth
<1>2. text' = text /\ stack' = stack /\ Head(stack) = stack[1] /\ Len(text) \in Nat
  BY <1>1, HeldTop DEF NextElement, Look
<1>3. PICK b : Accepted(text, pc, stack, b)
  BY DEF Taken
<1>4. \/ pc' = "close"
      \/ pc' = "key" /\ stack[1].kind = "object"
      \/ pc' = "value" /\ stack[1].kind # "object"
  BY <1>2 DEF NextElement, InObject, Top
<1>5. PICK q : q = pc'
  OBVIOUS
<1>6. Accepted(text, q, stack, b)
  BY <1>1, <1>2, <1>3, <1>4, <1>5, LoopAccepted
<1> QED
  BY <1>2, <1>5, <1>6, NowAccepted

LEMMA TakenStep ==
  ASSUME HeapInv, DepthInv, Taken, pc \notin {"null", "short", "failed"}, JsonNext
  PROVE  AcceptInv'
<1>1. stack \in Seq(Frames) /\ text \in Seq(Tokens \cup {"NUL"}) /\ Len(text) \in Nat
  BY DEF HeapInv, Ownership, DepthInv, Depth
<1>2. ASSUME NEW r, Refused(r) PROVE AcceptInv'
  BY <1>2 DEF Refused, AcceptInv
<1>3. CASE parse_value
  <2>1. PICK b : Accepted(text, "value", stack, b)
    BY <1>3 DEF parse_value, Taken
  <2>2. ASSUME NEW kd \in {"object", "array"}, OpenContainer(kd), tok = Opener(kd) PROVE AcceptInv'
    <3>1. CASE ReturnNull("memory")
      BY <1>2, <3>1, Refusals
    <3>2. CASE SKIP_CHAR /\ stack' = <<NewFrame(kd)>> \o stack /\ pc' = "opened"
      <4>1. PICK u, n, x, st2, frame :
              /\ u = text' /\ n = Len(text) /\ x = tok /\ st2 = stack' /\ frame = NewFrame(kd)
        OBVIOUS
      <4>2. frame.kind = kd /\ frame.keys = {} /\ frame \in Frames
        BY <4>1 DEF NewFrame, Frames
      <4>3. Change(tok) = 1 /\ tok # ":"
        <5>1. tok = "{" \/ tok = "["
          BY <2>2 DEF Opener
        <5> QED
          BY <5>1, Changes
      <4>4. Bracket(u, text, n, x, 1)
        BY <3>2, <4>1, <4>3, TextGrows DEF Bracket
      <4>5. Pushed(st2, stack, frame, x)
        BY <2>2, <3>2, <4>1, <4>2 DEF Pushed
      <4>6. st2 # << >>
        BY <1>1, <3>2, <4>1, <4>2
      <4>7. PICK c : Accepted(u, "opened", st2, c)
        BY <1>1, <2>1, <4>4, <4>5, <4>6, OpenAccepted
      <4> QED
        BY <3>2, <4>1, <4>7, NowAccepted
    <3> QED
      BY <2>2, <3>1, <3>2 DEF OpenContainer
  <2>3. ASSUME NEW k, Scalar(k), tok \in Scalars PROVE AcceptInv'
    <3>1. CASE ReturnNull("memory")
      BY <1>2, <3>1, Refusals
    <3>2. CASE SKIP_CHAR /\ stack' = stack /\ pc' = "returned"
      <4>1. PICK u, n, x : u = text' /\ n = Len(text) /\ x = tok
        OBVIOUS
      <4>2. Longer(u, text, n, x)
        BY <3>2, <4>1, TextGrows
      <4>3. x \in Scalars /\ Change(x) = 0 /\ x # ":"
        BY <2>3, <4>1, Changes, JsonAssumption DEF Scalars, StringTokens, Change
      <4>4. Accepted(u, "returned", stack, b)
        BY <1>1, <2>1, <4>2, <4>3, ScalarAccepted
      <4> QED
        BY <3>2, <4>1, <4>4, NowAccepted
    <3> QED
      BY <2>3, <3>1, <3>2 DEF Scalar
  <2>4. \/ tok = "{" /\ OpenContainer("object")
        \/ tok = "[" /\ OpenContainer("array")
        \/ tok \in StringTokens /\ Scalar(2)
        \/ tok \in {"n", "lax"} /\ Scalar(1)
        \/ tok = "minus" /\ Look /\ stack' = stack /\ pc' = "returned"
        \/ \E r : ReturnNull(r)
    BY <1>3 DEF parse_value, parse_number_value
  <2>5. /\ "{" = Opener("object") /\ "[" = Opener("array") /\ {"n", "lax"} \subseteq Scalars
        /\ StringTokens \subseteq Scalars
    BY DEF Opener, Scalars
  <2>6. CASE tok = "minus" /\ Look /\ stack' = stack /\ pc' = "returned"
    <3>1. stack = << >> => text = << >>
      BY <2>1 DEF Accepted, ParsedAll
    <3>2. Stuck'
      BY <2>6, <3>1 DEF Stuck, Look
    <3> QED
      BY <3>2 DEF AcceptInv
  <2> QED
    BY <1>2, <2>2, <2>3, <2>4, <2>5, <2>6, Refusals
<1>4. CASE AfterOpen
  BY <1>4, ReturnAccepts, NextAccepts DEF AfterOpen
<1>5. CASE ParseKey
  <2>1. CASE /\ tok \in Strings /\ SKIP_CHAR /\ stack' = [stack EXCEPT ![1].key = tok]
             /\ pc' = "colon"
    <3>1. PICK u, n, x, st2 : u = text' /\ n = Len(text) /\ x = tok /\ st2 = stack'
      OBVIOUS
    <3>2. Longer(u, text, n, x)
      BY <2>1, <3>1, TextGrows
    <3>3. x \in Strings /\ Change(x) = 0 /\ x # ":"
      BY <2>1, <3>1, Changes, JsonAssumption DEF StringTokens
    <3>4. stack # << >>
      BY <1>5 DEF ParseKey, HeapInv, Ownership
    <3>5. PICK b : Accepted(text, "key", stack, b)
      BY <1>5 DEF ParseKey, Taken
    <3>6. st2 = [stack EXCEPT ![1].key = x]
      BY <2>1, <3>1
    <3>7. Accepted(u, "colon", st2, b)
      BY <1>1, <3>2, <3>3, <3>4, <3>5, <3>6, KeyAccepted
    <3> QED
      BY <2>1, <3>1, <3>7, NowAccepted
  <2>2. CASE GiveUp("memory", Top.blocks) \/ GiveUp("syntax", Top.blocks)
    BY <1>2, <2>2, Refusals
  <2>3. CASE pc' = "short"
    BY <2>3 DEF AcceptInv
  <2> QED
    BY <1>5, <2>1, <2>2, <2>3 DEF ParseKey
<1>6. CASE ParseColon
  <2>1. CASE tok = ":" /\ SKIP_CHAR /\ pc' = "value" /\ stack' = stack
    <3>1. PICK u, n : u = text' /\ n = Len(text)
      OBVIOUS
    <3>2. Longer(u, text, n, ":")
      BY <2>1, <3>1, TextGrows
    <3>3. stack # << >> /\ Keyed(stack[1])
      BY <1>6, HeldTop DEF ParseColon, HeapInv, Ownership
    <3>4. PICK b : Accepted(text, "colon", stack, b)
      BY <1>6 DEF ParseColon, Taken
    <3>5. Accepted(u, "value", stack, b)
      BY <1>1, <3>2, <3>3, <3>4, ColonAccepted
    <3> QED
      BY <2>1, <3>1, <3>5, NowAccepted
  <2>2. CASE GiveUp("syntax", 1 + Top.blocks)
    BY <1>2, <2>2, Refusals
  <2> QED
    BY <1>6, <2>1, <2>2 DEF ParseColon
<1>7. CASE AddMember
  <2>1. ASSUME NEW r, NEW n, GiveUp(r, n) PROVE AcceptInv'
    BY <1>2, <2>1, Refusals
  <2>2. CASE /\ ~Duplicate
             /\ stack' = [stack EXCEPT ![1] =
                  [kind |-> Top.kind, key |-> NoKey, count |-> Top.count + 1,
                   blocks |-> Top.blocks + value + Arrays + (IF InObject THEN 1 ELSE 0),
                   keys |-> IF InObject THEN Top.keys \cup {Top.key} ELSE Top.keys]]
             /\ pc' = "after" /\ Look
    <3>1. stack # << >> /\ Top = stack[1]
      BY <1>1, <1>7, HeldTop DEF AddMember, Top
    <3>2. PICK f, st2 :
            /\ st2 = stack' /\ st2 = [stack EXCEPT ![1] = f] /\ f.kind = stack[1].kind
            /\ f.keys = IF InObject THEN stack[1].keys \cup {stack[1].key} ELSE stack[1].keys
      <4>1. PICK blocks, keys :
              /\ blocks = Top.blocks + value + Arrays + (IF InObject THEN 1 ELSE 0)
              /\ keys = IF InObject THEN Top.keys \cup {Top.key} ELSE Top.keys
        OBVIOUS
      <4>2. PICK f : f = [kind |-> Top.kind, key |-> NoKey, count |-> Top.count + 1,
                          blocks |-> blocks, keys |-> keys]
        OBVIOUS
      <4>3. stack' = [stack EXCEPT ![1] = f]
        BY <2>2, <4>1, <4>2
      <4>4. f.kind = Top.kind /\ f.keys = keys
        BY <4>2
      <4> QED
        BY <3>1, <4>1, <4>3, <4>4
    <3>3. stack[1].kind = "object" =>
            stack[1].key \notin stack[1].keys /\ f.keys = stack[1].keys \cup {stack[1].key}
      BY <2>2, <3>1, <3>2 DEF Duplicate, InObject
    <3>4. PICK b : Accepted(text, "returned", stack, b)
      BY <1>7 DEF AddMember, Taken
    <3>5. Accepted(text, "after", st2, b)
      BY <1>1, <3>1, <3>2, <3>3, <3>4, MemberAccepted
    <3> QED
      BY <2>2, <3>2, <3>5, NowAccepted DEF Look
  <2> QED
    BY <1>7, <2>1, <2>2 DEF AddMember
<1>8. CASE AfterMember
  <2>0. stack # << >>
    BY <1>8 DEF AfterMember, HeapInv, Ownership
  <2>1. PICK b : Accepted(text, "after", stack, b)
    BY <1>8 DEF AfterMember, Taken
  <2>2. CASE IsComma(tok)
    <3>1. SKIP_CHAR /\ pc' = "comma" /\ stack' = stack
      BY <1>8, <2>2 DEF AfterMember, IsComma
    <3>2. PICK u, n, x : u = text' /\ n = Len(text) /\ x = tok
      OBVIOUS
    <3>3. Longer(u, text, n, x) /\ IsComma(x)
      BY <2>2, <3>1, <3>2, TextGrows
    <3>4. Accepted(u, "comma", stack, b)
      BY <1>1, <2>0, <2>1, <3>3, CommaAccepted
    <3> QED
      BY <3>1, <3>2, <3>4, NowAccepted
  <2>3. CASE ~IsComma(tok)
    <3>1. text' = text /\ pc' = "close" /\ stack' = stack
      BY <1>8, <2>3 DEF AfterMember, IsComma, Look
    <3>2. Accepted(text, "close", stack, b)
      BY <1>1, <2>0, <2>1, LoopAccepted
    <3> QED
      BY <3>1, <3>2, NowAccepted
  <2> QED
    BY <2>2, <2>3
<1>9. CASE AfterComma
  <2>0. stack # << >> /\ pc = "comma"
    BY <1>9 DEF AfterComma, HeapInv, Ownership
  <2>1. CASE pc' = "close" /\ Look /\ stack' = stack
    <3>1. PICK b : Accepted(text, "comma", stack, b)
      BY <2>0 DEF Taken
    <3>2. Accepted(text, "close", stack, b)
      BY <1>1, <2>0, <3>1, LoopAccepted
    <3> QED
      BY <2>1, <3>2, NowAccepted DEF Look
  <2>2. CASE NextElement
    BY <2>0, <2>2, NextAccepts
  <2> QED
    BY <1>9, <2>1, <2>2 DEF AfterComma
<1>10. CASE CloseContainer
  <2>1. CASE GiveUp("memory", Top.blocks) \/ GiveUp("syntax", Top.blocks)
    BY <1>2, <2>1, Refusals
  <2>2. CASE tok = Closer(Top.kind) /\ ReturnValue
    BY <1>10, <2>2, ReturnAccepts DEF CloseContainer
  <2> QED
    BY <1>10, <2>1, <2>2 DEF CloseContainer
<1>11. CASE ReturnRoot
  <2>1. pc = "returned" /\ pc' = "done" /\ stack = << >> /\ stack' = stack /\ text' = text
    BY <1>11 DEF ReturnRoot, Look
  <2>2. PICK b : Accepted(text, "returned", stack, b)
    BY <2>1 DEF Taken
  <2>3. Accepted(text, "done", stack, b)
    BY <2>1, <2>2 DEF Accepted, ParsedAll
  <2> QED
    BY <2>1, <2>3, NowAccepted
<1>12. CASE NullMember \/ NullRoot \/ RefuseKey
  BY <1>12 DEF NullMember, NullRoot, RefuseKey
<1>13. CASE JsonStopped
  <2>1. UNCHANGED <<text, pc, stack>>
    BY <1>13 DEF JsonStopped, jsonVars
  <2>2. Taken'
    BY <2>1 DEF Taken
  <2> QED
    BY <2>2 DEF AcceptInv
<1> QED
  BY <1>3, <1>4, <1>5, <1>6, <1>7, <1>8, <1>9, <1>10, <1>11, <1>12, <1>13 DEF JsonNext

(* The minus that is not consumed is no comma and closes nothing. *)
LEMMA StuckStep ==
  ASSUME HeapInv, Stuck, pc \notin {"null", "short", "failed"}, JsonNext
  PROVE  AcceptInv'
<1>1. /\ tok = "minus" /\ pc \in {"returned", "after", "close", "done"}
      /\ stack = << >> => text = << >>
  BY DEF Stuck
<1>2. ASSUME NEW r, Refused(r) PROVE AcceptInv'
  BY <1>2 DEF Refused, AcceptInv
<1>3. ASSUME Look, pc' \in {"returned", "after", "close", "done"}, stack' = << >> => stack = << >>
      PROVE  AcceptInv'
  BY <1>1, <1>3 DEF AcceptInv, Stuck, Look
<1>4. CASE AddMember
  <2>1. CASE \E r, n : GiveUp(r, n)
    BY <1>2, <2>1, Refusals
  <2>2. CASE /\ stack' = [stack EXCEPT ![1] =
                  [kind |-> Top.kind, key |-> NoKey, count |-> Top.count + 1,
                   blocks |-> Top.blocks + value + Arrays + (IF InObject THEN 1 ELSE 0),
                   keys |-> IF InObject THEN Top.keys \cup {Top.key} ELSE Top.keys]]
             /\ pc' = "after" /\ Look
    <3>1. PICK f : stack' = [stack EXCEPT ![1] = f]
      BY <2>2
    <3>2. stack \in Seq(Frames)
      BY DEF HeapInv, Ownership
    <3>3. Len(stack') = Len(stack)
      BY <3>1, <3>2
    <3>4. stack' = << >> => stack = << >>
      BY <3>2, <3>3
    <3> QED
      BY <1>3, <2>2, <3>4
  <2> QED
    BY <1>4, <2>1, <2>2 DEF AddMember
<1>5. CASE AfterMember
  <2>1. tok # ","
    BY <1>1
  <2> QED
    BY <1>3, <1>5, <2>1 DEF AfterMember
<1>6. CASE CloseContainer
  <2>1. tok # Closer(Top.kind)
    BY <1>1 DEF Closer
  <2> QED
    BY <1>2, <1>6, <2>1, Refusals DEF CloseContainer
<1>7. CASE ReturnRoot
  BY <1>3, <1>7 DEF ReturnRoot
<1>8. CASE JsonStopped
  BY <1>1, <1>3, <1>8 DEF JsonStopped, jsonVars, Look
<1> QED
  BY <1>1, <1>4, <1>5, <1>6, <1>7, <1>8 DEF JsonNext, parse_value, AfterOpen, ParseKey, RefuseKey,
     ParseColon, AfterComma, NullMember, NullRoot

LEMMA AcceptStep == ASSUME HeapInv, DepthInv, AcceptInv, JsonNext PROVE AcceptInv'
<1>1. CASE pc \in {"null", "short", "failed"}
  <2>1. \/ \E r : Refused(r)
        \/ NullRoot \/ JsonStopped
    BY <1>1, Refusals DEF JsonNext, parse_value, AfterOpen, ParseKey, RefuseKey, ParseColon, AddMember,
       AfterMember, AfterComma, CloseContainer, ReturnRoot, NullMember
  <2>2. pc' \in {"null", "failed"} \/ pc' = pc
    BY <2>1 DEF Refused, NullRoot, JsonStopped, jsonVars
  <2> QED
    BY <1>1, <2>2 DEF AcceptInv
<1>2. CASE pc \notin {"null", "short", "failed"}
  BY <1>2, TakenStep, StuckStep DEF AcceptInv
<1> QED
  BY <1>1, <1>2

(* Whatever the text: what json_parse_string() consumes and accepts is one *)
(* value of the grammar, with distinct keys in every object: of JSON, but  *)
(* for a comma behind the last member and the lax numbers.  Or it is a     *)
(* minus that begins no number, for which it takes nothing.                *)
THEOREM ParserAccepts == JsonSpec => []AcceptsOnlyJson
<1>1. JsonInit => AcceptInv
  <2> SUFFICES ASSUME JsonInit PROVE AcceptInv
    OBVIOUS
  <2>1. text = << >> /\ stack = << >> /\ pc = "value"
    BY DEF JsonInit
  <2>2. PICK b : b = [k \in 1 .. 0 |-> 1]
    OBVIOUS
  <2>3. \A k : k \notin 1 .. 0 /\ k \notin 2 .. 0
    OBVIOUS
  <2>4. Len(<< >>) = 0 /\ b \in [1 .. 0 -> 1 .. 0]
    BY <2>2, <2>3
  <2>5. Calls(<< >>, << >>, b)
    BY <2>3, <2>4, Zenon DEF Calls
  <2>6. Accepted(<< >>, "value", << >>, b)
    BY <2>5 DEF Accepted, ParsedAll
  <2> QED
    BY <2>1, <2>6 DEF AcceptInv, Taken
<1>2. HeapInv /\ DepthInv /\ AcceptInv /\ [JsonNext]_jsonVars => AcceptInv'
  <2>1. ASSUME AcceptInv, UNCHANGED jsonVars PROVE AcceptInv'
    BY <2>1 DEF jsonVars, AcceptInv, Taken, Stuck
  <2> QED
    BY <2>1, AcceptStep
<1>3. HeapInv /\ AcceptInv => AcceptsOnlyJson
  <2> SUFFICES ASSUME HeapInv, AcceptInv, pc = "done"
               PROVE  IsJson(text) \/ (text = << >> /\ tok = "minus")
    BY DEF AcceptsOnlyJson
  <2>1. stack = << >>
    BY DEF HeapInv, Ownership
  <2>2. CASE Stuck
    BY <2>1, <2>2 DEF Stuck
  <2>3. CASE Taken
    <3>1. PICK b : Accepted(text, "done", stack, b)
      BY <2>3 DEF Taken
    <3>2. Valued(text, 1, Len(text))
      BY <2>1, <3>1 DEF Accepted, ParsedAll
    <3>3. Len(text) > 0 /\ 1 \in Starts(text)[Len(text)].value
      BY <3>2 DEF Valued
    <3> QED
      BY <3>3 DEF IsJson
  <2> QED
    BY <2>2, <2>3 DEF AcceptInv
<1> QED
  BY <1>1, <1>2, <1>3, HeapSafe, DepthSafe, PTL DEF JsonSpec

-----------------------------------------------------------------------------
(* The recursive descent: what it refuses.                                 *)

(* The part h .. j of v is a list of members. *)
ListFrom(v, kind, h, j) == j \in 1 .. Len(v) /\ h \in Starts(v)[j][kind]

(* Behind a bracket at h - 1, or a comma, the members up to the bracket at *)
(* e begin at h.                                                           *)
Rest(v, kind, e, h) == ListFrom(v, kind, h, e - 1) \/ (IsComma(v[e - 1]) /\ ListFrom(v, kind, h, e - 2))

(* A member ended at m: what may follow it, up to the bracket at e.        *)
Follows(v, kind, e, m) ==
  m < e /\ (m = e - 1 \/ (IsComma(v[m + 1]) /\ (m = e - 2 \/ Rest(v, kind, e, m + 2))))

(* The value that begins at h ends at m, or before: a scalar, a container. *)
LEMMA ValueForm ==
  ASSUME NEW v, Len(v) \in Nat, NEW h, NEW j, Valued(v, h, j)
  PROVE  /\ j \in 1 .. Len(v)
         /\ \/ h = j /\ v[h] \in Scalars
            \/ /\ h \in 1 .. j - 1
               /\ \E kind \in {"object", "array"} :
                    /\ v[h] = Opener(kind) /\ v[j] = Closer(kind)
                    /\ h = j - 1 \/ Rest(v, kind, j, h + 1)
<1>1. PICK f : f = Starts(v)
  OBVIOUS
<1>2. j \in 1 .. Len(v) /\ h \in ValuesAt(f, v, j)
  BY <1>1, ValuesRule DEF Valued
<1>3. CASE h = j /\ v[h] \in Scalars
  BY <1>2, <1>3
<1>4. CASE h \in 1 .. j - 1 /\ \E kind \in {"object", "array"} : Bracketed(f, v, j, kind, h)
  <2>1. PICK kind \in {"object", "array"} : Bracketed(f, v, j, kind, h)
    BY <1>4
  <2>2. v[h] = Opener(kind) /\ v[j] = Closer(kind)
    BY <2>1 DEF Bracketed
  <2>3. \/ h = j - 1
        \/ h + 1 \in f[j - 1][kind]
        \/ IsComma(v[j - 1]) /\ h + 1 \in f[j - 2][kind]
    BY <2>1, Zenon DEF Bracketed, IsComma
  <2>4. h # j - 1 => j - 1 \in 1 .. Len(v) /\ j - 2 \in 1 .. Len(v)
    <3>1. PICK l : l = Len(v)
      OBVIOUS
    <3>2. l \in Nat /\ j \in 1 .. l /\ h \in 1 .. j - 1
      BY <1>2, <1>4, <3>1
    <3>3. h # j - 1 => j - 1 \in 1 .. l /\ j - 2 \in 1 .. l
      BY <3>2
    <3> QED
      BY <3>1, <3>3
  <2>5. h = j - 1 \/ Rest(v, kind, j, h + 1)
    BY <1>1, <2>3, <2>4, Zenon DEF Rest, ListFrom
  <2> QED
    BY <1>2, <1>4, <2>2, <2>5
<1> QED
  BY <1>2, <1>3, <1>4 DEF ValuesAt

MembersAt(f, v, j, kind) == IF kind = "array" THEN ValuesAt(f, v, j) ELSE PairsAt(f, v, j)

LEMMA MembersRule ==
  ASSUME NEW v, Len(v) \in Nat, NEW j \in 1 .. Len(v), NEW kind \in {"object", "array"}, NEW h
  PROVE  /\ h \in MembersAt(Starts(v), v, j, kind) <=> IsMember(v, kind, h, j)
         /\ Starts(v)[j][kind] = ListsAt(Starts(v), v, j, kind, MembersAt(Starts(v), v, j, kind))
<1>1. PICK f : f = Starts(v)
  OBVIOUS
<1>2. f[j].value = ValuesAt(f, v, j) /\ f[j][kind] = ListsAt(f, v, j, kind, MembersAt(f, v, j, kind))
  <2>1. f[j] = StartsAt(f, v, j)
    BY <1>1, StartsRule
  <2>2. CASE kind = "array"
    BY <2>1, <2>2, StartsParts DEF MembersAt
  <2>3. CASE kind = "object"
    BY <2>1, <2>3, StartsParts DEF MembersAt
  <2> QED
    BY <2>2, <2>3
<1>3. \A g : Valued(v, g, j) <=> g \in ValuesAt(f, v, j)
  BY <1>1, <1>2 DEF Valued
<1>4. h \in MembersAt(f, v, j, kind) <=> IsMember(v, kind, h, j)
  <2>1. CASE kind = "array"
    BY <1>3, <2>1 DEF MembersAt, IsMember
  <2>2. CASE kind = "object"
    BY <1>3, <2>2 DEF MembersAt, IsMember, PairsAt
  <2> QED
    BY <2>1, <2>2
<1> QED
  BY <1>1, <1>2, <1>4

(* A list is one member, or a list, a comma and one member. *)
LEMMA ListForm ==
  ASSUME NEW v, Len(v) \in Nat, NEW j \in 1 .. Len(v), NEW kind \in {"object", "array"}, NEW h
  PROVE  ListFrom(v, kind, h, j) <=>
           \/ IsMember(v, kind, h, j)
           \/ \E c \in 2 .. j - 1 : /\ IsComma(v[c]) /\ IsMember(v, kind, c + 1, j)
                                    /\ ListFrom(v, kind, h, c - 1)
<1>1. PICK f, ms : f = Starts(v) /\ ms = MembersAt(f, v, j, kind)
  OBVIOUS
<1>2. \A g : g \in ms <=> IsMember(v, kind, g, j)
  BY <1>1, MembersRule
<1>3. f[j][kind] = ListsAt(f, v, j, kind, ms)
  BY <1>1, MembersRule
<1>4. \A c \in 2 .. j - 1 : c - 1 \in 1 .. Len(v)
  <2>1. PICK l : l = Len(v)
    OBVIOUS
  <2>2. \A c \in 2 .. j - 1 : c - 1 \in 1 .. l
    BY <2>1
  <2> QED
    BY <2>1, <2>2
<1>5. h \in f[j][kind] <=>
        \/ h \in ms
        \/ \E c \in 2 .. j - 1 : v[c] = "," /\ c + 1 \in ms /\ h \in f[c - 1][kind]
  BY <1>3, Zenon DEF ListsAt
<1>6. ASSUME NEW c \in 2 .. j - 1
      PROVE  v[c] = "," /\ c + 1 \in ms /\ h \in f[c - 1][kind] <=>
               IsComma(v[c]) /\ IsMember(v, kind, c + 1, j) /\ ListFrom(v, kind, h, c - 1)
  BY <1>1, <1>2, <1>4, Zenon DEF IsComma, ListFrom
<1> QED
  BY <1>1, <1>2, <1>5, <1>6, Zenon DEF ListFrom

(* Or it is one member, or one member, a comma and a list. *)
LEMMA FirstMember ==
  ASSUME NEW v, Len(v) \in Nat, NEW kind \in {"object", "array"}
  PROVE  \A j \in 1 .. Len(v) : \A h : ListFrom(v, kind, h, j) =>
           \E m \in 1 .. j : /\ IsMember(v, kind, h, m)
                             /\ m = j \/ (IsComma(v[m + 1]) /\ ListFrom(v, kind, m + 2, j))
<1> DEFINE First(h, m, j) == /\ IsMember(v, kind, h, m)
                             /\ m = j \/ (IsComma(v[m + 1]) /\ ListFrom(v, kind, m + 2, j))
           P(j) == \A h : ListFrom(v, kind, h, j) => \E m \in 1 .. j : First(h, m, j)
           T == {k \in Nat : \A j \in 1 .. Len(v) : j <= k => P(j)}
<1>1. PICK l : l = Len(v)
  OBVIOUS
<1>2. 0 \in T
  OBVIOUS
<1>3. ASSUME NEW k \in Nat, k \in T PROVE k + 1 \in T
  <2> SUFFICES ASSUME NEW j \in 1 .. Len(v), j = k + 1, NEW h, ListFrom(v, kind, h, j)
               PROVE  \E m \in 1 .. j : First(h, m, j)
    <3>1. \A j \in 1 .. Len(v) : j <= k + 1 => j <= k \/ j = k + 1
      BY <1>1
    <3> QED
      BY <1>3, <3>1
  <2> HIDE DEF T
  <2>1. CASE IsMember(v, kind, h, j)
    <3>1. j \in 1 .. j
      BY <1>1
    <3> QED
      BY <2>1, <3>1
  <2>2. CASE \E c \in 2 .. j - 1 : /\ IsComma(v[c]) /\ IsMember(v, kind, c + 1, j)
                                   /\ ListFrom(v, kind, h, c - 1)
    <3>1. PICK c \in 2 .. j - 1 : /\ IsComma(v[c]) /\ IsMember(v, kind, c + 1, j)
                                  /\ ListFrom(v, kind, h, c - 1)
      BY <2>2
    <3>2. PICK d : d = c - 1
      OBVIOUS
    <3>3. d \in 1 .. l /\ d <= k /\ d \in 1 .. j /\ d + 1 = c /\ d + 2 = c + 1
      BY <1>1, <3>2
    <3>4. P(d)
      BY <1>1, <1>3, <3>3 DEF T
    <3>5. PICK m \in 1 .. d : First(h, m, d)
      BY <3>1, <3>2, <3>4
    <3>6. m \in 1 .. j
      BY <3>3
    <3>7. ASSUME NEW g, ListFrom(v, kind, g, d) PROVE ListFrom(v, kind, g, j)
      BY <3>1, <3>2, <3>7, ListForm
    <3>8. CASE m = d
      <4>1. ListFrom(v, kind, c + 1, j)
        BY <3>1, ListForm
      <4> QED
        BY <3>1, <3>3, <3>5, <3>6, <3>8, <4>1
    <3>9. CASE m # d
      BY <3>5, <3>6, <3>7, <3>9
    <3> QED
      BY <3>8, <3>9
  <2> QED
    BY <2>1, <2>2, ListForm
<1> HIDE DEF T
<1>4. Nat \subseteq T
  BY <1>2, <1>3, Induction
<1>5. ASSUME NEW j \in 1 .. Len(v) PROVE P(j)
  <2>1. j \in Nat /\ j <= j
    BY <1>1
  <2> QED
    BY <1>4, <2>1 DEF T
<1> QED
  BY <1>5

(* So the members behind h begin with one that something follows. *)
LEMMA RestBegins ==
  ASSUME NEW v, Len(v) \in Nat, NEW kind \in {"object", "array"}, NEW e \in Nat, NEW h,
         Rest(v, kind, e, h)
  PROVE  \E m \in Nat : IsMember(v, kind, h, m) /\ Follows(v, kind, e, m)
<1>1. PICK l : l = Len(v)
  OBVIOUS
<1>2. PICK j : /\ j = e - 1 \/ (j = e - 2 /\ IsComma(v[e - 1]))
               /\ j \in 1 .. l /\ ListFrom(v, kind, h, j)
  BY <1>1 DEF Rest, ListFrom
<1>3. PICK m \in 1 .. j : /\ IsMember(v, kind, h, m)
                          /\ m = j \/ (IsComma(v[m + 1]) /\ ListFrom(v, kind, m + 2, j))
  BY <1>1, <1>2, FirstMember
<1>4. m \in Nat /\ m < e
  BY <1>2, <1>3
<1>5. Follows(v, kind, e, m)
  <2>1. CASE m = j /\ j = e - 1
    BY <1>4, <2>1 DEF Follows
  <2>2. CASE m = j /\ j = e - 2 /\ IsComma(v[e - 1])
    <3>1. m + 1 = e - 1
      BY <1>4, <2>2
    <3> QED
      BY <1>4, <2>2, <3>1 DEF Follows
  <2>3. CASE IsComma(v[m + 1]) /\ ListFrom(v, kind, m + 2, j)
    <3>1. Rest(v, kind, e, m + 2)
      BY <1>2, <2>3 DEF Rest
    <3> QED
      BY <1>4, <2>3, <3>1 DEF Follows
  <2> QED
    BY <1>2, <1>3, <2>1, <2>2, <2>3
<1> QED
  BY <1>3, <1>4, <1>5

Beginnings == Scalars \cup {"{", "["}

LEMMA Openers == Opener("object") = "{" /\ Opener("array") = "["
BY Zenon DEF Opener

LEMMA Closers == Closer("object") = "}" /\ Closer("array") = "]"
BY Zenon DEF Closer

LEMMA NoBeginning == \A x \in Beginnings : ~IsComma(x) /\ x # "}" /\ x # "]" /\ x # ":"
<1>1. \A x \in Strings : x # "," /\ x # "}" /\ x # "]" /\ x # ":"
  BY JsonAssumption, Zenon
<1>2. \A x \in {"z", "n", "{", "["} : x # "," /\ x # "}" /\ x # "]" /\ x # ":"
  BY Zenon
<1> QED
  BY <1>1, <1>2, Zenon DEF Beginnings, Scalars, StringTokens, IsComma

LEMMA NoScalar == "{" \notin Scalars /\ "[" \notin Scalars
BY JsonAssumption DEF Scalars, StringTokens

(* How a value, or a member, begins. *)
LEMMA ValueBegins ==
  ASSUME NEW v, Len(v) \in Nat, NEW h, NEW j, Valued(v, h, j) PROVE v[h] \in Beginnings
<1>1. v[h] \in Scalars \/ v[h] = Opener("object") \/ v[h] = Opener("array")
  BY ValueForm
<1> QED
  BY <1>1, Openers, Zenon DEF Beginnings

LEMMA MemberBegins ==
  ASSUME NEW v, Len(v) \in Nat, NEW kind, NEW h, NEW j, IsMember(v, kind, h, j)
  PROVE  v[h] \in Beginnings
<1>1. CASE kind = "array"
  BY <1>1, ValueBegins DEF IsMember
<1>2. CASE kind # "array"
  BY <1>2 DEF IsMember, Beginnings, Scalars, StringTokens
<1> QED
  BY <1>1, <1>2

LEMMA RestToken ==
  ASSUME NEW v, Len(v) \in Nat, NEW kind \in {"object", "array"}, NEW e \in Nat, NEW h,
         Rest(v, kind, e, h)
  PROVE  v[h] \in Beginnings
BY RestBegins, MemberBegins

(* The value of a member begins at h. *)
ValueFrom(v, kind, e, h) == \E m \in Nat : Valued(v, h, m) /\ Follows(v, kind, e, m)

(* What is left of the innermost call, whose closing bracket is at e, when *)
(* n tokens are consumed.                                                  *)
Awaits(v, n, p, kind, e) ==
  /\ p = "value" => ValueFrom(v, kind, e, n + 1)
  /\ p \in {"returned", "after"} => Follows(v, kind, e, n)
  /\ p = "opened" => e = n + 1 \/ Rest(v, kind, e, n + 1)
  /\ p = "key" => Rest(v, kind, e, n + 1)
  /\ p # "short"
  /\ p = "colon" => v[n + 1] = ":" /\ ValueFrom(v, kind, e, n + 2)
  /\ p = "comma" => e = n + 1 \/ Rest(v, kind, e, n + 1)
  /\ p = "close" => e = n + 1

(* The closing brackets of the calls st are at e. *)
Brackets(v, st, e) ==
  /\ e \in [1 .. Len(st) -> Nat]
  /\ \A k \in 1 .. Len(st) : v[e[k]] = Closer(st[k].kind)
  /\ \A k \in 2 .. Len(st) : Follows(v, st[k].kind, e[k], e[k - 1])

Viable(v, n, p, st, e) ==
  /\ Brackets(v, st, e)
  /\ IF st = << >> THEN p = "value" => \E m : Valued(v, n + 1, m)
     ELSE Awaits(v, n, p, st[1].kind, e[1])

(* Scalars. *)
LEMMA ScalarEnds ==
  ASSUME NEW v, Len(v) \in Nat, NEW n \in Nat, NEW kind, NEW e, ValueFrom(v, kind, e, n + 1),
         v[n + 1] \in Scalars
  PROVE  Follows(v, kind, e, n + 1)
<1>1. PICK m \in Nat : Valued(v, n + 1, m) /\ Follows(v, kind, e, m)
  BY DEF ValueFrom
<1>2. n + 1 = m \/ v[n + 1] = Opener("object") \/ v[n + 1] = Opener("array")
  BY <1>1, ValueForm
<1>3. n + 1 = m
  BY <1>2, Openers, NoScalar
<1> QED
  BY <1>1, <1>3

(* Containers. *)
LEMMA ContainerBegins ==
  ASSUME NEW v, Len(v) \in Nat, NEW n \in Nat, NEW m, Valued(v, n + 1, m),
         NEW kind \in {"object", "array"}, v[n + 1] = Opener(kind)
  PROVE  m \in Nat /\ v[m] = Closer(kind) /\ Awaits(v, n + 1, "opened", kind, m)
<1>1. PICK h : h = n + 1
  OBVIOUS
<1>2. v[h] \notin Scalars
  BY <1>1, Openers, NoScalar
<1>3. m \in 1 .. Len(v)
  BY <1>1, ValueForm
<1>4. PICK kd \in {"object", "array"} : /\ v[h] = Opener(kd) /\ v[m] = Closer(kd)
                                        /\ h = m - 1 \/ Rest(v, kd, m, h + 1)
  BY <1>1, <1>2, ValueForm
<1>5. kd = kind
  <2>1. "{" # "["
    OBVIOUS
  <2> QED
    BY <1>1, <1>4, <2>1, Openers
<1>6. m \in Nat
  BY <1>3
<1>7. m = h + 1 \/ Rest(v, kind, m, h + 1)
  BY <1>1, <1>4, <1>5, <1>6
<1>8. Awaits(v, h, "opened", kind, m)
  BY <1>7 DEF Awaits
<1> QED
  BY <1>1, <1>4, <1>5, <1>6, <1>8

(* The token behind a bracket or a comma closes the container, or begins a *)
(* member.                                                                 *)
LEMMA Choice ==
  ASSUME NEW v, Len(v) \in Nat, NEW n \in Nat, NEW kind \in {"object", "array"}, NEW e \in Nat,
         v[e] = Closer(kind), e = n + 1 \/ Rest(v, kind, e, n + 1)
  PROVE  IF v[n + 1] = Closer(kind) THEN e = n + 1 ELSE Rest(v, kind, e, n + 1)
<1>1. ASSUME Rest(v, kind, e, n + 1) PROVE v[n + 1] # Closer(kind)
  BY <1>1, RestToken, NoBeginning, Closers
<1> QED
  BY <1>1

LEMMA ArrayElement ==
  ASSUME NEW v, Len(v) \in Nat, NEW e \in Nat, NEW h, Rest(v, "array", e, h)
  PROVE  ValueFrom(v, "array", e, h)
<1>1. PICK m \in Nat : IsMember(v, "array", h, m) /\ Follows(v, "array", e, m)
  <2>1. "array" \in {"object", "array"}
    OBVIOUS
  <2> QED
    BY <2>1, RestBegins
<1> QED
  BY <1>1 DEF IsMember, ValueFrom

LEMMA ObjectMember ==
  ASSUME NEW v, Len(v) \in Nat, NEW n \in Nat, NEW e \in Nat, Rest(v, "object", e, n + 1)
  PROVE  v[n + 1] \in Strings /\ Awaits(v, n + 1, "colon", "object", e)
<1>1. PICK m \in Nat : IsMember(v, "object", n + 1, m) /\ Follows(v, "object", e, m)
  <2>1. "object" \in {"object", "array"}
    OBVIOUS
  <2> QED
    BY <2>1, RestBegins
<1>2. PICK h : h = n + 1
  OBVIOUS
<1>3. v[h] \in Strings /\ v[h + 1] = ":" /\ Valued(v, h + 2, m)
  BY <1>1, <1>2 DEF IsMember
<1>4. Awaits(v, h, "colon", "object", e)
  BY <1>1, <1>3 DEF Awaits, ValueFrom
<1> QED
  BY <1>2, <1>3, <1>4

(* Behind a member. *)
LEMMA MemberFollowed ==
  ASSUME NEW v, NEW n \in Nat, NEW kind \in {"object", "array"}, NEW e \in Nat, v[e] = Closer(kind),
         Follows(v, kind, e, n)
  PROVE  IF IsComma(v[n + 1]) THEN Awaits(v, n + 1, "comma", kind, e) ELSE e = n + 1
<1>1. CASE n = e - 1
  <2>1. e = n + 1
    BY <1>1
  <2>2. ~IsComma("}") /\ ~IsComma("]")
    BY Zenon DEF IsComma
  <2> QED
    BY <2>1, <2>2, Closers
<1>2. CASE IsComma(v[n + 1]) /\ n = e - 2
  <2>1. e = (n + 1) + 1
    BY <1>2
  <2> QED
    BY <1>2, <2>1 DEF Awaits
<1>3. CASE IsComma(v[n + 1]) /\ Rest(v, kind, e, n + 2)
  <2>1. n + 2 = (n + 1) + 1
    OBVIOUS
  <2> QED
    BY <1>3, <2>1 DEF Awaits
<1> QED
  BY <1>1, <1>2, <1>3 DEF Follows

(* The brackets of the calls that go on. *)
LEMMA BracketsKept ==
  ASSUME NEW v, NEW st, NEW st2, Alike(st2, st), NEW e, Brackets(v, st, e) PROVE Brackets(v, st2, e)
<1>1. \A k \in 2 .. Len(st) : k \in 1 .. Len(st)
  BY DEF Alike
<1> QED
  BY <1>1, Zenon DEF Alike, Brackets

LEMMA BracketsType ==
  ASSUME NEW v, NEW st \in Seq(Frames), st # << >>, NEW e, Brackets(v, st, e)
  PROVE  /\ e[1] \in Nat /\ st[1].kind \in {"object", "array"} /\ v[e[1]] = Closer(st[1].kind)
         /\ Head(st) = st[1]
<1>1. 1 \in 1 .. Len(st) /\ st[1] \in Frames /\ Head(st) = st[1]
  BY HeldTop
<1> QED
  BY <1>1 DEF Brackets, Frames

(* A container that ends at m is the next value. *)
Enclosed(v, st, e, frame, m) ==
  /\ st \in Seq(Frames) /\ Brackets(v, st, e) /\ (st # << >> => Follows(v, st[1].kind, e[1], m))
  /\ m \in Nat /\ frame \in Frames /\ v[m] = Closer(frame.kind)

OnTop(st2, frame, st) == st2 = <<frame>> \o st

Enclosing(v, st2, frame, m) ==
  \E d : st2 # << >> /\ st2[1] = frame /\ Brackets(v, st2, d) /\ d[1] = m

(* A call begins whose bracket is at m. *)
LEMMA BracketsPushed ==
  ASSUME NEW v, NEW st, NEW e, NEW frame, NEW m, Enclosed(v, st, e, frame, m),
         NEW st2, OnTop(st2, frame, st)
  PROVE  Enclosing(v, st2, frame, m)
<1>0. /\ st \in Seq(Frames) /\ Brackets(v, st, e) /\ (st # << >> => Follows(v, st[1].kind, e[1], m))
      /\ m \in Nat /\ frame \in Frames /\ v[m] = Closer(frame.kind) /\ st2 = <<frame>> \o st
  BY DEF Enclosed, OnTop
<1> USE <1>0
<1>1. PICK l : l = Len(st)
  OBVIOUS
<1>2. /\ l \in Nat /\ Len(st2) = l + 1 /\ st2 # << >> /\ st2[1] = frame
      /\ \A k \in 2 .. l + 1 : st2[k] = st[k - 1]
      /\ st # << >> <=> l > 0
  BY <1>1
<1>3. PICK d : d = [k \in 1 .. l + 1 |-> IF k = 1 THEN m ELSE e[k - 1]]
  OBVIOUS
<1>4. e \in [1 .. l -> Nat]
  BY <1>1 DEF Brackets
<1>5. d[1] = m /\ d \in [1 .. l + 1 -> Nat] /\ \A k \in 2 .. l + 1 : d[k] = e[k - 1]
  <2>1. 1 \in 1 .. l + 1 /\ \A k \in 1 .. l + 1 : k # 1 => k - 1 \in 1 .. l
    BY <1>2
  <2>2. \A k \in 2 .. l + 1 : k \in 1 .. l + 1 /\ k # 1
    BY <1>2
  <2> QED
    BY <1>3, <1>4, <2>1, <2>2
<1>6. ASSUME NEW k \in 1 .. l + 1 PROVE v[d[k]] = Closer(st2[k].kind)
  <2>1. CASE k = 1
    BY <1>2, <1>5, <2>1
  <2>2. CASE k # 1
    <3>1. k \in 2 .. l + 1 /\ k - 1 \in 1 .. l
      BY <1>2, <2>2
    <3>2. v[e[k - 1]] = Closer(st[k - 1].kind)
      BY <1>1, <3>1 DEF Brackets
    <3> QED
      BY <1>2, <1>5, <3>1, <3>2
  <2> QED
    BY <2>1, <2>2
<1>7. ASSUME NEW k \in 2 .. l + 1 PROVE Follows(v, st2[k].kind, d[k], d[k - 1])
  <2>1. PICK o : o = k - 1
    OBVIOUS
  <2>2. o \in 1 .. l /\ st2[k] = st[o] /\ d[k] = e[o] /\ st # << >>
    BY <1>2, <1>5, <2>1
  <2>3. CASE o = 1
    BY <1>5, <2>1, <2>2, <2>3
  <2>4. CASE o # 1
    <3>1. o \in 2 .. l /\ o \in 2 .. l + 1
      BY <1>2, <2>2, <2>4
    <3>2. Follows(v, st[o].kind, e[o], e[o - 1]) /\ d[o] = e[o - 1]
      BY <1>1, <1>5, <3>1 DEF Brackets
    <3> QED
      BY <2>1, <2>2, <3>2
  <2> QED
    BY <2>3, <2>4
<1>8. Brackets(v, st2, d)
  BY <1>2, <1>5, <1>6, <1>7, Zenon DEF Brackets
<1> QED
  BY <1>2, <1>5, <1>8 DEF Enclosing

(* The innermost call ends. *)
LEMMA BracketsPopped ==
  ASSUME NEW v, NEW st, NEW st2, Popped(st2, st), NEW e, Brackets(v, st, e)
  PROVE  \E d : Brackets(v, st2, d) /\ (st2 # << >> => Follows(v, st2[1].kind, d[1], e[1]))
<1>0. st \in Seq(Frames) /\ st # << >> /\ st2 = Tail(st)
  BY DEF Popped
<1>1. PICK l : l = Len(st) - 1
  OBVIOUS
<1>2. /\ l \in Nat /\ Len(st) = l + 1 /\ Len(st2) = l
      /\ \A k \in 1 .. l : st2[k] = st[k + 1]
      /\ st2 # << >> <=> l > 0
  <2>1. st2 \in Seq(Frames) /\ Len(st) \in Nat /\ Len(st) >= 1 /\ Len(st2) = Len(st) - 1
    BY <1>0, HeldTop
  <2>2. \A k \in 1 .. Len(st) - 1 : st2[k] = st[k + 1]
    BY <1>0, HeldTop
  <2>3. l \in Nat /\ Len(st) = l + 1 /\ Len(st2) = l
    BY <1>1, <2>1
  <2>4. st2 = << >> <=> Len(st2) = 0
    BY <2>1, EmptySeq
  <2> QED
    BY <1>1, <2>2, <2>3, <2>4
<1>3. PICK d : d = [k \in 1 .. l |-> e[k + 1]]
  OBVIOUS
<1>4. e \in [1 .. l + 1 -> Nat]
  BY <1>2 DEF Brackets
<1>5. d \in [1 .. l -> Nat] /\ \A k \in 1 .. l : d[k] = e[k + 1]
  <2>1. \A k \in 1 .. l : k + 1 \in 1 .. l + 1
    BY <1>2
  <2> QED
    BY <1>3, <1>4, <2>1
<1>6. ASSUME NEW k \in 1 .. l
      PROVE  v[d[k]] = Closer(st2[k].kind) /\ Follows(v, st2[k].kind, d[k], e[k])
  <2>1. PICK o : o = k + 1
    OBVIOUS
  <2>2. o \in 1 .. l + 1 /\ o \in 2 .. l + 1 /\ o - 1 = k /\ st2[k] = st[o] /\ d[k] = e[o]
    BY <1>2, <1>5, <2>1
  <2>3. v[e[o]] = Closer(st[o].kind) /\ Follows(v, st[o].kind, e[o], e[o - 1])
    BY <1>2, <2>2 DEF Brackets
  <2> QED
    BY <2>2, <2>3
<1>7. ASSUME NEW k \in 2 .. l PROVE Follows(v, st2[k].kind, d[k], d[k - 1])
  <2>1. k \in 1 .. l /\ k - 1 \in 1 .. l /\ (k - 1) + 1 = k
    BY <1>2
  <2> QED
    BY <1>5, <1>6, <2>1
<1>8. Brackets(v, st2, d)
  BY <1>2, <1>5, <1>6, <1>7, Zenon DEF Brackets
<1>9. st2 # << >> => Follows(v, st2[1].kind, d[1], e[1])
  <2>1. st2 # << >> => 1 \in 1 .. l
    BY <1>2
  <2> QED
    BY <1>6, <2>1
<1> QED
  BY <1>8, <1>9

(* The steps of the machine, for a text v that goes on as a JSON value: n  *)
(* of its tokens are consumed and the next one is x.                       *)
At(v, n, x, p, st) ==
  /\ Len(v) \in Nat /\ n \in Nat /\ v[n + 1] = x /\ st \in Seq(Frames)
  /\ \E e : Viable(v, n, p, st, e)

LEMMA ScalarViable ==
  ASSUME NEW v, NEW n, NEW x \in Scalars, NEW st, At(v, n, x, "value", st)
  PROVE  \E e : Viable(v, n + 1, "returned", st, e)
<1>1. Len(v) \in Nat /\ n \in Nat /\ v[n + 1] = x
  BY DEF At
<1>2. PICK e : Viable(v, n, "value", st, e)
  BY DEF At
<1>3. CASE st = << >>
  <2>1. Viable(v, n + 1, "returned", st, e)
    BY <1>2, <1>3 DEF Viable
  <2> QED
    BY <2>1
<1>4. CASE st # << >>
  <2>1. ValueFrom(v, st[1].kind, e[1], n + 1)
    BY <1>2, <1>4 DEF Viable, Awaits
  <2>2. Follows(v, st[1].kind, e[1], n + 1)
    BY <1>1, <2>1, ScalarEnds
  <2>3. Viable(v, n + 1, "returned", st, e)
    BY <1>2, <1>4, <2>2 DEF Viable, Awaits
  <2> QED
    BY <2>3
<1> QED
  BY <1>3, <1>4

LEMMA OpenViable ==
  ASSUME NEW v, NEW n, NEW x, NEW st, At(v, n, x, "value", st), NEW frame \in Frames,
         x = Opener(frame.kind), NEW st2, OnTop(st2, frame, st)
  PROVE  \E e : Viable(v, n + 1, "opened", st2, e)
<1>1. Len(v) \in Nat /\ n \in Nat /\ v[n + 1] = x /\ st \in Seq(Frames)
  BY DEF At
<1>2. PICK e : Viable(v, n, "value", st, e)
  BY DEF At
<1>3. PICK m : Valued(v, n + 1, m) /\ (st # << >> => Follows(v, st[1].kind, e[1], m))
  <2>1. CASE st = << >>
    BY <1>2, <2>1 DEF Viable
  <2>2. CASE st # << >>
    BY <1>2, <2>2 DEF Viable, Awaits, ValueFrom
  <2> QED
    BY <2>1, <2>2
<1>4. frame.kind \in {"object", "array"}
  BY DEF Frames
<1>5. m \in Nat /\ v[m] = Closer(frame.kind) /\ Awaits(v, n + 1, "opened", frame.kind, m)
  BY <1>1, <1>3, <1>4, ContainerBegins
<1>6. Brackets(v, st, e)
  BY <1>2 DEF Viable
<1>7. PICK d : st2 # << >> /\ st2[1] = frame /\ Brackets(v, st2, d) /\ d[1] = m
  <2>1. Enclosed(v, st, e, frame, m)
    BY <1>1, <1>3, <1>5, <1>6 DEF Enclosed
  <2>2. Enclosing(v, st2, frame, m)
    BY <2>1, BracketsPushed
  <2> QED
    BY <2>2 DEF Enclosing
<1>8. Viable(v, n + 1, "opened", st2, d)
  BY <1>5, <1>7 DEF Viable
<1> QED
  BY <1>8

LEMMA CloseViable ==
  ASSUME NEW v, NEW n, NEW x, NEW p \in {"opened", "close"}, NEW st, NEW st2, Popped(st2, st),
         At(v, n, x, p, st), x = Closer(st[1].kind)
  PROVE  \E e : Viable(v, n + 1, "returned", st2, e)
<1>1. /\ Len(v) \in Nat /\ n \in Nat /\ v[n + 1] = Closer(st[1].kind) /\ st \in Seq(Frames)
      /\ st # << >>
  BY DEF At, Popped
<1>2. PICK e : Viable(v, n, p, st, e)
  BY DEF At
<1>3. PICK kind, last : kind = st[1].kind /\ last = e[1]
  OBVIOUS
<1>4. /\ Brackets(v, st, e) /\ last \in Nat /\ kind \in {"object", "array"} /\ v[last] = Closer(kind)
      /\ Awaits(v, n, p, kind, last)
  <2>1. Brackets(v, st, e) /\ Awaits(v, n, p, st[1].kind, e[1])
    BY <1>1, <1>2 DEF Viable
  <2> QED
    BY <1>1, <1>3, <2>1, BracketsType
<1>5. last = n + 1
  <2>1. last = n + 1 \/ Rest(v, kind, last, n + 1)
    BY <1>4 DEF Awaits
  <2> QED
    BY <1>1, <1>3, <1>4, <2>1, Choice
<1>6. PICK d : Brackets(v, st2, d) /\ (st2 # << >> => Follows(v, st2[1].kind, d[1], last))
  BY <1>3, <1>4, BracketsPopped
<1>7. Viable(v, n + 1, "returned", st2, d)
  BY <1>5, <1>6 DEF Viable, Awaits
<1> QED
  BY <1>7

(* The next element, or the end. *)
LEMMA LoopViable ==
  ASSUME NEW v, NEW n, NEW x, NEW p \in {"opened", "comma"}, NEW st, st # << >>, At(v, n, x, p, st),
         NEW q,
         IF x = Closer(st[1].kind) THEN q = "close"
         ELSE IF st[1].kind = "object" THEN q = "key" ELSE q = "value"
  PROVE  \E e : Viable(v, n, q, st, e)
<1>1. Len(v) \in Nat /\ n \in Nat /\ v[n + 1] = x /\ st \in Seq(Frames)
  BY DEF At
<1>2. PICK e : Viable(v, n, p, st, e)
  BY DEF At
<1>3. PICK kind, last : kind = st[1].kind /\ last = e[1]
  OBVIOUS
<1>4. /\ Brackets(v, st, e) /\ last \in Nat /\ kind \in {"object", "array"} /\ v[last] = Closer(kind)
      /\ Awaits(v, n, p, kind, last)
  <2>1. Brackets(v, st, e) /\ Awaits(v, n, p, st[1].kind, e[1])
    BY <1>2 DEF Viable
  <2> QED
    BY <1>1, <1>3, <2>1, BracketsType
<1>5. IF x = Closer(kind) THEN last = n + 1 ELSE Rest(v, kind, last, n + 1)
  <2>1. last = n + 1 \/ Rest(v, kind, last, n + 1)
    BY <1>4 DEF Awaits
  <2> QED
    BY <1>1, <1>4, <2>1, Choice
<1>6. Awaits(v, n, q, kind, last)
  <2>1. CASE x = Closer(kind)
    BY <1>3, <1>5, <2>1 DEF Awaits
  <2>2. CASE x # Closer(kind) /\ kind = "object"
    BY <1>3, <1>5, <2>2 DEF Awaits
  <2>3. CASE x # Closer(kind) /\ kind = "array"
    <3>1. ValueFrom(v, kind, last, n + 1) /\ q = "value"
      BY <1>1, <1>3, <1>4, <1>5, <2>3, ArrayElement
    <3> QED
      BY <3>1 DEF Awaits
  <2> QED
    BY <1>4, <2>1, <2>2, <2>3
<1>7. Viable(v, n, q, st, e)
  BY <1>3, <1>4, <1>6 DEF Viable
<1> QED
  BY <1>7

LEMMA KeyViable ==
  ASSUME NEW v, NEW n, NEW x, NEW st, st # << >>, At(v, n, x, "key", st), st[1].kind = "object"
  PROVE  /\ x \in Strings
         /\ \A st2 : Alike(st2, st) => \E e : Viable(v, n + 1, "colon", st2, e)
<1>1. Len(v) \in Nat /\ n \in Nat /\ v[n + 1] = x /\ st \in Seq(Frames)
  BY DEF At
<1>2. PICK e : Viable(v, n, "key", st, e)
  BY DEF At
<1>3. Brackets(v, st, e) /\ Awaits(v, n, "key", "object", e[1])
  BY <1>2 DEF Viable
<1>4. e[1] \in Nat /\ Rest(v, "object", e[1], n + 1)
  BY <1>1, <1>3, BracketsType DEF Awaits
<1>5. x \in Strings /\ Awaits(v, n + 1, "colon", "object", e[1])
  BY <1>1, <1>4, ObjectMember
<1>6. ASSUME NEW st2, Alike(st2, st) PROVE Viable(v, n + 1, "colon", st2, e)
  <2>1. Brackets(v, st2, e)
    BY <1>3, <1>6, BracketsKept
  <2>2. st2 # << >> /\ st2[1].kind = "object"
    <3>1. 1 \in 1 .. Len(st)
      BY <1>1, HeldTop
    <3> QED
      BY <1>6, <3>1 DEF Alike
  <2> QED
    BY <1>5, <2>1, <2>2 DEF Viable
<1> QED
  BY <1>5, <1>6

LEMMA ColonViable ==
  ASSUME NEW v, NEW n, NEW x, NEW st, st # << >>, At(v, n, x, "colon", st)
  PROVE  x = ":" /\ \E e : Viable(v, n + 1, "value", st, e)
<1>1. Len(v) \in Nat /\ n \in Nat /\ v[n + 1] = x
  BY DEF At
<1>2. PICK e : Viable(v, n, "colon", st, e)
  BY DEF At
<1>3. Brackets(v, st, e) /\ v[n + 1] = ":" /\ ValueFrom(v, st[1].kind, e[1], n + 2)
  BY <1>2 DEF Viable, Awaits
<1>4. n + 2 = (n + 1) + 1
  BY <1>1
<1>5. Viable(v, n + 1, "value", st, e)
  BY <1>3, <1>4 DEF Viable, Awaits
<1> QED
  BY <1>1, <1>3, <1>5

LEMMA MemberViable ==
  ASSUME NEW v, NEW n, NEW x, NEW st, st # << >>, At(v, n, x, "returned", st), NEW st2, Alike(st2, st)
  PROVE  \E e : Viable(v, n, "after", st2, e)
<1>1. PICK e : Viable(v, n, "returned", st, e)
  BY DEF At
<1>2. Brackets(v, st2, e)
  BY <1>1, BracketsKept DEF Viable
<1>3. st2 # << >> /\ st2[1].kind = st[1].kind
  <2>1. 1 \in 1 .. Len(st)
    BY HeldTop DEF At
  <2> QED
    BY <2>1 DEF Alike
<1>4. Viable(v, n, "after", st2, e)
  BY <1>1, <1>2, <1>3 DEF Viable, Awaits
<1> QED
  BY <1>4

LEMMA CommaViable ==
  ASSUME NEW v, NEW n, NEW x, NEW st, st # << >>, At(v, n, x, "after", st)
  PROVE  IF IsComma(x) THEN \E e : Viable(v, n + 1, "comma", st, e)
         ELSE \E e : Viable(v, n, "close", st, e)
<1>1. Len(v) \in Nat /\ n \in Nat /\ v[n + 1] = x /\ st \in Seq(Frames)
  BY DEF At
<1>2. PICK e : Viable(v, n, "after", st, e)
  BY DEF At
<1>3. Brackets(v, st, e) /\ Follows(v, st[1].kind, e[1], n)
  BY <1>2 DEF Viable, Awaits
<1>4. IF IsComma(x) THEN Awaits(v, n + 1, "comma", st[1].kind, e[1]) ELSE e[1] = n + 1
  BY <1>1, <1>3, BracketsType, MemberFollowed, SMTT(30)
<1>5. CASE IsComma(x)
  <2>1. Viable(v, n + 1, "comma", st, e)
    BY <1>3, <1>4, <1>5 DEF Viable
  <2> QED
    BY <1>5, <2>1
<1>6. CASE ~IsComma(x)
  <2>1. Viable(v, n, "close", st, e)
    BY <1>3, <1>4, <1>6 DEF Viable, Awaits
  <2> QED
    BY <1>6, <2>1
<1> QED
  BY <1>5, <1>6

(* v goes on behind the tokens t and x. *)
Prolongs(v, t, x) ==
  /\ Len(v) \in Nat /\ Len(t) < Len(v) /\ v[Len(t) + 1] = x
  /\ \A m \in 1 .. Len(t) : v[m] = t[m]

(* For every JSON text that goes on as the one that is read: it can be     *)
(* parsed from here, and no syntax error was found.                        *)
RefuseInv ==
  tok # "NUL" =>
    \A v : Prolongs(v, text, tok) /\ IsJson(v) =>
      IF pc \in {"null", "failed"} THEN why # "syntax"
      ELSE \E e : Viable(v, Len(text), pc, stack, e)

LEMMA StillViable ==
  ASSUME pc' \notin {"null", "failed"},
         tok' # "NUL" => \A v : Prolongs(v, text', tok') /\ IsJson(v) =>
                           \E e : Viable(v, Len(text'), pc', stack', e)
  PROVE  RefuseInv'
BY DEF RefuseInv

(* What is known of such a text. *)
LEMMA AtNow ==
  ASSUME HeapInv, DepthInv, RefuseInv, pc \notin {"null", "failed"}, tok # "NUL",
         NEW v, Prolongs(v, text, tok), IsJson(v)
  PROVE  At(v, Len(text), tok, pc, stack)
<1>1. stack \in Seq(Frames) /\ Len(text) \in Nat
  BY DEF HeapInv, Ownership, DepthInv, Depth
<1>2. \E e : Viable(v, Len(text), pc, stack, e)
  BY DEF RefuseInv
<1> QED
  BY <1>1, <1>2 DEF At, Prolongs

(* A token is consumed. *)
LEMMA TokenViable ==
  ASSUME HeapInv, DepthInv, RefuseInv, pc \notin {"null", "failed"}, tok # "NUL", SKIP_CHAR,
         pc' \notin {"null", "failed"},
         \A v, n : At(v, n, tok, pc, stack) => \E e : Viable(v, n + 1, pc', stack', e)
  PROVE  RefuseInv'
<1>1. PICK n, u : n = Len(text) /\ u = text'
  OBVIOUS
<1>2. n \in Nat /\ Len(u) = n + 1 /\ u[n + 1] = tok /\ \A m \in 1 .. n : u[m] = text[m]
  BY <1>1, TextGrows DEF Longer
<1>3. ASSUME NEW v, Prolongs(v, u, tok'), IsJson(v) PROVE \E e : Viable(v, n + 1, pc', stack', e)
  <2>1. PICK l : l = Len(v)
    OBVIOUS
  <2>2. l \in Nat /\ n + 1 < l /\ \A m \in 1 .. n + 1 : v[m] = u[m]
    BY <1>2, <1>3, <2>1 DEF Prolongs
  <2>3. n < l /\ n + 1 \in 1 .. n + 1 /\ \A m \in 1 .. n : m \in 1 .. n + 1
    BY <1>2, <2>2
  <2>4. v[n + 1] = tok /\ \A m \in 1 .. n : v[m] = text[m]
    BY <1>2, <2>2, <2>3
  <2>5. Prolongs(v, text, tok)
    BY <1>1, <2>1, <2>2, <2>3, <2>4 DEF Prolongs
  <2>6. At(v, n, tok, pc, stack)
    BY <1>1, <1>3, <2>5, AtNow
  <2> QED
    BY <2>6
<1>4. \A v : Prolongs(v, text', tok') /\ IsJson(v) => \E e : Viable(v, Len(text'), pc', stack', e)
  BY <1>1, <1>2, <1>3
<1> QED
  BY <1>4, StillViable

(* The next token is only looked at. *)
LEMMA LookViable ==
  ASSUME HeapInv, DepthInv, RefuseInv, pc \notin {"null", "failed"}, Look,
         pc' \notin {"null", "failed"},
         tok # "NUL" => \A v, n : At(v, n, tok, pc, stack) => \E e : Viable(v, n, pc', stack', e)
  PROVE  RefuseInv'
<1>1. text' = text /\ tok' = tok
  BY DEF Look
<1>2. ASSUME tok # "NUL", NEW v, Prolongs(v, text, tok), IsJson(v)
      PROVE  \E e : Viable(v, Len(text), pc', stack', e)
  <2>1. At(v, Len(text), tok, pc, stack)
    BY <1>2, AtNow
  <2> QED
    BY <1>2, <2>1
<1>3. tok' # "NUL" => \A v : Prolongs(v, text', tok') /\ IsJson(v) =>
                        \E e : Viable(v, Len(text'), pc', stack', e)
  BY <1>1, <1>2
<1> QED
  BY <1>3, StillViable

(* NULL is returned, for another reason or where no JSON text goes on. *)
LEMMA FailRefuses ==
  ASSUME HeapInv, DepthInv, RefuseInv, pc \notin {"null", "failed"}, NEW r, Refused(r),
         r = "syntax" /\ tok # "NUL" => \A v, n : ~At(v, n, tok, pc, stack)
  PROVE  RefuseInv'
<1>1. text' = text /\ tok' = tok /\ pc' = "null" /\ why' = r
  BY DEF Refused, Look
<1>2. ASSUME tok # "NUL", NEW v, Prolongs(v, text, tok), IsJson(v) PROVE r # "syntax"
  <2>1. At(v, Len(text), tok, pc, stack)
    BY <1>2, AtNow
  <2> QED
    BY <1>2, <2>1
<1> QED
  BY <1>1, <1>2 DEF RefuseInv

LEMMA ReturnViable ==
  ASSUME HeapInv, DepthInv, RefuseInv, ReturnValue, pc \in {"opened", "close"},
         tok = Closer(Top.kind)
  PROVE  RefuseInv'
<1>1. stack \in Seq(Frames) /\ stack # << >>
  BY DEF HeapInv, Ownership
<1>2. /\ SKIP_CHAR /\ stack' = Tail(stack) /\ pc' = "returned" /\ Head(stack) = stack[1]
  BY <1>1, HeldTop DEF ReturnValue
<1>3. tok = Closer(stack[1].kind) /\ tok # "NUL"
  <2>1. tok = "}" \/ tok = "]"
    BY DEF Closer
  <2> QED
    BY <1>2, <2>1 DEF Top
<1>4. PICK st, st2 : st = stack /\ st2 = stack'
  OBVIOUS
<1>5. Popped(st2, st) /\ tok = Closer(st[1].kind)
  BY <1>1, <1>2, <1>3, <1>4 DEF Popped
<1>6. ASSUME NEW v, NEW n, At(v, n, tok, pc, st) PROVE \E e : Viable(v, n + 1, "returned", st2, e)
  BY <1>5, <1>6, CloseViable
<1> QED
  BY <1>2, <1>3, <1>4, <1>6, TokenViable

LEMMA NextViable ==
  ASSUME HeapInv, DepthInv, RefuseInv, pc \in {"opened", "comma"}, NextElement, tok # Closer(Top.kind)
  PROVE  RefuseInv'
<1>1. stack \in Seq(Frames) /\ stack # << >>
  BY DEF HeapInv, Ownership
<1>2. Look /\ stack' = stack /\ Head(stack) = stack[1]
  BY <1>1, HeldTop DEF NextElement
<1>3. pc' \in {"close", "key", "value"}
  BY DEF NextElement
<1>4. ASSUME tok # "NUL", NEW v, NEW n, At(v, n, tok, pc, stack)
      PROVE  \E e : Viable(v, n, pc', stack, e)
  <2>1. PICK q : q = pc'
    OBVIOUS
  <2>2. IF tok = Closer(stack[1].kind) THEN q = "close"
        ELSE IF stack[1].kind = "object" THEN q = "key" ELSE q = "value"
    BY <1>2, <1>4, <2>1 DEF NextElement, InObject, Top
  <2>3. \E e : Viable(v, n, q, stack, e)
    BY <1>1, <1>4, <2>2, LoopViable
  <2> QED
    BY <2>1, <2>3
<1> QED
  BY <1>2, <1>3, <1>4, LookViable

LEMMA RefuseStep == ASSUME HeapInv, DepthInv, RefuseInv, JsonNext PROVE RefuseInv'
<1>1. stack \in Seq(Frames)
  BY DEF HeapInv, Ownership
<1>2. ASSUME pc \notin {"null", "failed"}, NEW r, Refused(r), r # "syntax" PROVE RefuseInv'
  BY <1>2, FailRefuses
<1>3. CASE parse_value
  <2>1. pc = "value"
    BY <1>3 DEF parse_value
  <2>2. ASSUME NEW kd \in {"object", "array"}, OpenContainer(kd), tok = Opener(kd) PROVE RefuseInv'
    <3>1. CASE ReturnNull("memory")
      BY <1>2, <2>1, <3>1, Refusals
    <3>2. CASE SKIP_CHAR /\ stack' = <<NewFrame(kd)>> \o stack /\ pc' = "opened"
      <4>1. PICK st2, frame : st2 = stack' /\ frame = NewFrame(kd)
        OBVIOUS
      <4>2. frame.kind = kd /\ frame \in Frames /\ OnTop(st2, frame, stack)
        BY <3>2, <4>1 DEF NewFrame, Frames, OnTop
      <4>3. tok # "NUL"
        BY <2>2, Openers
      <4>4. ASSUME NEW v, NEW n, At(v, n, tok, "value", stack)
            PROVE  \E e : Viable(v, n + 1, "opened", st2, e)
        BY <2>2, <4>2, <4>4, OpenViable
      <4> QED
        BY <2>1, <3>2, <4>1, <4>3, <4>4, TokenViable
    <3> QED
      BY <2>2, <3>1, <3>2 DEF OpenContainer
  <2>3. ASSUME NEW k, Scalar(k), tok \in Scalars PROVE RefuseInv'
    <3>1. CASE ReturnNull("memory")
      BY <1>2, <2>1, <3>1, Refusals
    <3>2. CASE SKIP_CHAR /\ stack' = stack /\ pc' = "returned"
      <4>1. tok # "NUL"
        BY <2>3, JsonAssumption DEF Scalars, StringTokens
      <4>2. ASSUME NEW v, NEW n, At(v, n, tok, "value", stack)
            PROVE  \E e : Viable(v, n + 1, "returned", stack, e)
        BY <2>3, <4>2, ScalarViable
      <4> QED
        BY <2>1, <3>2, <4>1, <4>2, TokenViable
    <3> QED
      BY <2>3, <3>1, <3>2 DEF Scalar
  <2>4. ASSUME tok \notin Beginnings, NEW v, NEW n, At(v, n, tok, "value", stack) PROVE FALSE
    <3>1. Len(v) \in Nat /\ v[n + 1] = tok
      BY <2>4 DEF At
    <3>2. PICK m : Valued(v, n + 1, m)
      BY <2>4 DEF At, Viable, Awaits, ValueFrom
    <3> QED
      BY <2>4, <3>1, <3>2, ValueBegins
  <2>5. ASSUME tok \notin Beginnings, ReturnNull("syntax") PROVE RefuseInv'
    BY <2>1, <2>4, <2>5, Refusals, FailRefuses
  <2>6. CASE TooDeep
    <3>1. Refused("nesting")
      BY <1>3, <2>6, Refusals DEF parse_value
    <3> QED
      BY <1>2, <2>1, <3>1
  <2>7. CASE ~TooDeep
    <3>1. \/ tok = "{" /\ OpenContainer("object")
          \/ tok = "[" /\ OpenContainer("array")
          \/ tok \in StringTokens /\ Scalar(2)
          \/ tok \in NumberTokens /\ parse_number_value
          \/ tok \notin Beginnings /\ ReturnNull("syntax")
      BY <1>3, <2>7 DEF parse_value, Beginnings, Scalars, NumberTokens
    <3>2. CASE tok \in NumberTokens /\ parse_number_value
      <4>1. CASE tok \in {"n", "lax"} /\ Scalar(1)
        BY <2>3, <4>1 DEF Scalars
      <4>2. CASE ReturnNull("number") \/ ReturnNull("memory")
        BY <1>2, <2>1, <4>2, Refusals
      <4>3. CASE tok = "minus" /\ pc' = "returned" /\ Look /\ stack' = stack
        <5>1. tok \notin Beginnings
          BY <4>3, JsonAssumption DEF Beginnings, Scalars, StringTokens
        <5> QED
          BY <2>1, <2>4, <4>3, <5>1, LookViable
      <4> QED
        BY <3>2, <4>1, <4>2, <4>3 DEF parse_number_value
    <3> QED
      BY <2>2, <2>3, <2>5, <3>1, <3>2, Openers DEF Scalars
  <2> QED
    BY <2>6, <2>7
<1>4. CASE AfterOpen
  BY <1>4, ReturnViable, NextViable DEF AfterOpen
<1>5. CASE ParseKey
  <2>1. pc = "key" /\ stack # << >> /\ stack[1].kind = "object"
    BY <1>5, HeldTop DEF ParseKey, HeapInv, Ownership
  <2>2. CASE /\ tok \in Strings /\ SKIP_CHAR /\ stack' = [stack EXCEPT ![1].key = tok]
             /\ pc' = "colon"
    <3>1. PICK f, st2 : f = [stack[1] EXCEPT !.key = tok] /\ st2 = stack'
      OBVIOUS
    <3>2. f.kind = stack[1].kind /\ st2 = [stack EXCEPT ![1] = f]
      <4>1. stack[1] \in Frames
        BY <1>1, <2>1, HeldTop
      <4> QED
        BY <2>2, <3>1, <4>1 DEF Frames
    <3>3. Alike(st2, stack)
      BY <1>1, <2>1, <3>2, TopSet
    <3>4. tok # "NUL"
      BY <2>2, JsonAssumption
    <3>5. ASSUME NEW v, NEW n, At(v, n, tok, "key", stack)
          PROVE  \E e : Viable(v, n + 1, "colon", st2, e)
      BY <2>1, <3>3, <3>5, KeyViable
    <3> QED
      BY <2>1, <2>2, <3>1, <3>4, <3>5, TokenViable
  <2>3. CASE GiveUp("memory", Top.blocks)
    BY <1>2, <2>1, <2>3, Refusals
  <2>4. ASSUME tok \notin Strings, NEW v, NEW n, At(v, n, tok, "key", stack) PROVE FALSE
    BY <2>1, <2>4, KeyViable
  <2>5. CASE tok \notin StringTokens /\ GiveUp("syntax", Top.blocks)
    BY <2>1, <2>4, <2>5, Refusals, FailRefuses DEF StringTokens
  <2>6. CASE tok = "z" /\ Look /\ pc' = "short"
    <3>1. tok \notin Strings
      BY <2>6, JsonAssumption
    <3> QED
      BY <2>1, <2>4, <2>6, <3>1, LookViable
  <2> QED
    BY <1>5, <2>2, <2>3, <2>5, <2>6 DEF ParseKey
<1>6. CASE ParseColon
  <2>1. pc = "colon" /\ stack # << >>
    BY <1>6 DEF ParseColon, HeapInv, Ownership
  <2>2. ASSUME NEW v, NEW n, At(v, n, tok, "colon", stack)
        PROVE  tok = ":" /\ \E e : Viable(v, n + 1, "value", stack, e)
    BY <2>1, <2>2, ColonViable
  <2>3. CASE tok = ":" /\ SKIP_CHAR /\ pc' = "value" /\ stack' = stack
    BY <2>1, <2>2, <2>3, TokenViable
  <2>4. CASE tok # ":" /\ GiveUp("syntax", 1 + Top.blocks)
    BY <2>1, <2>2, <2>4, Refusals, FailRefuses
  <2> QED
    BY <1>6, <2>3, <2>4 DEF ParseColon
<1>7. CASE AddMember
  <2>1. pc = "returned" /\ stack # << >> /\ Top = stack[1]
    BY <1>1, <1>7, HeldTop DEF AddMember, Top
  <2>2. ASSUME NEW r, NEW n, GiveUp(r, n), r # "syntax" PROVE RefuseInv'
    BY <1>2, <2>1, <2>2, Refusals
  <2>3. CASE /\ stack' = [stack EXCEPT ![1] =
                  [kind |-> Top.kind, key |-> NoKey, count |-> Top.count + 1,
                   blocks |-> Top.blocks + value + Arrays + (IF InObject THEN 1 ELSE 0),
                   keys |-> IF InObject THEN Top.keys \cup {Top.key} ELSE Top.keys]]
             /\ pc' = "after" /\ Look
    <3>1. PICK f, st2 : st2 = stack' /\ st2 = [stack EXCEPT ![1] = f] /\ f.kind = stack[1].kind
      <4>1. PICK blocks, keys :
              /\ blocks = Top.blocks + value + Arrays + (IF InObject THEN 1 ELSE 0)
              /\ keys = IF InObject THEN Top.keys \cup {Top.key} ELSE Top.keys
        OBVIOUS
      <4>2. PICK f : f = [kind |-> Top.kind, key |-> NoKey, count |-> Top.count + 1,
                          blocks |-> blocks, keys |-> keys]
        OBVIOUS
      <4>3. stack' = [stack EXCEPT ![1] = f]
        BY <2>3, <4>1, <4>2
      <4>4. f.kind = Top.kind
        BY <4>2
      <4> QED
        BY <2>1, <4>3, <4>4
    <3>2. Alike(st2, stack)
      BY <1>1, <2>1, <3>1, TopSet
    <3>3. ASSUME NEW v, NEW n, At(v, n, tok, "returned", stack)
          PROVE  \E e : Viable(v, n, "after", st2, e)
      BY <2>1, <3>2, <3>3, MemberViable
    <3>4. Look /\ pc' = "after" /\ st2 = stack'
      BY <2>3, <3>1, Zenon
    <3>5. \A v, n : At(v, n, tok, pc, stack) => \E e : Viable(v, n, pc', stack', e)
      BY <2>1, <3>3, <3>4
    <3> QED
      BY <2>1, <3>4, <3>5, LookViable
  <2> QED
    BY <1>7, <2>2, <2>3 DEF AddMember
<1>8. CASE AfterMember
  <2>1. pc = "after" /\ stack # << >>
    BY <1>8 DEF AfterMember, HeapInv, Ownership
  <2>2. ASSUME NEW v, NEW n, At(v, n, tok, "after", stack)
        PROVE  IF IsComma(tok) THEN \E e : Viable(v, n + 1, "comma", stack, e)
               ELSE \E e : Viable(v, n, "close", stack, e)
    BY <2>1, <2>2, CommaViable
  <2>3. CASE IsComma(tok)
    <3>1. SKIP_CHAR /\ pc' = "comma" /\ stack' = stack
      BY <1>8, <2>3 DEF AfterMember, IsComma
    <3>2. tok # "NUL"
      BY <2>3 DEF IsComma
    <3> QED
      BY <2>1, <2>2, <2>3, <3>1, <3>2, TokenViable
  <2>4. CASE ~IsComma(tok)
    <3>1. Look /\ pc' = "close" /\ stack' = stack
      BY <1>8, <2>4 DEF AfterMember, IsComma
    <3> QED
      BY <2>1, <2>2, <2>4, <3>1, LookViable
  <2> QED
    BY <2>3, <2>4
<1>9. CASE AfterComma
  <2>1. stack # << >> /\ pc = "comma" /\ Head(stack) = stack[1]
    BY <1>1, <1>9, HeldTop DEF AfterComma, HeapInv, Ownership
  <2>2. CASE tok = Closer(Top.kind)
    <3>1. Look /\ pc' = "close" /\ stack' = stack
      BY <1>9, <2>2 DEF AfterComma
    <3>2. ASSUME NEW v, NEW n, At(v, n, tok, "comma", stack)
          PROVE  \E e : Viable(v, n, "close", stack, e)
      <4>1. tok = Closer(stack[1].kind)
        BY <2>1, <2>2 DEF Top
      <4> QED
        BY <2>1, <3>2, <4>1, LoopViable
    <3> QED
      BY <2>1, <3>1, <3>2, LookViable
  <2>3. CASE tok # Closer(Top.kind)
    BY <1>9, <2>1, <2>3, NextViable DEF AfterComma
  <2> QED
    BY <2>2, <2>3
<1>10. CASE CloseContainer
  <2>1. stack # << >> /\ pc = "close" /\ Top = stack[1]
    BY <1>1, <1>10, HeldTop DEF CloseContainer, HeapInv, Ownership, Top
  <2>2. CASE GiveUp("memory", Top.blocks)
    BY <1>2, <2>1, <2>2, Refusals
  <2>3. CASE tok = Closer(Top.kind) /\ ReturnValue
    BY <2>1, <2>3, ReturnViable
  <2>4. CASE tok # Closer(Top.kind) /\ GiveUp("syntax", Top.blocks)
    <3>1. ASSUME NEW v, NEW n, At(v, n, tok, "close", stack) PROVE FALSE
      <4>1. PICK e : Viable(v, n, "close", stack, e)
        BY <3>1 DEF At
      <4>2. Brackets(v, stack, e) /\ e[1] = n + 1 /\ v[n + 1] = tok
        BY <2>1, <3>1, <4>1 DEF At, Viable, Awaits
      <4>3. v[e[1]] = Closer(stack[1].kind)
        BY <1>1, <2>1, <4>2, BracketsType
      <4> QED
        BY <2>1, <2>4, <4>2, <4>3
    <3> QED
      BY <2>1, <2>4, <3>1, Refusals, FailRefuses
  <2> QED
    BY <1>10, <2>2, <2>3, <2>4 DEF CloseContainer
<1>11. CASE ReturnRoot
  <2>1. pc = "returned" /\ pc' = "done" /\ stack = << >> /\ stack' = stack /\ Look
    BY <1>11 DEF ReturnRoot
  <2>2. ASSUME NEW v, NEW n, At(v, n, tok, "returned", stack) PROVE \E e : Viable(v, n, "done", stack, e)
    <3>1. PICK e : Viable(v, n, "returned", stack, e)
      BY <2>2 DEF At
    <3>2. Viable(v, n, "done", stack, e)
      BY <2>1, <3>1 DEF Viable
    <3> QED
      BY <3>2
  <2> QED
    BY <2>1, <2>2, LookViable
<1>12. CASE NullMember \/ NullRoot
  <2>1. /\ pc = "null" /\ pc' \in {"null", "failed"} /\ text' = text /\ tok' = tok /\ why' = why
    BY <1>12 DEF NullMember, GiveUp, NullRoot, Look
  <2> QED
    BY <2>1 DEF RefuseInv
<1>14. CASE RefuseKey
  <2>1. pc = "short" /\ stack # << >>
    BY <1>14 DEF RefuseKey, HeapInv, Ownership
  <2>2. ASSUME NEW v, NEW n, At(v, n, tok, "short", stack) PROVE FALSE
    BY <2>1, <2>2 DEF At, Viable, Awaits
  <2> QED
    BY <1>14, <2>1, <2>2, Refusals, FailRefuses DEF RefuseKey
<1>13. CASE JsonStopped
  BY <1>13 DEF JsonStopped, jsonVars, RefuseInv
<1> QED
  BY <1>3, <1>4, <1>5, <1>6, <1>7, <1>8, <1>9, <1>10, <1>11, <1>12, <1>13, <1>14 DEF JsonNext

LEMMA RefuseSafe == JsonSpec => []RefuseInv
<1>1. JsonInit => RefuseInv
  <2> SUFFICES ASSUME JsonInit, NEW v, Prolongs(v, text, tok), IsJson(v)
               PROVE  \E e : Viable(v, Len(text), pc, stack, e)
    BY DEF RefuseInv, JsonInit
  <2>1. text = << >> /\ stack = << >> /\ pc = "value" /\ Len(<< >>) = 0
    BY DEF JsonInit
  <2>2. PICK e : e = [k \in 1 .. 0 |-> 1]
    OBVIOUS
  <2>3. \A k : k \notin 1 .. 0 /\ k \notin 2 .. 0
    OBVIOUS
  <2>4. e \in [1 .. 0 -> Nat]
    BY <2>2, <2>3
  <2>5. Brackets(v, << >>, e)
    BY <2>1, <2>3, <2>4, Zenon DEF Brackets
  <2>6. PICK l : l = Len(v)
    OBVIOUS
  <2>7. l \in Nat /\ l > 0
    BY <2>1, <2>6 DEF Prolongs
  <2>8. l \in 1 .. l /\ 0 + 1 = 1
    BY <2>7
  <2>9. Valued(v, 0 + 1, l)
    BY <2>6, <2>8 DEF Valued, IsJson
  <2>10. Viable(v, 0, "value", << >>, e)
    BY <2>5, <2>9 DEF Viable
  <2> QED
    BY <2>1, <2>10
<1>2. HeapInv /\ DepthInv /\ RefuseInv /\ [JsonNext]_jsonVars => RefuseInv'
  <2>1. ASSUME RefuseInv, UNCHANGED jsonVars PROVE RefuseInv'
    BY <2>1 DEF jsonVars, RefuseInv
  <2> QED
    BY <2>1, RefuseStep
<1> QED
  BY <1>1, <1>2, HeapSafe, DepthSafe, PTL DEF JsonSpec

(* The text and anything behind it goes on as the text. *)
LEMMA ContinuesProlong ==
  ASSUME NEW T, NEW t \in Seq(T), NEW x \in T, NEW w, NEW u, u = Append(t, x), w \in Seq(T)
  PROVE  Prolongs(u \o w, t, x)
<1>1. PICK n, k, v : n = Len(t) /\ k = Len(w) /\ v = u \o w
  OBVIOUS
<1>2. n \in Nat /\ k \in Nat /\ u \in Seq(T) /\ Len(u) = n + 1 /\ u[n + 1] = x /\ \A m \in 1 .. n : u[m] = t[m]
  BY <1>1, AppendProperties
<1>3. Len(v) = (n + 1) + k /\ \A m \in 1 .. n + 1 : v[m] = u[m]
  BY <1>1, <1>2, ConcatProperties
<1>4. Len(v) \in Nat /\ n < Len(v) /\ n + 1 \in 1 .. n + 1 /\ \A m \in 1 .. n : m \in 1 .. n + 1
  BY <1>2, <1>3
<1>5. Prolongs(v, t, x)
  BY <1>1, <1>2, <1>3, <1>4 DEF Prolongs
<1> QED
  BY <1>1, <1>5

LEMMA UnclosedFinite == ASSUME NEW t, Len(t) \in Nat PROVE Cardinality(Unclosed(t)) \in Nat
<1>1. PICK l : l = Len(t)
  OBVIOUS
<1>2. IsFiniteSet(1 .. l)
  <2>1. l \in Int
    BY <1>1
  <2> QED
    BY <2>1, FS_Interval
<1>3. Unclosed(t) \subseteq 1 .. l
  BY <1>1, Zenon DEF Unclosed
<1> QED
  BY <1>2, <1>3, FS_Subset, FS_CardinalityType

LEMMA MissingType ==
  ASSUME NEW t, Len(t) \in Nat, NEW T, "}" \in T, "]" \in T PROVE Missing(t) \in Seq(T)
<1>1. PICK c, g : c = Cardinality(Unclosed(t)) /\ g = Missing(t)
  OBVIOUS
<1>2. c \in Nat
  BY <1>1, UnclosedFinite, Zenon
<1>3. g \in [1 .. c -> T]
  BY <1>1, Zenon DEF Missing
<1>4. g \in Seq(T)
  BY <1>2, <1>3, SeqDef, Zenon
<1> QED
  BY <1>1, <1>4, Zenon

(* A syntax error means what it says, for every text: no JSON value goes   *)
(* on with the token at which parse_value() or its callers gave up.        *)
THEOREM ParserRefuses == JsonSpec => []RejectsOnlyErrors
<1>1. DepthInv /\ RefuseInv => RejectsOnlyErrors
  <2> SUFFICES ASSUME DepthInv, RefuseInv, pc = "failed", why = "syntax", tok # "NUL",
                      Continues(Append(text, tok))
               PROVE  FALSE
    BY DEF RejectsOnlyErrors
  <2>1. PICK T, u : T = Tokens \cup {"NUL"} /\ u = Append(text, tok)
    OBVIOUS
  <2>2. text \in Seq(T) /\ tok \in T /\ u \in Seq(T) /\ Len(u) \in Nat
    <3>1. text \in Seq(T) /\ tok \in T
      BY <2>1 DEF DepthInv, Depth
    <3> QED
      BY <2>1, <3>1, AppendProperties
  <2>3. PICK more \in {<< >>, <<"n">>, <<":", "n">>} : IsJson(u \o more \o Missing(u))
    BY <2>1 DEF Continues
  <2>4. PICK g : g = Missing(u)
    OBVIOUS
  <2>5. more \in Seq(T) /\ g \in Seq(T)
    <3>1. "n" \in T /\ ":" \in T /\ "}" \in T /\ "]" \in T
      BY <2>1 DEF Tokens, NumberTokens
    <3>2. \A a, b \in T : << >> \in Seq(T) /\ <<a>> \in Seq(T) /\ <<b, a>> \in Seq(T)
      OBVIOUS
    <3>3. more \in Seq(T)
      BY <3>1, <3>2, Zenon
    <3>4. g \in Seq(T)
      BY <2>2, <2>4, <3>1, MissingType
    <3> QED
      BY <3>3, <3>4
  <2>6. PICK w : w = more \o g
    OBVIOUS
  <2>7. w \in Seq(T) /\ u \o more \o g = u \o w
    <3>1. w \in Seq(T)
      BY <2>5, <2>6, ConcatProperties
    <3>2. (u \o more) \o g = u \o (more \o g)
      BY <2>2, <2>5, ConcatAssociative
    <3> QED
      BY <2>6, <3>1, <3>2, Zenon
  <2>8. Prolongs(u \o w, text, tok)
    BY <2>1, <2>2, <2>7, ContinuesProlong
  <2>9. IsJson(u \o w)
    BY <2>3, <2>4, <2>7
  <2> QED
    BY <2>8, <2>9 DEF RefuseInv
<1> QED
  BY <1>1, DepthSafe, RefuseSafe, PTL
=============================================================================
