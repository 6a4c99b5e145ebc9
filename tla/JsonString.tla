----------------------------- MODULE JsonString -----------------------------
(***************************************************************************)
(* A quoted string of a JSON text, byte by byte: skip_quotes() finds its   *)
(* end, process_string() decodes it.  The text is either any bytes, or     *)
(* built from pieces that have a meaning of their own (src), so that what  *)
(* the bytes decode to can be compared with what the pieces denote.        *)
(*                                                                         *)
(* A piece is a record [kind, n]: "raw" is a character written as it is    *)
(* (n indexes Raw), "esc" a backslash and the byte n, "unit" and "UNIT" a  *)
(* UTF-16 code unit n as \uXXXX in lower and upper case, "cut" an escape   *)
(* \u with a digit missing.  A "byte" is the byte n, whatever it means     *)
(* where it stands.                                                        *)
(***************************************************************************)
EXTENDS Integers, Sequences, SequencesExt

CONSTANTS
  Raw,        \* characters: a sequence of [cp, bytes]
  Escapes,    \* the bytes that are put behind a backslash
  Units,      \* the code units that are written as \uXXXX
  MaxPieces,  \* the pieces of a text
  AnyBytes,   \* the bytes a text of any bytes consists of
  MaxBytes    \* and their number

ASSUME StringAssumption ==
  /\ Raw \in Seq([cp : Int, bytes : Seq(Int)]) /\ MaxPieces \in Nat
  /\ AnyBytes \subseteq 1 .. 255 /\ MaxBytes \in Nat
  /\ \A b \in Escapes : b \in Nat /\ b > 0 /\ b < 256 /\ b # 117   \* \u is a unit or cut
  /\ \A u \in Units : u \in Nat /\ u < 65536

VARIABLES
  src,   \* the pieces
  mem,   \* the text: from the opening quote to the NUL behind it
  ptr,   \* the position that is read next
  end,   \* the position of the closing quote, 0 before it is known
  out,   \* the bytes that were written
  stringPc

stringVars == <<src, mem, ptr, end, out, stringPc>>

Quote == 34
Backslash == 92
LetterU == 117

Pieces ==
  [kind : {"raw"}, n : 1 .. Len(Raw)] \cup [kind : {"esc"}, n : Escapes]
    \cup [kind : {"unit", "UNIT"}, n : Units] \cup [kind : {"cut"}, n : {0}]
BytePieces == [kind : {"byte"}, n : AnyBytes]

Hex(d, letter) == IF d < 10 THEN 48 + d ELSE letter + d - 10
HexDigits(n, letter) ==
  <<Hex(n \div 4096, letter), Hex((n \div 256) % 16, letter),
    Hex((n \div 16) % 16, letter), Hex(n % 16, letter)>>

Bytes(p) ==
  CASE p.kind = "raw"  -> Raw[p.n].bytes
    [] p.kind = "esc"  -> <<Backslash, p.n>>
    [] p.kind = "unit" -> <<Backslash, LetterU>> \o HexDigits(p.n, 97)
    [] p.kind = "UNIT" -> <<Backslash, LetterU>> \o HexDigits(p.n, 65)
    [] p.kind = "cut"  -> <<Backslash, LetterU, 48, 48, 48>>
    [] p.kind = "byte" -> <<p.n>>

(* Mutant: the capital letters are forgotten. *)
hex_char_to_int_Lower(c) ==
  CASE c \in 48 .. 57 -> c - 48
    [] c \in 97 .. 102 -> c - 97 + 10
    [] OTHER -> -1

hex_char_to_int(c) ==
  CASE c \in 48 .. 57 -> c - 48
    [] c \in 97 .. 102 -> c - 97 + 10
    [] c \in 65 .. 70 -> c - 65 + 10
    [] OTHER -> -1

(* No digit behind an escape that is cut completes it. *)
CutShort(pieces) ==
  \A k \in 1 .. Len(pieces) - 1 :
    pieces[k].kind = "cut" => hex_char_to_int(Bytes(pieces[k + 1])[1]) = -1

(* What follows the closing quote may look like the rest of an escape.     *)
StringInit ==
  /\ \/ src \in SeqOf(Pieces, MaxPieces) /\ CutShort(src)
     \/ src \in SeqOf(BytePieces, MaxBytes)
  /\ LET body == FlattenSeq([k \in 1 .. Len(src) |-> Bytes(src[k])])
     IN \E rest \in {<<Quote, 0>>, <<Quote, 48, 48, 0>>, <<0>>} :
          mem = <<Quote>> \o body \o rest
  /\ ptr = 2 /\ end = 0 /\ out = << >> /\ stringPc = "skip"

-----------------------------------------------------------------------------
(* skip_quotes(): a step is a turn of its loop. *)

FoundEnd ==
  /\ stringPc = "skip" /\ mem[ptr] = Quote
  /\ end' = ptr /\ ptr' = 2 /\ stringPc' = "process"
  /\ UNCHANGED <<src, mem, out>>

SkipCharacter ==
  LET next == IF mem[ptr] = Backslash THEN ptr + 1 ELSE ptr
  IN /\ stringPc = "skip" /\ mem[ptr] # Quote
     /\ IF mem[next] = 0 THEN stringPc' = "failed" /\ ptr' = next
        ELSE ptr' = next + 1 /\ UNCHANGED stringPc
     /\ UNCHANGED <<src, mem, end, out>>

-----------------------------------------------------------------------------

(* The code unit of the four digits at position p, -1 if there is none;    *)
(* the digits are looked at from left to right.                            *)
parse_utf16_hex(p) ==
  IF \/ mem[p] = 0 \/ mem[p + 1] = 0 \/ mem[p + 2] = 0 \/ mem[p + 3] = 0
     \/ \E k \in 0 .. 3 : hex_char_to_int(mem[p + k]) = -1
  THEN -1
  ELSE hex_char_to_int(mem[p]) * 4096 + hex_char_to_int(mem[p + 1]) * 256
         + hex_char_to_int(mem[p + 2]) * 16 + hex_char_to_int(mem[p + 3])

(* A continuation byte with the lowest six bits of x. *)
Cont(x) == 128 + (x % 64)

(* Mutant: the last code point of two bytes is taken to be 0x800. *)
EncodeUtf8_OffByOne(cp) ==
  CASE cp < 128 -> <<cp>>
    [] cp >= 128 /\ cp <= 2048 -> <<192 + (cp \div 64), Cont(cp)>>
    [] cp > 2048 /\ cp < 65536 -> <<224 + (cp \div 4096), Cont(cp \div 64), Cont(cp)>>
    [] OTHER -> <<240 + (cp \div 262144), Cont(cp \div 4096), Cont(cp \div 64), Cont(cp)>>

EncodeUtf8(cp) ==
  CASE cp < 128 -> <<cp>>
    [] cp >= 128 /\ cp < 2048 -> <<192 + (cp \div 64), Cont(cp)>>
    [] cp >= 2048 /\ cp < 65536 -> <<224 + (cp \div 4096), Cont(cp \div 64), Cont(cp)>>
    [] OTHER -> <<240 + (cp \div 262144), Cont(cp \div 4096), Cont(cp \div 64), Cont(cp)>>

IsLead(u) == u >= 55296 /\ u <= 56319     \* 0xD800 .. 0xDBFF
IsTrail(u) == u >= 56320 /\ u <= 57343    \* 0xDC00 .. 0xDFFF

Write(bytes, read) ==
  out' = out \o bytes /\ ptr' = ptr + read /\ UNCHANGED stringPc
Refuse == stringPc' = "failed" /\ UNCHANGED <<out, ptr>>

(* ptr is at the backslash, the digits begin two bytes behind it. *)
parse_utf16 ==
  LET cp == parse_utf16_hex(ptr + 2)
      paired == mem[ptr + 6] = Backslash /\ mem[ptr + 7] = LetterU
      trail == parse_utf16_hex(ptr + 8)
  IN \/ (cp = -1 \/ IsTrail(cp)) /\ Refuse
     \/ cp # -1 /\ ~IsLead(cp) /\ ~IsTrail(cp) /\ Write(EncodeUtf8(cp), 6)
     \/ /\ IsLead(cp) /\ paired /\ IsTrail(trail)
        /\ Write(EncodeUtf8((cp - 55296) * 1024 + (trail - 56320) + 65536), 12)
     \/ IsLead(cp) /\ ~(paired /\ IsTrail(trail)) /\ Refuse

(* The bytes behind a backslash that stand for one byte: " \ / b f n r t. *)
Unescaped ==
  [b \in {34, 92, 47, 98, 102, 110, 114, 116} |->
     CASE b = 98 -> 8 [] b = 102 -> 12 [] b = 110 -> 10 [] b = 114 -> 13 [] b = 116 -> 9
       [] OTHER -> b]

(* Mutant: the loop only stops at a NUL. *)
InsideString_Unbounded == mem[ptr] # 0

InsideString == mem[ptr] # 0 /\ ptr - 2 < end - 2

(* A turn of the loop of process_string(). *)
process_string ==
  /\ stringPc = "process" /\ InsideString
  /\ CASE mem[ptr] = Backslash /\ mem[ptr + 1] \in DOMAIN Unescaped ->
            Write(<<Unescaped[mem[ptr + 1]]>>, 2)
       [] mem[ptr] = Backslash /\ mem[ptr + 1] = LetterU -> parse_utf16
       [] mem[ptr] = Backslash /\ mem[ptr + 1] \notin DOMAIN Unescaped \cup {LetterU} -> Refuse
       [] mem[ptr] < 32 -> Refuse
       [] mem[ptr] >= 32 /\ mem[ptr] # Backslash -> Write(<<mem[ptr]>>, 1)
  /\ UNCHANGED <<src, mem, end>>

(* The NUL is written behind the bytes and the result is copied. *)
Finish ==
  /\ stringPc = "process" /\ ~InsideString
  /\ stringPc' = "done"
  /\ UNCHANGED <<src, mem, ptr, end, out>>

StringStopped == stringPc \in {"done", "failed"} /\ UNCHANGED stringVars

StringNext == FoundEnd \/ SkipCharacter \/ process_string \/ Finish \/ StringStopped

StringSpec == StringInit /\ [][StringNext]_stringVars

-----------------------------------------------------------------------------
(* UTF-8 as is_valid_utf8() reads it. *)

IS_CONT(b) == b \in 128 .. 191

num_bytes_in_utf8_sequence(c) ==
  CASE c \in {192, 193} \/ c > 244 \/ IS_CONT(c) -> 0
    [] c < 128 -> 1
    [] c \in 194 .. 223 -> 2
    [] c \in 224 .. 239 -> 3
    [] c \in 240 .. 244 -> 4

(* The bits of a code point that len bytes carry. *)
CodePoint(byte, len) ==
  LET Bits(k) == byte[k] % 64
  IN CASE len = 1 -> byte[0]
       [] len = 2 -> (byte[0] % 32) * 64 + Bits(1)
       [] len = 3 -> (byte[0] % 16) * 4096 + Bits(1) * 64 + Bits(2)
       [] len = 4 -> (byte[0] % 8) * 262144 + Bits(1) * 4096 + Bits(2) * 64 + Bits(3)

(* The code point that the first of four bytes begins, -1 if there is none. *)
verify_utf8_sequence(byte) ==
  LET len == num_bytes_in_utf8_sequence(byte[0])
      cp == CodePoint(byte, len)
  IN IF \/ len = 0
        \/ \E k \in 1 .. len - 1 : ~IS_CONT(byte[k])
        \/ cp < 128 /\ len > 1
        \/ cp < 2048 /\ len > 2
        \/ cp < 65536 /\ len > 3
        \/ cp > 1114111
        \/ IsLead(cp)
        \/ IsTrail(cp)
     THEN -1 ELSE cp

(* What is read from left to right: a value from each place, which is      *)
(* width places long; -1 where there is none, and no more behind it.       *)
Reading(value, width) ==
  LET from[i \in 1 .. Len(value) + 1] ==
        IF i > Len(value) THEN << >>
        ELSE IF value[i] = -1 THEN <<-1>> ELSE <<value[i]>> \o from[i + width[i]]
  IN from[1]

(* The bytes of s from position i on, with the NUL behind the last one. *)
Window(s, i) == [k \in 0 .. 3 |-> IF i + k <= Len(s) THEN s[i + k] ELSE 0]

(* The code points of s; -1 ends it where it is no UTF-8. *)
is_valid_utf8(s) ==
  Reading([i \in 1 .. Len(s) |-> verify_utf8_sequence(Window(s, i))],
          [i \in 1 .. Len(s) |-> num_bytes_in_utf8_sequence(s[i])])

(* A character that a piece writes as it is: well-formed UTF-8 without the *)
(* bytes that mean something in a string, or a control character, which    *)
(* has no meaning there.                                                   *)
ASSUME RawAssumption ==
  \A n \in 1 .. Len(Raw) :
    LET c == Raw[n]
    IN \/ /\ is_valid_utf8(c.bytes) = <<c.cp>> /\ c.cp # -1
          /\ \A k \in 1 .. Len(c.bytes) :
               /\ c.bytes[k] >= 32 /\ c.bytes[k] < 256
               /\ c.bytes[k] # Quote /\ c.bytes[k] # Backslash
       \/ c.cp = -1 /\ \E b \in 1 .. 31 : c.bytes = <<b>>

-----------------------------------------------------------------------------
(* Properties. *)

(* What the pieces denote: code points, with -1 for an error.  A lead unit *)
(* and the trail unit behind it are one code point.                        *)
IsUnit(p) == p.kind \in {"unit", "UNIT"}
Paired(s, i) == /\ IsUnit(s[i]) /\ IsLead(s[i].n) /\ i < Len(s)
                /\ IsUnit(s[i + 1]) /\ IsTrail(s[i + 1].n)

Denotes(s, i) ==
  LET p == s[i]
  IN IF p.kind = "raw" THEN Raw[p.n].cp
     ELSE IF p.kind = "esc" /\ p.n \in DOMAIN Unescaped THEN Unescaped[p.n]
     ELSE IF IsUnit(p) /\ ~IsLead(p.n) /\ ~IsTrail(p.n) THEN p.n
     ELSE IF Paired(s, i) THEN 65536 + (p.n - 55296) * 1024 + s[i + 1].n - 56320
     ELSE -1

MeaningOf(s) == Reading([i \in 1 .. Len(s) |-> Denotes(s, i)],
                        [i \in 1 .. Len(s) |-> IF Paired(s, i) THEN 2 ELSE 1])
Meaning == MeaningOf(src)

OfPieces == \A k \in 1 .. Len(src) : src[k].kind # "byte"

(* A string of pieces that is accepted is valid UTF-8 and has the code     *)
(* points its escapes, surrogate pairs and plain characters denote,        *)
(* whatever the number of bytes each one takes.                            *)
DecodesText ==
  OfPieces /\ stringPc = "done" => is_valid_utf8(out) = Meaning /\ \A k \in 1 .. Len(Meaning) : Meaning[k] # -1

(* A string of pieces is refused only if one of them has no meaning, or it *)
(* never ends.                                                             *)
RefusesOnlyErrors ==
  OfPieces /\ stringPc = "failed" => end = 0 \/ \E k \in 1 .. Len(Meaning) : Meaning[k] = -1

(* Whatever the bytes are, the search for the closing quote does not pass  *)
(* the NUL, not even behind a backslash.  The decoder stays inside its two buffers: it stops        *)
(* exactly at the quote that was found, though an escape moves it by up to *)
(* twelve bytes, and what it writes never gets longer than what it read,   *)
(* for which the output was allocated.                                     *)
StaysInBuffers ==
  /\ ptr <= Len(mem)
  /\ end # 0 => /\ ptr <= end /\ Len(out) <= ptr - 2
                /\ stringPc = "done" => ptr = end
=============================================================================
