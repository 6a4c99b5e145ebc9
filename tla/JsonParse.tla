----------------------------- MODULE JsonParse -----------------------------
(***************************************************************************)
(* The recursive descent of parson.c: json_parse_string() down to the      *)
(* scalars, as a machine whose stack holds the calls of                    *)
(* parse_object_value() and parse_array_value() that have not returned.    *)
(* White space is skipped before every token, so a text is a sequence of   *)
(* tokens; it is handed out one at a time, so that only what the parser    *)
(* looks at is ever chosen.  A string in Strings is one without an         *)
(* embedded NUL, "z" one with it.  What begins with a minus or a digit is  *)
(* told apart by what strtod() and is_decimal() make of it:                *)
(*   "n"      a number that is read; also true, false and null;            *)
(*   "lax"    one that is read though it is not JSON, as 1. and -.5;       *)
(*   "unread" one of JSON that is not read, as 0e1 and 1e999;              *)
(*   "minus"  a minus that strtod() makes nothing of, as in -x.            *)
(* "bad" is anything else, as 01, -inf, or a string that is malformed.     *)
(*                                                                         *)
(* The heap is a number of blocks.  A frame is [kind, blocks, key, keys,   *)
(* count]: the blocks json_value_free() of its output_value releases,      *)
(* new_key while it is held (or NoKey), and the members so far.            *)
(***************************************************************************)
EXTENDS Integers, Sequences, FiniteSets, Sums

CONSTANTS
  Strings,
  NoKey,
  MAX_NESTING,
  MaxLen         \* the text ends after this many tokens

ASSUME JsonAssumption ==
  /\ MAX_NESTING \in Nat /\ MaxLen \in Nat /\ NoKey \notin Strings
  /\ Strings \cap {"{", "}", "[", "]", ",", ":", "n", "lax", "unread", "minus", "z", "bad", "NUL"}
       = {}
  /\ NoKey # "z"

VARIABLES
  text,    \* the tokens that were consumed
  tok,     \* the next one
  pc,      \* what is done next
  stack,   \* the frames, innermost first
  value,   \* the blocks of the value that was returned last, 0 for none
  why,     \* why NULL is returned
  heap

jsonVars == <<text, tok, pc, stack, value, why, heap>>

StringTokens == Strings \cup {"z"}
NumberTokens == {"n", "lax", "unread", "minus"}
Tokens == StringTokens \cup NumberTokens \cup {"{", "}", "[", "]", ",", ":", "bad"}

Top == Head(stack)
InObject == Top.kind = "object"
Closer(kind) == IF kind = "object" THEN "}" ELSE "]"

SKIP_CHAR ==
  /\ text' = Append(text, tok)
  /\ tok' \in IF Len(text') < MaxLen THEN Tokens \cup {"NUL"} ELSE {"NUL"}
Look == UNCHANGED <<text, tok>>

JsonInit ==
  /\ text = << >> /\ tok \in Tokens \cup {"NUL"}
  /\ pc = "value" /\ stack = << >>
  /\ value = 0 /\ why = "" /\ heap = 0

-----------------------------------------------------------------------------

(* A value cannot be parsed: NULL goes to the call on top of the stack,    *)
(* which has changed nothing yet.                                          *)
ReturnNull(reason) ==
  /\ pc' = "null" /\ why' = reason
  /\ Look /\ UNCHANGED <<stack, value, heap>>

(* The call on top of the stack releases so many blocks and returns NULL.  *)
(* json_value_free(output_value) releases Top.blocks of them.              *)
GiveUp(reason, freed) ==
  /\ pc' = "null" /\ why' = reason
  /\ heap' = heap - freed /\ value' = 0
  /\ stack' = Tail(stack)
  /\ Look

(* NULL for the value of a member: each kind of call has a return of its   *)
(* own for it.                                                             *)
NullMember ==
  /\ pc = "null" /\ stack # << >>
  /\ \/ InObject /\ GiveUp(why, 1 + Top.blocks)
     \/ ~InObject /\ GiveUp(why, Top.blocks)

NullRoot ==
  /\ pc = "null" /\ stack = << >>
  /\ pc' = "failed"
  /\ Look /\ UNCHANGED <<stack, value, why, heap>>

(* json_value_init_object(), json_value_init_array(): two blocks each. *)
NewFrame(kind) == [kind |-> kind, blocks |-> 2, key |-> NoKey, keys |-> {}, count |-> 0]

OpenContainer(kind) ==
  \/ /\ SKIP_CHAR
     /\ stack' = <<NewFrame(kind)>> \o stack
     /\ heap' = heap + 2 /\ pc' = "opened"
     /\ UNCHANGED <<value, why>>
  \/ ReturnNull("memory")

(* A scalar of n blocks; a string is a value and its characters. *)
Scalar(n) ==
  \/ /\ SKIP_CHAR
     /\ value' = n /\ heap' = heap + n /\ pc' = "returned"
     /\ UNCHANGED <<stack, why>>
  \/ ReturnNull("memory")

(* What strtod() reads is checked by is_decimal(), which refuses a zero    *)
(* with an exponent and asks for no digits; if it reads nothing the number *)
(* is 0 and the text stays where it is.                                    *)
parse_number_value ==
  \/ tok \in {"n", "lax"} /\ Scalar(1)
  \/ tok = "unread" /\ ReturnNull("number")
  \/ /\ tok = "minus"
     /\ \/ /\ value' = 1 /\ heap' = heap + 1 /\ pc' = "returned"
           /\ Look /\ UNCHANGED <<stack, why>>
        \/ ReturnNull("memory")

(* Mutant: the limit is compared with the wrong operator. *)
TooDeep_OffByOne == Len(stack) > MAX_NESTING + 1

TooDeep == Len(stack) > MAX_NESTING

parse_value ==
  /\ pc = "value"
  /\ IF TooDeep THEN ReturnNull("nesting")
     ELSE CASE tok = "{" -> OpenContainer("object")
            [] tok = "[" -> OpenContainer("array")
            [] tok \in StringTokens -> Scalar(2)
            [] tok \in NumberTokens -> parse_number_value
            [] OTHER -> ReturnNull("syntax")

(* The value is complete: it goes to the caller. *)
ReturnValue ==
  /\ SKIP_CHAR
  /\ value' = Top.blocks /\ stack' = Tail(stack) /\ pc' = "returned"
  /\ UNCHANGED <<why, heap>>

(* Where the loop goes: to its next element, if there is more text. *)
NextElement ==
  /\ pc' = IF tok = "NUL" THEN "close" ELSE IF InObject THEN "key" ELSE "value"
  /\ Look /\ UNCHANGED <<stack, value, why, heap>>

AfterOpen ==
  /\ pc = "opened"
  /\ IF tok = Closer(Top.kind) THEN ReturnValue ELSE NextElement

(* get_quoted_string(). *)
ParseKey ==
  /\ pc = "key"
  /\ \/ /\ tok \in Strings
        /\ SKIP_CHAR
        /\ stack' = [stack EXCEPT ![1].key = tok]
        /\ heap' = heap + 1 /\ pc' = "colon"
        /\ UNCHANGED <<value, why>>
     \/ /\ tok = "z"
        /\ stack' = [stack EXCEPT ![1].key = tok]
        /\ heap' = heap + 1 /\ pc' = "short"
        /\ Look /\ UNCHANGED <<value, why>>
     \/ tok \in StringTokens /\ GiveUp("memory", Top.blocks)
     \/ tok \notin StringTokens /\ GiveUp("syntax", Top.blocks)

(* A key that is shorter than its string, for a NUL in it, is refused. *)
RefuseKey == pc = "short" /\ GiveUp("syntax", 1 + Top.blocks)

(* Mutant: new_key is forgotten where there is no colon. *)
ParseColon_KeepsKey ==
  /\ pc = "colon"
  /\ IF tok = ":"
     THEN SKIP_CHAR /\ pc' = "value" /\ UNCHANGED <<stack, value, why, heap>>
     ELSE GiveUp("syntax", Top.blocks)

ParseColon ==
  /\ pc = "colon"
  /\ IF tok = ":"
     THEN SKIP_CHAR /\ pc' = "value" /\ UNCHANGED <<stack, value, why, heap>>
     ELSE GiveUp("syntax", 1 + Top.blocks)

(* The blocks of the arrays of a container that gets its first member. *)
Arrays == IF Top.count > 0 THEN 0 ELSE IF InObject THEN 5 ELSE 1

(* Mutant: a second member of the same name is taken as well. *)
Duplicate_Ignored == FALSE

Duplicate == InObject /\ Top.key \in Top.keys

(* json_object_add() or json_array_add(): the value, and its key, become   *)
(* the container's; if the name is taken, or the container is full and     *)
(* cannot grow, the caller releases all three.                             *)
AddMember ==
  /\ pc = "returned" /\ stack # << >>
  /\ \/ /\ ~Duplicate
        /\ stack' = [stack EXCEPT ![1] =
             [kind |-> Top.kind, key |-> NoKey, count |-> Top.count + 1,
              blocks |-> Top.blocks + value + Arrays + (IF InObject THEN 1 ELSE 0),
              keys |-> IF InObject THEN Top.keys \cup {Top.key} ELSE Top.keys]]
        /\ heap' = heap + Arrays /\ value' = 0 /\ pc' = "after"
        /\ Look /\ UNCHANGED why
     \/ InObject /\ GiveUp(IF Duplicate THEN "duplicate" ELSE "memory", 1 + value + Top.blocks)
     \/ ~InObject /\ GiveUp("memory", value + Top.blocks)

AfterMember ==
  /\ pc = "after"
  /\ IF tok = ","
     THEN SKIP_CHAR /\ pc' = "comma" /\ UNCHANGED <<stack, value, why, heap>>
     ELSE pc' = "close" /\ Look /\ UNCHANGED <<stack, value, why, heap>>

(* Mutant: the comma asks for another member. *)
AfterComma_Strict == pc = "comma" /\ NextElement

(* A comma may be followed by the closing bracket. *)
AfterComma ==
  /\ pc = "comma"
  /\ IF tok = Closer(Top.kind)
     THEN pc' = "close" /\ Look /\ UNCHANGED <<stack, value, why, heap>>
     ELSE NextElement

(* An array is trimmed to its size, which may fail. *)
CloseContainer ==
  /\ pc = "close"
  /\ \/ tok = Closer(Top.kind) /\ ReturnValue
     \/ tok = Closer(Top.kind) /\ ~InObject /\ GiveUp("memory", Top.blocks)
     \/ tok # Closer(Top.kind) /\ GiveUp("syntax", Top.blocks)

(* The root is complete; what follows it is not looked at. *)
ReturnRoot ==
  /\ pc = "returned" /\ stack = << >>
  /\ pc' = "done"
  /\ Look /\ UNCHANGED <<stack, value, why, heap>>

JsonStopped == pc \in {"done", "failed"} /\ UNCHANGED jsonVars

JsonNext ==
  \/ parse_value \/ AfterOpen \/ ParseKey \/ RefuseKey \/ ParseColon \/ AddMember \/ AfterMember
  \/ AfterComma \/ CloseContainer \/ ReturnRoot \/ NullMember \/ NullRoot \/ JsonStopped

JsonSpec == JsonInit /\ [][JsonNext]_jsonVars

-----------------------------------------------------------------------------
(* The language, as a grammar and independently of the parser.  A comma    *)
(* behind the last member is allowed, and a number that is lax.            *)

Scalars == StringTokens \cup {"n", "lax"}
Opener(kind) == IF kind = "object" THEN "{" ELSE "["

(* The number of brackets that are open before position k, from i on. *)
DepthIn(t, i, k) ==
  Cardinality({m \in i .. k - 1 : t[m] \in {"{", "["}})
    - Cardinality({m \in i .. k - 1 : t[m] \in {"}", "]"}})

(* The keys of the container that begins at i, up to position j. *)
KeysIn(t, i, j) == {m \in i + 1 .. j - 1 : t[m + 1] = ":" /\ DepthIn(t, i, m) = 1}

Distinct(t, places) == \A m, o \in places : t[m] = t[o] => m = o

(* Where the values begin that end at j, and the members of an object or   *)
(* an array, with commas between them; starts holds it for the places      *)
(* before j.                                                               *)
StartsAt(starts, t, j) ==
  LET Containers(kind) ==
        {i \in 1 .. j - 1 :
           /\ t[i] = Opener(kind) /\ t[j] = Closer(kind)
           /\ \/ i = j - 1
              \/ i + 1 \in starts[j - 1][kind]
              \/ t[j - 1] = "," /\ i + 1 \in starts[j - 2][kind]
           /\ kind = "object" => Distinct(t, KeysIn(t, i, j - 1))}
      values == {i \in {j} : t[i] \in Scalars} \cup Containers("object") \cup Containers("array")
      Members(kind) ==
        IF kind = "array" THEN values
        ELSE {i \in 1 .. j - 2 : t[i] \in Strings /\ t[i + 1] = ":" /\ i + 2 \in values}
      Lists(kind) ==
        Members(kind)
          \cup UNION {starts[c - 1][kind] :
                        c \in {c \in 2 .. j - 1 : t[c] = "," /\ c + 1 \in Members(kind)}}
  IN [value |-> values, object |-> Lists("object"), array |-> Lists("array")]

Starts(t) == LET starts[j \in 1 .. Len(t)] == StartsAt(starts, t, j) IN starts

IsJson(t) == Len(t) > 0 /\ 1 \in Starts(t)[Len(t)].value

(* The brackets that are open at the end of a prefix, and the ones that    *)
(* close them, the innermost first.                                        *)
Unclosed(t) ==
  {k \in 1 .. Len(t) : /\ t[k] \in {"{", "["}
                       /\ \A m \in k + 1 .. Len(t) + 1 : DepthIn(t, k, m) >= 1}
Missing(t) ==
  LET Nth(n) == CHOOSE k \in Unclosed(t) : Cardinality({m \in Unclosed(t) : m >= k}) = n
  IN [n \in 1 .. Cardinality(Unclosed(t)) |-> IF t[Nth(n)] = "{" THEN "}" ELSE "]"]

(* A prefix of some value: one member at most is unfinished. *)
Continues(t) ==
  \E more \in {<< >>, <<"n">>, <<":", "n">>} : IsJson(t \o more \o Missing(t))

(* Some place in a prefix is nested deeper than n. *)
DeeperThan(t, n) == \E k \in 1 .. Len(t) + 1 : DepthIn(t, 1, k) > n

-----------------------------------------------------------------------------
(* Properties. *)

(* What belongs to a call that has not returned: its output value with all *)
(* that was added to it, and the key for which it has no value yet.        *)
Owned(frame) == frame.blocks + (IF frame.key = NoKey THEN 0 ELSE 1)
Held == Total([k \in 1 .. Len(stack) |-> Owned(stack[k])], Len(stack))

(* Every block belongs to the value that was just returned or to a call    *)
(* that has not returned, whichever of its error returns a call takes; so  *)
(* NULL leaves nothing behind, and the tree that is returned owns all.     *)
TreeOwnsHeap ==
  /\ heap = value + Held
  /\ pc = "failed" => heap = 0

(* What json_parse_string() consumes and accepts is one value whose        *)
(* objects have distinct keys: of JSON, but for a comma behind the last    *)
(* member and lax numbers.  Or it is nothing at all, at a minus that       *)
(* begins no number.                                                       *)
AcceptsOnlyJson ==
  pc = "done" => IsJson(text) \/ (text = << >> /\ tok = "minus")

(* A syntax error is only reported where no value goes on with the token;  *)
(* the other reasons are a number that is not read, a duplicate key, the   *)
(* nesting and the memory.                                                 *)
RejectsOnlyErrors ==
  pc = "failed" /\ why = "syntax" /\ tok # "NUL" => ~Continues(Append(text, tok))

(* MAX_NESTING is what decides: a text that is accepted nests one level    *)
(* deeper at most, and only a text that nests deeper than MAX_NESTING is   *)
(* refused for it.                                                         *)
NestingLimit ==
  /\ pc = "done" => ~DeeperThan(text, MAX_NESTING + 1)
  /\ pc = "failed" /\ why = "nesting" => DeeperThan(text, MAX_NESTING)
=============================================================================
