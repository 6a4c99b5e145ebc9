---------------------------- MODULE SplitCommand ----------------------------
(***************************************************************************)
(* split_command() of main.c: the target command is cut at white space     *)
(* into the arguments of execve().  A command is a sequence of characters, *)
(* Blank or not, the terminating NUL left out; an argument is the pair of  *)
(* its offset and its length.  Any allocation may fail.                    *)
(***************************************************************************)
EXTENDS VectorOps, FiniteSets

CONSTANTS Blank, MAX_COMMAND_LEN

ASSUME BlankAssumption == Blank # "NUL"
ASSUME NullIsNoArgument == Null \notin Nat \X Nat /\ Null \notin Seq(Nat \X Nat)

VARIABLES
  cmd,
  start, end,   \* the two pointers, as offsets into cmd
  args,         \* the Vector of arguments
  argv,         \* the result
  splitPc,      \* "setup", "scan", "copy", "done", "exit"; "freed" by main()
  splitHeap     \* the number of blocks in use

splitVars == <<cmd, start, end, args, argv, splitPc, splitHeap>>

(* The character at an offset. *)
Char(k) == IF k < Len(cmd) THEN cmd[k + 1] ELSE "NUL"
isspace(k) == Char(k) = Blank

(* The command is given. *)
SplitInit ==
  /\ start = 0 /\ end = 0
  /\ args = Uninitialized /\ argv = << >>
  /\ splitPc = "setup" /\ splitHeap = 0

(* exit(EXIT_FAILURE) *)
Exit == splitPc' = "exit" /\ UNCHANGED <<cmd, start, end, args, argv, splitHeap>>

SetupArgs ==
  /\ splitPc = "setup"
  /\ \/ Exit
     \/ /\ Len(cmd) <= MAX_COMMAND_LEN
        /\ args' = vector_setup(4, TRUE).vec
        /\ splitHeap' = splitHeap + 1
        /\ splitPc' = "scan"
        /\ UNCHANGED <<cmd, start, end, argv>>

(* Mutant: the NUL is scanned too. *)
Scanning_PastNul == splitPc = "scan" /\ end <= Len(cmd)

Scanning == splitPc = "scan" /\ end < Len(cmd)

(* Mutant: the last argument needs a blank behind it. *)
AtLastOfWord_NoNul == ~isspace(end) /\ isspace(end + 1)

AtLastOfWord == ~isspace(end) /\ (isspace(end + 1) \/ Char(end + 1) = "NUL")

(* The argument ends here: it is copied and pushed. *)
TakeWord ==
  /\ Scanning /\ AtLastOfWord
  /\ \/ Exit
     \/ \E ok \in BOOLEAN :
          LET p == vector_push_back(args, <<start, end - start + 1>>, ok) IN
          /\ args' = p.vec
          /\ splitHeap' = splitHeap + 1 + p.blocks
          /\ end' = end + 1
          /\ splitPc' = IF p.ret = "ERROR" THEN "exit" ELSE "scan"
          /\ UNCHANGED <<cmd, start, argv>>

(* The last blank before an argument, or before the NUL. *)
SkipBlank ==
  /\ Scanning /\ isspace(end) /\ ~isspace(end + 1)
  /\ end' = end + 1 /\ start' = end + 1
  /\ UNCHANGED <<cmd, args, argv, splitPc, splitHeap>>

(* Mutant: the pointer is not moved. *)
Advance_Stuck ==
  /\ Scanning /\ ~AtLastOfWord /\ ~(isspace(end) /\ ~isspace(end + 1))
  /\ UNCHANGED splitVars

Advance ==
  /\ Scanning /\ ~AtLastOfWord /\ ~(isspace(end) /\ ~isspace(end + 1))
  /\ end' = end + 1
  /\ UNCHANGED <<cmd, start, args, argv, splitPc, splitHeap>>

ScanDone ==
  /\ splitPc = "scan" /\ ~Scanning
  /\ \/ Exit                                            \* malloc()
     \/ /\ args.size > 0
        /\ splitPc' = "copy"
        /\ splitHeap' = splitHeap + 1
        /\ UNCHANGED <<cmd, start, end, args, argv>>

(* The vector's block is released and the arguments live on in argv. *)
CopyArgs ==
  /\ splitPc = "copy"
  /\ argv' = Append([i \in 1 .. args.size |-> vector_get(args, i - 1)], Null)
  /\ args' = vector_destroy(args).vec
  /\ splitHeap' = splitHeap + vector_destroy(args).blocks
  /\ splitPc' = "done"
  /\ UNCHANGED <<cmd, start, end>>

SplitNext == SetupArgs \/ TakeWord \/ SkipBlank \/ Advance \/ ScanDone \/ CopyArgs

-----------------------------------------------------------------------------
(* Properties. *)

(* The words of a command: its maximal runs of characters that are no      *)
(* blanks, in order.                                                       *)
IsWord(w) ==
  LET first == w[1]  last == w[1] + w[2] - 1
  IN /\ \A k \in first .. last : ~isspace(k)
     /\ first = 0 \/ isspace(first - 1)
     /\ last = Len(cmd) - 1 \/ isspace(last + 1)

WordSet == {w \in (0 .. Len(cmd) - 1) \X (1 .. Len(cmd)) : w[1] + w[2] <= Len(cmd) /\ IsWord(w)}

(* What execve() is given is exactly the words of the command, in order,   *)
(* and a NULL pointer; a command without a word never gets there.          *)
ArgvIsWords ==
  splitPc = "done" =>
    /\ argv[Len(argv)] = Null
    /\ {argv[i] : i \in 1 .. Len(argv) - 1} = WordSet
    /\ Len(argv) - 1 = Cardinality(WordSet) /\ Len(argv) > 1
    /\ \A i, j \in 1 .. Len(argv) - 1 : i < j => argv[i][1] < argv[j][1]

(* The pointers stay inside the command, whose NUL is the last character   *)
(* that is looked at, and every argument lies inside it; the argument      *)
(* vector is never written past its block.                                 *)
InsideCommand ==
  /\ start <= Len(cmd) /\ end <= Len(cmd)
  /\ args.data # Null => /\ args.size <= args.capacity
                         /\ \A i \in 1 .. Len(args.data) :
                              args.data[i][1] + args.data[i][2] <= Len(cmd)
=============================================================================
