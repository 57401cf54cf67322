-------------------------------- MODULE Shell --------------------------------
(***************************************************************************)
(* The shell at the terminal: main of shell.c, plumos_terminal_readline,   *)
(* plumos_system_run and plumos_parse_command of the user library with its *)
(* strtok, and what other programs print in between.                       *)
(*                                                                         *)
(* Every call of print and putchar is a step.  The keys are those of the   *)
(* shell's queue, in the order of module KeyQueue.  The frames of main and *)
(* plumos_system_run are the same at every turn, so scommand has the place *)
(* and, past the new command, the contents it had the last time.           *)
(***************************************************************************)
EXTENDS Terminal

CONSTANTS
  MaxLine,               \* sizeof(buf)
  ArgumentSize,      \* sizeof(argument) of struct command_argument
  MaxAllocations,    \* PLUMOS_MAX_PROGRAM_ALLOCATIONS
  Glyphs, Space,     \* the keys that are shown; the space is one of them
  Nul, Prompt,
  Others,            \* what other programs print
  LastRow,           \* bound: nothing is printed once this row is reached
  BackspaceAtLineStart   \* whether backspace is pressed in the first column

(* A line is shorter than the sheet it is read on. *)
ASSUME LineAssumption ==
  /\ MaxLine \in 2 .. Word * Width /\ ArgumentSize \in Nat \ {0} /\ MaxAllocations \in Nat

(* Keys that are shown are no control characters, and the prompt has none. *)
ASSUME CharactersAssumption ==
  /\ NewLine # Backspace /\ Nul \notin {Space, Backspace} /\ Space # Backspace
  /\ Glyphs \cap {NewLine, Backspace, Nul} = {}
  /\ Prompt \in Seq(Range(Prompt) \ {Backspace})
  /\ \A str \in Others : str \in Seq(Range(str))

(* No backspace is printed in the first column: kernel.c:50 does not move  *)
(* to the end of the row before.  The terminal is not asked where it is,   *)
(* so other programs print none.                                           *)
BackspacesFit == ~ BackspaceAtLineStart /\ \A str \in Others : Backspace \notin Range(str)

VARIABLES
  term,       \* the terminal
  pc,         \* where main is
  buf, index,     \* the line that is read, and the index of the next character
  scommand,   \* the copy of the line that is split
  sp,         \* strtok's place in it
  used,       \* entries the shell has used of its table of allocations
  ran,        \* the command given to the kernel: its words
  typed,      \* history: the line as its reader means it
  plain,      \* history: no backspace came on an empty line
  start,      \* history: where the line starts on the terminal
  alone,      \* history: nobody else printed since
  short       \* history: memory ran short in this command, in the one before

line == <<buf, index, typed, plain>>
parse == <<scommand, sp, used, ran, short>>
screen == <<term, start, alone>>
shell == <<line, parse, screen, pc>>

Null == -1     \* the null pointer; pointers are indexes of scommand

Position(t) == t.row * Width + t.col

-----------------------------------------------------------------------------
(* strtok with the space as the one delimiter                              *)

(* Fault: the place is kept at the end of the string. *)
PlaceKept(p) == p

(* Where strtok is once there are no more tokens. *)
PlaceAtEnd(p) == Null

(* str is 0 or null; it is looked at only if there is no place from an     *)
(* earlier call.  No token is the empty one. *)
strtok(s, str) ==
  LET from == IF s.sp = Null THEN str ELSE s.sp
      p == Min({x \in from .. MaxLine : s.cells[x] # Space})
      end == Min({x \in p .. MaxLine : s.cells[x] \in {Space, Nul}})
  IN  IF from = Null THEN [cells |-> s.cells, sp |-> Null, token |-> <<>>]
      ELSE IF s.cells[p] = Nul
      THEN [cells |-> s.cells, sp |-> PlaceAtEnd(p), token |-> <<>>]
      ELSE [cells |-> [s.cells EXCEPT ![end] = Nul],
            sp |-> IF s.cells[end] = Space THEN end + 1 ELSE end,
            token |-> [k \in 1 .. end - p |-> s.cells[p + k - 1]]]

(* strncpy: the characters before the null one, and it; the rest stays. *)
Copied(to, from) ==
  LET end == Min({x \in 0 .. MaxLine - 1 : from[x] = Nul})
  IN  [x \in 0 .. MaxLine |-> IF x <= end THEN from[x] ELSE to[x]]

Argument(token) == SubSeq(token, 1, IF Len(token) < ArgumentSize THEN Len(token)
                                    ELSE ArgumentSize - 1)

(* plumos_parse_command when `memory' allocations succeed: strtok is       *)
(* called until it gives no token, or there is no memory for the one it    *)
(* gave.  The list made so far is the command. *)
plumos_parse_command(command, memory) ==
  LET after[k \in 0 .. MaxLine] ==
        IF k = 0 THEN [cells |-> Copied(scommand, command), sp |-> sp,
                       words |-> <<>>, done |-> FALSE, short |-> FALSE]
        ELSE LET s == after[k - 1]
                 t == strtok([cells |-> s.cells, sp |-> s.sp], IF k = 1 THEN 0 ELSE Null)
                 next == [s EXCEPT !.cells = t.cells, !.sp = t.sp]
             IN  IF s.done THEN s
                 ELSE IF t.token = <<>> THEN [next EXCEPT !.done = TRUE]
                 ELSE IF k > memory THEN [next EXCEPT !.done = TRUE, !.short = TRUE]
                 ELSE [next EXCEPT !.words = Append(@, Argument(t.token))]
  IN  after[MaxLine]

-----------------------------------------------------------------------------
ShellInit ==
  /\ term = terminal_initialize
  /\ pc = "prompt"
  /\ buf = [x \in 0 .. MaxLine - 1 |-> Nul]
  /\ index = 0
  /\ scommand = [x \in 0 .. MaxLine |-> Nul]
  /\ sp = Null
  /\ used = 0
  /\ ran = <<>>
  /\ typed = <<>>
  /\ plain = TRUE
  /\ start = 0
  /\ alone = TRUE
  /\ short = <<FALSE, FALSE>>

(* print("> ") *)
PrintPrompt ==
  /\ pc = "prompt"
  /\ term' = print(term, Prompt)
  /\ start' = Position(term')
  /\ alone' = TRUE
  /\ index' = 0
  /\ pc' = "read"
  /\ UNCHANGED <<buf, typed, plain, parse>>

(* plumos_putchar of the key that was read. *)
Echo(key) ==
  /\ term' = terminal_writechar(term, key)
  /\ UNCHANGED <<start, alone, parse>>

ReadReturn ==
  /\ pc = "read"
  /\ buf' = [buf EXCEPT ![index] = Nul]
  /\ pc' = "newline"
  /\ UNCHANGED <<index, typed, plain, screen, parse>>

(* A key is stored, the backspace too if the line is empty; the line ends  *)
(* where the buffer does. *)
Store(key) ==
  LET full == index + 1 = MaxLine - 1
  IN  /\ buf' = IF full THEN [buf EXCEPT ![index] = key, ![index + 1] = Nul]
                ELSE [buf EXCEPT ![index] = key]
      /\ index' = index + 1
      /\ pc' = IF full THEN "newline" ELSE "read"

ReadGlyph(key) ==
  /\ pc = "read"
  /\ Echo(key)
  /\ Store(key)
  /\ typed' = Append(typed, key)
  /\ UNCHANGED plain

(* Fault: the loop's own step is forgotten. *)
StepBackTwice(x) == IF x >= 2 THEN x - 2 ELSE 0

StepBack(x) == x - 1

ReadBackspace ==
  /\ pc = "read"
  /\ term.col = 0 => BackspaceAtLineStart
  /\ Echo(Backspace)
  /\ \/ /\ index >= 1
        /\ buf' = [buf EXCEPT ![index - 1] = Nul]
        /\ index' = StepBack(index)
        /\ typed' = Front(typed)
        /\ UNCHANGED <<plain, pc>>
     \/ /\ index = 0
        /\ Store(Backspace)
        /\ plain' = FALSE
        /\ UNCHANGED typed

(* print("\n") before the command is run. *)
EndLine ==
  /\ pc = "newline"
  /\ term' = print(term, <<NewLine>>)
  /\ pc' = "run"
  /\ UNCHANGED <<start, alone, line, parse>>

(* plumos_system_run: the line is parsed and, if there is a command, the   *)
(* kernel is called.  Each allocation may fail for want of memory, and     *)
(* fails once the table is full; nothing is ever freed. *)
Run ==
  /\ pc = "run"
  /\ \E memory \in 0 .. MaxAllocations - used :
       LET p == plumos_parse_command(buf, memory)
       IN  /\ scommand' = p.cells
           /\ sp' = p.sp
           /\ used' = used + Len(p.words)
           /\ ran' = p.words
           /\ short' = <<p.short, short[1]>>
  /\ pc' = "ran"
  /\ UNCHANGED <<line, screen>>

(* print("\n") after it; the history of this line ends. *)
EndCommand ==
  /\ pc = "ran"
  /\ term' = print(term, <<NewLine>>)
  /\ pc' = "prompt"
  /\ ran' = <<>>
  /\ typed' = <<>>
  /\ start' = 0
  /\ alone' = TRUE
  /\ plain' = TRUE
  /\ UNCHANGED <<buf, index, scommand, sp, used, short>>

(* Another program prints, in its own slice of time; once in a turn of the *)
(* shell, which is a bound: str may be all it prints. *)
OtherPrints(str) ==
  /\ alone
  /\ term' = print(term, str)
  /\ alone' = FALSE
  /\ UNCHANGED <<start, line, parse, pc>>

ShellNext ==
  \/ Run
  \/ /\ term.row < LastRow
     /\ \/ PrintPrompt
        \/ ReadReturn
        \/ \E key \in Glyphs : ReadGlyph(key)
        \/ ReadBackspace
        \/ EndLine
        \/ EndCommand
        \/ \E str \in Others : OtherPrints(str)

ShellSpec == ShellInit /\ [][ShellNext]_shell
-----------------------------------------------------------------------------
(* The words of a line: what stands between its spaces, in this order.     *)
Starts(s) == {k \in DOMAIN s : s[k] # Space /\ (k = 1 \/ s[k - 1] = Space)}

WordAt(s, k) ==
  LET end == Min({x \in k .. Len(s) + 1 : x = Len(s) + 1 \/ s[x] = Space})
  IN  SubSeq(s, k, end - 1)

AreWords(words, s) ==
  \E at \in [DOMAIN words -> Starts(s)] :
    /\ Range(at) = Starts(s)
    /\ \A j, k \in DOMAIN words : j < k => at[j] < at[k]
    /\ \A k \in DOMAIN words : words[k] = Argument(WordAt(s, at[k]))

Places == Word * Width

Strings == {<<key>> : key \in Glyphs \cup {NewLine, Backspace}} \cup {Prompt} \cup Others

P == INSTANCE Page WITH sheet <- term.video_mem, cursor <- Position(term)

(* The row, the column and video memory are a sheet with a cursor, however *)
(* the prints of the shell and of other programs alternate; a backspace in *)
(* the first column excepted (kernel.c:42-106).                            *)
Prints == P!Spec

(* While nobody else prints, the screen shows the line as it will be run,  *)
(* with the cursor after it, over as many rows as it takes; what was taken *)
(* back with backspace is gone from both (plumos.c:70-110).  A correction  *)
(* across the start of a row is outside this: there the code goes wrong    *)
(* (kernel.c:49-60), and BackspacesFit leaves it out.                      *)
ShowsLine ==
  pc = "read" /\ alone /\ plain =>
    /\ Position(term) = (start + index) % Places
    /\ \A k \in 0 .. index - 1 :
         LET x == (start + k) % Places
         IN  x < Visible => term.video_mem[x] = buf[k]

(* The command that is run is the line as it was typed and corrected,      *)
(* split at its spaces, unless memory ran short while it was parsed or     *)
(* while the one before it was (plumos.c:9-58, string.c:115-177): strtok's *)
(* place outlives a parse that stops early and spoils the next one, but no *)
(* later one.                                                              *)
RunsWhatWasTyped ==
  pc = "ran" /\ plain /\ short = <<FALSE, FALSE>> =>
    AreWords(ran, typed)
==============================================================================
