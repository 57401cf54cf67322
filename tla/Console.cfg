SPECIFICATION ShellSpec
CONSTANTS
  Width = 3
  Height = 2
  Word = 7
  NewLine = "newline"
  Backspace = "backspace"
  Blank = " "
  MaxLine = 4
  ArgumentSize = 3
  MaxAllocations = 3
  Glyphs = {"a", " "}
  Space = " "
  Nul = "nul"
  Prompt <- PromptOfShell
  Others <- PrintedByOthers
  LastRow = 6
  BackspaceAtLineStart = FALSE
CHECK_DEADLOCK FALSE
INVARIANTS
  ShowsLine
  RunsWhatWasTyped
PROPERTIES
  Prints
