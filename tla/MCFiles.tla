------------------------------- MODULE MCFiles -------------------------------
(***************************************************************************)
(* Files on volumes of a few clusters of two sectors of two bytes.         *)
(***************************************************************************)
EXTENDS Files

Padded(text, size) == text \o [k \in 1 .. size - Len(text) |-> " "]

(* Names are of up to two characters, extensions of one; the disk has them *)
(* in capitals.                                                            *)
Small == [c \in {"A", "B", "C", "D", "T"} |->
            CASE c = "A" -> "a" [] c = "B" -> "b" [] c = "C" -> "c" [] c = "D" -> "d" [] c = "T" -> "t"]

LowerCase ==
  [c \in DOMAIN Small \cup {Small[x] : x \in DOMAIN Small} \cup {"0", "1", ":", "/", ".", " ", "x", "~"} |->
     IF c \in DOMAIN Small THEN Small[c] ELSE c]

Named83(name, ext, kind, first, size) ==
  [filename |-> Padded(name, 2), ext |-> Padded(ext, 1), kind |-> kind, first |-> first, size |-> size,
   called |-> InSmall(name \o IF ext = <<>> THEN <<>> ELSE <<".">> \o ext), dir |-> ""]

File(name, first, size) == Named83(<<name>>, <<>>, "file", first, size)

Directory(name, first) == [Named83(<<name>>, <<>>, "directory", first, 0) EXCEPT !.dir = name]

Deleted == [Named83(<<"~", "D">>, <<>>, "deleted", 0, 0) EXCEPT !.called = <<>>]

(* The mark Linux puts at the end of a chain, 0xFFFF. *)
End == 65535

(* A file of three clusters that follow one another, one in a directory.   *)
Contiguous ==
  [fat |-> [c \in 2 .. 7 |-> IF c \in {2, 3} THEN c + 1 ELSE End],
   dirs |-> [root |-> <<File("A", 2, 10), Directory("D", 5), Named83(<<"C", "A">>, <<"T">>, "file", 6, 3)>>,
             D |-> <<File("B", 7, 4)>>]]

(* The same file with its clusters out of order and others between.        *)
Fragmented ==
  [fat |-> [c \in 2 .. 7 |-> CASE c = 6 -> 2 [] c = 2 -> 5 [] OTHER -> End],
   dirs |-> [root |-> <<Directory("D", 3), File("A", 6, 10)>>,
             D |-> <<File("B", 4, 2), File("C", 7, 0)>>]]

(* A directory with a deleted item before its last one.                    *)
WithDeleted ==
  [fat |-> [c \in 2 .. 7 |-> IF c = 4 THEN 3 ELSE End],
   dirs |-> [root |-> <<File("A", 4, 8), Deleted, Directory("D", 2), File("C", 5, 4)>>,
             D |-> <<Deleted, File("B", 6, 1)>>]]

AllVolumes == {Contiguous, Fragmented, WithDeleted}

(* The text of a path of names. *)
Text(names) ==
  LET joined[k \in 0 .. Len(names)] ==
        IF k = 0 THEN <<"0", ":">> ELSE joined[k - 1] \o <<"/">> \o names[k]
  IN  joined[Len(names)]

Standing(names) == [text |-> Text(names), names |-> [k \in DOMAIN names |-> InSmall(names[k])]]

(* Paths of names, and texts that name nothing: of another drive, without  *)
(* a drive, without a part.                                                *)
AllPaths ==
  {Standing(names) : names \in
     {<<<<"a">>>>, <<<<"C">>>>, <<<<"c", "A", ".", "t">>>>, <<<<"c", "a">>>>, <<<<"d">>>>, <<<<"D">>, <<"b">>>>,
      <<<<"a">>, <<"b">>>>, <<<<"x">>>>, <<<<"x">>, <<"b">>>>, <<<<"d">>, <<"x">>, <<"b">>>>}}
  \cup {[text |-> text, names |-> <<>>] : text \in
     {<<"1", ":", "/", "a">>, <<"0", "/", "a">>, <<"a">>, <<"0", ":", "/">>}}
  \cup {[text |-> <<"0", ":", "/", "d", "/">>, names |-> <<<<"d">>>>]}

(* The hypothesis under which every load is proved to be whole.            *)
ASSUME DisksLinked == ChainsLinked

(* The hypotheses under which paths are proved to lead to what they name.  *)
ASSUME NamesAgree == NamesApart /\ MarksApart /\ NamesStand
==============================================================================
