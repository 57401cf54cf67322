-------------------------------- MODULE Path ---------------------------------
(***************************************************************************)
(* The names of files: what fs/pparser.c makes of a path, and how          *)
(* fs/fat/fat16.c compares a part of it with the name and the extension a  *)
(* directory holds.  A text is a sequence of characters.                   *)
(***************************************************************************)
EXTENDS Integers, FiniteSetsExt, Sequences

CONSTANTS
  MaxPath,      \* PLUMOS_MAX_PATH
  Digits,
  Lower         \* for each character, tolower of it

ASSUME MaxPathAssumption == MaxPath \in Nat

(* The parser's null pointer. *)
NoPath == [drive |-> "none", parts |-> <<>>]

pathparser_path_valid_format(path) ==
  Len(path) >= 3 /\ path[1] \in Digits /\ path[2] = ":" /\ path[3] = "/"

(* Fault: the slash stays. *)
StartAtSlash(end) == end

StartAfterSlash(end) == end + 1

(* The parts up to the first that is empty: a slash at the end ends the    *)
(* path, and so does one that follows another. *)
pathparser_parse(path) ==
  LET End(k) == Min({j \in k .. Len(path) + 1 : j = Len(path) + 1 \/ path[j] = "/"})
      from[k \in 4 .. Len(path) + 2] ==
        IF k > Len(path) \/ End(k) = k THEN <<>>
        ELSE <<SubSeq(path, k, End(k) - 1)>> \o from[StartAfterSlash(End(k))]
  IN  IF Len(path) > MaxPath \/ ~ pathparser_path_valid_format(path) THEN NoPath
      ELSE [drive |-> path[1], parts |-> from[4]]

(* The characters before the first space. *)
fat16_to_proper_string(in) ==
  SubSeq(in, 1, Min({k \in 0 .. Len(in) : k = Len(in) \/ in[k + 1] = " "}))

fat16_get_full_relative_filename(item) ==
  fat16_to_proper_string(item.filename)
    \o IF item.ext[1] = " " THEN <<>> ELSE <<".">> \o fat16_to_proper_string(item.ext)

(* istrncmp finds no difference. *)
SameName(name, part) ==
  Len(name) = Len(part) /\ \A k \in DOMAIN name : Lower[name[k]] = Lower[part[k]]
==============================================================================
