-------------------------------- MODULE Files --------------------------------
(***************************************************************************)
(* The virtual file system (fs/file.c) on a FAT16 volume: the table of     *)
(* file descriptors, and what its callers in the kernel do with it.  The   *)
(* program loader opens, measures, reads and closes a file in one step;    *)
(* other kernel code may keep files open.                                  *)
(***************************************************************************)
EXTENDS Fat16

CONSTANTS
  MaxDescriptors,   \* PLUMOS_MAX_FILE_DESCRIPTORS
  Volumes,          \* the disks the kernel may be booted with
  Paths,            \* the paths asked for: the text, and the names it stands for
  Offsets,          \* offsets seeked and sizes read
  MaxPos            \* a bound on the position SEEK_CUR reaches

VARIABLES
  volume,   \* the disk: its allocation table and its directories
  table,    \* file_descriptors: for each slot the item and the position
  last      \* the result of the last call

vars == <<volume, table, last>>

ASSUME DescriptorsAssumption == MaxDescriptors \in Nat \ {0}

(* An entry of the allocation table and a directory's fields are unsigned; *)
(* a directory that is in another has items of its own.                    *)
ASSUME VolumesAssumption ==
  \A v \in Volumes :
    /\ v.fat \in [DOMAIN v.fat -> Nat]
    /\ "root" \in DOMAIN v.dirs
    /\ v.dirs \in [DOMAIN v.dirs -> Seq(Items(v.dirs))]
    /\ \A d \in DOMAIN v.dirs : \A i \in DOMAIN v.dirs[d] :
         v.dirs[d][i].kind = "directory" => v.dirs[d][i].dir \in DOMAIN v.dirs

(* Every file of every disk is linked from its first cluster to its last.  *)
ChainsLinked ==
  \A v \in Volumes : \A d \in DOMAIN v.dirs : \A i \in DOMAIN v.dirs[d] :
    v.dirs[d][i].kind = "file" => Linked(v.fat, v.dirs[d][i])

(* Names as a FAT16 volume has them: of the items of a directory that were *)
(* not deleted no two are called the same.                                 *)
NamesApart ==
  \A v \in Volumes : \A d \in DOMAIN v.dirs :
    LET items == v.dirs[d]
        kept == {i \in DOMAIN items : items[i].kind # "deleted"}
    IN  /\ \A i \in kept : WellNamed(items[i])
        /\ \A i, j \in kept : items[i].called = items[j].called => i = j

(* The mark of a deleted item is in no path. *)
MarksApart ==
  \A v \in Volumes : \A d \in DOMAIN v.dirs : \A i \in DOMAIN v.dirs[d] :
    v.dirs[d][i].kind = "deleted" =>
      LET name == v.dirs[d][i].filename
      IN  name # <<>> /\ name[1] # " "
            /\ \A path \in Paths : \A k \in DOMAIN path.text : Lower[path.text[k]] # Lower[name[1]]

(* The names, each ended by a slash, stand one after the other from the    *)
(* fourth character on, as far as the text goes or to a part that is empty.*)
(* The i-th begins at[i].                                                  *)
StandAt(text, names, at) ==
  LET n == Len(names)
  IN  /\ at[1] = 4
      /\ \A i \in 1 .. n :
           /\ names[i] # <<>>
           /\ at[i + 1] = at[i] + Len(names[i]) + 1
           /\ names[i] = InSmall(SubSeq(text, at[i], at[i + 1] - 2))
           /\ \A k \in at[i] .. at[i + 1] - 1 : k <= Len(text) => (text[k] = "/" <=> k = at[i + 1] - 1)
      /\ at[n + 1] <= Len(text) => text[at[n + 1]] = "/"

(* A text that is a path of drive 0, with a part, stands for the names; if *)
(* it is none there are no names.                                          *)
StandsFor(text, names) ==
  IF Len(text) \in 4 .. MaxPath /\ SubSeq(text, 1, 3) = <<"0", ":", "/">> /\ text[4] # "/"
  THEN names # <<>> /\ \E at \in [1 .. Len(names) + 1 -> 4 .. Len(text) + 2] : StandAt(text, names, at)
  ELSE names = <<>>

NamesStand == "0" \in Digits /\ \A path \in Paths : StandsFor(path.text, path.names)

ASSUME PathsAssumption ==
  \A path \in Paths :
    path.text \in Seq(DOMAIN Lower) /\ path.names \in Seq(Seq({Lower[c] : c \in DOMAIN Lower}))

(* fat16_seek takes an offset as a uint32_t (fat16.c:767). *)
ASSUME OffsetsAssumption == Offsets \subseteq Nat

Slots == 0 .. MaxDescriptors - 1

Descriptors == 1 .. MaxDescriptors

Closed == [item |-> NoItem, pos |-> 0]

Nothing == [call |-> "none", fd |-> 0, res |-> 0, item |-> NoItem, pos |-> 0, size |-> 0, data |-> <<>>]

-----------------------------------------------------------------------------
FreeSlots == {s \in Slots : table[s] = Closed}

(* Fault: the slot is the first, free or not. *)
FirstSlot == 0

(* file_new_descriptor: the first free slot, and its number. *)
NewSlot == CHOOSE s \in FreeSlots : \A r \in FreeSlots : s <= r

NumberOf(slot) == slot + 1

(* file_get_descriptor: Closed stands for the null pointer. *)
file_get_descriptor(fd) ==
  IF fd <= 0 \/ fd >= MaxDescriptors THEN Closed ELSE table[fd - 1]

(* There is one disk, drive 0; a path needs a part. *)
Item(path) ==
  LET root == pathparser_parse(path.text)
  IN  IF root.parts = <<>> \/ root.drive # "0" THEN NoItem
      ELSE fat16_get_directory_entry(volume.dirs, root.parts)

(* fopen for reading; another mode fails as a file that is not there does. *)
fopen(path) ==
  /\ \/ /\ Item(path) # NoItem
        /\ FreeSlots # {}
        /\ table' = [table EXCEPT ![NewSlot] = [item |-> Item(path), pos |-> 0]]
        /\ last' = [Nothing EXCEPT !.call = "fopen", !.fd = NumberOf(NewSlot),
                                   !.res = NumberOf(NewSlot), !.item = Item(path)]
     \/ /\ Item(path) = NoItem \/ FreeSlots = {}
        /\ last' = [Nothing EXCEPT !.call = "fopen"]
        /\ UNCHANGED table
  /\ UNCHANGED volume

(* What fseek makes of a descriptor: SEEK_END is not implemented. *)
Seeked(desc, offset, whence) ==
  IF desc.item.kind # "file" \/ offset >= desc.item.size THEN desc
  ELSE CASE whence = "SEEK_SET" -> [desc EXCEPT !.pos = offset]
         [] whence = "SEEK_CUR" -> [desc EXCEPT !.pos = @ + offset]
         [] OTHER -> desc

fseek(fd, offset, whence) ==
  /\ file_get_descriptor(fd) # Closed
  /\ Seeked(table[fd - 1], offset, whence).pos <= MaxPos
  /\ table' = [table EXCEPT ![fd - 1] = Seeked(@, offset, whence)]
  /\ last' = [Nothing EXCEPT !.call = "fseek", !.fd = fd]
  /\ UNCHANGED volume

(* fread; the position stays where it is.  Nothing tells a directory from  *)
(* a file: its first cluster is what lies in memory after the directory.   *)
fread(fd, size, nmemb) ==
  LET desc == file_get_descriptor(fd)
  IN  /\ desc # Closed
      /\ size > 0
      /\ \E first \in IF desc.item.kind = "file" THEN {desc.item.first} ELSE DOMAIN volume.fat :
           LET r == fat16_read(volume.fat, first, desc.pos, size, nmemb)
           IN  last' = [call |-> "fread", fd |-> fd, res |-> r.res, item |-> desc.item,
                        pos |-> desc.pos, size |-> size, data |-> r.data]
      /\ UNCHANGED <<volume, table>>

(* fstat, and what is refused (a descriptor that is not open; fstat and    *)
(* fseek of a directory), change nothing but the result.                   *)
Refuse(fd) ==
  /\ file_get_descriptor(fd) = Closed \/ file_get_descriptor(fd).item.kind # "file"
  /\ last' = [Nothing EXCEPT !.call = "refused", !.fd = fd, !.res = EIO]
  /\ UNCHANGED <<volume, table>>

(* Fault: the slot cleared is that of the number. *)
SlotOfNumber(fd) == fd

(* file_free_descriptor *)
SlotOf(fd) == fd - 1

fclose(fd) ==
  /\ file_get_descriptor(fd) # Closed
  /\ table' = [table EXCEPT ![SlotOf(fd)] = Closed]
  /\ last' = [Nothing EXCEPT !.call = "fclose", !.fd = fd]
  /\ UNCHANGED volume

(* Fault: the file of a load that fails stays open. *)
ClosedIfRead(opened, fd, res) ==
  IF res = EIO \/ fd = MaxDescriptors THEN opened ELSE [opened EXCEPT ![fd - 1] = Closed]

(* The loader's fclose; the last descriptor is refused like any other call *)
(* with it.                                                                *)
ClosedByLoader(opened, fd, res) ==
  IF fd = MaxDescriptors THEN opened ELSE [opened EXCEPT ![fd - 1] = Closed]

(* elf_load and process_load_binary: open, measure, read the whole file,   *)
(* close.  Which error a load ends with does not matter here.              *)
LoadProgram(path) ==
  LET item == Item(path)
      fd == NumberOf(NewSlot)
      opened == [table EXCEPT ![NewSlot] = [item |-> item, pos |-> 0]]
      r == IF item.kind # "file" \/ item.size = 0 \/ fd = MaxDescriptors
           THEN [res |-> EIO, data |-> <<>>]
           ELSE fat16_read(volume.fat, item.first, 0, item.size, 1)
  IN  /\ \/ /\ item # NoItem
            /\ FreeSlots # {}
            /\ table' = ClosedByLoader(opened, fd, r.res)
            /\ last' = [call |-> "load", fd |-> fd, res |-> r.res, item |-> item, pos |-> 0,
                        size |-> item.size, data |-> r.data]
         \/ /\ item = NoItem \/ FreeSlots = {}
            /\ last' = [Nothing EXCEPT !.call = "load", !.res = EIO]
            /\ UNCHANGED table
      /\ UNCHANGED volume

Init ==
  /\ volume \in Volumes
  /\ table = [s \in Slots |-> Closed]
  /\ last = Nothing

Next ==
  \/ \E path \in Paths : fopen(path) \/ LoadProgram(path)
  \/ \E fd \in Descriptors :
       \/ fclose(fd)
       \/ Refuse(fd)
       \/ \E size \in Offsets : fread(fd, size, 1) \/ fread(fd, size, 2)
       \/ \E offset \in Offsets, whence \in {"SEEK_SET", "SEEK_CUR", "SEEK_END"} :
            fseek(fd, offset, whence)

Spec == Init /\ [][Next]_vars

-----------------------------------------------------------------------------
(* The bytes of the last read that lie in the file.                        *)
InFile ==
  /\ last.call \in {"fread", "load"} /\ last.item.kind = "file"
  /\ last.pos + last.size * last.res <= last.item.size

Read == Bytes(volume.fat, last.item, last.pos, last.size * last.res)

(* A read that starts at a cluster, or ends in the one it starts in, gives *)
(* the bytes of the file, however its clusters lie on the disk: so does    *)
(* every load of a program (fat16.c:461-551, streamer.c:26-68).            *)
Apart(pos, size) == pos % ClusterSize = 0 \/ (pos % ClusterSize) + size <= ClusterSize

ReadsFile ==
  InFile /\ last.res # EIO /\ (\A i \in 1 .. last.res : Apart(last.pos + (i - 1) * last.size, last.size))
    => last.data = Read

(* A program that is in the volume and can be opened is read whole: no     *)
(* load of it is refused while there are descriptors (elfloader.c:222-265).*)
LoadsWhole ==
  last.call = "load" /\ last.item.kind = "file" /\ last.item.size > 0 /\ last.fd < MaxDescriptors
    => last.res = 1 /\ Len(last.data) = last.item.size

(* A call with one descriptor, or a load, leaves the item and the position *)
(* of every other file that is open (file.c:76-103).                       *)
OthersKept ==
  [][\A s \in Slots : table[s] # Closed /\ last'.fd # s + 1 => table'[s] = table[s]]_vars

(* A load closes what it opened, whether it succeeds or not; only the last *)
(* descriptor, which fclose refuses, stays taken (elfloader.c:262-265,     *)
(* process.c:342-351).                                                     *)
LoadCloses ==
  [][last'.call = "load" /\ last'.fd < MaxDescriptors => table' = table]_vars

(* In directories from which nothing was deleted a path leads to the item  *)
(* it names, written in letters of either case, and to none if it names    *)
(* none; where something was deleted it never leads to another             *)
(* (pparser.c:14-156, fat16.c:196-243, :362-396, :646-700).                *)
FindsWhatIsThere ==
  \A path \in Paths :
    LET named == IF path.names = <<>> THEN {} ELSE Named(volume.dirs, path.names)
    IN  /\ Item(path) \in named \cup {NoItem}
        /\ (\A d \in DOMAIN volume.dirs : \A i \in DOMAIN volume.dirs[d] :
              volume.dirs[d][i].kind # "deleted") /\ named # {} => Item(path) # NoItem
==============================================================================
