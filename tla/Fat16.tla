-------------------------------- MODULE Fat16 --------------------------------
(***************************************************************************)
(* How the kernel finds and reads a file of a FAT16 volume                 *)
(* (fs/fat/fat16.c, disk/streamer.c).  A byte of the disk goes by its      *)
(* position, so what is read is a sequence of positions.                   *)
(***************************************************************************)
EXTENDS Path

CONSTANTS
  SectorSize,         \* disk->sector_size
  SectorsPerCluster,  \* primary_header.sectors_per_cluster
  DataSector          \* root_directory.end_sector_pos

ASSUME GeometryAssumption ==
  /\ {SectorSize, SectorsPerCluster} \subseteq Nat \ {0}
  /\ DataSector \in Nat

ClusterSize == SectorsPerCluster * SectorSize

EIO == -1

(* An item of a directory: a file, a directory (dir names its items), or   *)
(* the place of an item that was deleted, whose name begins with 0xE5.     *)
(* filename and ext are filled up with spaces; called is the name they     *)
(* stand for, in small letters.                                            *)
NoItem ==
  [filename |-> <<" ">>, ext |-> <<" ">>, called |-> <<>>, kind |-> "none", first |-> 0,
   size |-> 0, dir |-> ""]

Items(dirs) ==
  [filename : Seq(DOMAIN Lower), ext : Seq(DOMAIN Lower), called : Seq(DOMAIN Lower),
   kind : {"file", "directory", "deleted"}, first : Nat, size : Nat, dir : DOMAIN dirs \cup {""}]

-----------------------------------------------------------------------------
(* disk/streamer.c: the positions of `total` bytes from pos on, a sector   *)
(* at a time; the last sector read may give no byte.                       *)

PartOfSector(at, left) ==
  LET offset == at % SectorSize
  IN  IF offset + left >= SectorSize THEN SectorSize - offset ELSE left

diskstreamer_read(pos, total) ==
  LET read[left \in 0 .. total] ==
        LET at == pos + total - left
            part == PartOfSector(at, left)
            bytes == [i \in 1 .. part |-> at + i - 1]
        IN  IF (at % SectorSize) + left < SectorSize THEN bytes ELSE bytes \o read[left - part]
  IN  read[total]

-----------------------------------------------------------------------------
(* The file allocation table: every entry is in it, those of clusters the  *)
(* volume has not are 0.                                                   *)
FatEntry(fat, cluster) == IF cluster \in DOMAIN fat THEN fat[cluster] ELSE 0

(* 0xFF8 and 0xFFF, 0xFF7, 0xFF0 and 0xFF6, and 0. *)
Refused == {4088, 4095, 4087, 4080, 4086, 0}

(* Fault: the chain is followed one cluster too far. *)
ClusterAfterOffset(fat, start, offset) ==
  LET walk[i \in 0 .. offset \div ClusterSize + 1] ==
        IF i = 0 THEN start
        ELSE IF walk[i - 1] = EIO \/ FatEntry(fat, walk[i - 1]) \in Refused THEN EIO
        ELSE FatEntry(fat, walk[i - 1])
  IN  walk[(offset + 1) \div ClusterSize]

fat16_get_cluster_for_offset(fat, start, offset) ==
  LET walk[i \in 0 .. offset \div ClusterSize] ==
        IF i = 0 THEN start
        ELSE IF walk[i - 1] = EIO \/ FatEntry(fat, walk[i - 1]) \in Refused THEN EIO
        ELSE FatEntry(fat, walk[i - 1])
  IN  walk[offset \div ClusterSize]

(* Fault: the clusters are counted from 0. *)
SectorFromZero(cluster) == DataSector + cluster * SectorsPerCluster

(* The data begins with cluster 2. *)
fat16_cluster_to_sector(cluster) == DataSector + (cluster - 2) * SectorsPerCluster

(* One cluster's worth of bytes at most is read from the disk at a time,   *)
(* from the cluster of the offset; what follows the cluster on the disk is *)
(* read too when the offset is not at the start of one.                    *)
fat16_read_internal(fat, start, offset, total) ==
  LET read[left \in 0 .. total] ==
        LET at == offset + total - left
            cluster == fat16_get_cluster_for_offset(fat, start, at)
            pos == fat16_cluster_to_sector(cluster) * SectorSize + (at % ClusterSize)
            part == IF left > ClusterSize THEN ClusterSize ELSE left
            rest == read[left - part]
        IN  IF cluster = EIO THEN [res |-> EIO, data |-> <<>>]
            ELSE IF left = part THEN [res |-> 0, data |-> diskstreamer_read(pos, part)]
            ELSE [res |-> rest.res, data |-> diskstreamer_read(pos, part) \o rest.data]
  IN  read[total]

(* Fault: what is returned is the result of the last member. *)
ResultOfLast(last, nmemb) == last

(* The number of members, if all were read. *)
Result(last, nmemb) == IF last.res = EIO THEN last ELSE [last EXCEPT !.res = nmemb]

(* nmemb members of size bytes from pos on. *)
fat16_read(fat, first, pos, size, nmemb) ==
  LET member(i) == fat16_read_internal(fat, first, pos + (i - 1) * size, size)
      read[i \in 0 .. nmemb] ==
        IF i = 0 THEN [res |-> 0, data |-> <<>>]
        ELSE IF read[i - 1].res = EIO THEN read[i - 1]
        ELSE [res |-> member(i).res, data |-> read[i - 1].data \o member(i).data]
  IN  Result(read[nmemb], nmemb)

-----------------------------------------------------------------------------
(* Directories.  The number of items does not count those deleted, and the *)
(* search looks at that many from the start; of two items with the name it *)
(* takes the last.                                                         *)

(* Fault: the last item is not counted. *)
TotalButLast(items) == Cardinality({i \in DOMAIN items : items[i].kind # "deleted"}) - 1

fat16_get_total_items_for_directory(items) ==
  Cardinality({i \in DOMAIN items : items[i].kind # "deleted"})

fat16_find_item_in_directory(items, name) ==
  LET named == {i \in 1 .. fat16_get_total_items_for_directory(items) :
                  SameName(fat16_get_full_relative_filename(items[i]), name)}
  IN  IF named = {} THEN NoItem
      ELSE items[CHOOSE i \in named : \A j \in named : j <= i]

(* The item of a path.  An item that was not found is no directory either: *)
(* the type is read through the null pointer, where the vector of          *)
(* interrupt 1 is not FAT_ITEM_TYPE_DIRECTORY.                             *)
fat16_get_directory_entry(dirs, path) ==
  LET walk[i \in 1 .. Len(path)] ==
        IF i = 1 THEN fat16_find_item_in_directory(dirs["root"], path[1])
        ELSE IF walk[i - 1].kind # "directory" THEN NoItem
        ELSE fat16_find_item_in_directory(dirs[walk[i - 1].dir], path[i])
  IN  walk[Len(path)]

-----------------------------------------------------------------------------
(* What a FAT16 volume means: the definitions the above is checked against.*)

(* The clusters of a file, as the table links them, and the position of    *)
(* its i-th byte.                                                          *)
ClusterOf(fat, item, i) ==
  LET nth[k \in 0 .. i \div ClusterSize] == IF k = 0 THEN item.first ELSE fat[nth[k - 1]]
  IN  nth[i \div ClusterSize]

ByteOf(fat, item, i) ==
  (DataSector + (ClusterOf(fat, item, i) - 2) * SectorsPerCluster) * SectorSize + (i % ClusterSize)

Bytes(fat, item, from, count) == [k \in 1 .. count |-> ByteOf(fat, item, from + k - 1)]

(* The clusters of a file are in the table, and none has a number that     *)
(* ends a chain.                                                           *)
Linked(fat, item) ==
  \A i \in 0 .. item.size - 1 : ClusterOf(fat, item, i) \in DOMAIN fat \ Refused

(* The text in small letters. *)
InSmall(text) == [k \in DOMAIN text |-> Lower[text[k]]]

(* The first n characters are a name, the others fill it up with spaces. *)
Filled(text, n) == \A k \in DOMAIN text : text[k] = " " <=> k > n

(* An item is called by its name and, where it has one, its extension. *)
WellNamed(item) ==
  /\ item.ext # <<>>
  /\ \E n \in 0 .. Len(item.filename), m \in 0 .. Len(item.ext) :
       /\ Filled(item.filename, n)
       /\ Filled(item.ext, m)
       /\ item.called = InSmall(SubSeq(item.filename, 1, n)
                                \o IF m = 0 THEN <<>> ELSE <<".">> \o SubSeq(item.ext, 1, m))

(* The items that names in small letters stand for, looked for in the      *)
(* whole of each directory.                                                *)
Named(dirs, path) ==
  LET under[i \in 1 .. Len(path)] ==
        IF i = 1 THEN {dirs["root"][k] : k \in {j \in DOMAIN dirs["root"] :
                         dirs["root"][j].called = path[1] /\ dirs["root"][j].kind # "deleted"}}
        ELSE UNION {{dirs[d.dir][k] : k \in {j \in DOMAIN dirs[d.dir] :
                       dirs[d.dir][j].called = path[i] /\ dirs[d.dir][j].kind # "deleted"}} :
                    d \in {e \in under[i - 1] : e.kind = "directory"}}
  IN  under[Len(path)]
==============================================================================
