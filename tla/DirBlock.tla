------------------------------ MODULE DirBlock ------------------------------
(***************************************************************************)
(* The entries of a directory (fs/ext2fs.c): mkdir() makes the first two,  *)
(* dirlink() adds one by splitting an entry that has room to spare, and    *)
(* nothing takes one away.  Calls on a directory hold its inode's mutex,   *)
(* so a step is a call.  An entry is its name and rec_len, the distance to *)
(* the next one in the two bytes the code keeps it in.  The test for room  *)
(* ignores the alignment, so the last entry may reach beyond its room and  *)
(* the directory beyond its block: size is what writei() makes of i_size.  *)
(***************************************************************************)
EXTENDS Integers, Sequences

CONSTANTS
    EntryNames,     \* names given to dirlink()
    NameLen,        \* their lengths
    DirBytes        \* BLKSIZE, in bytes

Dots == {".", ".."}

(* Entries are aligned to four bytes, after eight bytes of header.         *)
Align4(n) == ((n + 3) \div 4) * 4
Need(name) == 8 + NameLen[name]

(* A record length is an uint16_t.                                         *)
RecBound == 65536

ASSUME DirAssumption ==
    /\ NameLen \in [EntryNames \cup Dots -> Nat \ {0}]
    /\ NameLen["."] = 1 /\ NameLen[".."] = 2
    /\ \A name \in EntryNames : NameLen[name] <= 255       \* EXT2_NAME_LEN
    /\ DirBytes \in Nat /\ DirBytes % 4 = 0
    /\ DirBytes >= 24 /\ DirBytes < RecBound

VARIABLES
    dents,      \* the entries: [name, rec]
    size        \* i_size of the directory

DirInit == dents = <<>> /\ size = 0

-----------------------------------------------------------------------------
FirstOf(S) == CHOOSE x \in S : \A y \in S : x <= y

dirlookup(ds, name) == \E i \in DOMAIN ds : ds[i].name = name

(* The bytes that the first k entries take.                                *)
Reach(ds, k) ==
    LET Sum[i \in 0 .. Len(ds)] == IF i = 0 THEN 0 ELSE Sum[i - 1] + ds[i].rec
    IN  Sum[k]

(* Mutant: the name of the entry in place is not counted.                  *)
RoomHeader(ds, name) == {i \in DOMAIN ds : ds[i].rec - 8 >= Need(name)}

(* The entries behind which a new one fits, by the code's test.  Its       *)
(* subtraction is unsigned: an entry that reaches beyond its rec_len has   *)
(* room for anything.                                                      *)
Room(ds, name) ==
    {i \in DOMAIN ds : LET gap == ds[i].rec - Need(ds[i].name)
                       IN  gap < 0 \/ gap >= Need(name)}

(* Where the entry behind entry i goes: after what i needs.                *)
Behind(ds, i) == Reach(ds, i - 1) + Align4(Need(ds[i].name))

(* Entry i keeps what it needs, and the new one gets the rest.             *)
Split(ds, i, name) ==
    LET len1 == Align4(Need(ds[i].name)) IN
    SubSeq(ds, 1, i - 1)
    \o <<[name |-> ds[i].name, rec |-> len1],
         [name |-> name, rec |-> (ds[i].rec - len1) % RecBound]>>
    \o SubSeq(ds, i + 1, Len(ds))

(* create() of a directory: its own entries.  The first gets the block.    *)
DirMake ==
    /\ dents = <<>>
    /\ dents' = Split(<<[name |-> ".", rec |-> DirBytes]>>, 1, "..")
    /\ size' = DirBytes

(* dirlink() fails when the name is there, when no entry has room or when  *)
(* writei() would begin past the end of the directory.                     *)
DirLink(name) ==
    /\ dents # <<>> /\ ~ dirlookup(dents, name) /\ Room(dents, name) # {}
    /\ LET i == FirstOf(Room(dents, name))
           end == Behind(dents, i) + Align4(Need(name))
       IN  /\ Behind(dents, i) <= size
           /\ dents' = Split(dents, i, name)
           /\ size' = IF end > size THEN end ELSE size

DirNext == DirMake \/ \E name \in EntryNames : DirLink(name)

DirSpec == DirInit /\ [][DirNext]_<<dents, size>>
-----------------------------------------------------------------------------
(* Properties                                                              *)

(* What dirlookup() and getdents() rely on when they go from entry to      *)
(* entry up to the end of the directory: each entry keeps to its bytes,    *)
(* which end before the next one begins, at a multiple of four, and before *)
(* the end of the directory, and no name comes twice.  The last entry      *)
(* reaches to the end of the block or, once the directory has outgrown it, *)
(* of the 65536 bytes rec_len can count, except that it may be one         *)
(* alignment unit longer than its rec_len says.                            *)
EntriesTile ==
    /\ \A i \in DOMAIN dents :
          /\ dents[i].rec % 4 = 0 /\ Behind(dents, i) <= size
          /\ i < Len(dents) => dents[i].rec >= Align4(Need(dents[i].name))
          /\ dents[i].rec + 4 >= Align4(Need(dents[i].name))
          /\ \A j \in DOMAIN dents : dents[i].name = dents[j].name => i = j
    /\ dents # <<>> => /\ Reach(dents, Len(dents)) % RecBound = DirBytes
                       /\ size <= Reach(dents, Len(dents)) + 4

(* What the comment on the test for room says: the distance to the next    *)
(* entry is enough for the new one, so that the scan of a directory ends   *)
(* behind its last entry.  Not so, see the README.                         *)
ScanEnds == dents # <<>> => size <= Reach(dents, Len(dents))

(* dirlink() moves no entry: a name stays at its offset, so that a         *)
(* getdents() between two calls goes on where it stopped.                  *)
EntriesStay ==
    [][\A i \in DOMAIN dents : \E j \in DOMAIN dents' :
          dents'[j].name = dents[i].name /\ Reach(dents', j - 1) = Reach(dents, i - 1)]_dents
=============================================================================
