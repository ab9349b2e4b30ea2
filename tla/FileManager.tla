---------------------------- MODULE FileManager ----------------------------
(* The files below the page cache: FileManager with the bitmap (MyBitMap)     *)
(* that hands out file ids.  The operators are the calls that the module      *)
(* DatabaseManager makes; each says what one call does to the files, to the   *)
(* table of descriptors and to the bitmap.                                    *)
(*                                                                            *)
(* A file is a function from page numbers to contents; Hole is a page that    *)
(* the file does not reach.  Of a database only pages 0 and 1 matter here.    *)
EXTENDS Integers, FiniteSets, FiniteSetsExt

CONSTANTS Names,      \* names of databases; the file of n is n.dbf
          Contents,   \* what page 0 or page 1 of a database may hold
          Hole,       \* a page behind the end of its file
          NoFile,     \* there is no file of this name
          Closed,     \* fd[id] of a file id that is not open
          WordBits,   \* 1 << BIAS: the bits of a word (32 in the program)
          MaxFiles    \* MAX_FILE_NUM: file ids (128 in the program)

ASSUME WordAssumption  == WordBits \in {2, 4, 8, 16, 32}
ASSUME FilesAssumption == /\ MaxFiles \in Nat \ {0}
                          /\ MaxFiles % WordBits = 0
                          /\ MaxFiles \div WordBits \leq WordBits

Ids     == 0 .. MaxFiles - 1
PageNos == {0, 1}
Leaves  == 0 .. (MaxFiles \div WordBits) - 1

VARIABLES disk,   \* name -> NoFile or its pages
          fd,     \* file id -> name of the open file, or Closed
          fm      \* the bitmap of free ids: leaf words and root word

fileVars == <<disk, fd, fm>>

Pages == [PageNos -> Contents \cup {Hole}]

ASSUME NoFileAssumption == NoFile \notin Pages
ASSUME ClosedAssumption == Closed \notin Names

FileTypeOK ==
    /\ disk \in [Names -> Pages \cup {NoFile}]
    /\ fd \in [Ids -> Names \cup {Closed}]
    /\ fm \in [data: [Leaves -> SUBSET (0 .. WordBits - 1)], root: SUBSET Leaves]
-----------------------------------------------------------------------------
(* MyBitMap.  A word is the set of its one bits.  The program's map of 128    *)
(* bits has 4 leaf words and, above them, the root word only: init's loop     *)
(* over inner levels does not run and updateInner ends where it starts.       *)

\* initConst: h maps 2^i % 61 to i, for the 32 bits of a word.
PowerOfTwo[i \in 0 .. 31] == IF i = 0 THEN 1 ELSE (2 * PowerOfTwo[i - 1]) % 61
H == [r \in 0 .. 60 |->
        IF \E i \in 0 .. 31 : PowerOfTwo[i] = r
        THEN Max({i \in 0 .. 31 : PowerOfTwo[i] = r}) ELSE 0]

\* h[_hash(lowbit(word))]; lowbit(0) is 0.
LowBitIndex(word) == IF word = {} THEN H[0] ELSE H[PowerOfTwo[Min(word)]]

\* The constructor with k = 1 sets every bit; init then computes the root.
FullBitMap ==
    LET full == [p \in Leaves |-> 0 .. WordBits - 1] IN
    [data |-> full, root |-> {p \in Leaves : full[p] # {}}]

WithBit(word, bit, k) == IF k = 1 THEN word \cup {bit} ELSE word \ {bit}

\* Faulty: setBit leaves the root word as it is.
FaultySetBit(map, i, k) ==
    LET p == i \div WordBits IN
    [map EXCEPT !.data[p] = WithBit(@, i % WordBits, k)]

\* setBit: the bit of the leaf word, then the bit of that word in the root.
SetBit(map, i, k) ==
    LET p    == i \div WordBits
        leaf == WithBit(map.data[p], i % WordBits, k)
    IN [data |-> [map.data EXCEPT ![p] = leaf],
        root |-> WithBit(map.root, p, IF leaf = {} THEN 0 ELSE 1)]

\* findLeftOne: the lowest bit of the lowest word that is not zero; 0 when no
\* bit is left.
FindLeftOne(map) ==
    LET p == LowBitIndex(map.root) IN p * WordBits + LowBitIndex(map.data[p])

Ones(map) == {i \in Ids : i % WordBits \in map.data[i \div WordBits]}
-----------------------------------------------------------------------------
FileInit ==
    /\ disk = [n \in Names |-> NoFile]
    /\ fd   = [i \in Ids |-> Closed]
    /\ fm   = FullBitMap

\* createFile: an empty file, unless there is one.
EmptyFile == [p \in PageNos |-> Hole]
CreateFile(n) ==
    /\ disk[n] = NoFile
    /\ disk' = [disk EXCEPT ![n] = EmptyFile]
    /\ UNCHANGED <<fd, fm>>

\* openFile takes the id before it opens the file.  A failed open (no such
\* file) keeps the id.
NextId == FindLeftOne(fm)
OpenFile(n) ==
    /\ fm' = SetBit(fm, NextId, 0)
    /\ fd' = IF disk[n] = NoFile THEN fd ELSE [fd EXCEPT ![NextId] = n]
    /\ UNCHANGED disk

\* closeFile: the id is free again.
CloseFile(id) ==
    /\ fm' = SetBit(fm, id, 1)
    /\ fd' = [fd EXCEPT ![id] = Closed]

\* writePage: what is written to a file that was removed is lost.
Written(id, p, c) ==
    IF fd[id] \in Names /\ disk[fd[id]] # NoFile
    THEN [disk EXCEPT ![fd[id]][p] = c] ELSE disk
WritePage(id, p, c) == disk' = Written(id, p, c) /\ UNCHANGED <<fd, fm>>

\* readPage: a read behind the end of the file leaves the buffer as it is.
ReadPage(id, p, buffer) ==
    LET c == disk[fd[id]][p] IN IF c = Hole THEN buffer ELSE c

\* std::remove, and the files of a process that has ended.
RemoveFile(n) == disk' = [disk EXCEPT ![n] = NoFile] /\ UNCHANGED <<fd, fm>>
NoOpenFiles == fd' = [i \in Ids |-> Closed] /\ fm' = FullBitMap
=============================================================================
