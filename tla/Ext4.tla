-------------------------------- MODULE Ext4 --------------------------------
(***************************************************************************)
(* The mutations of crates/storage/troe-fs-ext4 on inodes, directories,    *)
(* bitmaps and counters.  A mutation is staged in memory and takes effect  *)
(* as a whole (module Ext4Journal), so that one that fails halfway leaves  *)
(* no trace; each action below is one that succeeds.                       *)
(*                                                                         *)
(* Paths are sequences of names from the root.  A symbolic link holds an   *)
(* absolute path.  Blocks hold no bytes, only their owner matters: a file  *)
(* has as many data blocks as it has chunks and a block for its extent     *)
(* tree when the inode has no room for its extents, of which each block is *)
(* one.  A block of a directory has room for Room names.                   *)
(***************************************************************************)
EXTENDS Naturals, Sequences, SequencesExt, FiniteSets, FiniteSetsExt

CONSTANTS
    Inodes,     \* inodes 1 .. Inodes, the root first
    DataBlocks,     \* data blocks 1 .. Blocks
    Name,       \* base names
    MaxDepth,   \* bound on the length of a path
    MaxChunks,    \* max_file_bytes, in chunks
    Inline,     \* extents that fit in the inode
    Room,       \* names that fit in a block of a directory
    Fast,       \* EXT4_FAST_SYMLINK_BYTES, in names
    LinkTarget,     \* what symbolic links may hold
    Aliased,    \* bound: whether a link may lead a directory below itself
    Expansions  \* MAX_SYMLINK_EXPANSIONS

VARIABLE fs     \* the volume, as reads see it

Root == 1
None == 0
Ino == 1 .. Inodes
Path == UNION {[1 .. n -> Name] : n \in 1 .. MaxDepth}

-----------------------------------------------------------------------------
(* Path resolution.                                                        *)

RECURSIVE Walk(_, _, _, _)

\* Names are looked up from directory d; a link starts again at the root.
Walk(d, path, follow, left) ==
    IF path = <<>> THEN d
    ELSE IF fs.kind[d] # "Dir" THEN None
    ELSE LET i == fs.entry[d][Head(path)] IN
         IF i # None /\ fs.kind[i] = "Link" /\ (follow \/ Len(path) > 1)
         THEN IF left = 0 THEN None ELSE Walk(Root, fs.target[i] \o Tail(path), follow, left - 1)
         ELSE IF i = None THEN None ELSE Walk(i, Tail(path), follow, left)

Resolve(path) == Walk(Root, path, TRUE, Expansions)
ResolveNoFollow(path) == Walk(Root, path, FALSE, Expansions)

\* The directory that holds the last name of path, links in between followed.
Parent(path) ==
    LET d == Resolve(Front(path)) IN IF d # None /\ fs.kind[d] = "Dir" THEN d ELSE None

\* What the last name of path denotes, itself.
Entry(path) == IF Parent(path) = None THEN None ELSE fs.entry[Parent(path)][Last(path)]

-----------------------------------------------------------------------------
(* What a mutation stages, from volume s to volume.                        *)

FreeBlocks(s) == 1 .. DataBlocks \ s.blocks
FreeInodes(s) == Ino \ s.inodes

\* The lowest n free blocks.
Lowest(s, n) == CHOOSE B \in SUBSET FreeBlocks(s) :
    Cardinality(B) = n /\ \A b \in B, c \in FreeBlocks(s) \ B : b < c

Tree(n) == IF n > Inline THEN 1 ELSE 0

\* Mutant: the old tree is not released.
SetExtentsOnly(s, i, data) ==
    LET reuse == Tree(Cardinality(data)) = 1 /\ s.tree[i] # {}
        tree  == IF reuse THEN s.tree[i] ELSE Lowest(s, Tree(Cardinality(data)))
    IN  [s EXCEPT !.data[i] = data, !.tree[i] = tree, !.blocks = @ \cup tree]

\* write_inode_extent_records: inode i gets its data blocks, and a new tree
\* unless one of the same shape is there; the old tree is released after that.
SetExtents(s, i, data) ==
    LET reuse == Tree(Cardinality(data)) = 1 /\ s.tree[i] # {}
        tree  == IF reuse THEN s.tree[i] ELSE Lowest(s, Tree(Cardinality(data)))
        freed == IF reuse THEN {} ELSE s.tree[i]
    IN  [s EXCEPT !.data[i] = data, !.tree[i] = tree, !.blocks = (@ \cup tree) \ freed]

Allocate(s, B) == [s EXCEPT !.blocks = @ \cup B]
Release(s, B) == [s EXCEPT !.blocks = @ \ B]

\* The record of a new inode; a directory counts in its group.
NewInode(s, i, kind, data, target) ==
    [s EXCEPT !.inodes = @ \cup {i}, !.kind[i] = kind, !.links[i] = IF kind = "Dir" THEN 2 ELSE 1,
              !.data[i] = data, !.blocks = @ \cup data, !.target[i] = target,
              !.dirs = IF kind = "Dir" THEN @ + 1 ELSE @]

FreeInode(s, i) ==
    [s EXCEPT !.inodes = @ \ {i}, !.kind[i] = "Free", !.links[i] = 0, !.target[i] = <<>>,
              !.data[i] = {}, !.tree[i] = {}, !.blocks = @ \ (s.data[i] \cup s.tree[i]),
              !.dirs = IF s.kind[i] = "Dir" THEN @ - 1 ELSE @]

Names(s, d) == {n \in Name : s.entry[d][n] # None}
Full(s, d) == Cardinality(Names(s, d)) = Room * Cardinality(s.data[d])

\* A directory without room for the record gets another block.
AddEntry(s, d, n, i) ==
    LET new == IF Full(s, d) THEN Lowest(s, 1) ELSE {}
    IN  [s EXCEPT !.entry[d][n] = i, !.data[d] = @ \cup new, !.blocks = @ \cup new]

RemoveEntry(s, d, n) == [s EXCEPT !.entry[d][n] = None]

\* Enough free blocks for n more while everything old is held.
Enough(n) == Cardinality(FreeBlocks(fs)) >= n

\* The blocks of the tree that inode i needs for n data blocks beside the one it has.
NewTree(i, n) == IF fs.tree[i] = {} THEN Tree(n) ELSE 0

\* Directory d takes another name beside n new blocks; it has no extent tree.
Takes(d, n) ==
    IF Full(fs, d) THEN Enough(n + 1) /\ Cardinality(fs.data[d]) < Inline ELSE Enough(n)

-----------------------------------------------------------------------------
(* The provider's operations.                                              *)

\* Another file is written before the old extents are released.
ReplaceFile(path, n) ==
    LET i == Resolve(path) IN
    /\ Entry(path) # None /\ i # None /\ fs.kind[i] = "File"
    /\ Enough(n + NewTree(i, n))
    /\ LET new == Lowest(fs, n) IN
       fs' = Release(SetExtents(Allocate(fs, new), i, new), fs.data[i])

CreateFile(path, n) ==
    /\ Parent(path) # None /\ Entry(path) = None
    /\ FreeInodes(fs) # {} /\ n <= Inline
    /\ Takes(Parent(path), n)
    /\ LET i == Min(FreeInodes(fs)) IN
       fs' = AddEntry(NewInode(fs, i, "File", Lowest(fs, n), <<>>), Parent(path), Last(path), i)

WriteRegular(path, n) == ReplaceFile(path, n) \/ CreateFile(path, n)

TruncateRegular(path) ==
    LET i == Resolve(path) IN
    \/ /\ i # None /\ fs.kind[i] = "File"
       /\ fs' = Release(SetExtents(fs, i, {}), fs.data[i])
    \/ i = None /\ CreateFile(path, 0)

AppendRegular(path) ==
    LET i == Resolve(path)
        new == Lowest(fs, 1) IN
    /\ i # None /\ fs.kind[i] = "File" /\ Cardinality(fs.data[i]) < MaxChunks
    /\ Enough(1 + NewTree(i, Cardinality(fs.data[i]) + 1))
    /\ fs' = SetExtents(Allocate(fs, new), i, fs.data[i] \cup new)

CreateDirectory(path) ==
    LET p == Parent(path) IN
    /\ p # None /\ Entry(path) = None
    /\ FreeInodes(fs) # {}
    /\ Takes(p, 1)
    /\ LET i == Min(FreeInodes(fs))
           s == NewInode(fs, i, "Dir", Lowest(fs, 1), <<>>)
       IN  fs' = AddEntry([s EXCEPT !.parent[i] = p, !.links[p] = @ + 1], p, Last(path), i)

\* The inode goes with its last name.
Unlink(path) ==
    LET i == Entry(path)
        s == RemoveEntry(fs, Parent(path), Last(path)) IN
    /\ i # None /\ fs.kind[i] # "Dir"
    /\ fs' = IF fs.links[i] > 1 THEN [s EXCEPT !.links[i] = @ - 1] ELSE FreeInode(s, i)

RemoveDirectory(path) ==
    LET i == Entry(path)
        p == Parent(path)
        s == [RemoveEntry(fs, p, Last(path)) EXCEPT !.links[p] = @ - 1, !.parent[i] = None] IN
    /\ i # None /\ fs.kind[i] = "Dir" /\ Names(fs, i) = {} /\ fs.links[i] = 2
    /\ fs' = FreeInode(s, i)

\* Mutant: a directory that moves keeps its ".." entry.
ReparentLinksOnly(s, i, p, q) ==
    IF s.kind[i] = "Dir" /\ p # q THEN [s EXCEPT !.links = [@ EXCEPT ![p] = @ - 1, ![q] = @ + 1]] ELSE s

\* A directory that moves from p to q: update_directory_parent and both counts.
Reparent(s, i, p, q) ==
    IF s.kind[i] = "Dir" /\ p # q
    THEN [s EXCEPT !.parent[i] = q, !.links = [@ EXCEPT ![p] = @ - 1, ![q] = @ + 1]]
    ELSE s

RECURSIVE Above(_)

\* The directory d and those its ".." entries lead to.
Above(d) == IF d = Root THEN {Root} ELSE {d} \cup Above(fs.parent[d])

\* A directory is not moved below itself, as far as the two paths show: that is all
\* rename checks, and with Aliased the action is the code's.  Without Aliased the
\* moves that only Above tells apart (through a symbolic link) are left out, so
\* that the other properties are not all lost to the loop they make.
Rename(source, destination) ==
    LET i == Entry(source)
        p == Parent(source)
        q == Parent(destination) IN
    /\ source # destination
    /\ i # None /\ q # None /\ Entry(destination) = None
    /\ fs.kind[i] = "Dir" => ~ IsStrictPrefix(source, destination) /\ (Aliased \/ i \notin Above(q))
    /\ Takes(q, 0)
    /\ fs' = RemoveEntry(Reparent(AddEntry(fs, q, Last(destination), i), i, p, q), p, Last(source))

CreateSymlink(target, path) ==
    /\ Parent(path) # None /\ Entry(path) = None
    /\ FreeInodes(fs) # {}
    /\ LET i == Min(FreeInodes(fs))
           n == IF Len(target) > Fast THEN 1 ELSE 0
       IN  /\ Takes(Parent(path), n)
           /\ fs' = AddEntry(NewInode(fs, i, "Link", Lowest(fs, n), target), Parent(path), Last(path), i)

CreateHardLink(existing, path) ==
    LET i == ResolveNoFollow(existing)
        s == AddEntry(fs, Parent(path), Last(path), i) IN
    /\ i # None /\ fs.kind[i] = "File"
    /\ Parent(path) # None /\ Entry(path) = None
    /\ Takes(Parent(path), 0)
    /\ fs' = [s EXCEPT !.links[i] = @ + 1]

-----------------------------------------------------------------------------
\* An empty volume: the root directory has one block.
TreeInit ==
    fs = [kind   |-> [i \in Ino |-> IF i = Root THEN "Dir" ELSE "Free"],
          links  |-> [i \in Ino |-> IF i = Root THEN 2 ELSE 0],
          data   |-> [i \in Ino |-> IF i = Root THEN {1} ELSE {}],
          tree   |-> [i \in Ino |-> {}],
          target |-> [i \in Ino |-> <<>>],
          entry  |-> [i \in Ino |-> [n \in Name |-> None]],
          parent |-> [i \in Ino |-> IF i = Root THEN Root ELSE None],
          inodes |-> {Root}, blocks |-> {1}, dirs |-> 1]

TreeNext ==
    \E path \in Path :
        \/ \E n \in 0 .. MaxChunks : WriteRegular(path, n)
        \/ TruncateRegular(path) \/ AppendRegular(path)
        \/ CreateDirectory(path) \/ Unlink(path) \/ RemoveDirectory(path)
        \/ \E other \in Path : Rename(path, other) \/ CreateHardLink(path, other)
        \/ \E target \in LinkTarget : CreateSymlink(target, path)

TreeSpec == TreeInit /\ [][TreeNext]_fs

-----------------------------------------------------------------------------
Links(i) == {l \in Ino \X Name : fs.kind[l[1]] = "Dir" /\ fs.entry[l[1]][l[2]] = i}
Subdirectories(d) == {i \in Ino : fs.kind[i] = "Dir" /\ i # Root /\ fs.parent[i] = d}
Owned(i) == fs.data[i] \cup fs.tree[i]

\* What fsck checks, after any sequence of mutations: the bitmaps hold exactly
\* the inodes and blocks in use, no block has two owners, every link count is
\* the number of names (of a directory: with "." and the ".." of its
\* children), and the directories are counted.
Consistent ==
    /\ fs.inodes = {i \in Ino : fs.kind[i] # "Free"}
    /\ fs.blocks = UNION {Owned(i) : i \in Ino}
    /\ \A i \in Ino :
          /\ \A j \in Ino \ {i} : Owned(i) \cap Owned(j) = {}
          /\ fs.data[i] \cap fs.tree[i] = {}
          /\ (fs.tree[i] # {}) = (fs.kind[i] = "File" /\ Cardinality(fs.data[i]) > Inline)
          /\ fs.kind[i] = "Free" => Links(i) = {}
          /\ fs.kind[i] \in {"File", "Link"} => fs.links[i] = Cardinality(Links(i))
          /\ fs.kind[i] = "Dir" => fs.links[i] = 2 + Cardinality(Subdirectories(i))
    /\ fs.dirs = Cardinality({i \in Ino : fs.kind[i] = "Dir"})

RECURSIVE Below(_, _)

\* The inodes in S and those at most left names below them.
Below(S, left) ==
    IF left = 0 THEN S
    ELSE Below(S \cup {i \in Ino : \E l \in Links(i) : l[1] \in S}, left - 1)

\* Every inode in use is found from the root, and a directory under one name
\* only, in the directory its ".." entry names.
Rooted ==
    /\ fs.inodes \subseteq Below({Root}, Inodes)
    /\ \A i \in Ino \ {Root} : fs.kind[i] = "Dir" =>
          \E l \in Links(i) : Links(i) = {l} /\ fs.parent[i] = l[1]
=============================================================================
