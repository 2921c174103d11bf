----------------------------- MODULE MCStorage -----------------------------
(***************************************************************************)
(* The storage components, each on a small instance of its own: the state  *)
(* file system on its two slots, the ext4 journal, and the ext4 volume     *)
(* that is changed one transaction at a time.  `part' names the one whose  *)
(* steps the behaviour follows; the others stay in their initial state.    *)
(***************************************************************************)
EXTENDS MCStateFs, Ext4Journal, Ext4

VARIABLE part

MCTarget == {<<"g", "f">>}

\* A journal that is not followed has a fixed image everywhere.
Plain == \A i, j \in VolumeBlock : ImageOf(disk, i) = ImageOf(disk, j)

StorageInit ==
    /\ part \in {"state", "volume", "journal"}
    /\ Init /\ TreeInit /\ JournalInit
    /\ part # "journal" => Plain

StorageNext ==
    \/ part = "state" /\ Next /\ UNCHANGED <<part, fs, journalVars>>
    \/ part = "volume" /\ TreeNext /\ UNCHANGED <<part, vars, journalVars>>
    \/ part = "journal" /\ JournalNext /\ UNCHANGED <<part, vars, fs>>

StorageSpec == StorageInit /\ [][StorageNext]_<<part, vars, fs, journalVars>>

\* Neither property of the journal says anything of what follows a mutation that
\* overtook another.
InOrder == ~ overtaken

StorageSymmetry == Symmetry \cup Permutations(Image)
-----------------------------------------------------------------------------
\* Bitmaps, owners, links and counts of the volume agree (Consistent of Ext4, in
\* its part).
VolumeConsistent == part = "volume" => Consistent

\* Every inode in use is found from the root, a directory under one name (Rooted
\* of Ext4, in its part).
VolumeRooted == part = "volume" => Rooted
=============================================================================
