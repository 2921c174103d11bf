---------------------------- MODULE Ext4Journal ----------------------------
(***************************************************************************)
(* How crates/storage/troe-fs-ext4 makes one mutation of a volume atomic:  *)
(* the marker in block 0, the redo log, the checkpoint and the recovery    *)
(* after an interruption, down to the single requests to a block device    *)
(* with a volatile cache.                                                  *)
(*                                                                         *)
(* What a mutation means is abstracted to the blocks it stages and their   *)
(* new images.  The log lies in the journal's blocks: its superblock, the  *)
(* descriptor with one tag for each staged block, the images and the       *)
(* commit record.  The device reads back "disk"; a power loss leaves any   *)
(* element of "media", and only a flush settles on what is read.           *)
(***************************************************************************)
EXTENDS Naturals, Sequences, Functions

CONSTANTS
    VolumeBlocks,        \* blocks of the volume outside the journal; block 0 holds the marker
    Image,         \* what a block can hold
    Torn,          \* a block of which only some sectors were written
    Blank,         \* a log block that was never written
    MaxTx,         \* MAX_TRANSACTION_BLOCKS
    MaxSequence    \* bound on the sequence, which wraps after 2^32 - 1 transactions

VolumeBlock == 0 .. VolumeBlocks - 1
Journal(i) == VolumeBlocks + i
Location == 0 .. Journal(MaxTx + 2)
Tags == UNION {Injection(1 .. n, VolumeBlock) : n \in 0 .. MaxTx}

ASSUME JournalAssumption ==
    /\ VolumeBlocks \in Nat \ {0} /\ MaxTx \in Nat \ {0} /\ MaxSequence \in Nat \ {0}
    /\ Torn \notin Image

VARIABLES
    disk,      \* what a read of each block returns
    media,     \* every content of the blocks that a power loss may leave
    pc,        \* the next request of the mutation or the recovery under way
    done,      \* how many blocks of the loop at pc are written
    sequence,  \* the cached sequence, 0 before the journal is read
    tags,      \* the blocks the transaction stages, in order
    after,     \* the volume it leads to
    mounted,   \* whether a mount is in use, or a recovery has the volume
    fates,     \* history: the volumes an interruption may lead to
    overtaken  \* history: a mutation began while an earlier one was still replayable

journalVars == <<disk, media, pc, done, sequence, tags, after, mounted, fates, overtaken>>

-----------------------------------------------------------------------------
(* What lies in the blocks.                                                *)

\* Block 0; `whole' tells whether its checksum is the one of what it holds.
Superblock(clean, image) == [clean |-> clean, image |-> image, whole |-> TRUE]
LogHead(start, seq) == [start |-> start, sequence |-> seq]
Descriptor(seq, t) == [sequence |-> seq, tags |-> t]
Sealed(seq) == [sequence |-> seq, commit |-> TRUE]

\* Nothing else in a log block is taken for a commit record: an image that begins
\* like a record is escaped in the log (encode_transaction).
ASSUME EscapeAssumption ==
    \A seq \in 1 .. MaxSequence : Sealed(seq) \notin Image \cup {Torn, Blank}

ImageOf(img, b) == IF b = 0 THEN img[0].image ELSE img[b]
InPlace(b, image) == IF b = 0 THEN Superblock(FALSE, image) ELSE image
Volume(img) == [b \in VolumeBlock |-> ImageOf(img, b)]

Decoded(img, seq) == \E t \in Tags : t # <<>> /\ img[Journal(1)] = Descriptor(seq, t)

Committed(img, seq) ==
    LET n == Len(img[Journal(1)].tags)
    IN  img[Journal(n + 2)] = Sealed(seq)

\* What recovery, or the ordinary mount of a volume marked clean, makes of img.
Legible(img) ==
    img[0].clean \/ img[Journal(0)].start = 0 \/ Decoded(img, img[Journal(0)].sequence)

Opens(img) == img[0].whole /\ Legible(img)

Replayed(img) ==
    LET head == img[Journal(0)]
        t    == img[Journal(1)].tags
    IN  IF img[0].clean \/ head.start = 0 \/ ~ Committed(img, head.sequence)
        THEN Volume(img)
        ELSE [b \in VolumeBlock |-> IF \E i \in DOMAIN t : t[i] = b
                              THEN img[Journal(1 + CHOOSE i \in DOMAIN t : t[i] = b)]
                              ELSE ImageOf(img, b)]

-----------------------------------------------------------------------------
(* The device.                                                             *)

\* A request to write "value" at block "at"; what it changes lies in one sector
\* or in several.
To(l, v, sectors) == [at |-> l, value |-> v, sectors |-> sectors]

Put(img, l, v) == [img EXCEPT ![l] = v]

\* What only some of the sectors leave of the old content.  The fields of block 0
\* that ever change lie in the first sector of the superblock, its checksum in the
\* second.
Parts(w, old) ==
    IF w.sectors = "one" \/ w.value = old THEN {}
    ELSE IF w.at = 0 THEN {[half EXCEPT !.whole = FALSE] : half \in {old, w.value}}
    ELSE {Torn}

\* A power loss leaves nothing of a request, all of it or a part.
Outcomes(img, w) == {img} \cup {Put(img, w.at, v) : v \in {w.value} \cup Parts(w, img[w.at])}

Landed(w) == UNION {Outcomes(img, w) : img \in media}

Write(w) ==
    /\ disk' = Put(disk, w.at, w.value)
    /\ media' = Landed(w)

\* So does a request that fails while the machine goes on.
FailedWrite(w) ==
    /\ disk' \in Outcomes(disk, w)
    /\ media' = Landed(w)

Barrier == media' = {disk} /\ UNCHANGED disk

-----------------------------------------------------------------------------
(* A mutation.                                                             *)

Goto(next) == pc' = next /\ done' = 0

\* set_clean_state writes the marker and the rest of block 0 as it reads it, without
\* a look at the checksum there.
Marker(clean) == To(0, Superblock(clean, disk[0].image), "many")

\* The descriptor, then the images.
LogBlock ==
    IF done = 0 THEN To(Journal(1), Descriptor(sequence, tags), "many")
                ELSE To(Journal(1 + done), after[tags[done]], "many")

ArmedHead == To(Journal(0), LogHead(1, sequence), "one")
CommitRecord == To(Journal(Len(tags) + 2), Sealed(sequence), "one")

\* The images go in place: from memory after the commit, and in recovery from
\* the log, which holds the same.
CheckpointBlock == LET b == tags[done + 1] IN To(b, InPlace(b, after[b]), "many")

\* Mutant: the sequence of the retired transaction is used again.
RetiredHeadSame == To(Journal(0), LogHead(0, sequence), "one")

RetiredHead == To(Journal(0), LogHead(0, sequence + 1), "one")

WriteThen(from, w, to) ==
    /\ pc = from
    /\ Write(w)
    /\ Goto(to)
    /\ UNCHANGED <<sequence, tags, after, mounted, fates, overtaken>>

FlushThen(from, to) ==
    /\ pc = from
    /\ Barrier
    /\ Goto(to)
    /\ UNCHANGED <<sequence, tags, after, mounted, fates, overtaken>>

\* A transaction may be found in the log.
Armed == \E img \in media : img[Journal(0)].start # 0

Unstage == tags' = <<>> /\ after' = <<>>

\* After a request that failed the error is returned.  A mount stays in use, and
\* its next operation drops what was staged; a recovery has used up its region.
Fails == Goto(IF mounted THEN "Idle" ELSE "Failed") /\ Unstage

\* begin_mutation reads the journal's superblock when it is not cached; whether a
\* transaction of before is still in the log it does not look at.
BeginMutation ==
    /\ pc = "Idle"
    /\ sequence' = IF sequence = 0 THEN disk[Journal(0)].sequence ELSE sequence
    /\ sequence' < MaxSequence
    /\ \/ Write(Marker(FALSE)) /\ Goto("FlushDirty") /\ UNCHANGED <<tags, after>>
       \/ FailedWrite(Marker(FALSE)) /\ Fails
    /\ overtaken' = (overtaken \/ Armed)
    /\ UNCHANGED <<mounted, fates>>

\* What was written in place before is settled now, too.
FlushDirty ==
    /\ pc = "FlushDirty"
    /\ Barrier
    /\ fates' = IF disk[Journal(0)].start = 0 THEN {Volume(disk)} ELSE fates
    /\ Goto("Stage")
    /\ UNCHANGED <<sequence, tags, after, mounted, overtaken>>

\* The operation stages its blocks in memory, none when it changes nothing.
Stage(t, f) ==
    /\ pc = "Stage"
    /\ tags' = t
    /\ after' = [b \in VolumeBlock |-> IF b \in Range(t) THEN f[b] ELSE ImageOf(disk, b)]
    /\ fates' = fates \cup {after'}
    /\ Goto(IF t = <<>> THEN "Clean" ELSE "Log")
    /\ UNCHANGED <<disk, media, sequence, mounted, overtaken>>

\* An operation that fails while it stages returns.  The next one drops what
\* was staged, and the volume stays marked until a mutation succeeds.
AbortMutation ==
    /\ pc = "Stage"
    /\ Goto("Idle")
    /\ UNCHANGED <<disk, media, sequence, tags, after, mounted, fates, overtaken>>

Log ==
    /\ pc = "Log"
    /\ Write(LogBlock)
    /\ IF done < Len(tags) THEN done' = done + 1 /\ UNCHANGED pc ELSE Goto("FlushLog")
    /\ UNCHANGED <<sequence, tags, after, mounted, fates, overtaken>>

\* Mutant: the head is published before the log is settled.
FlushLogSkipped ==
    /\ pc = "FlushLog"
    /\ Goto("Arm")
    /\ UNCHANGED <<disk, media, sequence, tags, after, mounted, fates, overtaken>>

FlushLog == FlushThen("FlushLog", "Arm")
Arm == WriteThen("Arm", ArmedHead, "FlushArm")
FlushArm == FlushThen("FlushArm", "Commit")
WriteRecord == WriteThen("Commit", CommitRecord, "FlushCommit")
FlushRecord == FlushThen("FlushCommit", "Checkpoint")

Checkpoint ==
    /\ pc = "Checkpoint"
    /\ Write(CheckpointBlock)
    /\ IF done + 1 < Len(tags) THEN done' = done + 1 /\ UNCHANGED pc ELSE Goto("FlushCheckpoint")
    /\ UNCHANGED <<sequence, tags, after, mounted, fates, overtaken>>

FlushCheckpoint == FlushThen("FlushCheckpoint", "Retire")
Retire == WriteThen("Retire", RetiredHead, "FlushRetire")

\* The cached sequence advances once the retired head is settled.
FlushRetire ==
    /\ pc = "FlushRetire"
    /\ Barrier
    /\ sequence' = disk[Journal(0)].sequence
    /\ Goto("Clean")
    /\ UNCHANGED <<tags, after, mounted, fates, overtaken>>

MarkClean == WriteThen("Clean", Marker(TRUE), "FlushClean")

\* The caller is told; a recovery ends with an ordinary mount.
FlushClean ==
    /\ pc = "FlushClean"
    /\ Barrier
    /\ fates' = {Volume(disk)}
    /\ mounted' = TRUE
    /\ Goto("Idle") /\ Unstage
    /\ UNCHANGED <<sequence, overtaken>>

\* set_modified_time writes one sector of an inode table block in place and
\* returns without a flush, or fails.  A block that is torn stays so.
SetModifiedTime(b, image) ==
    LET w == To(b, IF disk[b] = Torn THEN Torn ELSE image, "one") IN
    /\ pc = "Idle" /\ b # 0
    /\ Write(w) \/ FailedWrite(w)
    /\ fates' = fates \cup {[volume EXCEPT ![b] = image] : volume \in fates}
    /\ UNCHANGED <<pc, done, sequence, tags, after, mounted, overtaken>>

-----------------------------------------------------------------------------
(* Mounting.                                                               *)

\* The ordinary mount admits only a volume that is marked clean.
MountVolume ==
    /\ pc = "Down" /\ Opens(disk) /\ disk[0].clean
    /\ mounted' = TRUE /\ sequence' = 0
    /\ Goto("Idle")
    /\ UNCHANGED <<disk, media, tags, after, fates, overtaken>>

\* Recovery admits only one that is not.  A transaction with its commit record
\* is checkpointed again, one without is retired, and an empty log needs
\* nothing.
Recover ==
    LET head == disk[Journal(0)] IN
    /\ pc = "Down" /\ Opens(disk) /\ ~ disk[0].clean
    /\ sequence' = head.sequence
    /\ \/ head.start = 0 /\ Goto("Clean") /\ UNCHANGED <<tags, after>>
       \/ /\ head.start # 0 /\ Committed(disk, head.sequence)
          /\ tags' = disk[Journal(1)].tags
          /\ after' = Replayed(disk)
          /\ Goto("Checkpoint")
       \/ /\ head.start # 0 /\ ~ Committed(disk, head.sequence)
          /\ Goto("Retire") /\ UNCHANGED <<tags, after>>
    /\ UNCHANGED <<disk, media, mounted, fates, overtaken>>

-----------------------------------------------------------------------------
(* Failures.                                                               *)

\* A request fails.  What a flush has settled then is not known.
RequestError ==
    /\ \/ pc = "Log" /\ FailedWrite(LogBlock)
       \/ pc = "Arm" /\ FailedWrite(ArmedHead)
       \/ pc = "Commit" /\ FailedWrite(CommitRecord)
       \/ pc = "Checkpoint" /\ FailedWrite(CheckpointBlock)
       \/ pc = "Retire" /\ FailedWrite(RetiredHead)
       \/ pc = "Clean" /\ FailedWrite(Marker(TRUE))
       \/ /\ pc \in {"FlushDirty", "FlushLog", "FlushArm", "FlushCommit", "FlushCheckpoint",
                      "FlushRetire", "FlushClean"}
          /\ UNCHANGED <<disk, media>>
    /\ Fails
    /\ UNCHANGED <<sequence, mounted, fates, overtaken>>

\* Power fails at any point; what the medium then holds is where the next
\* mount starts from.
PowerCut ==
    /\ \E img \in media :
          /\ disk' = img
          /\ media' = {img}
          /\ fates' = IF Legible(img) THEN {Replayed(img)} ELSE {}
    /\ sequence' = 0 /\ mounted' = FALSE
    /\ Goto("Down") /\ Unstage
    /\ UNCHANGED overtaken

-----------------------------------------------------------------------------
\* A volume as it is made: marked clean, with an empty log.
Formatted(volume) ==
    [l \in Location |->
        IF l = 0 THEN Superblock(TRUE, volume[0])
        ELSE IF l < VolumeBlocks THEN volume[l]
        ELSE IF l = Journal(0) THEN LogHead(0, 1) ELSE Blank]

JournalInit ==
    /\ \E volume \in [VolumeBlock -> Image] :
          disk = Formatted(volume) /\ fates = {volume}
    /\ media = {disk}
    /\ pc = "Down" /\ done = 0 /\ sequence = 0 /\ tags = <<>> /\ after = <<>>
    /\ mounted = FALSE /\ overtaken = FALSE

JournalNext ==
    \/ MountVolume \/ Recover
    \/ BeginMutation \/ FlushDirty \/ AbortMutation
    \/ \E t \in Tags, f \in [VolumeBlock -> Image] : Stage(t, f)
    \/ Log \/ FlushLog \/ Arm \/ FlushArm \/ WriteRecord \/ FlushRecord
    \/ Checkpoint \/ FlushCheckpoint \/ Retire \/ FlushRetire \/ MarkClean \/ FlushClean
    \/ \E b \in VolumeBlock, image \in Image : SetModifiedTime(b, image)
    \/ RequestError \/ PowerCut

JournalSpec == JournalInit /\ [][JournalNext]_journalVars

-----------------------------------------------------------------------------
\* Whenever power is lost, in a mutation, in the recovery from an earlier one or
\* after a failed request, the volume opens and holds what it held before the
\* mutation or what the whole of it leads to; after a mutation has returned, the
\* latter.  There are two exceptions.  A power loss in the middle of a write of
\* block 0 may leave a superblock with the wrong checksum, which neither the mount
\* nor recovery opens.  And a mutation that begins on a mount where another one
\* failed between arming and retiring its log takes the guarantee away.
TwoFates ==
    overtaken \/ \A img \in media : img[0].whole => Opens(img) /\ Replayed(img) \in fates

\* While a mutation has not armed the log nothing is replayable, and before it
\* writes its commit record the log holds none that could be taken for it: stale
\* records of earlier, failed or discarded transactions never complete a new one,
\* unless it began before the log of a failed one was retired.
OneReplayable ==
    overtaken \/ \A img \in media :
        /\ pc \in {"FlushDirty", "Stage", "Log", "FlushLog"} => img[Journal(0)].start = 0
        /\ pc \in {"FlushDirty", "Stage", "Log", "FlushLog", "Arm", "FlushArm", "Commit"} =>
              \A i \in 1 .. MaxTx + 2 : img[Journal(i)] # Sealed(img[Journal(0)].sequence)

\* What the design states without an exception for a failed request: whenever
\* power is lost, a superblock that is whole opens a volume with one of two fates.
ExactlyTwoFates == \A img \in media : img[0].whole => Opens(img) /\ Replayed(img) \in fates
=============================================================================
