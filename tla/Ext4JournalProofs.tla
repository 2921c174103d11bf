------------------------- MODULE Ext4JournalProofs -------------------------
(***************************************************************************)
(* An interrupted mutation of an ext4 volume happens or does not, for      *)
(* every number of blocks, images and transactions, whichever requests     *)
(* fail, until a mutation begins while the log of another one is armed.    *)
(* The argument is about single contents of the medium: what a write may   *)
(* leave is looked at from every content that was possible before it, and  *)
(* a flush leaves the one that is read.                                    *)
(***************************************************************************)
EXTENDS Ext4Journal, TLAPS

Super == [clean : BOOLEAN, image : Image, whole : BOOLEAN]
Heads == [start : {0, 1}, sequence : 1 .. MaxSequence]
Seals == [sequence : 1 .. MaxSequence, commit : {TRUE}]
Descriptors == [sequence : 1 .. MaxSequence, tags : Tags]
Content == Image \cup {Torn, Blank} \cup Super \cup Heads \cup Seals \cup Descriptors
Medium == [Location -> Content]
Volumes == [VolumeBlock -> Image]

\* The number the log is at.
Number(img) == img[Journal(0)].sequence
LogAt(img, start, seq) == img[Journal(0)] = LogHead(start, seq)

\* Every commit record in the log is of a transaction before n.
Older(img, n) ==
    \A i \in 1 .. MaxTx + 2 : \A k \in 1 .. MaxSequence : img[Journal(i)] = Sealed(k) => k < n

\* What the next mount needs to find, whenever power is lost.
Sound(img) ==
    /\ img \in Medium /\ img[0] \in Super /\ img[Journal(0)] \in Heads
    /\ img[0].clean => img[Journal(0)].start = 0
    /\ img[Journal(0)].start = 1 => Number(img) < MaxSequence /\ Decoded(img, Number(img))
    /\ Older(img, Number(img) + img[Journal(0)].start)

Dirty(img) == ~ img[0].clean

\* The transaction that stages t for the volume a lies in the log, and the blocks
\* it does not stage are as in a.
Logged(img, seq, t, a) ==
    /\ img[Journal(1)] = Descriptor(seq, t)
    /\ \A i \in 1 .. Len(t) : img[Journal(1 + i)] = a[t[i]]
Outside(img, t, a) == \A b \in VolumeBlock : b \notin Range(t) => ImageOf(img, b) = a[b]
Carries(img, seq, t, a) == Dirty(img) /\ Logged(img, seq, t, a) /\ Outside(img, t, a)
IsSealed(img, seq, t) == img[Journal(Len(t) + 2)] = Sealed(seq)

\* The first n staged blocks are in place.
Placed(img, t, a, n) == \A i \in 1 .. n : ImageOf(img, t[i]) = a[t[i]]

JType ==
    /\ done \in Nat /\ sequence \in 0 .. MaxSequence
    /\ tags \in Tags /\ fates \subseteq Volumes

Lasting == disk \in media /\ \A img \in media : Sound(img) /\ Replayed(img) \in fates

Settled == media = {disk}

\* The transaction under way.
Staged ==
    /\ sequence \in 1 .. MaxSequence - 1
    /\ tags # <<>> /\ after \in fates /\ after \in Volumes

\* The replay of img writes block b.
Covers(img, b) ==
    /\ Dirty(img) /\ img[Journal(0)].start = 1
    /\ Committed(img, Number(img)) /\ b \in Range(img[Journal(1)].tags)

\* A block that is torn under a running mount is one that every replay writes.
Mended == \A b \in VolumeBlock \ {0} : disk[b] = Torn => \A img \in media : Covers(img, b)

\* Nothing is under way: one image of block 0, and the number of the log.
AtRest ==
    \A img \in media : /\ LogAt(img, 0, Number(disk))
                       /\ img[0].image = disk[0].image

\* Between two operations; the last one may have failed while its log was armed.
AtIdle ==
    \/ AtRest /\ sequence \in {0, Number(disk)}
    \/ Armed /\ Mended
AtFlushDirty == AtRest /\ Dirty(disk) /\ sequence = Number(disk) /\ sequence \in 1 .. MaxSequence - 1
AtStage == Settled /\ Dirty(disk) /\ LogAt(disk, 0, sequence) /\ sequence \in 1 .. MaxSequence - 1

AtLog ==
    /\ Staged /\ done <= Len(tags)
    /\ \A img \in media : /\ Dirty(img) /\ LogAt(img, 0, sequence) /\ Outside(img, tags, after)
                          /\ img[0].image = disk[0].image
    /\ done > 0 => disk[Journal(1)] = Descriptor(sequence, tags)
    /\ \A i \in 1 .. done - 1 : disk[Journal(1 + i)] = after[tags[i]]
AtFlushLog ==
    /\ Staged /\ Carries(disk, sequence, tags, after)
    /\ \A img \in media : LogAt(img, 0, sequence) /\ img[0].image = disk[0].image
AtArm == Staged /\ Settled /\ LogAt(disk, 0, sequence) /\ Carries(disk, sequence, tags, after)
AtFlushArm ==
    /\ Staged /\ LogAt(disk, 1, sequence) /\ Carries(disk, sequence, tags, after)
    /\ \A img \in media : Number(img) = sequence /\ Older(img, sequence)
AtCommit ==
    /\ Staged /\ Settled /\ LogAt(disk, 1, sequence)
    /\ Carries(disk, sequence, tags, after) /\ Older(disk, sequence)
AtFlushCommit ==
    /\ Staged /\ LogAt(disk, 1, sequence)
    /\ Carries(disk, sequence, tags, after) /\ IsSealed(disk, sequence, tags)
    /\ Volume(disk) \in Volumes

\* Every content leads to the new volume by replay.
Replayable ==
    /\ Staged
    /\ \A img \in media : /\ LogAt(img, 1, sequence) /\ Carries(img, sequence, tags, after)
                          /\ IsSealed(img, sequence, tags)

AtCheckpoint == Replayable /\ done < Len(tags) /\ Placed(disk, tags, after, done)
AtFlushCheckpoint == Replayable /\ Placed(disk, tags, after, Len(tags))
AtRetire ==
    /\ Settled /\ Dirty(disk) /\ LogAt(disk, 1, sequence)
    /\ sequence \in 1 .. MaxSequence - 1 /\ Volume(disk) \in fates
AtFlushRetire ==
    Armed /\ Dirty(disk) /\ LogAt(disk, 0, sequence + 1) /\ sequence \in 1 .. MaxSequence - 1
AtClean == Settled /\ Dirty(disk) /\ LogAt(disk, 0, sequence)
AtFlushClean == AtRest /\ sequence = Number(disk)
AtDown == Settled

Here ==
    /\ pc = "Idle" => AtIdle
    /\ pc = "FlushDirty" => AtFlushDirty
    /\ pc = "Stage" => AtStage
    /\ pc = "Log" => AtLog
    /\ pc = "FlushLog" => AtFlushLog
    /\ pc = "Arm" => AtArm
    /\ pc = "FlushArm" => AtFlushArm
    /\ pc = "Commit" => AtCommit
    /\ pc = "FlushCommit" => AtFlushCommit
    /\ pc = "Checkpoint" => AtCheckpoint
    /\ pc = "FlushCheckpoint" => AtFlushCheckpoint
    /\ pc = "Retire" => AtRetire
    /\ pc = "FlushRetire" => AtFlushRetire
    /\ pc = "Clean" => AtClean
    /\ pc = "FlushClean" => AtFlushClean
    /\ pc = "Down" => AtDown

JInv == JType /\ Lasting /\ Here

-----------------------------------------------------------------------------
(***************************************************************************)
(* Blocks and contents.                                                    *)
(***************************************************************************)
LEMMA Places ==
  /\ 0 \in VolumeBlock /\ VolumeBlock \subseteq Location
  /\ \A i \in 0 .. MaxTx + 2 : Journal(i) \in Location /\ Journal(i) \notin VolumeBlock
  /\ \A i, j \in 0 .. MaxTx + 2 : Journal(i) = Journal(j) => i = j
  /\ 0 \in 0 .. MaxTx + 2 /\ 1 \in 0 .. MaxTx + 2
  BY JournalAssumption DEF VolumeBlock, Location, Journal

LEMMA TagsAre ==
  ASSUME NEW t \in Tags
  PROVE  /\ Len(t) \in 0 .. MaxTx /\ DOMAIN t = 1 .. Len(t)
         /\ \A i \in 1 .. Len(t) : t[i] \in VolumeBlock
         /\ \A i, j \in 1 .. Len(t) : t[i] = t[j] => i = j
         /\ \A i \in 1 .. Len(t) : 1 + i \in 2 .. MaxTx + 2
         /\ Len(t) + 2 \in 2 .. MaxTx + 2
         /\ t # <<>> => Len(t) > 0
  <1>1. PICK m \in 0 .. MaxTx : t \in [1 .. m -> VolumeBlock] /\ IsInjective(t)
    BY Zenon DEF Tags, Injection
  <1>2. t \in Seq(VolumeBlock) /\ Len(t) = m
    BY <1>1
  <1>3. DOMAIN t = 1 .. m
    BY <1>1, Zenon
  <1>4. \A i, j \in 1 .. m : t[i] = t[j] => i = j
    BY <1>1, <1>3, Zenon DEF IsInjective
  <1>5. t # <<>> => m > 0
    BY <1>1, <1>2
  <1> QED BY <1>1, <1>2, <1>3, <1>4, <1>5, JournalAssumption

LEMMA PutIs ==
  ASSUME NEW img \in Medium, NEW l \in Location, NEW v \in Content
  PROVE  /\ Put(img, l, v) \in Medium /\ Put(img, l, v)[l] = v
         /\ \A m \in Location : m # l => Put(img, l, v)[m] = img[m]
  BY Zenon DEF Put, Medium

LEMMA Records ==
  /\ \A c \in BOOLEAN, x \in Image : /\ Superblock(c, x) \in Super
                                    /\ Superblock(c, x).clean = c /\ Superblock(c, x).image = x
  /\ \A st \in {0, 1}, seq \in 1 .. MaxSequence :
        /\ LogHead(st, seq) \in Heads
        /\ LogHead(st, seq).start = st /\ LogHead(st, seq).sequence = seq
  /\ \A seq \in 1 .. MaxSequence, t \in Tags :
        /\ Descriptor(seq, t) \in Descriptors
        /\ Descriptor(seq, t).tags = t
  /\ \A seq \in 1 .. MaxSequence : Sealed(seq) \in Seals
  BY Zenon DEF Superblock, LogHead, Descriptor, Sealed, Super, Heads, Descriptors, Seals

LEMMA SealsDiffer ==
  ASSUME NEW k \in 1 .. MaxSequence, NEW seq \in 1 .. MaxSequence
  PROVE  /\ Sealed(k) = Sealed(seq) => k = seq
         /\ \A t \in Tags : Sealed(k) # Descriptor(seq, t)
         /\ Sealed(k) \notin Image \cup {Torn, Blank}
  <1>1. Sealed(k) = Sealed(seq) => k = seq
    <2>1. Sealed(k).sequence = k /\ Sealed(seq).sequence = seq
      BY Zenon DEF Sealed
    <2> QED BY <2>1, Zenon
  <1>2. ASSUME NEW t \in Tags PROVE Sealed(k) # Descriptor(seq, t)
    <2>1. "tags" \notin DOMAIN Sealed(k) /\ "tags" \in DOMAIN Descriptor(seq, t)
      BY Zenon DEF Sealed, Descriptor
    <2> QED BY <2>1, Zenon
  <1> QED BY <1>1, <1>2, EscapeAssumption, Zenon

LEMMA HeadIs ==
  ASSUME NEW img, NEW st \in {0, 1}, NEW seq \in 1 .. MaxSequence, LogAt(img, st, seq)
  PROVE  img[Journal(0)].start = st /\ Number(img) = seq /\ img[Journal(0)] \in Heads
  BY Records DEF LogAt, Number

LEMMA SoundHead ==
  ASSUME NEW img, Sound(img)
  PROVE  /\ img[Journal(0)].start \in {0, 1} /\ Number(img) \in 1 .. MaxSequence
         /\ LogAt(img, img[Journal(0)].start, Number(img))
         /\ img[0].image \in Image /\ img[0].clean \in BOOLEAN
         /\ \A i \in 0 .. MaxTx + 2 : img[Journal(i)] \in Content
  <1>1. img[0] \in Super /\ img[Journal(0)] \in Heads /\ img \in Medium
    BY Zenon DEF Sound
  <1>2. img[Journal(0)].start \in {0, 1} /\ Number(img) \in 1 .. MaxSequence
    BY <1>1, Zenon DEF Heads, Number
  <1>3. img[Journal(0)] = LogHead(img[Journal(0)].start, Number(img))
    BY <1>1, Zenon DEF Heads, Number, LogHead
  <1> QED BY <1>1, <1>2, <1>3, Places, Zenon DEF Super, LogAt, Medium

-----------------------------------------------------------------------------
(***************************************************************************)
(* What a mount makes of a content.                                        *)
(***************************************************************************)
LEMMA SoundOpens ==
  ASSUME NEW img, Sound(img)
  PROVE  Legible(img) /\ (img[0].whole => Opens(img))
  <1>1. img[Journal(0)].start \in {0, 1}
    BY SoundHead, Zenon
  <1> QED BY <1>1, Zenon DEF Opens, Legible, Sound, Number

LEMMA ReplayEmpty ==
  ASSUME NEW img, NEW seq \in 1 .. MaxSequence, LogAt(img, 0, seq)
  PROVE  Replayed(img) = Volume(img)
  BY HeadIs, Zenon DEF Replayed

LEMMA ReplayUncommitted ==
  ASSUME NEW img, ~ Committed(img, Number(img))
  PROVE  Replayed(img) = Volume(img)
  BY Zenon DEF Replayed, Number

LEMMA NotCommitted ==
  ASSUME NEW img, NEW seq \in 1 .. MaxSequence, NEW t \in Tags, NEW a, Logged(img, seq, t, a), Older(img, seq)
  PROVE  ~ Committed(img, seq)
  <1>1. img[Journal(1)].tags = t
    BY Records DEF Logged
  <1>2. Len(t) + 2 \in 1 .. MaxTx + 2
    BY TagsAre
  <1>3. img[Journal(Len(t) + 2)] # Sealed(seq)
    BY <1>2 DEF Older
  <1> QED BY <1>1, <1>3, Zenon DEF Committed

LEMMA ReplayCommitted ==
  ASSUME NEW img, NEW seq \in 1 .. MaxSequence, NEW t \in Tags, NEW a \in Volumes,
         LogAt(img, 1, seq), Carries(img, seq, t, a), IsSealed(img, seq, t)
  PROVE  Replayed(img) = a
  <1>1. img[Journal(1)].tags = t
    BY Records DEF Carries, Logged
  <1>2. Committed(img, seq)
    BY <1>1, Zenon DEF Committed, IsSealed
  <1>3. img[Journal(0)].start = 1 /\ img[Journal(0)].sequence = seq /\ ~ img[0].clean
    BY HeadIs, Zenon DEF Number, Carries, Dirty
  <1>4. Replayed(img) = [b \in VolumeBlock |-> IF \E i \in DOMAIN t : t[i] = b
                              THEN img[Journal(1 + CHOOSE i \in DOMAIN t : t[i] = b)]
                              ELSE ImageOf(img, b)]
    BY <1>1, <1>2, <1>3 DEF Replayed
  <1>5. ASSUME NEW b \in VolumeBlock
        PROVE  (IF \E i \in DOMAIN t : t[i] = b
                THEN img[Journal(1 + CHOOSE i \in DOMAIN t : t[i] = b)] ELSE ImageOf(img, b)) = a[b]
    <2>1. CASE \E i \in DOMAIN t : t[i] = b
      <3> DEFINE c == CHOOSE i \in DOMAIN t : t[i] = b
      <3>1. c \in DOMAIN t /\ t[c] = b
        BY <2>1, Zenon
      <3> HIDE DEF c
      <3>2. c \in 1 .. Len(t)
        BY <3>1, TagsAre, Zenon
      <3>3. img[Journal(1 + c)] = a[b]
        BY <3>1, <3>2, Zenon DEF Carries, Logged
      <3> QED BY <2>1, <3>3, Zenon DEF c
    <2>2. CASE ~ \E i \in DOMAIN t : t[i] = b
      BY <2>2, Zenon DEF Carries, Outside, Range
    <2> QED BY <2>1, <2>2, Zenon
  <1>6. a = [b \in VolumeBlock |-> a[b]]
    BY Zenon DEF Volumes
  <1> QED BY <1>4, <1>5, <1>6, Zenon

-----------------------------------------------------------------------------
(***************************************************************************)
(* What a write leaves alone.                                              *)
(***************************************************************************)
LogKept(new, img) == \A i \in 0 .. MaxTx + 2 : new[Journal(i)] = img[Journal(i)]
VolumeKept(new, img) == \A b \in VolumeBlock : new[b] = img[b]

LEMMA VolumeWrite ==
  ASSUME NEW img \in Medium, NEW b \in VolumeBlock, NEW v \in Content
  PROVE  /\ Put(img, b, v) \in Medium /\ Put(img, b, v)[b] = v /\ LogKept(Put(img, b, v), img)
         /\ \A c \in VolumeBlock : c # b => Put(img, b, v)[c] = img[c]
  BY PutIs, Places DEF LogKept

LEMMA LogWrite ==
  ASSUME NEW img \in Medium, NEW i \in 0 .. MaxTx + 2, NEW v \in Content
  PROVE  /\ Put(img, Journal(i), v) \in Medium /\ Put(img, Journal(i), v)[Journal(i)] = v
         /\ VolumeKept(Put(img, Journal(i), v), img)
         /\ \A j \in 0 .. MaxTx + 2 : j # i => Put(img, Journal(i), v)[Journal(j)] = img[Journal(j)]
  BY PutIs, Places DEF VolumeKept

LEMMA VolumeSame ==
  ASSUME NEW img, NEW new, VolumeKept(new, img)
  PROVE  /\ Volume(new) = Volume(img) /\ new[0] = img[0] /\ Dirty(new) = Dirty(img)
         /\ \A t, a : Outside(img, t, a) => Outside(new, t, a)
  <1>1. new[0] = img[0]
    BY Places, Zenon DEF VolumeKept
  <1>2. \A b \in VolumeBlock : ImageOf(new, b) = ImageOf(img, b)
    BY <1>1, Zenon DEF VolumeKept, ImageOf
  <1>3. Volume(new) = Volume(img)
    BY <1>2, Zenon DEF Volume
  <1>4. \A t, a : Outside(img, t, a) => Outside(new, t, a)
    BY <1>2, Zenon DEF Outside
  <1> QED BY <1>1, <1>3, <1>4, Zenon DEF Dirty

LEMMA SoundKept ==
  ASSUME NEW img, NEW new \in Medium, Sound(img), LogKept(new, img), new[0] \in Super,
         new[0].clean => img[Journal(0)].start = 0
  PROVE  Sound(new) /\ new[Journal(0)] = img[Journal(0)] /\ Number(new) = Number(img)
  <1>1. new[Journal(0)] = img[Journal(0)] /\ new[Journal(1)] = img[Journal(1)]
    BY Places, Zenon DEF LogKept
  <1>2. Number(new) = Number(img)
    BY <1>1, Zenon DEF Number
  <1>3. \A i \in 1 .. MaxTx + 2 : new[Journal(i)] = img[Journal(i)]
    BY DEF LogKept
  <1>4. \A n : Older(img, n) => Older(new, n)
    BY <1>3, Zenon DEF Older
  <1>5. \A n : Decoded(img, n) => Decoded(new, n)
    BY <1>1, Zenon DEF Decoded
  <1> QED BY <1>1, <1>2, <1>4, <1>5 DEF Sound

LEMMA CarriesKept ==
  ASSUME NEW img, NEW new, LogKept(new, img), NEW seq, NEW t \in Tags, NEW a
  PROVE  /\ Logged(img, seq, t, a) => Logged(new, seq, t, a)
         /\ IsSealed(img, seq, t) => IsSealed(new, seq, t)
  <1>1. Len(t) + 2 \in 0 .. MaxTx + 2 /\ \A i \in 1 .. Len(t) : 1 + i \in 0 .. MaxTx + 2
    BY TagsAre
  <1> QED BY <1>1, Places, Zenon DEF LogKept, Logged, IsSealed

-----------------------------------------------------------------------------
(***************************************************************************)
(* Requests.                                                               *)
(***************************************************************************)
\* Block 0 with the checksum of other contents.
Half(s) == [s EXCEPT !.whole = FALSE]

LEMMA Request ==
  ASSUME NEW l, NEW v, NEW sectors
  PROVE  /\ To(l, v, sectors).at = l /\ To(l, v, sectors).value = v
         /\ To(l, v, sectors).sectors = sectors
  BY Zenon DEF To

LEMMA PartsAre ==
  ASSUME NEW l, NEW v, NEW old
  PROVE  /\ Parts(To(l, v, "one"), old) = {}
         /\ l # 0 => Parts(To(l, v, "many"), old) \subseteq {Torn}
         /\ l = 0 => Parts(To(l, v, "many"), old) \subseteq {Half(old), Half(v)}
  <1>1. Parts(To(l, v, "one"), old) = {}
    BY DEF Parts, To
  <1>2. l # 0 => Parts(To(l, v, "many"), old) \subseteq {Torn}
    BY DEF Parts, To
  <1>3. l = 0 => Parts(To(l, v, "many"), old) \subseteq {Half(old), Half(v)}
    BY DEF Parts, To, Half
  <1> QED BY <1>1, <1>2, <1>3

LEMMA Lands ==
  ASSUME NEW w, NEW img \in Landed(w)
  PROVE  img \in media \/ \E old \in media : \E x \in {w.value} \cup Parts(w, old[w.at]) : img = Put(old, w.at, x)
  BY Zenon DEF Landed, Outcomes

\* A request within one sector lands or does not.
LEMMA OneLands ==
  ASSUME NEW l, NEW v, NEW img \in Landed(To(l, v, "one"))
  PROVE  img \in media \/ \E old \in media : img = Put(old, l, v)
  <1>1. img \in media \/ \E old \in media : \E x \in {v} \cup Parts(To(l, v, "one"), old[l]) : img = Put(old, l, x)
    <2> DEFINE w == To(l, v, "one")
    <2>1. w.at = l /\ w.value = v /\ img \in Landed(w)
      BY Request
    <2> HIDE DEF w
    <2>2. img \in media \/ \E old \in media : \E x \in {w.value} \cup Parts(w, old[w.at]) : img = Put(old, w.at, x)
      BY <2>1, Lands, Zenon
    <2> QED BY <2>1, <2>2, Zenon DEF w
  <1>2. \A old \in media : {v} \cup Parts(To(l, v, "one"), old[l]) = {v}
    BY PartsAre
  <1> QED BY <1>1, <1>2, Zenon

LEMMA OneOutcomes ==
  ASSUME NEW l, NEW v, NEW old, NEW img \in Outcomes(old, To(l, v, "one"))
  PROVE  img = old \/ img = Put(old, l, v)
  <1>1. Parts(To(l, v, "one"), old[l]) = {}
    BY PartsAre
  <1> QED BY <1>1, Request DEF Outcomes

LEMMA ManyLands ==
  ASSUME NEW l, l # 0, NEW v, NEW img \in Landed(To(l, v, "many"))
  PROVE  img \in media \/ \E old \in media, x \in {v, Torn} : img = Put(old, l, x)
  <1>1. img \in media \/ \E old \in media : \E x \in {v} \cup Parts(To(l, v, "many"), old[l]) : img = Put(old, l, x)
    <2> DEFINE w == To(l, v, "many")
    <2>1. w.at = l /\ w.value = v /\ img \in Landed(w)
      BY Request
    <2> HIDE DEF w
    <2>2. img \in media \/ \E old \in media : \E x \in {w.value} \cup Parts(w, old[w.at]) : img = Put(old, w.at, x)
      BY <2>1, Lands, Zenon
    <2> QED BY <2>1, <2>2, Zenon DEF w
  <1>2. \A old \in media : {v} \cup Parts(To(l, v, "many"), old[l]) \subseteq {v, Torn}
    BY PartsAre
  <1> QED BY <1>1, <1>2, Zenon

LEMMA HalfIs ==
  ASSUME NEW s \in Super
  PROVE  Half(s) \in Super /\ Half(s).clean = s.clean /\ Half(s).image = s.image
  BY Zenon DEF Half, Super

LEMMA FirstLands ==
  ASSUME NEW v, NEW img \in Landed(To(0, v, "many"))
  PROVE  img \in media \/ \E old \in media : \E x \in {v, Half(v), Half(old[0])} : img = Put(old, 0, x)
  <1>1. img \in media \/ \E old \in media : \E x \in {v} \cup Parts(To(0, v, "many"), old[0]) : img = Put(old, 0, x)
    <2> DEFINE w == To(0, v, "many")
    <2>1. w.at = 0 /\ w.value = v /\ img \in Landed(w)
      BY Request
    <2> HIDE DEF w
    <2>2. img \in media \/ \E old \in media : \E x \in {w.value} \cup Parts(w, old[w.at]) : img = Put(old, w.at, x)
      BY <2>1, Lands, Zenon
    <2> QED BY <2>1, <2>2, Zenon DEF w
  <1>2. \A old \in media : {v} \cup Parts(To(0, v, "many"), old[0]) \subseteq {v, Half(v), Half(old[0])}
    BY PartsAre
  <1> QED BY <1>1, <1>2, Zenon

\* The marker changes nothing else.
LEMMA MarkerLands ==
  ASSUME Lasting, AtRest, NEW c \in BOOLEAN, NEW img \in Landed(Marker(c))
  PROVE  /\ Sound(img) /\ Replayed(img) \in fates
         /\ LogAt(img, 0, Number(disk)) /\ img[0].image = disk[0].image
  <1>1. disk \in media /\ Number(disk) \in 1 .. MaxSequence /\ disk[0].image \in Image
    BY SoundHead, Zenon DEF Lasting
  <1> DEFINE v == Superblock(c, disk[0].image)
  <1>2. Marker(c) = To(0, v, "many")
    BY Zenon DEF Marker
  <1>3. v \in Super /\ v.image = disk[0].image
    BY <1>1, Records
  <1> HIDE DEF v
  <1>4. CASE img \in media
    BY <1>4, Zenon DEF Lasting, AtRest
  <1>5. ASSUME NEW old \in media, NEW x \in {v, Half(v), Half(old[0])}, img = Put(old, 0, x)
        PROVE  /\ Sound(img) /\ Replayed(img) \in fates
               /\ LogAt(img, 0, Number(disk)) /\ img[0].image = disk[0].image
    <2>1. /\ Sound(old) /\ Replayed(old) \in fates /\ LogAt(old, 0, Number(disk))
          /\ old[0].image = disk[0].image /\ old \in Medium
      BY Zenon DEF Lasting, AtRest, Sound
    <2>0. x \in Super /\ x.image = disk[0].image /\ x \in Content
      <3>1. old[0] \in Super
        BY <2>1, Zenon DEF Sound
      <3>2. x \in Super /\ x.image = disk[0].image
        BY <1>3, <2>1, <3>1, HalfIs, Zenon
      <3> QED BY <3>2, Zenon DEF Content
    <2>2. /\ img \in Medium /\ img[0] = x /\ LogKept(img, old)
          /\ \A b \in VolumeBlock : b # 0 => img[b] = old[b]
      BY <1>5, <2>0, <2>1, VolumeWrite, Places
    <2>3. old[Journal(0)].start = 0
      BY <1>1, <2>1, HeadIs, Zenon
    <2>4. Sound(img) /\ img[Journal(0)] = old[Journal(0)]
      BY <2>0, <2>1, <2>2, <2>3, SoundKept, Zenon
    <2>5. LogAt(img, 0, Number(disk))
      BY <2>1, <2>4, Zenon DEF LogAt
    <2>6. Volume(img) = Volume(old)
      BY <2>0, <2>1, <2>2, Zenon DEF Volume, ImageOf
    <2>7. Replayed(img) = Replayed(old)
      BY <1>1, <2>1, <2>5, <2>6, ReplayEmpty, Zenon
    <2> QED BY <2>0, <2>1, <2>2, <2>4, <2>5, <2>7, Zenon
  <1>6. img \in media \/ \E old \in media : \E x \in {v, Half(v), Half(old[0])} : img = Put(old, 0, x)
    BY <1>2, FirstLands
  <1> QED BY <1>4, <1>5, <1>6

LEMMA LogLands ==
  ASSUME JType, Lasting, AtLog, NEW img \in Landed(LogBlock)
  PROVE  /\ Sound(img) /\ Replayed(img) \in fates
         /\ Dirty(img) /\ LogAt(img, 0, sequence) /\ Outside(img, tags, after)
         /\ img[0].image = disk[0].image
  <1>1. /\ done \in 0 .. Len(tags) /\ 1 + done \in 1 .. MaxTx + 2 /\ sequence \in 1 .. MaxSequence
        /\ tags \in Tags /\ Journal(1 + done) # 0
    BY TagsAre, JournalAssumption DEF JType, AtLog, Staged, Journal
  <1>2. PICK v \in Content : /\ LogBlock = To(Journal(1 + done), v, "many")
                             /\ \A k \in 1 .. MaxSequence : v # Sealed(k)
    <2>1. CASE done = 0
      <3>1. LogBlock = To(Journal(1 + done), Descriptor(sequence, tags), "many")
        BY <2>1 DEF LogBlock
      <3> QED BY <1>1, <3>1, Records, SealsDiffer DEF Content
    <2>2. CASE done # 0
      <3>1. LogBlock = To(Journal(1 + done), after[tags[done]], "many")
        BY <2>2, Zenon DEF LogBlock
      <3>2. after[tags[done]] \in Image
        BY <1>1, <2>2, TagsAre DEF AtLog, Staged, Volumes
      <3> QED BY <3>1, <3>2, EscapeAssumption, Zenon DEF Content
    <2> QED BY <2>1, <2>2, Zenon
  <1>3. CASE img \in media
    BY <1>3, Zenon DEF Lasting, AtLog
  <1>4. ASSUME NEW old \in media, NEW x \in {v, Torn}, img = Put(old, Journal(1 + done), x)
        PROVE  /\ Sound(img) /\ Replayed(img) \in fates
               /\ Dirty(img) /\ LogAt(img, 0, sequence) /\ Outside(img, tags, after)
               /\ img[0].image = disk[0].image
    <2>1. /\ Sound(old) /\ Replayed(old) \in fates /\ LogAt(old, 0, sequence)
          /\ Dirty(old) /\ Outside(old, tags, after) /\ old \in Medium
          /\ old[0].image = disk[0].image
      BY Zenon DEF Lasting, AtLog, Sound
    <2>2. x \in Content /\ \A k \in 1 .. MaxSequence : x # Sealed(k)
      BY <1>2, EscapeAssumption, Zenon DEF Content
    <2>3. /\ img \in Medium /\ img[Journal(1 + done)] = x /\ VolumeKept(img, old)
          /\ \A j \in 0 .. MaxTx + 2 : j # 1 + done => img[Journal(j)] = old[Journal(j)]
      BY <1>1, <1>4, <2>1, <2>2, LogWrite
    <2>4. img[Journal(0)] = old[Journal(0)]
      BY <1>1, <2>3, Places
    <2>5. LogAt(img, 0, sequence)
      BY <2>1, <2>4, Zenon DEF LogAt
    <2>6. Volume(img) = Volume(old) /\ img[0] = old[0] /\ Dirty(img) /\ Outside(img, tags, after)
      BY <2>1, <2>3, VolumeSame, Zenon
    <2>7. Replayed(img) = Replayed(old)
      BY <1>1, <2>1, <2>5, <2>6, ReplayEmpty, Zenon
    <2>8. \A n : Older(old, n) => Older(img, n)
      BY <2>2, <2>3 DEF Older
    <2>9. Sound(img)
      <3>1. Number(img) = Number(old) /\ img[Journal(0)].start = 0
        BY <1>1, <2>1, <2>5, HeadIs, Zenon
      <3> QED BY <2>1, <2>3, <2>4, <2>6, <2>8, <3>1 DEF Sound
    <2> QED BY <2>1, <2>5, <2>6, <2>7, <2>9, Zenon
  <1>5. img \in media \/ \E old \in media, x \in {v, Torn} : img = Put(old, Journal(1 + done), x)
    BY <1>1, <1>2, ManyLands
  <1> QED BY <1>3, <1>4, <1>5

LEMMA ArmLands ==
  ASSUME JType, Lasting, AtArm, NEW img \in Landed(ArmedHead)
  PROVE  /\ Sound(img) /\ Replayed(img) \in fates
         /\ Number(img) = sequence /\ Older(img, sequence)
  <1>1. /\ sequence \in 1 .. MaxSequence - 1 /\ sequence \in 1 .. MaxSequence
        /\ tags \in Tags /\ tags # <<>> /\ media = {disk}
    BY JournalAssumption DEF JType, AtArm, Staged, Settled
  <1>2. /\ Sound(disk) /\ Replayed(disk) \in fates /\ LogAt(disk, 0, sequence) /\ disk \in Medium
        /\ Carries(disk, sequence, tags, after)
    BY Zenon DEF Lasting, AtArm, Sound
  <1>3. disk[Journal(0)].start = 0 /\ Number(disk) = sequence
    BY <1>1, <1>2, HeadIs, Zenon
  <1>4. Older(disk, sequence)
    BY <1>1, <1>2, <1>3 DEF Sound
  <1>5. CASE img \in media
    BY <1>1, <1>2, <1>3, <1>4, <1>5, Zenon
  <1>6. ASSUME img = Put(disk, Journal(0), LogHead(1, sequence))
        PROVE  /\ Sound(img) /\ Replayed(img) \in fates
               /\ Number(img) = sequence /\ Older(img, sequence)
    <2>1. LogHead(1, sequence) \in Content /\ LogHead(1, sequence) \in Heads
      BY <1>1, Records, Zenon DEF Content
    <2>2. /\ img \in Medium /\ img[Journal(0)] = LogHead(1, sequence) /\ VolumeKept(img, disk)
          /\ \A j \in 0 .. MaxTx + 2 : j # 0 => img[Journal(j)] = disk[Journal(j)]
      BY <1>2, <1>6, <2>1, Places, LogWrite
    <2>3. Volume(img) = Volume(disk) /\ img[0] = disk[0] /\ ~ img[0].clean
      BY <1>2, <2>2, VolumeSame, Zenon DEF Carries, Dirty
    <2>4. LogAt(img, 1, sequence) /\ Number(img) = sequence /\ img[Journal(0)].start = 1
      BY <1>1, <2>2, HeadIs, Zenon DEF LogAt
    <2>5. Logged(img, sequence, tags, after)
      <3>1. \A i \in 1 .. Len(tags) : 1 + i \in 0 .. MaxTx + 2 /\ 1 + i # 0
        BY <1>1, TagsAre
      <3> QED BY <1>2, <2>2, <3>1, Places DEF Carries, Logged
    <2>6. Older(img, sequence)
      BY <1>4, <2>2 DEF Older
    <2>7. Decoded(img, sequence)
      BY <1>1, <2>5, Zenon DEF Decoded, Logged
    <2>8. Older(img, sequence + 1)
      BY <1>1, <2>6 DEF Older
    <2>9. Sound(img)
      <3>1. Number(img) < MaxSequence
        BY <1>1, <2>4, JournalAssumption
      <3>2. Older(img, Number(img) + img[Journal(0)].start)
        BY <2>4, <2>8, Zenon
      <3>3. img[0] \in Super
        BY <1>2, <2>3, Zenon DEF Sound
      <3> QED BY <2>1, <2>2, <2>3, <2>4, <2>7, <3>1, <3>2, <3>3, Zenon DEF Sound
    <2>10. Replayed(img) = Replayed(disk)
      BY <1>1, <1>2, <2>3, <2>4, <2>5, <2>6, NotCommitted, ReplayUncommitted, ReplayEmpty, Zenon
    <2> QED BY <1>2, <2>4, <2>6, <2>9, <2>10, Zenon
  <1>7. ArmedHead = To(Journal(0), LogHead(1, sequence), "one")
    BY Zenon DEF ArmedHead
  <1> QED BY <1>1, <1>5, <1>6, <1>7, OneLands, Zenon

\* The commit record turns the one replay into the other.
LEMMA SealsWell ==
  ASSUME NEW img, NEW seq \in 1 .. MaxSequence, NEW t \in Tags, NEW a \in Volumes,
         Sound(img), LogAt(img, 1, seq), Carries(img, seq, t, a), Older(img, seq),
         NEW new, new = Put(img, Journal(Len(t) + 2), Sealed(seq))
  PROVE  /\ Sound(new) /\ Replayed(new) = a /\ LogAt(new, 1, seq)
         /\ Carries(new, seq, t, a) /\ IsSealed(new, seq, t)
  <1>1. Len(t) + 2 \in 2 .. MaxTx + 2 /\ Len(t) + 2 \in 0 .. MaxTx + 2 /\ img \in Medium
    BY TagsAre DEF Sound
  <1>2. Sealed(seq) \in Content
    BY Records, Zenon DEF Content
  <1>3. /\ new \in Medium /\ new[Journal(Len(t) + 2)] = Sealed(seq) /\ VolumeKept(new, img)
        /\ \A j \in 0 .. MaxTx + 2 : j # Len(t) + 2 => new[Journal(j)] = img[Journal(j)]
    BY <1>1, <1>2, LogWrite
  <1>4. new[Journal(0)] = img[Journal(0)] /\ new[Journal(1)] = img[Journal(1)]
    BY <1>1, <1>3, Places
  <1>5. new[0] = img[0] /\ Dirty(new) /\ Outside(new, t, a)
    BY <1>3, VolumeSame, Zenon DEF Carries
  <1>6. Logged(new, seq, t, a)
    <2>1. \A i \in 1 .. Len(t) : 1 + i \in 0 .. MaxTx + 2 /\ 1 + i # Len(t) + 2
      BY TagsAre
    <2> QED BY <1>3, <1>4, <2>1, Zenon DEF Carries, Logged
  <1>7. LogAt(new, 1, seq) /\ Number(new) = seq /\ Number(img) = seq
        /\ img[Journal(0)].start = 1 /\ new[Journal(0)].start = 1
    BY <1>4, HeadIs, Zenon DEF LogAt
  <1>8. Older(new, seq + 1)
    <2>1. ASSUME NEW i \in 1 .. MaxTx + 2, NEW k \in 1 .. MaxSequence, new[Journal(i)] = Sealed(k)
          PROVE  k < seq + 1
      <3>1. CASE i = Len(t) + 2
        BY <1>3, <2>1, <3>1, SealsDiffer
      <3>2. CASE i # Len(t) + 2
        <4>1. img[Journal(i)] = Sealed(k)
          BY <1>3, <2>1, <3>2
        <4> QED BY <4>1 DEF Older
      <3> QED BY <3>1, <3>2, Zenon
    <2> QED BY <2>1, Zenon DEF Older
  <1>9. Decoded(new, seq)
    BY <1>4, <1>7, Zenon DEF Sound, Decoded
  <1>10. Sound(new)
    BY <1>3, <1>4, <1>5, <1>7, <1>8, <1>9, Zenon DEF Sound
  <1>11. Carries(new, seq, t, a) /\ IsSealed(new, seq, t)
    BY <1>3, <1>5, <1>6, Zenon DEF Carries, IsSealed
  <1> QED BY <1>7, <1>10, <1>11, ReplayCommitted, Zenon

LEMMA CommitLands ==
  ASSUME JType, Lasting, AtCommit, NEW img \in Landed(CommitRecord)
  PROVE  Sound(img) /\ Replayed(img) \in fates
  <1>1. /\ sequence \in 1 .. MaxSequence - 1 /\ sequence \in 1 .. MaxSequence
        /\ tags \in Tags /\ media = {disk} /\ after \in fates /\ after \in Volumes
    BY JournalAssumption DEF JType, AtCommit, Staged, Settled
  <1>2. /\ Sound(disk) /\ Replayed(disk) \in fates /\ LogAt(disk, 1, sequence) /\ disk \in Medium
        /\ Carries(disk, sequence, tags, after) /\ Older(disk, sequence)
    BY Zenon DEF Lasting, AtCommit, Sound
  <1>3. CASE img \in media
    BY <1>1, <1>2, <1>3, Zenon
  <1>4. ASSUME img = Put(disk, Journal(Len(tags) + 2), Sealed(sequence))
        PROVE  Sound(img) /\ Replayed(img) \in fates
    BY <1>1, <1>2, <1>4, SealsWell
  <1>5. CommitRecord = To(Journal(Len(tags) + 2), Sealed(sequence), "one")
    BY Zenon DEF CommitRecord
  <1> QED BY <1>1, <1>3, <1>4, <1>5, OneLands, Zenon

LEMMA CheckpointLands ==
  ASSUME JType, Lasting, AtCheckpoint, NEW img \in Landed(CheckpointBlock)
  PROVE  /\ Sound(img) /\ Replayed(img) \in fates /\ LogAt(img, 1, sequence)
         /\ Carries(img, sequence, tags, after) /\ IsSealed(img, sequence, tags)
  <1> DEFINE b == tags[done + 1]
             v == InPlace(b, after[b])
  <1>1. /\ sequence \in 1 .. MaxSequence /\ tags \in Tags /\ after \in fates /\ after \in Volumes
        /\ done + 1 \in 1 .. Len(tags)
    BY JournalAssumption, TagsAre DEF JType, AtCheckpoint, Replayable, Staged
  <1>2. b \in VolumeBlock /\ b \in Range(tags) /\ after[b] \in Image
    BY <1>1, TagsAre, Zenon DEF Range, Volumes
  <1>3. CheckpointBlock = To(b, v, "many")
    BY Zenon DEF CheckpointBlock
  <1>4. CASE img \in media
    BY <1>4, Zenon DEF Lasting, AtCheckpoint, Replayable
  <1>5. ASSUME NEW old \in media, NEW x, img = Put(old, b, x),
               b = 0 => x \in {v, Half(v), Half(old[0])}, b # 0 => x \in {v, Torn}
        PROVE  /\ Sound(img) /\ Replayed(img) \in fates /\ LogAt(img, 1, sequence)
               /\ Carries(img, sequence, tags, after) /\ IsSealed(img, sequence, tags)
    <2>1. /\ Sound(old) /\ LogAt(old, 1, sequence) /\ Carries(old, sequence, tags, after)
          /\ IsSealed(old, sequence, tags) /\ old \in Medium
      BY Zenon DEF Lasting, AtCheckpoint, Replayable, Sound
    <2>2. b # 0 => x \in Image \cup {Torn}
      BY <1>2, <1>5, Zenon DEF InPlace
    <2>3. b = 0 => x \in Super /\ x.clean = FALSE
      <3>1. b = 0 => v \in Super /\ v.clean = FALSE
        BY <1>2, Records, Zenon DEF InPlace
      <3>2. old[0] \in Super /\ old[0].clean = FALSE
        BY <2>1, SoundHead, Zenon DEF Sound, Carries, Dirty
      <3> QED BY <1>5, <3>1, <3>2, HalfIs, Zenon
    <2>4. x \in Content
      BY <2>2, <2>3, Zenon DEF Content
    <2> HIDE DEF b, v
    <2>5. /\ img \in Medium /\ img[b] = x /\ LogKept(img, old)
          /\ \A c \in VolumeBlock : c # b => img[c] = old[c]
      BY <1>2, <1>5, <2>1, <2>4, VolumeWrite
    <2>6. img[0] \in Super /\ ~ img[0].clean
      <3>1. CASE b = 0
        BY <2>3, <2>5, <3>1, Zenon
      <3>2. CASE b # 0
        <4>1. img[0] = old[0]
          BY <2>5, <3>2, Places, Zenon
        <4> QED BY <2>1, <4>1, Zenon DEF Sound, Carries, Dirty
      <3> QED BY <3>1, <3>2, Zenon
    <2>7. Sound(img) /\ img[Journal(0)] = old[Journal(0)]
      BY <2>1, <2>5, <2>6, SoundKept, Zenon
    <2>8. LogAt(img, 1, sequence)
      BY <2>1, <2>7, Zenon DEF LogAt
    <2>9. Outside(img, tags, after)
      <3>1. ASSUME NEW c \in VolumeBlock, c \notin Range(tags) PROVE ImageOf(img, c) = after[c]
        <4>1. c # b /\ img[c] = old[c] /\ ImageOf(old, c) = after[c]
          BY <1>2, <2>1, <2>5, <3>1, Zenon DEF Carries, Outside
        <4> QED BY <4>1, Zenon DEF ImageOf
      <3> QED BY <3>1, Zenon DEF Outside
    <2>10. Carries(img, sequence, tags, after) /\ IsSealed(img, sequence, tags)
      BY <1>1, <2>1, <2>5, <2>6, <2>9, CarriesKept, Zenon DEF Carries, Dirty
    <2>11. Replayed(img) = after
      BY <1>1, <2>8, <2>10, ReplayCommitted, Zenon
    <2> QED BY <1>1, <2>7, <2>8, <2>10, <2>11, Zenon
  <1> HIDE DEF b, v
  <1>6. CASE b = 0
    <2>1. img \in media \/ \E old \in media : \E x \in {v, Half(v), Half(old[0])} : img = Put(old, 0, x)
      BY <1>3, <1>6, FirstLands
    <2> QED BY <1>4, <1>5, <1>6, <2>1
  <1>7. CASE b # 0
    <2>1. img \in media \/ \E old \in media, x \in {v, Torn} : img = Put(old, b, x)
      BY <1>3, <1>7, ManyLands
    <2> QED BY <1>4, <1>5, <1>7, <2>1
  <1> QED BY <1>6, <1>7, Zenon

LEMMA RetireLands ==
  ASSUME JType, Lasting, AtRetire, NEW img \in Landed(RetiredHead)
  PROVE  Sound(img) /\ Replayed(img) \in fates
  <1>1. sequence \in 1 .. MaxSequence - 1 /\ sequence + 1 \in 1 .. MaxSequence /\ media = {disk}
        /\ sequence \in 1 .. MaxSequence
    BY JournalAssumption DEF AtRetire, Settled
  <1>2. /\ Sound(disk) /\ Replayed(disk) \in fates /\ LogAt(disk, 1, sequence) /\ disk \in Medium
        /\ Volume(disk) \in fates
    BY Zenon DEF Lasting, AtRetire, Sound
  <1>3. CASE img \in media
    BY <1>1, <1>2, <1>3, Zenon
  <1>4. ASSUME img = Put(disk, Journal(0), LogHead(0, sequence + 1))
        PROVE  Sound(img) /\ Replayed(img) \in fates
    <2>1. LogHead(0, sequence + 1) \in Content /\ LogHead(0, sequence + 1) \in Heads
      BY <1>1, Records, Zenon DEF Content
    <2>2. /\ img \in Medium /\ img[Journal(0)] = LogHead(0, sequence + 1) /\ VolumeKept(img, disk)
          /\ \A j \in 0 .. MaxTx + 2 : j # 0 => img[Journal(j)] = disk[Journal(j)]
      BY <1>2, <1>4, <2>1, Places, LogWrite
    <2>3. Volume(img) = Volume(disk) /\ img[0] = disk[0]
      BY <2>2, VolumeSame, Zenon
    <2>4. LogAt(img, 0, sequence + 1) /\ Number(img) = sequence + 1 /\ img[Journal(0)].start = 0
      BY <1>1, <2>2, HeadIs, Zenon DEF LogAt
    <2>5. Older(disk, sequence + 1)
      BY <1>1, <1>2, HeadIs, Zenon DEF Sound
    <2>6. Older(img, sequence + 1)
      BY <2>2, <2>5 DEF Older
    <2>7. Sound(img)
      BY <1>1, <1>2, <2>1, <2>2, <2>3, <2>4, <2>6 DEF Sound
    <2> QED BY <1>1, <1>2, <2>3, <2>4, <2>7, ReplayEmpty, Zenon
  <1>5. RetiredHead = To(Journal(0), LogHead(0, sequence + 1), "one")
    BY Zenon DEF RetiredHead
  <1> QED BY <1>1, <1>3, <1>4, <1>5, OneLands, Zenon

-----------------------------------------------------------------------------
(***************************************************************************)
(* The steps.                                                              *)
(***************************************************************************)
LEMMA MayLand ==
  ASSUME NEW w
  PROVE  /\ media \subseteq Landed(w)
         /\ \A old \in media : Outcomes(old, w) \subseteq Landed(w) /\ Put(old, w.at, w.value) \in Landed(w)
  <1>1. \A old \in media : Outcomes(old, w) \subseteq Landed(w)
    BY DEF Landed
  <1>2. \A old : old \in Outcomes(old, w) /\ Put(old, w.at, w.value) \in Outcomes(old, w)
    BY DEF Outcomes
  <1> QED BY <1>1, <1>2

LEMMA WriteLasts ==
  ASSUME Lasting, NEW w, Write(w), \A img \in Landed(w) : Sound(img) /\ Replayed(img) \in fates'
  PROVE  Lasting' /\ media' = Landed(w)
  <1>1. media' = Landed(w) /\ disk' = Put(disk, w.at, w.value) /\ disk \in media
    BY Zenon DEF Lasting, Write
  <1>2. disk' \in Landed(w)
    BY <1>1, MayLand, Zenon
  <1> QED BY <1>1, <1>2, Zenon DEF Lasting

LEMMA FailLasts ==
  ASSUME Lasting, NEW w, FailedWrite(w), \A img \in Landed(w) : Sound(img) /\ Replayed(img) \in fates'
  PROVE  Lasting' /\ media' = Landed(w)
  <1>1. media' = Landed(w) /\ disk' \in Outcomes(disk, w) /\ disk \in media
    BY Zenon DEF Lasting, FailedWrite
  <1>2. disk' \in Landed(w)
    BY <1>1, MayLand, Zenon
  <1> QED BY <1>1, <1>2, Zenon DEF Lasting

LEMMA Arrives ==
  /\ pc' = "Idle" /\ AtIdle' => Here'
  /\ pc' = "FlushDirty" /\ AtFlushDirty' => Here'
  /\ pc' = "Stage" /\ AtStage' => Here'
  /\ pc' = "Log" /\ AtLog' => Here'
  /\ pc' = "FlushLog" /\ AtFlushLog' => Here'
  /\ pc' = "Arm" /\ AtArm' => Here'
  /\ pc' = "FlushArm" /\ AtFlushArm' => Here'
  /\ pc' = "Commit" /\ AtCommit' => Here'
  /\ pc' = "FlushCommit" /\ AtFlushCommit' => Here'
  /\ pc' = "Checkpoint" /\ AtCheckpoint' => Here'
  /\ pc' = "FlushCheckpoint" /\ AtFlushCheckpoint' => Here'
  /\ pc' = "Retire" /\ AtRetire' => Here'
  /\ pc' = "FlushRetire" /\ AtFlushRetire' => Here'
  /\ pc' = "Clean" /\ AtClean' => Here'
  /\ pc' = "FlushClean" /\ AtFlushClean' => Here'
  /\ pc' = "Down" /\ AtDown' => Here'
  /\ pc' = "Failed" => Here'
  BY Zenon DEF Here

LEMMA SettledRests ==
  ASSUME Lasting, Settled, NEW seq \in 1 .. MaxSequence, LogAt(disk, 0, seq)
  PROVE  AtRest /\ Number(disk) = seq
  BY HeadIs, Zenon DEF Settled, AtRest

LEMMA RestNow ==
  ASSUME Lasting', NEW seq \in 1 .. MaxSequence, NEW x,
         \A img \in media' : LogAt(img, 0, seq) /\ img[0].image = x
  PROVE  AtRest' /\ Number(disk') = seq
  <1>1. disk' \in media'
    BY Zenon DEF Lasting
  <1>2. Number(disk') = seq /\ disk'[0].image = x
    BY <1>1, HeadIs, Zenon
  <1> QED BY <1>2, Zenon DEF AtRest

\* A volume that holds only images is not torn.
LEMMA Untorn ==
  ASSUME NEW img, Volume(img) \in Volumes
  PROVE  \A b \in VolumeBlock \ {0} : img[b] \in Image /\ img[b] # Torn
  <1>1. \A b \in VolumeBlock : ImageOf(img, b) \in Image
    BY Zenon DEF Volume, Volumes
  <1> QED BY <1>1, JournalAssumption, Zenon DEF ImageOf

LEMMA ArmedIdle ==
  ASSUME NEW img \in media', img[Journal(0)].start # 0, Volume(disk') \in Volumes
  PROVE  AtIdle'
  <1>1. Armed'
    BY Zenon DEF Armed
  <1>2. Mended'
    BY Untorn, Zenon DEF Mended
  <1> QED BY <1>1, <1>2, Zenon DEF AtIdle

\* What is torn while a transaction is checkpointed is staged by it.
LEMMA CarriedIdle ==
  ASSUME NEW seq \in 1 .. MaxSequence, NEW t \in Tags, NEW a \in Volumes, disk' \in media',
         \A img \in media' : LogAt(img, 1, seq) /\ Carries(img, seq, t, a) /\ IsSealed(img, seq, t)
  PROVE  AtIdle'
  <1>1. ASSUME NEW img \in media'
        PROVE  /\ img[Journal(0)].start = 1 /\ Number(img) = seq /\ Dirty(img)
               /\ img[Journal(1)].tags = t /\ Committed(img, seq)
    <2>1. img[Journal(0)].start = 1 /\ Number(img) = seq
      BY HeadIs, Zenon
    <2>2. img[Journal(1)].tags = t
      BY Records DEF Carries, Logged
    <2>3. Committed(img, seq)
      BY <2>2, Zenon DEF Committed, IsSealed
    <2> QED BY <2>1, <2>2, <2>3, Zenon DEF Carries
  <1>2. Armed'
    <2>1. 1 # 0
      OBVIOUS
    <2> QED BY <1>1, <2>1 DEF Armed
  <1>3. ASSUME NEW b \in VolumeBlock \ {0}, disk'[b] = Torn PROVE b \in Range(t)
    <2>1. b \notin Range(t) => disk'[b] = a[b]
      BY Zenon DEF Carries, Outside, ImageOf
    <2> QED BY <1>3, <2>1, JournalAssumption, Zenon DEF Volumes
  <1>4. Mended'
    BY <1>1, <1>3, Zenon DEF Mended, Covers
  <1> QED BY <1>2, <1>4, Zenon DEF AtIdle

LEMMA FailedLogWrite ==
  ASSUME disk \in Medium, NEW i \in 0 .. MaxTx + 2, NEW v \in Content, FailedWrite(To(Journal(i), v, "one"))
  PROVE  Volume(disk') = Volume(disk)
  <1>1. disk' \in Outcomes(disk, To(Journal(i), v, "one"))
    BY Zenon DEF FailedWrite
  <1>2. disk' = disk \/ disk' = Put(disk, Journal(i), v)
    BY <1>1, OneOutcomes
  <1>3. Volume(Put(disk, Journal(i), v)) = Volume(disk)
    BY LogWrite, VolumeSame, Zenon
  <1> QED BY <1>2, <1>3, Zenon

LEMMA NoneStaged == <<>> \in Tags
  <1>1. <<>> \in [1 .. 0 -> VolumeBlock] /\ IsInjective(<<>>) /\ 0 \in 0 .. MaxTx
    BY JournalAssumption DEF IsInjective
  <1> QED BY <1>1 DEF Tags, Injection

\* After a request that failed.
LEMMA FailsKeeps ==
  ASSUME Fails, Lasting', AtIdle', sequence' \in 0 .. MaxSequence, fates' \subseteq Volumes
  PROVE  JInv'
  <1>1. done' = 0 /\ tags' = <<>> /\ pc' \in {"Idle", "Failed"}
    BY Zenon DEF Fails, Goto, Unstage
  <1>2. JType'
    BY <1>1, NoneStaged DEF JType
  <1> QED BY <1>1, <1>2, Arrives, Zenon DEF JInv

LEMMA MarkerRests ==
  ASSUME Lasting, AtRest, NEW c \in BOOLEAN, Write(Marker(c)), fates' = fates
  PROVE  Lasting' /\ AtRest' /\ Number(disk') = Number(disk) /\ disk'[0].clean = c
  <1>1. Lasting' /\ media' = Landed(Marker(c))
    BY MarkerLands, WriteLasts, Zenon
  <1>2. disk' \in media' /\ Number(disk) \in 1 .. MaxSequence /\ disk[0].image \in Image /\ disk \in Medium
    BY <1>1, SoundHead, Zenon DEF Lasting, Sound
  <1>3. \A img \in media' : LogAt(img, 0, Number(disk)) /\ img[0].image = disk[0].image
    BY <1>1, MarkerLands, Zenon
  <1>4. Number(disk') = Number(disk) /\ disk'[0].image = disk[0].image
    BY <1>2, <1>3, HeadIs, Zenon
  <1>5. AtRest'
    BY <1>3, <1>4, Zenon DEF AtRest
  <1>6. disk'[0] = Superblock(c, disk[0].image)
    BY <1>2, Places, Zenon DEF Write, Marker, To, Put, Medium
  <1>7. disk'[0].clean = c
    <2>1. Superblock(c, disk[0].image).clean = c
      BY <1>2, Records, Zenon
    <2> QED BY <1>6, <2>1, Zenon
  <1> QED BY <1>1, <1>4, <1>5, <1>7, Zenon

LEMMA BeginKeeps ==
  ASSUME JInv, BeginMutation, ~ overtaken'
  PROVE  JInv'
  <1>1. JType /\ Lasting /\ AtRest /\ sequence \in {0, Number(disk)}
    BY Zenon DEF JInv, Here, BeginMutation, AtIdle
  <1>2. Number(disk) \in 1 .. MaxSequence
    BY <1>1, SoundHead, Zenon DEF Lasting
  <1>3. sequence' = Number(disk) /\ sequence' < MaxSequence
    BY <1>1, Zenon DEF BeginMutation, Number
  <1>4. sequence' \in 1 .. MaxSequence - 1 /\ sequence' \in 0 .. MaxSequence /\ fates' = fates
    BY <1>2, <1>3, JournalAssumption DEF BeginMutation
  <1>5. CASE Write(Marker(FALSE)) /\ Goto("FlushDirty") /\ UNCHANGED <<tags, after>>
    <2>1. Lasting' /\ AtRest' /\ Number(disk') = Number(disk) /\ disk'[0].clean = FALSE
      BY <1>1, <1>4, <1>5, MarkerRests, Zenon
    <2>2. AtFlushDirty' /\ pc' = "FlushDirty" /\ done' = 0
      BY <1>3, <1>4, <1>5, <2>1, Zenon DEF AtFlushDirty, Dirty, Goto
    <2>3. JType'
      BY <1>1, <1>4, <1>5, <2>2 DEF JType
    <2> QED BY <2>1, <2>2, <2>3, Arrives, Zenon DEF JInv
  <1>6. CASE FailedWrite(Marker(FALSE)) /\ Fails
    <2>1. Lasting' /\ media' = Landed(Marker(FALSE))
      BY <1>1, <1>4, <1>6, MarkerLands, FailLasts, Zenon
    <2>2. \A img \in media' : LogAt(img, 0, Number(disk)) /\ img[0].image = disk[0].image
      BY <1>1, <2>1, MarkerLands, Zenon
    <2>3. AtRest' /\ Number(disk') = Number(disk)
      BY <1>2, <2>1, <2>2, RestNow, Zenon
    <2>4. AtIdle'
      BY <1>3, <2>3, Zenon DEF AtIdle
    <2> QED BY <1>1, <1>4, <1>6, <2>1, <2>4, FailsKeeps, Zenon DEF JType
  <1> QED BY <1>5, <1>6, Zenon DEF BeginMutation

LEMMA FlushDirtyKeeps ==
  ASSUME JInv, FlushDirty
  PROVE  JInv'
  <1>1. JType /\ Lasting /\ AtFlushDirty /\ Barrier
    BY Zenon DEF JInv, Here, FlushDirty
  <1>2. /\ Sound(disk) /\ Replayed(disk) \in fates /\ media' = {disk} /\ disk' = disk
        /\ LogAt(disk, 0, sequence) /\ Dirty(disk) /\ sequence \in 1 .. MaxSequence - 1
        /\ sequence \in 1 .. MaxSequence
    BY <1>1, JournalAssumption DEF Lasting, AtFlushDirty, AtRest, Barrier
  <1>3. Replayed(disk) = Volume(disk) /\ disk[Journal(0)].start = 0
    BY <1>2, ReplayEmpty, HeadIs, Zenon
  <1>4. fates' = {Volume(disk)} /\ pc' = "Stage" /\ done' = 0 /\ UNCHANGED <<sequence, tags, after>>
    BY <1>3, Zenon DEF FlushDirty, Goto
  <1>5. Lasting'
    BY <1>2, <1>3, <1>4, Zenon DEF Lasting
  <1>6. AtStage'
    BY <1>2, <1>4, Zenon DEF AtStage, Settled
  <1>7. JType'
    BY <1>1, <1>2, <1>3, <1>4, Zenon DEF JType
  <1> QED BY <1>4, <1>5, <1>6, <1>7, Arrives, Zenon DEF JInv

LEMMA StageKeeps ==
  ASSUME JInv, NEW t \in Tags, NEW f \in [VolumeBlock -> Image], Stage(t, f)
  PROVE  JInv'
  <1>1. JType /\ Lasting /\ AtStage
    BY Zenon DEF JInv, Here, Stage
  <1>2. /\ Sound(disk) /\ Replayed(disk) \in fates /\ media = {disk} /\ LogAt(disk, 0, sequence)
        /\ Dirty(disk) /\ sequence \in 1 .. MaxSequence - 1 /\ sequence \in 1 .. MaxSequence
    BY <1>1, JournalAssumption DEF Lasting, AtStage, Settled
  <1>3. Volume(disk) \in Volumes
    BY <1>1, <1>2, ReplayEmpty, Zenon DEF JType
  <1>4. \A b \in VolumeBlock : ImageOf(disk, b) \in Image
    BY <1>3, Zenon DEF Volume, Volumes
  <1>5. /\ tags' = t /\ fates' = fates \cup {after'} /\ done' = 0
        /\ after' = [b \in VolumeBlock |-> IF b \in Range(t) THEN f[b] ELSE ImageOf(disk, b)]
        /\ pc' = (IF t = <<>> THEN "Clean" ELSE "Log")
        /\ disk' = disk /\ media' = media /\ sequence' = sequence
    BY Zenon DEF Stage, Goto
  <1>6. after' \in Volumes /\ \A b \in VolumeBlock : b \notin Range(t) => ImageOf(disk, b) = after'[b]
    BY <1>4, <1>5, Zenon DEF Volumes
  <1>7. JType'
    BY <1>1, <1>5, <1>6, Zenon DEF JType
  <1>8. Lasting'
    BY <1>1, <1>5, Zenon DEF Lasting
  <1>9. CASE t = <<>>
    <2>1. AtClean'
      BY <1>2, <1>5, Zenon DEF AtClean, Settled
    <2> QED BY <1>5, <1>7, <1>8, <1>9, <2>1, Arrives, Zenon DEF JInv
  <1>10. CASE t # <<>>
    <2>1. Len(t) \in Nat
      BY TagsAre
    <2>2. Outside(disk, t, after')
      BY <1>6, Zenon DEF Outside
    <2>3. Staged'
      BY <1>2, <1>5, <1>6, <1>10, Zenon DEF Staged
    <2>4. AtLog'
      <3>1. done' <= Len(t) /\ ~ (done' > 0) /\ 1 .. done' - 1 = {}
        BY <1>5, <2>1
      <3>2. \A img \in media' : /\ Dirty(img) /\ LogAt(img, 0, sequence') /\ Outside(img, tags', after')
                              /\ img[0].image = disk'[0].image
        BY <1>2, <1>5, <2>2, Zenon
      <3> QED BY <1>5, <2>3, <3>1, <3>2, Zenon DEF AtLog
    <2> QED BY <1>5, <1>7, <1>8, <1>10, <2>4, Arrives, Zenon DEF JInv
  <1> QED BY <1>9, <1>10, Zenon

LEMMA AbortKeeps ==
  ASSUME JInv, AbortMutation
  PROVE  JInv'
  <1>1. JType /\ Lasting /\ AtStage
    BY Zenon DEF JInv, Here, AbortMutation
  <1>2. pc' = "Idle" /\ done' = 0 /\ UNCHANGED <<disk, media, sequence, tags, after, fates>>
    BY Zenon DEF AbortMutation, Goto
  <1>3. sequence \in 1 .. MaxSequence /\ LogAt(disk, 0, sequence) /\ Settled
    BY <1>1, JournalAssumption DEF AtStage
  <1>4. AtRest /\ Number(disk) = sequence
    BY <1>1, <1>3, SettledRests, Zenon
  <1>5. AtIdle'
    BY <1>2, <1>4, Zenon DEF AtIdle, AtRest
  <1>6. JType' /\ Lasting'
    BY <1>1, <1>2, Zenon DEF JType, Lasting
  <1> QED BY <1>2, <1>5, <1>6, Arrives, Zenon DEF JInv

LEMMA LogFills ==
  ASSUME JType, Lasting, AtLog, Write(LogBlock)
  PROVE  /\ disk'[Journal(1)] = Descriptor(sequence, tags)
         /\ \A i \in 1 .. done : disk'[Journal(1 + i)] = after[tags[i]]
  <1>1. /\ disk \in Medium /\ done \in 0 .. Len(tags) /\ Len(tags) \in 0 .. MaxTx /\ tags \in Tags
        /\ 1 + done \in 0 .. MaxTx + 2
    <2>1. disk \in Medium
      BY Zenon DEF Lasting, Sound
    <2>2. tags \in Tags /\ done \in Nat /\ done <= Len(tags)
      BY Zenon DEF JType, AtLog
    <2>3. Len(tags) \in 0 .. MaxTx
      BY <2>2, TagsAre, Zenon
    <2> QED BY <2>1, <2>2, <2>3, JournalAssumption
  <1>2. CASE done = 0
    <2>1. disk' = [disk EXCEPT ![Journal(1)] = Descriptor(sequence, tags)]
      BY <1>2, Zenon DEF Write, LogBlock, To, Put
    <2>2. Journal(1) \in Location
      BY Places, Zenon
    <2>3. disk'[Journal(1)] = Descriptor(sequence, tags)
      BY <1>1, <2>1, <2>2, Zenon DEF Medium
    <2> QED BY <1>2, <2>3
  <1>3. CASE done # 0
    <2>1. disk' = [disk EXCEPT ![Journal(1 + done)] = after[tags[done]]]
      BY <1>3, Zenon DEF Write, LogBlock, To, Put
    <2>2. /\ Journal(1 + done) \in Location
          /\ \A j \in 0 .. MaxTx + 2 : j # 1 + done => Journal(j) # Journal(1 + done)
      <3> DEFINE k == 1 + done
      <3>1. k \in 0 .. MaxTx + 2
        BY <1>1, Zenon
      <3> HIDE DEF k
      <3>2. Journal(k) \in Location /\ \A j \in 0 .. MaxTx + 2 : j # k => Journal(j) # Journal(k)
        BY <3>1, Places, Zenon
      <3> QED BY <3>2, Zenon DEF k
    <2>3. disk[Journal(1)] = Descriptor(sequence, tags) /\ \A i \in 1 .. done - 1 : disk[Journal(1 + i)] = after[tags[i]]
      <3>1. done > 0
        BY <1>1, <1>3
      <3> QED BY <3>1, Zenon DEF AtLog
    <2>4. 1 # 1 + done /\ 1 \in 0 .. MaxTx + 2
          /\ \A i \in 1 .. done - 1 : 1 + i # 1 + done /\ 1 + i \in 0 .. MaxTx + 2
      BY <1>1, <1>3, JournalAssumption
    <2>5. \A j \in 0 .. MaxTx + 2 : j # 1 + done => disk'[Journal(j)] = disk[Journal(j)]
      BY <1>1, <2>1, <2>2, Places, Zenon DEF Medium
    <2>6. disk'[Journal(1)] = Descriptor(sequence, tags)
      BY <2>3, <2>4, <2>5, Zenon
    <2>7. ASSUME NEW i \in 1 .. done PROVE disk'[Journal(1 + i)] = after[tags[i]]
      <3>1. CASE i = done
        BY <1>1, <2>1, <2>2, <3>1, Zenon DEF Medium
      <3>2. CASE i # done
        <4>1. i \in 1 .. done - 1
          BY <1>1, <2>7, <3>2
        <4> QED BY <2>3, <2>4, <2>5, <4>1, Zenon
      <3> QED BY <3>1, <3>2, Zenon
    <2> QED BY <2>6, <2>7, Zenon
  <1> QED BY <1>2, <1>3, Zenon

LEMMA LogKeeps ==
  ASSUME JInv, Log
  PROVE  JInv'
  <1>1. JType /\ Lasting /\ AtLog /\ Write(LogBlock)
    BY Zenon DEF JInv, Here, Log
  <1>2. sequence' = sequence /\ tags' = tags /\ after' = after /\ fates' = fates
    BY Zenon DEF Log
  <1>3. Lasting' /\ media' = Landed(LogBlock) /\ disk' \in media'
    BY <1>1, <1>2, LogLands, WriteLasts, Zenon DEF Lasting
  <1>4. \A img \in media' : /\ Dirty(img) /\ LogAt(img, 0, sequence) /\ Outside(img, tags, after)
                           /\ img[0].image = disk'[0].image
    BY <1>1, <1>3, LogLands, Zenon
  <1>5. /\ disk'[Journal(1)] = Descriptor(sequence, tags)
        /\ \A i \in 1 .. done : disk'[Journal(1 + i)] = after[tags[i]]
    BY <1>1, LogFills, Zenon
  <1>6. Staged' /\ done \in 0 .. Len(tags) /\ Len(tags) \in Nat
    BY <1>1, <1>2, TagsAre DEF AtLog, Staged, JType
  <1>7. CASE done < Len(tags)
    <2>1. done' = done + 1 /\ pc' = "Log"
      BY <1>7, Zenon DEF Log
    <2>2. done' - 1 = done /\ done' <= Len(tags)
      BY <1>6, <1>7, <2>1
    <2>3. AtLog'
      BY <1>2, <1>4, <1>5, <1>6, <2>2, Zenon DEF AtLog
    <2>4. JType'
      BY <1>1, <1>2, <2>1 DEF JType
    <2> QED BY <1>3, <2>1, <2>3, <2>4, Arrives, Zenon DEF JInv
  <1>8. CASE ~ (done < Len(tags))
    <2>1. done' = 0 /\ pc' = "FlushLog" /\ done = Len(tags)
      BY <1>6, <1>8 DEF Log, Goto
    <2>2. Logged(disk', sequence, tags, after)
      BY <1>5, <2>1, Zenon DEF Logged
    <2>3. Carries(disk', sequence, tags, after)
      BY <1>3, <1>4, <2>2, Zenon DEF Carries
    <2>4. AtFlushLog'
      BY <1>2, <1>4, <1>6, <2>3, Zenon DEF AtFlushLog
    <2>5. JType'
      BY <1>1, <1>2, <2>1, Zenon DEF JType
    <2> QED BY <1>3, <2>1, <2>4, <2>5, Arrives, Zenon DEF JInv
  <1> QED BY <1>7, <1>8, Zenon

LEMMA FlushLogKeeps ==
  ASSUME JInv, FlushLog
  PROVE  JInv'
  <1>1. JType /\ Lasting /\ AtFlushLog /\ Barrier
    BY Zenon DEF JInv, Here, FlushLog, FlushThen
  <1>2. /\ pc' = "Arm" /\ done' = 0 /\ UNCHANGED <<sequence, tags, after, fates>>
        /\ media' = {disk} /\ disk' = disk /\ disk \in media
    BY <1>1, Zenon DEF FlushLog, FlushThen, Goto, Barrier, Lasting
  <1>3. JType' /\ Lasting'
    BY <1>1, <1>2, Zenon DEF JType, Lasting
  <1>4. AtArm'
    BY <1>1, <1>2, Zenon DEF AtFlushLog, AtArm, Staged, Settled
  <1> QED BY <1>2, <1>3, <1>4, Arrives, Zenon DEF JInv

LEMMA ArmCarries ==
  ASSUME NEW img \in Medium, NEW h \in Content, NEW seq, NEW t \in Tags, NEW a, Carries(img, seq, t, a),
         NEW new, new = Put(img, Journal(0), h)
  PROVE  new[Journal(0)] = h /\ Carries(new, seq, t, a)
  <1>1. /\ new[Journal(0)] = h /\ VolumeKept(new, img)
        /\ \A j \in 0 .. MaxTx + 2 : j # 0 => new[Journal(j)] = img[Journal(j)]
    BY Places, LogWrite
  <1>2. \A i \in 1 .. Len(t) : 1 + i \in 0 .. MaxTx + 2 /\ 1 + i # 0
    BY TagsAre
  <1>3. Logged(new, seq, t, a)
    <2>1. Logged(img, seq, t, a)
      BY Zenon DEF Carries
    <2>2. 1 \in 0 .. MaxTx + 2 /\ 1 # 0
      BY JournalAssumption
    <2>3. new[Journal(1)] = Descriptor(seq, t)
      BY <1>1, <2>1, <2>2, Zenon DEF Logged
    <2>4. \A i \in 1 .. Len(t) : new[Journal(1 + i)] = a[t[i]]
      BY <1>1, <1>2, <2>1, Zenon DEF Logged
    <2> QED BY <2>3, <2>4, Zenon DEF Logged
  <1> QED BY <1>1, <1>3, VolumeSame, Zenon DEF Carries

LEMMA ArmKeeps ==
  ASSUME JInv, Arm
  PROVE  JInv'
  <1>1. JType /\ Lasting /\ AtArm /\ Write(ArmedHead)
    BY Zenon DEF JInv, Here, Arm, WriteThen
  <1>2. /\ pc' = "FlushArm" /\ done' = 0
        /\ sequence' = sequence /\ tags' = tags /\ after' = after /\ fates' = fates
    BY Zenon DEF Arm, WriteThen, Goto
  <1>3. Lasting' /\ media' = Landed(ArmedHead)
    BY <1>1, <1>2, ArmLands, WriteLasts, Zenon
  <1>4. \A img \in media' : Number(img) = sequence /\ Older(img, sequence)
    BY <1>1, <1>3, ArmLands, Zenon
  <1>5. /\ disk \in Medium /\ tags \in Tags /\ Carries(disk, sequence, tags, after)
        /\ sequence \in 1 .. MaxSequence
    BY <1>1, JournalAssumption DEF Lasting, Sound, AtArm, JType, Staged
  <1>6. disk' = Put(disk, Journal(0), LogHead(1, sequence))
    BY <1>1, Zenon DEF Write, ArmedHead, To
  <1>7. LogHead(1, sequence) \in Content
    BY <1>5, Records, Zenon DEF Content
  <1>8. LogAt(disk', 1, sequence) /\ Carries(disk', sequence, tags, after)
    BY <1>5, <1>6, <1>7, ArmCarries DEF LogAt
  <1>9. AtFlushArm' /\ JType'
    BY <1>1, <1>2, <1>4, <1>8, Zenon DEF AtFlushArm, AtArm, Staged, JType
  <1> QED BY <1>2, <1>3, <1>9, Arrives, Zenon DEF JInv

LEMMA FlushArmKeeps ==
  ASSUME JInv, FlushArm
  PROVE  JInv'
  <1>1. JType /\ Lasting /\ AtFlushArm /\ Barrier
    BY Zenon DEF JInv, Here, FlushArm, FlushThen
  <1>2. /\ pc' = "Commit" /\ done' = 0 /\ UNCHANGED <<sequence, tags, after, fates>>
        /\ media' = {disk} /\ disk' = disk /\ disk \in media
    BY <1>1, Zenon DEF FlushArm, FlushThen, Goto, Barrier, Lasting
  <1>3. JType' /\ Lasting'
    BY <1>1, <1>2, Zenon DEF JType, Lasting
  <1>4. AtCommit'
    BY <1>1, <1>2, Zenon DEF AtFlushArm, AtCommit, Staged, Settled
  <1> QED BY <1>2, <1>3, <1>4, Arrives, Zenon DEF JInv

\* Before the commit record the volume is as it was.
LEMMA CommitVolume ==
  ASSUME JType, Lasting, AtCommit
  PROVE  Volume(disk) \in Volumes
  <1>1. /\ sequence \in 1 .. MaxSequence /\ tags \in Tags /\ fates \subseteq Volumes
        /\ Replayed(disk) \in fates
    BY JournalAssumption DEF JType, AtCommit, Staged, Lasting
  <1>2. Number(disk) = sequence
    BY <1>1, HeadIs, Zenon DEF AtCommit
  <1>3. ~ Committed(disk, sequence)
    BY <1>1, NotCommitted, Zenon DEF AtCommit, Carries
  <1> QED BY <1>1, <1>2, <1>3, ReplayUncommitted, Zenon

LEMMA RecordKeeps ==
  ASSUME JInv, WriteRecord
  PROVE  JInv'
  <1>1. JType /\ Lasting /\ AtCommit /\ Write(CommitRecord)
    BY Zenon DEF JInv, Here, WriteRecord, WriteThen
  <1>2. /\ pc' = "FlushCommit" /\ done' = 0
        /\ sequence' = sequence /\ tags' = tags /\ after' = after /\ fates' = fates
    BY Zenon DEF WriteRecord, WriteThen, Goto
  <1>3. Lasting'
    BY <1>1, <1>2, CommitLands, WriteLasts, Zenon
  <1>4. /\ Sound(disk) /\ tags \in Tags /\ Carries(disk, sequence, tags, after)
        /\ sequence \in 1 .. MaxSequence /\ after \in Volumes
        /\ LogAt(disk, 1, sequence) /\ Older(disk, sequence)
    BY <1>1, JournalAssumption DEF Lasting, AtCommit, JType, Staged
  <1>5. disk' = Put(disk, Journal(Len(tags) + 2), Sealed(sequence))
    BY <1>1, Zenon DEF Write, CommitRecord, To
  <1>6. /\ LogAt(disk', 1, sequence) /\ Carries(disk', sequence, tags, after)
        /\ IsSealed(disk', sequence, tags)
    BY <1>4, <1>5, SealsWell
  <1>8. Volume(disk') \in Volumes
    <2>1. Len(tags) + 2 \in 0 .. MaxTx + 2 /\ Sealed(sequence) \in Content /\ disk \in Medium
      BY <1>4, TagsAre, Records DEF Content, Sound
    <2>2. Volume(disk') = Volume(disk)
      BY <1>5, <2>1, LogWrite, VolumeSame, Zenon
    <2> QED BY <1>1, <2>2, CommitVolume, Zenon
  <1>7. AtFlushCommit' /\ JType'
    BY <1>1, <1>2, <1>6, <1>8, Zenon DEF AtFlushCommit, AtCommit, Staged, JType
  <1> QED BY <1>2, <1>3, <1>7, Arrives, Zenon DEF JInv

LEMMA FlushRecordKeeps ==
  ASSUME JInv, FlushRecord
  PROVE  JInv'
  <1>1. JType /\ Lasting /\ AtFlushCommit /\ Barrier
    BY Zenon DEF JInv, Here, FlushRecord, FlushThen
  <1>2. /\ pc' = "Checkpoint" /\ done' = 0 /\ UNCHANGED <<sequence, tags, after, fates>>
        /\ media' = {disk} /\ disk' = disk /\ disk \in media
    BY <1>1, Zenon DEF FlushRecord, FlushThen, Goto, Barrier, Lasting
  <1>3. JType' /\ Lasting'
    BY <1>1, <1>2, Zenon DEF JType, Lasting
  <1>5. Len(tags) > 0 /\ Len(tags) \in Nat
    BY <1>1, TagsAre DEF JType, AtFlushCommit, Staged
  <1>6. Replayable'
    BY <1>1, <1>2, Zenon DEF AtFlushCommit, Replayable, Staged
  <1>7. Placed(disk, tags, after, 0)
    BY DEF Placed
  <1>4. AtCheckpoint'
    BY <1>2, <1>5, <1>6, <1>7, Zenon DEF AtCheckpoint
  <1> QED BY <1>2, <1>3, <1>4, Arrives, Zenon DEF JInv

LEMMA PlacesOne ==
  ASSUME NEW img \in Medium, NEW b \in VolumeBlock, NEW x \in Image, NEW new, new = Put(img, b, InPlace(b, x))
  PROVE  ImageOf(new, b) = x /\ \A c \in VolumeBlock : c # b => ImageOf(new, c) = ImageOf(img, c)
  <1>1. InPlace(b, x) \in Content
    BY Records, Zenon DEF InPlace, Content
  <1>2. new[b] = InPlace(b, x) /\ \A c \in VolumeBlock : c # b => new[c] = img[c]
    BY <1>1, VolumeWrite
  <1>3. Superblock(FALSE, x).image = x
    BY Records, Zenon
  <1>4. ImageOf(new, b) = x
    BY <1>2, <1>3, Zenon DEF ImageOf, InPlace
  <1> QED BY <1>2, <1>4, Zenon DEF ImageOf

LEMMA PlacesNext ==
  ASSUME NEW img \in Medium, NEW t \in Tags, NEW a \in Volumes, NEW n \in Nat, n + 1 \in 1 .. Len(t),
         Placed(img, t, a, n), NEW new, new = Put(img, t[n + 1], InPlace(t[n + 1], a[t[n + 1]]))
  PROVE  Placed(new, t, a, n + 1)
  <1>1. t[n + 1] \in VolumeBlock /\ a[t[n + 1]] \in Image
    BY TagsAre, Zenon DEF Volumes
  <1>2. /\ ImageOf(new, t[n + 1]) = a[t[n + 1]]
        /\ \A c \in VolumeBlock : c # t[n + 1] => ImageOf(new, c) = ImageOf(img, c)
    BY <1>1, PlacesOne
  <1>3. ASSUME NEW i \in 1 .. n + 1 PROVE ImageOf(new, t[i]) = a[t[i]]
    <2>1. CASE i = n + 1
      BY <1>2, <2>1, Zenon
    <2>2. CASE i # n + 1
      <3>1. i \in 1 .. n /\ i \in 1 .. Len(t) /\ Len(t) \in Nat
        BY <1>3, <2>2, TagsAre
      <3>2. t[i] \in VolumeBlock /\ t[i] # t[n + 1] /\ ImageOf(img, t[i]) = a[t[i]]
        BY <2>2, <3>1, TagsAre, Zenon DEF Placed
      <3> QED BY <1>2, <3>2, Zenon
    <2> QED BY <2>1, <2>2, Zenon
  <1> QED BY <1>3, Zenon DEF Placed

LEMMA CheckpointKeeps ==
  ASSUME JInv, Checkpoint
  PROVE  JInv'
  <1>1. JType /\ Lasting /\ AtCheckpoint /\ Write(CheckpointBlock)
    BY Zenon DEF JInv, Here, Checkpoint
  <1>2. sequence' = sequence /\ tags' = tags /\ after' = after /\ fates' = fates
    BY Zenon DEF Checkpoint
  <1>3. Lasting' /\ media' = Landed(CheckpointBlock)
    BY <1>1, <1>2, CheckpointLands, WriteLasts, Zenon
  <1>4. Replayable'
    <2>1. \A img \in media' : /\ LogAt(img, 1, sequence) /\ Carries(img, sequence, tags, after)
                               /\ IsSealed(img, sequence, tags)
      BY <1>1, <1>3, CheckpointLands, Zenon
    <2> QED BY <1>1, <1>2, <2>1, Zenon DEF Replayable, Staged, AtCheckpoint
  <1>5. /\ tags \in Tags /\ done \in Nat /\ done + 1 \in 1 .. Len(tags) /\ Len(tags) \in Nat
        /\ disk \in Medium /\ after \in Volumes /\ Placed(disk, tags, after, done)
    BY <1>1, TagsAre DEF JType, AtCheckpoint, Replayable, Staged, Lasting, Sound
  <1>6. Placed(disk', tags, after, done + 1)
    BY <1>1, <1>5, Places, PlacesNext, Zenon DEF Write, CheckpointBlock, To
  <1>7. CASE done + 1 < Len(tags)
    <2>1. done' = done + 1 /\ pc' = "Checkpoint"
      BY <1>7, Zenon DEF Checkpoint
    <2>2. AtCheckpoint' /\ JType'
      BY <1>1, <1>2, <1>4, <1>6, <1>7, <2>1 DEF AtCheckpoint, JType
    <2> QED BY <1>3, <2>1, <2>2, Arrives, Zenon DEF JInv
  <1>8. CASE ~ (done + 1 < Len(tags))
    <2>1. done' = 0 /\ pc' = "FlushCheckpoint" /\ done + 1 = Len(tags)
      BY <1>5, <1>8 DEF Checkpoint, Goto
    <2>2. AtFlushCheckpoint' /\ JType'
      BY <1>1, <1>2, <1>4, <1>6, <2>1, Zenon DEF AtFlushCheckpoint, JType
    <2> QED BY <1>3, <2>1, <2>2, Arrives, Zenon DEF JInv
  <1> QED BY <1>7, <1>8, Zenon

LEMMA FlushCheckpointKeeps ==
  ASSUME JInv, FlushCheckpoint
  PROVE  JInv'
  <1>1. JType /\ Lasting /\ AtFlushCheckpoint /\ Barrier
    BY Zenon DEF JInv, Here, FlushCheckpoint, FlushThen
  <1>2. /\ pc' = "Retire" /\ done' = 0 /\ UNCHANGED <<sequence, tags, after, fates>>
        /\ media' = {disk} /\ disk' = disk /\ disk \in media
    BY <1>1, Zenon DEF FlushCheckpoint, FlushThen, Goto, Barrier, Lasting
  <1>3. JType' /\ Lasting'
    BY <1>1, <1>2, Zenon DEF JType, Lasting
  <1>4. /\ tags \in Tags /\ after \in Volumes /\ Outside(disk, tags, after) /\ Dirty(disk)
        /\ Placed(disk, tags, after, Len(tags)) /\ LogAt(disk, 1, sequence) /\ Staged
    BY <1>1, <1>2, Zenon DEF JType, AtFlushCheckpoint, Replayable, Staged, Carries
  <1>5. Volume(disk) = after
    <2>1. ASSUME NEW b \in VolumeBlock PROVE ImageOf(disk, b) = after[b]
      <3>1. CASE b \in Range(tags)
        <4>1. PICK i \in DOMAIN tags : tags[i] = b
          BY <3>1, Zenon DEF Range
        <4>2. i \in 1 .. Len(tags)
          BY <1>4, TagsAre, Zenon
        <4> QED BY <1>4, <4>1, <4>2, Zenon DEF Placed
      <3>2. CASE b \notin Range(tags)
        BY <1>4, <3>2, Zenon DEF Outside
      <3> QED BY <3>1, <3>2, Zenon
    <2> QED BY <1>4, <2>1, Zenon DEF Volume, Volumes
  <1>6. AtRetire'
    BY <1>2, <1>4, <1>5, Zenon DEF AtRetire, Settled, Staged
  <1> QED BY <1>2, <1>3, <1>6, Arrives, Zenon DEF JInv

LEMMA RetireKeeps ==
  ASSUME JInv, Retire
  PROVE  JInv'
  <1>1. JType /\ Lasting /\ AtRetire /\ Write(RetiredHead)
    BY Zenon DEF JInv, Here, Retire, WriteThen
  <1>2. /\ pc' = "FlushRetire" /\ done' = 0
        /\ sequence' = sequence /\ tags' = tags /\ after' = after /\ fates' = fates
    BY Zenon DEF Retire, WriteThen, Goto
  <1>3. Lasting'
    BY <1>1, <1>2, RetireLands, WriteLasts, Zenon
  <1>4. disk \in Medium /\ Dirty(disk) /\ sequence \in 1 .. MaxSequence - 1 /\ sequence + 1 \in 1 .. MaxSequence
    <2>1. Dirty(disk) /\ sequence \in 1 .. MaxSequence - 1
      BY <1>1, Zenon DEF AtRetire
    <2>2. disk \in Medium
      BY <1>1, Zenon DEF Lasting, Sound
    <2> QED BY <2>1, <2>2, JournalAssumption
  <1>5. disk' = Put(disk, Journal(0), LogHead(0, sequence + 1))
    BY <1>1, Zenon DEF Write, RetiredHead, To
  <1>6. LogHead(0, sequence + 1) \in Content
    BY <1>4, Records, Zenon DEF Content
  <1>7. disk'[Journal(0)] = LogHead(0, sequence + 1) /\ VolumeKept(disk', disk)
    BY <1>4, <1>5, <1>6, LogWrite, Places
  <1>8. Dirty(disk') /\ LogAt(disk', 0, sequence + 1)
    BY <1>4, <1>7, VolumeSame, Zenon DEF LogAt
  <1>10. Armed'
    <2>1. disk \in media' /\ disk[Journal(0)].start # 0
      <3>1. sequence \in 1 .. MaxSequence /\ disk \in media /\ LogAt(disk, 1, sequence)
        BY <1>1, <1>4, JournalAssumption DEF Lasting, AtRetire
      <3>2. disk[Journal(0)].start = 1
        BY <3>1, HeadIs, Zenon
      <3>3. disk \in Landed(RetiredHead)
        BY <3>1, MayLand, Zenon
      <3> QED BY <1>1, <3>2, <3>3 DEF Write
    <2> QED BY <2>1, Zenon DEF Armed
  <1>9. AtFlushRetire' /\ JType'
    BY <1>1, <1>2, <1>4, <1>8, <1>10, Zenon DEF AtFlushRetire, JType
  <1> QED BY <1>2, <1>3, <1>9, Arrives, Zenon DEF JInv

LEMMA FlushRetireKeeps ==
  ASSUME JInv, FlushRetire
  PROVE  JInv'
  <1>1. JType /\ Lasting /\ AtFlushRetire /\ Barrier
    BY Zenon DEF JInv, Here, FlushRetire
  <1>2. sequence + 1 \in 1 .. MaxSequence /\ LogAt(disk, 0, sequence + 1) /\ Dirty(disk)
    BY <1>1, JournalAssumption DEF AtFlushRetire
  <1>3. Number(disk) = sequence + 1
    BY <1>2, HeadIs, Zenon
  <1>4. /\ pc' = "Clean" /\ done' = 0 /\ UNCHANGED <<tags, after, fates>> /\ sequence' = sequence + 1
        /\ media' = {disk} /\ disk' = disk /\ disk \in media
    BY <1>1, <1>3, Zenon DEF FlushRetire, Goto, Barrier, Lasting, Number
  <1>5. JType' /\ Lasting'
    BY <1>1, <1>2, <1>4, JournalAssumption DEF JType, Lasting
  <1>6. AtClean'
    BY <1>2, <1>4, Zenon DEF AtClean, Settled
  <1> QED BY <1>4, <1>5, <1>6, Arrives, Zenon DEF JInv

LEMMA CleanRests ==
  ASSUME Lasting, AtClean
  PROVE  AtRest /\ Number(disk) = sequence /\ sequence \in 1 .. MaxSequence
  <1>1. Sound(disk) /\ Settled /\ LogAt(disk, 0, sequence)
    BY Zenon DEF Lasting, AtClean
  <1>2. Number(disk) \in 1 .. MaxSequence
    BY <1>1, SoundHead, Zenon
  <1>3. Number(disk) = sequence
    <2>1. LogHead(0, sequence).sequence = sequence
      BY Zenon DEF LogHead
    <2> QED BY <1>1, <2>1, Zenon DEF LogAt, Number
  <1> QED BY <1>1, <1>2, <1>3, SettledRests, Zenon

LEMMA CleanKeeps ==
  ASSUME JInv, MarkClean
  PROVE  JInv'
  <1>1. JType /\ Lasting /\ AtClean /\ Write(Marker(TRUE))
    BY Zenon DEF JInv, Here, MarkClean, WriteThen
  <1>2. /\ pc' = "FlushClean" /\ done' = 0
        /\ sequence' = sequence /\ tags' = tags /\ after' = after /\ fates' = fates
    BY Zenon DEF MarkClean, WriteThen, Goto
  <1>3. AtRest /\ Number(disk) = sequence /\ sequence \in 1 .. MaxSequence
    BY <1>1, CleanRests, Zenon
  <1>4. Lasting' /\ AtRest' /\ Number(disk') = sequence
    BY <1>1, <1>2, <1>3, MarkerRests, Zenon
  <1>6. AtFlushClean' /\ JType'
    BY <1>1, <1>2, <1>4, Zenon DEF AtFlushClean, JType
  <1> QED BY <1>2, <1>4, <1>6, Arrives, Zenon DEF JInv

LEMMA FlushCleanKeeps ==
  ASSUME JInv, FlushClean
  PROVE  JInv'
  <1>1. JType /\ Lasting /\ AtFlushClean /\ Barrier
    BY Zenon DEF JInv, Here, FlushClean
  <1>2. /\ pc' = "Idle" /\ done' = 0 /\ sequence' = sequence /\ tags' = <<>> /\ fates' = {Volume(disk)}
        /\ media' = {disk} /\ disk' = disk /\ disk \in media
    BY <1>1, Zenon DEF FlushClean, Goto, Unstage, Barrier, Lasting
  <1>3. Sound(disk) /\ LogAt(disk, 0, sequence) /\ Replayed(disk) \in fates
    BY <1>1, <1>2, Zenon DEF Lasting, AtFlushClean, AtRest
  <1>4. Number(disk) = sequence /\ sequence \in 1 .. MaxSequence
    BY <1>1, <1>3, SoundHead, Zenon DEF AtFlushClean
  <1>5. Replayed(disk) = Volume(disk)
    BY <1>3, <1>4, ReplayEmpty, Zenon
  <1>6. JType' /\ Lasting'
    BY <1>1, <1>2, <1>3, <1>5, NoneStaged, Zenon DEF JType, Lasting
  <1>7. AtIdle'
    BY <1>2, <1>3, <1>4, Zenon DEF AtIdle, AtRest
  <1> QED BY <1>2, <1>6, <1>7, Arrives, Zenon DEF JInv

\* One block of the volume is written in place: the replay writes over it, or
\* leads to a volume that differs in it.
LEMMA ReplayPut ==
  ASSUME NEW old, Sound(old), NEW b \in VolumeBlock \ {0}, NEW x \in Content, NEW img, img = Put(old, b, x)
  PROVE  /\ Sound(img) /\ img[0] = old[0] /\ LogKept(img, old)
         /\ \A c : Covers(old, c) => Covers(img, c)
         /\ Covers(old, b) => Replayed(img) = Replayed(old)
         /\ Replayed(img) \in {Replayed(old), [Replayed(old) EXCEPT ![b] = x]}
  <1>1. /\ old \in Medium /\ img \in Medium /\ img[b] = x /\ LogKept(img, old)
        /\ \A c \in VolumeBlock : c # b => img[c] = old[c]
    BY VolumeWrite DEF Sound
  <1>2. img[0] = old[0]
    BY <1>1, Places, Zenon
  <1>3. Sound(img) /\ img[Journal(0)] = old[Journal(0)] /\ Number(img) = Number(old)
    BY <1>1, <1>2, SoundKept, Zenon DEF Sound
  <1>4. ImageOf(img, b) = x /\ \A c \in VolumeBlock : c # b => ImageOf(img, c) = ImageOf(old, c)
    BY <1>1, <1>2, Zenon DEF ImageOf
  <1>5. Volume(img) = [Volume(old) EXCEPT ![b] = x]
    BY <1>4, Zenon DEF Volume
  <1>6. CASE old[0].clean \/ old[Journal(0)].start = 0
    <2>1. Replayed(img) = Volume(img) /\ Replayed(old) = Volume(old)
      BY <1>2, <1>3, <1>6, Zenon DEF Replayed
    <2>2. \A c : ~ Covers(old, c)
      <3>1. 1 # 0
        OBVIOUS
      <3> QED BY <1>6, <3>1, Zenon DEF Covers, Dirty
    <2> QED BY <1>1, <1>2, <1>3, <1>5, <2>1, <2>2, Zenon
  <1>7. CASE ~ old[0].clean /\ old[Journal(0)].start # 0
    <2>1. old[Journal(0)].start = 1
      BY <1>7, SoundHead, Zenon
    <2>2. PICK t \in Tags : old[Journal(1)] = Descriptor(Number(old), t)
      BY <2>1, Zenon DEF Sound, Decoded
    <2>3. old[Journal(1)].tags = t /\ img[Journal(1)].tags = t
      <3>1. Descriptor(Number(old), t).tags = t
        BY Zenon DEF Descriptor
      <3> QED BY <1>1, <2>2, <3>1, Places, Zenon DEF LogKept
    <2>4. Len(t) + 2 \in 0 .. MaxTx + 2 /\ \A i \in DOMAIN t : 1 + i \in 0 .. MaxTx + 2
      BY TagsAre
    <2>5. Committed(img, Number(old)) = Committed(old, Number(old))
      BY <1>1, <2>3, <2>4, Zenon DEF Committed, LogKept
    <2>6. \A c : Covers(old, c) => Covers(img, c)
      BY <1>2, <1>3, <2>3, <2>5, Zenon DEF Covers, Dirty
    <2>7. CASE ~ Committed(old, Number(old))
      <3>1. Replayed(img) = Volume(img) /\ Replayed(old) = Volume(old)
        BY <1>3, <2>5, <2>7, ReplayUncommitted, Zenon
      <3> QED BY <1>1, <1>2, <1>3, <1>5, <2>6, <2>7, <3>1, Zenon DEF Covers
    <2>8. CASE Committed(old, Number(old))
      <3> DEFINE At(i, c) == IF \E j \in DOMAIN t : t[j] = c
                             THEN i[Journal(1 + CHOOSE j \in DOMAIN t : t[j] = c)]
                             ELSE ImageOf(i, c)
      <3>1. Replayed(old) = [c \in VolumeBlock |-> At(old, c)]
        BY <1>7, <2>3, <2>8 DEF Replayed, Number
      <3>2. Replayed(img) = [c \in VolumeBlock |-> At(img, c)]
        BY <1>2, <1>3, <1>7, <2>3, <2>5, <2>8 DEF Replayed, Number
      <3>3. ASSUME NEW c \in VolumeBlock, c # b \/ b \in Range(t) PROVE At(img, c) = At(old, c)
        <4>1. CASE \E j \in DOMAIN t : t[j] = c
          <5> DEFINE k == CHOOSE j \in DOMAIN t : t[j] = c
          <5>1. k \in DOMAIN t
            BY <4>1, Zenon
          <5> HIDE DEF k
          <5>2. img[Journal(1 + k)] = old[Journal(1 + k)]
            BY <1>1, <2>4, <5>1, Zenon DEF LogKept
          <5> QED BY <4>1, <5>2, Zenon DEF k
        <4>2. CASE ~ \E j \in DOMAIN t : t[j] = c
          BY <1>4, <3>3, <4>2, Zenon DEF Range
        <4> QED BY <4>1, <4>2, Zenon
      <3>4. CASE b \in Range(t)
        <4>1. Replayed(img) = Replayed(old)
          <5>1. \A c \in VolumeBlock : At(img, c) = At(old, c)
            BY <3>3, <3>4, Zenon
          <5> HIDE DEF At
          <5> QED BY <3>1, <3>2, <5>1, Zenon
        <4> QED BY <1>1, <1>2, <1>3, <2>6, <4>1, Zenon
      <3>5. CASE b \notin Range(t)
        <4>1. At(img, b) = x
          BY <1>4, <3>5, Zenon DEF Range
        <4> HIDE DEF At
        <4>2. Replayed(img) = [Replayed(old) EXCEPT ![b] = x]
          BY <3>1, <3>2, <3>3, <4>1, Zenon
        <4>3. ~ Covers(old, b)
          BY <2>3, <3>5, Zenon DEF Covers
        <4> QED BY <1>1, <1>2, <1>3, <2>6, <4>2, <4>3, Zenon
      <3> QED BY <3>4, <3>5, Zenon
    <2> QED BY <2>7, <2>8, Zenon
  <1> QED BY <1>6, <1>7, Zenon

LEMMA IdleMended ==
  ASSUME JType, Lasting, AtIdle
  PROVE  Mended
  <1>1. CASE AtRest
    <2>1. /\ Number(disk) \in 1 .. MaxSequence /\ LogAt(disk, 0, Number(disk))
          /\ Replayed(disk) \in fates /\ fates \subseteq Volumes
      BY <1>1, SoundHead, Zenon DEF Lasting, AtRest, JType
    <2>2. Volume(disk) \in Volumes
      BY <2>1, ReplayEmpty, Zenon
    <2> QED BY <2>2, Untorn, Zenon DEF Mended
  <1> QED BY <1>1, Zenon DEF AtIdle

TimeWrite(b, image) == To(b, IF disk[b] = Torn THEN Torn ELSE image, "one")

LEMMA TimeLands ==
  ASSUME Lasting, Mended, NEW b \in VolumeBlock \ {0}, NEW image \in Image, NEW img \in Landed(TimeWrite(b, image))
  PROVE  /\ Sound(img) /\ Replayed(img) \in fates \cup {[volume EXCEPT ![b] = image] : volume \in fates}
         /\ \E old \in media : /\ img[0] = old[0] /\ LogKept(img, old)
                               /\ \A c : Covers(old, c) => Covers(img, c)
  <1> DEFINE x == IF disk[b] = Torn THEN Torn ELSE image
  <1>1. CASE img \in media
    BY <1>1, Zenon DEF Lasting, LogKept
  <1>2. ASSUME NEW old \in media, img = Put(old, b, x)
        PROVE  /\ Sound(img) /\ img[0] = old[0] /\ LogKept(img, old)
               /\ \A c : Covers(old, c) => Covers(img, c)
               /\ Replayed(img) \in fates \cup {[volume EXCEPT ![b] = image] : volume \in fates}
    <2>1. Sound(old) /\ Replayed(old) \in fates /\ x \in Content
      BY Zenon DEF Lasting, Content
    <2>2. disk[b] = Torn => Covers(old, b)
      BY Zenon DEF Mended
    <2>3. disk[b] # Torn => x = image
      BY Zenon
    <2> HIDE DEF x
    <2>4. /\ Sound(img) /\ img[0] = old[0] /\ LogKept(img, old)
          /\ \A c : Covers(old, c) => Covers(img, c)
          /\ Covers(old, b) => Replayed(img) = Replayed(old)
          /\ Replayed(img) \in {Replayed(old), [Replayed(old) EXCEPT ![b] = x]}
      BY <1>2, <2>1, ReplayPut
    <2> QED BY <2>1, <2>2, <2>3, <2>4, Zenon
  <1>3. TimeWrite(b, image) = To(b, x, "one")
    BY Zenon DEF TimeWrite
  <1> HIDE DEF x
  <1>4. img \in media \/ \E old \in media : img = Put(old, b, x)
    BY <1>3, OneLands, Zenon
  <1> QED BY <1>1, <1>2, <1>4, Zenon

LEMMA TimeTears ==
  ASSUME Lasting, NEW b \in VolumeBlock \ {0}, NEW image \in Image,
         Write(TimeWrite(b, image)) \/ FailedWrite(TimeWrite(b, image)),
         NEW c \in VolumeBlock \ {0}, disk'[c] = Torn
  PROVE  disk[c] = Torn
  <1> DEFINE x == IF disk[b] = Torn THEN Torn ELSE image
  <1>1. disk \in Medium /\ x \in Content
    BY Zenon DEF Lasting, Sound, Content
  <1>2. TimeWrite(b, image) = To(b, x, "one")
    BY Zenon DEF TimeWrite
  <1>3. x = Torn => disk[b] = Torn
    BY JournalAssumption, Zenon
  <1> HIDE DEF x
  <1>5. disk' = disk \/ disk' = Put(disk, b, x)
    <2>1. CASE Write(TimeWrite(b, image))
      BY <1>2, <2>1, Request DEF Write
    <2>2. CASE FailedWrite(TimeWrite(b, image))
      BY <1>2, <2>2, OneOutcomes DEF FailedWrite
    <2> QED BY <2>1, <2>2
  <1>6. Put(disk, b, x)[b] = x /\ \A e \in VolumeBlock : e # b => Put(disk, b, x)[e] = disk[e]
    BY <1>1, VolumeWrite
  <1> QED BY <1>3, <1>5, <1>6, Zenon

LEMMA TimeKeeps ==
  ASSUME JInv, NEW b \in VolumeBlock, NEW image \in Image, SetModifiedTime(b, image)
  PROVE  JInv'
  <1> DEFINE w == TimeWrite(b, image)
  <1>1. JType /\ Lasting /\ AtIdle /\ b \in VolumeBlock \ {0}
    BY Zenon DEF JInv, Here, SetModifiedTime
  <1>2. Mended
    BY <1>1, IdleMended, Zenon
  <1>3. /\ pc' = "Idle" /\ done' = done /\ sequence' = sequence /\ tags' = tags
        /\ fates' = fates \cup {[volume EXCEPT ![b] = image] : volume \in fates}
        /\ Write(w) \/ FailedWrite(w)
    BY Zenon DEF SetModifiedTime, TimeWrite
  <1> HIDE DEF w
  <1>4. ASSUME NEW img \in Landed(w)
        PROVE  /\ Sound(img) /\ Replayed(img) \in fates'
               /\ \E old \in media : /\ img[0] = old[0] /\ LogKept(img, old)
                                     /\ \A c : Covers(old, c) => Covers(img, c)
    BY <1>1, <1>2, <1>3, TimeLands, Zenon DEF w
  <1>5. Lasting' /\ media' = Landed(w)
    BY <1>1, <1>3, <1>4, WriteLasts, FailLasts, Zenon
  <1>6. JType'
    <2>1. \A volume \in fates : [volume EXCEPT ![b] = image] \in Volumes
      BY <1>1, Zenon DEF JType, Volumes
    <2> QED BY <1>1, <1>3, <2>1, Zenon DEF JType
  <1>7. CASE AtRest /\ sequence \in {0, Number(disk)}
    <2>1. Number(disk) \in 1 .. MaxSequence
      BY <1>1, SoundHead, Zenon DEF Lasting
    <2>2. \A img \in media' : LogAt(img, 0, Number(disk)) /\ img[0].image = disk[0].image
      <3>1. ASSUME NEW img \in media' PROVE LogAt(img, 0, Number(disk)) /\ img[0].image = disk[0].image
        <4>1. PICK old \in media : img[0] = old[0] /\ LogKept(img, old)
          BY <1>4, <1>5, Zenon
        <4>2. img[Journal(0)] = old[Journal(0)]
          BY <4>1, Places, Zenon DEF LogKept
        <4> QED BY <1>7, <4>1, <4>2, Zenon DEF AtRest, LogAt
      <3> QED BY <3>1, Zenon
    <2>3. AtRest' /\ Number(disk') = Number(disk)
      BY <1>5, <2>1, <2>2, RestNow, Zenon
    <2>4. AtIdle'
      BY <1>3, <1>7, <2>3, Zenon DEF AtIdle
    <2> QED BY <1>3, <1>5, <1>6, <2>4, Arrives, Zenon DEF JInv
  <1>8. CASE Armed
    <2>1. Armed'
      BY <1>5, <1>8, MayLand, Zenon DEF Armed
    <2>2. ASSUME NEW c \in VolumeBlock \ {0}, disk'[c] = Torn PROVE disk[c] = Torn
      BY <1>1, <1>3, <2>2, TimeTears, Zenon DEF w
    <2>3. Mended'
      BY <1>2, <1>4, <1>5, <2>2, Zenon DEF Mended
    <2>4. AtIdle'
      BY <2>1, <2>3, Zenon DEF AtIdle
    <2> QED BY <1>3, <1>5, <1>6, <2>4, Arrives, Zenon DEF JInv
  <1> QED BY <1>1, <1>7, <1>8, Zenon DEF AtIdle

LEMMA MountKeeps ==
  ASSUME JInv, MountVolume
  PROVE  JInv'
  <1>1. JType /\ Lasting /\ Settled
    BY Zenon DEF JInv, Here, MountVolume, AtDown
  <1>2. /\ pc' = "Idle" /\ done' = 0 /\ sequence' = 0 /\ UNCHANGED <<disk, media, tags, after, fates>>
        /\ disk[0].clean
    BY Zenon DEF MountVolume, Goto
  <1>3. Sound(disk)
    BY <1>1, Zenon DEF Lasting
  <1>4. Number(disk) \in 1 .. MaxSequence /\ LogAt(disk, 0, Number(disk))
    BY <1>2, <1>3, SoundHead, Zenon DEF Sound
  <1>5. AtRest
    BY <1>1, <1>4, SettledRests, Zenon
  <1>6. AtIdle'
    BY <1>2, <1>5, Zenon DEF AtIdle, AtRest
  <1>7. JType' /\ Lasting'
    BY <1>1, <1>2, JournalAssumption DEF JType, Lasting
  <1> QED BY <1>2, <1>6, <1>7, Arrives, Zenon DEF JInv

\* What recovery reads in the log of a committed transaction is the transaction.
LEMMA ReplayCarries ==
  ASSUME NEW img, Sound(img), img[Journal(0)].start = 1, Committed(img, Number(img)), ~ img[0].clean
  PROVE  LET t == img[Journal(1)].tags
         IN  /\ t \in Tags /\ t # <<>>
             /\ Carries(img, Number(img), t, Replayed(img)) /\ IsSealed(img, Number(img), t)
  <1>1. PICK t \in Tags : t # <<>> /\ img[Journal(1)] = Descriptor(Number(img), t)
    BY Zenon DEF Sound, Decoded
  <1>2. img[Journal(1)].tags = t
    <2>1. Descriptor(Number(img), t).tags = t
      BY Zenon DEF Descriptor
    <2> QED BY <1>1, <2>1, Zenon
  <1>3. IsSealed(img, Number(img), t)
    BY <1>2, Zenon DEF Committed, IsSealed
  <1>4. Replayed(img) = [b \in VolumeBlock |-> IF \E i \in DOMAIN t : t[i] = b
                              THEN img[Journal(1 + CHOOSE i \in DOMAIN t : t[i] = b)]
                              ELSE ImageOf(img, b)]
    BY <1>2 DEF Replayed, Number
  <1>5. ASSUME NEW i \in 1 .. Len(t) PROVE img[Journal(1 + i)] = Replayed(img)[t[i]]
    <2> DEFINE c == CHOOSE j \in DOMAIN t : t[j] = t[i]
    <2>1. i \in DOMAIN t /\ DOMAIN t = 1 .. Len(t) /\ t[i] \in VolumeBlock
      BY TagsAre, Zenon
    <2>2. c \in DOMAIN t /\ t[c] = t[i]
      BY <2>1, Zenon
    <2>3. Replayed(img)[t[i]] = img[Journal(1 + c)]
      BY <1>4, <2>1, Zenon
    <2> HIDE DEF c
    <2>4. c = i
      BY <2>1, <2>2, TagsAre, Zenon
    <2> QED BY <2>3, <2>4, Zenon
  <1>6. ASSUME NEW b \in VolumeBlock, b \notin Range(t) PROVE ImageOf(img, b) = Replayed(img)[b]
    <2>1. ~ \E i \in DOMAIN t : t[i] = b
      BY <1>6, Zenon DEF Range
    <2> QED BY <1>4, <2>1, Zenon
  <1>7. Carries(img, Number(img), t, Replayed(img))
    BY <1>1, <1>5, <1>6, Zenon DEF Carries, Dirty, Logged, Outside
  <1> QED BY <1>1, <1>2, <1>3, <1>7, Zenon

LEMMA RecoverKeeps ==
  ASSUME JInv, Recover
  PROVE  JInv'
  <1>1. JType /\ Lasting /\ Settled
    BY Zenon DEF JInv, Here, Recover, AtDown
  <1>2. /\ sequence' = Number(disk) /\ UNCHANGED <<disk, media, fates>> /\ ~ disk[0].clean
    BY Zenon DEF Recover, Number
  <1>3. Sound(disk) /\ Replayed(disk) \in fates
    BY <1>1, Zenon DEF Lasting
  <1>4. /\ Number(disk) \in 1 .. MaxSequence /\ disk[Journal(0)].start \in {0, 1}
        /\ LogAt(disk, disk[Journal(0)].start, Number(disk))
        /\ disk[Journal(0)].start = 1 => Number(disk) \in 1 .. MaxSequence - 1
    <2>1. /\ Number(disk) \in 1 .. MaxSequence /\ disk[Journal(0)].start \in {0, 1}
          /\ LogAt(disk, disk[Journal(0)].start, Number(disk))
      BY <1>3, SoundHead, Zenon
    <2>2. disk[Journal(0)].start = 1 => Number(disk) < MaxSequence
      BY <1>3, Zenon DEF Sound
    <2>3. \A n \in 1 .. MaxSequence : n < MaxSequence => n \in 1 .. MaxSequence - 1
      BY JournalAssumption
    <2> QED BY <2>1, <2>2, <2>3, Zenon
  <1>5. Lasting'
    BY <1>1, <1>2, Zenon DEF Lasting
  <1>6. CASE disk[Journal(0)].start = 0
    <2>1. pc' = "Clean" /\ done' = 0 /\ UNCHANGED <<tags, after>>
      BY <1>6, Zenon DEF Recover, Goto
    <2>2. AtClean' /\ JType'
      BY <1>1, <1>2, <1>4, <1>6, <2>1 DEF AtClean, Settled, Dirty, JType
    <2> QED BY <1>5, <2>1, <2>2, Arrives, Zenon DEF JInv
  <1>7. CASE disk[Journal(0)].start = 1 /\ Committed(disk, Number(disk))
    <2>1. /\ pc' = "Checkpoint" /\ done' = 0
          /\ tags' = disk[Journal(1)].tags /\ after' = Replayed(disk)
      BY <1>7 DEF Recover, Goto, Number
    <2>2. /\ tags' \in Tags /\ tags' # <<>> /\ Carries(disk, Number(disk), tags', after')
          /\ IsSealed(disk, Number(disk), tags')
      BY <1>2, <1>3, <1>7, <2>1, ReplayCarries, Zenon
    <2>3. Staged'
      BY <1>1, <1>2, <1>3, <1>4, <1>7, <2>1, <2>2, Zenon DEF Staged, JType
    <2>4. Replayable'
      BY <1>1, <1>2, <1>4, <1>7, <2>2, <2>3, Zenon DEF Replayable, Settled
    <2>5. Len(tags') > 0 /\ Placed(disk, tags', after', 0)
      BY <2>2, TagsAre DEF Placed
    <2>6. AtCheckpoint'
      BY <1>2, <2>1, <2>4, <2>5, Zenon DEF AtCheckpoint
    <2>7. JType'
      <3>1. done' \in Nat /\ tags' \in Tags
        BY <2>1, <2>2, Zenon
      <3>2. sequence' \in 0 .. MaxSequence
        BY <1>2, <1>4
      <3>3. fates' \subseteq Volumes
        BY <1>1, <1>2, Zenon DEF JType
      <3> QED BY <3>1, <3>2, <3>3, Zenon DEF JType
    <2> QED BY <1>5, <2>1, <2>6, <2>7, Arrives, Zenon DEF JInv
  <1>8. CASE disk[Journal(0)].start = 1 /\ ~ Committed(disk, Number(disk))
    <2>1. pc' = "Retire" /\ done' = 0 /\ UNCHANGED <<tags, after>>
      BY <1>8 DEF Recover, Goto, Number
    <2>2. Volume(disk) \in fates
      BY <1>3, <1>8, ReplayUncommitted, Zenon
    <2>3. AtRetire' /\ JType'
      BY <1>1, <1>2, <1>4, <1>8, <2>1, <2>2 DEF AtRetire, Settled, Dirty, JType
    <2> QED BY <1>5, <2>1, <2>3, Arrives, Zenon DEF JInv
  <1> QED BY <1>4, <1>6, <1>7, <1>8, Zenon

LEMMA ErrorKeeps ==
  ASSUME JInv, RequestError
  PROVE  JInv'
  <1>1. JType /\ Lasting /\ disk \in media /\ disk \in Medium /\ fates \subseteq Volumes
    BY Zenon DEF JInv, JType, Lasting, Sound
  <1>2. Fails /\ sequence' = sequence /\ fates' = fates /\ sequence \in 0 .. MaxSequence
    BY <1>1, Zenon DEF RequestError, JType
  <1>3. 1 # 0
    OBVIOUS
  <1>4. ASSUME Lasting', sequence \in 1 .. MaxSequence,
               \A img \in media' : LogAt(img, 0, sequence) /\ img[0].image = disk[0].image
        PROVE  AtIdle'
    <2>1. AtRest' /\ Number(disk') = sequence
      BY <1>4, RestNow, Zenon
    <2> QED BY <1>2, <2>1, Zenon DEF AtIdle
  <1>5. Lasting' /\ AtIdle'
    <2>1. CASE pc = "Log" /\ FailedWrite(LogBlock)
      <3>1. AtLog /\ sequence \in 1 .. MaxSequence
        BY <2>1, JournalAssumption DEF JInv, Here, AtLog, Staged
      <3>2. Lasting' /\ media' = Landed(LogBlock)
        BY <1>1, <1>2, <2>1, <3>1, LogLands, FailLasts, Zenon
      <3> QED BY <1>1, <1>4, <3>1, <3>2, LogLands, Zenon
    <2>2. CASE pc = "Arm" /\ FailedWrite(ArmedHead)
      <3>1. AtArm /\ sequence \in 1 .. MaxSequence
        BY <2>2, JournalAssumption DEF JInv, Here, AtArm, Staged
      <3>2. Lasting' /\ media' = Landed(ArmedHead)
        BY <1>1, <1>2, <2>2, <3>1, ArmLands, FailLasts, Zenon
      <3>3. /\ ArmedHead = To(Journal(0), LogHead(1, sequence), "one")
            /\ LogHead(1, sequence) \in Content /\ LogHead(1, sequence).start = 1
        BY <3>1, Records, Zenon DEF ArmedHead, Content
      <3>4. Volume(disk') \in Volumes
        <4>1. Volume(disk) \in Volumes
          BY <1>1, <3>1, ReplayEmpty, Zenon DEF AtArm, Lasting
        <4> QED BY <1>1, <2>2, <3>3, <4>1, Places, FailedLogWrite, Zenon
      <3> DEFINE armed == Put(disk, Journal(0), LogHead(1, sequence))
      <3>5. armed \in media'
        <4>1. ArmedHead.at = Journal(0) /\ ArmedHead.value = LogHead(1, sequence)
          BY <3>3, Request
        <4>2. Put(disk, ArmedHead.at, ArmedHead.value) \in Landed(ArmedHead)
          BY <1>1, MayLand
        <4> QED BY <3>2, <4>1, <4>2, Zenon
      <3>6. armed[Journal(0)].start # 0
        BY <1>1, <1>3, <3>3, Places, LogWrite, Zenon
      <3> HIDE DEF armed
      <3> QED BY <3>2, <3>4, <3>5, <3>6, ArmedIdle, Zenon
    <2>3. CASE pc = "Commit" /\ FailedWrite(CommitRecord)
      <3>1. /\ AtCommit /\ sequence \in 1 .. MaxSequence /\ LogAt(disk, 1, sequence)
            /\ Len(tags) + 2 \in 0 .. MaxTx + 2
        BY <1>1, <2>3, TagsAre, JournalAssumption DEF JInv, JType, Here, AtCommit, Staged
      <3>2. Lasting' /\ media' = Landed(CommitRecord)
        BY <1>1, <1>2, <2>3, <3>1, CommitLands, FailLasts, Zenon
      <3>3. CommitRecord = To(Journal(Len(tags) + 2), Sealed(sequence), "one") /\ Sealed(sequence) \in Content
        BY <3>1, Records, Zenon DEF CommitRecord, Content
      <3>4. Volume(disk') \in Volumes
        BY <1>1, <2>3, <3>1, <3>3, CommitVolume, FailedLogWrite, Zenon
      <3>5. disk \in media' /\ disk[Journal(0)].start # 0
        BY <1>1, <1>3, <3>1, <3>2, MayLand, HeadIs, Zenon
      <3> QED BY <3>2, <3>4, <3>5, ArmedIdle, Zenon
    <2>4. CASE pc = "Checkpoint" /\ FailedWrite(CheckpointBlock)
      <3>1. AtCheckpoint /\ sequence \in 1 .. MaxSequence /\ after \in Volumes /\ tags \in Tags
        BY <1>1, <2>4, JournalAssumption DEF JInv, JType, Here, AtCheckpoint, Replayable, Staged
      <3>2. Lasting' /\ media' = Landed(CheckpointBlock)
        BY <1>1, <1>2, <2>4, <3>1, CheckpointLands, FailLasts, Zenon
      <3>3. disk' \in media' /\ \A img \in media' :
               LogAt(img, 1, sequence) /\ Carries(img, sequence, tags, after) /\ IsSealed(img, sequence, tags)
        BY <1>1, <3>1, <3>2, CheckpointLands, Zenon DEF Lasting
      <3> QED BY <3>1, <3>2, <3>3, CarriedIdle, Zenon
    <2>5. CASE pc = "Retire" /\ FailedWrite(RetiredHead)
      <3>1. /\ AtRetire /\ sequence \in 1 .. MaxSequence /\ LogAt(disk, 1, sequence)
            /\ sequence + 1 \in 1 .. MaxSequence /\ Volume(disk) \in Volumes
        BY <1>1, <2>5, JournalAssumption DEF JInv, Here, AtRetire
      <3>2. Lasting' /\ media' = Landed(RetiredHead)
        BY <1>1, <1>2, <2>5, <3>1, RetireLands, FailLasts, Zenon
      <3>3. /\ RetiredHead = To(Journal(0), LogHead(0, sequence + 1), "one")
            /\ LogHead(0, sequence + 1) \in Content
        BY <3>1, Records, Zenon DEF RetiredHead, Content
      <3>4. Volume(disk') \in Volumes
        BY <1>1, <2>5, <3>1, <3>3, Places, FailedLogWrite, Zenon
      <3>5. disk \in media' /\ disk[Journal(0)].start # 0
        BY <1>1, <1>3, <3>1, <3>2, MayLand, HeadIs, Zenon
      <3> QED BY <3>2, <3>4, <3>5, ArmedIdle, Zenon
    <2>6. CASE pc = "Clean" /\ FailedWrite(Marker(TRUE))
      <3>1. AtRest /\ Number(disk) = sequence /\ sequence \in 1 .. MaxSequence
        BY <1>1, <2>6, CleanRests, Zenon DEF JInv, Here
      <3>2. Lasting' /\ media' = Landed(Marker(TRUE))
        BY <1>1, <1>2, <2>6, <3>1, MarkerLands, FailLasts, Zenon
      <3> QED BY <1>1, <1>4, <3>1, <3>2, MarkerLands, Zenon
    <2>7. CASE /\ pc \in {"FlushDirty", "FlushLog", "FlushArm", "FlushCommit", "FlushCheckpoint",
                          "FlushRetire", "FlushClean"}
               /\ UNCHANGED <<disk, media>>
      <3>1. Lasting'
        BY <1>1, <1>2, <2>7, Zenon DEF Lasting
      <3>2. CASE pc = "FlushDirty" \/ pc = "FlushClean"
        <4>1. AtRest /\ sequence = Number(disk)
          BY <3>2, Zenon DEF JInv, Here, AtFlushDirty, AtFlushClean
        <4> QED BY <1>2, <2>7, <3>1, <4>1, Zenon DEF AtIdle, AtRest
      <3>3. CASE pc = "FlushLog"
        <4>1. AtFlushLog /\ sequence \in 1 .. MaxSequence
          BY <3>3, JournalAssumption DEF JInv, Here, AtFlushLog, Staged
        <4> QED BY <1>4, <2>7, <3>1, <4>1, Zenon DEF AtFlushLog
      <3>4. CASE pc = "FlushArm"
        <4>1. /\ AtFlushArm /\ sequence \in 1 .. MaxSequence /\ LogAt(disk, 1, sequence) /\ tags \in Tags
              /\ Older(disk, sequence) /\ Logged(disk, sequence, tags, after)
          BY <1>1, <3>4, JournalAssumption DEF JInv, JType, Here, AtFlushArm, Staged, Carries
        <4>2. disk[Journal(0)].start # 0 /\ Number(disk) = sequence
          BY <1>3, <4>1, HeadIs, Zenon
        <4>3. Volume(disk) \in Volumes
          BY <1>1, <4>1, <4>2, NotCommitted, ReplayUncommitted, Zenon DEF Lasting
        <4> QED BY <1>1, <2>7, <3>1, <4>2, <4>3, ArmedIdle, Zenon
      <3>5. CASE pc = "FlushCommit"
        <4>1. /\ sequence \in 1 .. MaxSequence /\ LogAt(disk, 1, sequence) /\ Volume(disk) \in Volumes
          BY <3>5, JournalAssumption DEF JInv, Here, AtFlushCommit, Staged
        <4>2. disk[Journal(0)].start # 0
          BY <1>3, <4>1, HeadIs, Zenon
        <4> QED BY <1>1, <2>7, <3>1, <4>1, <4>2, ArmedIdle, Zenon
      <3>6. CASE pc = "FlushCheckpoint"
        <4>1. Replayable /\ sequence \in 1 .. MaxSequence /\ after \in Volumes /\ tags \in Tags
          BY <1>1, <3>6, JournalAssumption DEF JInv, JType, Here, AtFlushCheckpoint, Replayable, Staged
        <4>2. disk' \in media' /\ \A img \in media' :
                 LogAt(img, 1, sequence) /\ Carries(img, sequence, tags, after) /\ IsSealed(img, sequence, tags)
          BY <1>1, <2>7, <4>1, Zenon DEF Replayable
        <4> QED BY <3>1, <4>1, <4>2, CarriedIdle, Zenon
      <3>7. CASE pc = "FlushRetire"
        <4>1. Armed /\ sequence + 1 \in 1 .. MaxSequence /\ LogAt(disk, 0, sequence + 1)
          BY <3>7, JournalAssumption DEF JInv, Here, AtFlushRetire
        <4>2. Volume(disk) \in Volumes
          BY <1>1, <4>1, ReplayEmpty, Zenon DEF Lasting
        <4>3. PICK img \in media : img[Journal(0)].start # 0
          BY <4>1, Zenon DEF Armed
        <4> QED BY <2>7, <3>1, <4>2, <4>3, ArmedIdle, Zenon
      <3> QED BY <2>7, <3>2, <3>3, <3>4, <3>5, <3>6, <3>7, Zenon
    <2> QED BY <2>1, <2>2, <2>3, <2>4, <2>5, <2>6, <2>7, Zenon DEF RequestError
  <1> QED BY <1>1, <1>2, <1>5, FailsKeeps, Zenon

LEMMA CutKeeps ==
  ASSUME JInv, PowerCut
  PROVE  JInv'
  <1>1. JType /\ Lasting
    BY Zenon DEF JInv
  <1>2. PICK img \in media : disk' = img /\ media' = {img} /\ fates' = IF Legible(img) THEN {Replayed(img)} ELSE {}
    BY Zenon DEF PowerCut
  <1>3. pc' = "Down" /\ done' = 0 /\ sequence' = 0 /\ tags' = <<>>
    BY Zenon DEF PowerCut, Goto, Unstage
  <1>4. Sound(img) /\ Replayed(img) \in fates
    BY <1>1, Zenon DEF Lasting
  <1>5. fates' = {Replayed(img)}
    BY <1>2, <1>4, SoundOpens, Zenon
  <1>6. Lasting' /\ AtDown'
    BY <1>2, <1>4, <1>5, Zenon DEF Lasting, AtDown, Settled
  <1>7. JType'
    BY <1>1, <1>3, <1>4, <1>5, NoneStaged, JournalAssumption DEF JType
  <1> QED BY <1>3, <1>6, <1>7, Arrives, Zenon DEF JInv

LEMMA FormattedIs ==
  ASSUME NEW volume \in Volumes
  PROVE  Sound(Formatted(volume)) /\ Replayed(Formatted(volume)) = volume
  <1> DEFINE img == Formatted(volume)
  <1>1. 1 \in 1 .. MaxSequence /\ volume[0] \in Image
    BY JournalAssumption, Places DEF Volumes
  <1>2. /\ Superblock(TRUE, volume[0]) \in Content /\ LogHead(0, 1) \in Content /\ Blank \in Content
        /\ LogHead(0, 1) \in Heads
    BY <1>1, Records, Zenon DEF Content
  <1>3. /\ img[0] = Superblock(TRUE, volume[0])
        /\ \A l \in VolumeBlock : l # 0 => img[l] = volume[l]
    <2>1. 0 \in Location /\ \A l \in VolumeBlock : l \in Location /\ l < VolumeBlocks
      BY JournalAssumption, Places DEF VolumeBlock
    <2> QED BY <2>1, Zenon DEF Formatted
  <1>4. img[Journal(0)] = LogHead(0, 1)
    BY Places, JournalAssumption DEF Formatted, VolumeBlock, Journal
  <1>5. ASSUME NEW i \in 1 .. MaxTx + 2 PROVE img[Journal(i)] = Blank
    <2>1. i \in 0 .. MaxTx + 2 /\ i # 0 /\ 0 \in 0 .. MaxTx + 2
      BY JournalAssumption
    <2>2. Journal(i) \in Location /\ Journal(i) # Journal(0)
      BY <2>1, Places, Zenon
    <2>3. Journal(i) # 0 /\ ~ (Journal(i) < VolumeBlocks)
      BY JournalAssumption DEF Journal
    <2> QED BY <2>2, <2>3, Zenon DEF Formatted
  <1>6. img \in Medium
    <2>1. ASSUME NEW l \in Location
          PROVE  (IF l = 0 THEN Superblock(TRUE, volume[0])
                  ELSE IF l < VolumeBlocks THEN volume[l]
                  ELSE IF l = Journal(0) THEN LogHead(0, 1) ELSE Blank) \in Content
      <3>1. l < VolumeBlocks => l \in VolumeBlock
        BY JournalAssumption DEF Location, VolumeBlock, Journal
      <3>2. l < VolumeBlocks => volume[l] \in Content
        BY <3>1, Zenon DEF Content, Volumes
      <3> QED BY <1>2, <3>2, Zenon
    <2> QED BY <2>1, Zenon DEF Formatted, Medium
  <1> HIDE DEF img
  <1>7. LogAt(img, 0, 1) /\ img[Journal(0)].start = 0 /\ Number(img) = 1
    BY <1>1, <1>4, HeadIs, Zenon DEF LogAt
  <1>8. Older(img, 1)
    BY <1>5, EscapeAssumption, Zenon DEF Older
  <1>9. img[0] \in Super
    BY <1>1, <1>3, Records, Zenon
  <1>10. Sound(img)
    BY <1>2, <1>4, <1>6, <1>7, <1>8, <1>9 DEF Sound
  <1>11. ASSUME NEW b \in VolumeBlock PROVE ImageOf(img, b) = volume[b]
    <2>1. Superblock(TRUE, volume[0]).image = volume[0]
      BY <1>1, Records, Zenon
    <2>2. CASE b = 0
      BY <1>3, <2>1, <2>2, Zenon DEF ImageOf
    <2>3. CASE b # 0
      BY <1>3, <2>3, Zenon DEF ImageOf
    <2> QED BY <2>2, <2>3, Zenon
  <1>12. Volume(img) = volume
    BY <1>11, Zenon DEF Volume, Volumes
  <1>13. Replayed(img) = volume
    BY <1>1, <1>7, <1>12, ReplayEmpty, Zenon
  <1> QED BY <1>10, <1>13, Zenon DEF img

LEMMA InitJInv ==
  ASSUME JournalInit
  PROVE  JInv
  <1>1. PICK volume \in Volumes : disk = Formatted(volume) /\ fates = {volume}
    BY Zenon DEF JournalInit, Volumes
  <1>2. media = {disk} /\ pc = "Down" /\ done = 0 /\ sequence = 0 /\ tags = <<>>
    BY Zenon DEF JournalInit
  <1>3. Lasting /\ AtDown
    BY <1>1, <1>2, FormattedIs, Zenon DEF Lasting, AtDown, Settled
  <1>5. JType
    BY <1>1, <1>2, NoneStaged, JournalAssumption DEF JType
  <1>6. Here
    BY <1>2, <1>3, Zenon DEF Here
  <1> QED BY <1>3, <1>5, <1>6, Zenon DEF JInv

LEMMA IdleKeeps ==
  ASSUME JInv, UNCHANGED journalVars
  PROVE  JInv'
  <1>1. /\ disk' = disk /\ media' = media /\ pc' = pc /\ done' = done
        /\ sequence' = sequence /\ tags' = tags /\ after' = after /\ fates' = fates
    BY Zenon DEF journalVars
  <1>2. JType' /\ Lasting'
    BY <1>1, Zenon DEF JInv, JType, Lasting
  <1>3. AtIdle => AtIdle'
    BY <1>1, Zenon DEF AtIdle, AtRest, Armed, Mended
  <1>4. AtFlushDirty => AtFlushDirty'
    BY <1>1, Zenon DEF AtFlushDirty, AtRest
  <1>5. AtStage => AtStage'
    BY <1>1, Zenon DEF AtStage, Settled
  <1>6. AtLog => AtLog'
    BY <1>1, Zenon DEF AtLog, Staged
  <1>7. AtFlushLog => AtFlushLog'
    BY <1>1, Zenon DEF AtFlushLog, Staged
  <1>8. AtArm => AtArm'
    BY <1>1, Zenon DEF AtArm, Staged, Settled
  <1>9. AtFlushArm => AtFlushArm'
    BY <1>1, Zenon DEF AtFlushArm, Staged
  <1>10. AtCommit => AtCommit'
    BY <1>1, Zenon DEF AtCommit, Staged, Settled
  <1>11. AtFlushCommit => AtFlushCommit'
    BY <1>1, Zenon DEF AtFlushCommit, Staged
  <1>12. AtCheckpoint => AtCheckpoint'
    BY <1>1, Zenon DEF AtCheckpoint, Replayable, Staged
  <1>13. AtFlushCheckpoint => AtFlushCheckpoint'
    BY <1>1, Zenon DEF AtFlushCheckpoint, Replayable, Staged
  <1>14. AtRetire => AtRetire'
    BY <1>1, Zenon DEF AtRetire, Settled
  <1>15. AtFlushRetire => AtFlushRetire'
    BY <1>1, Zenon DEF AtFlushRetire, Armed
  <1>16. AtClean => AtClean'
    BY <1>1, Zenon DEF AtClean, Settled
  <1>17. AtFlushClean => AtFlushClean'
    BY <1>1, Zenon DEF AtFlushClean, AtRest
  <1>18. AtDown => AtDown'
    BY <1>1, Zenon DEF AtDown, Settled
  <1>19. Here'
    BY <1>1, <1>3, <1>4, <1>5, <1>6, <1>7, <1>8, <1>9, <1>10, <1>11, <1>12, <1>13, <1>14, <1>15, <1>16, <1>17, <1>18 DEF JInv, Here
  <1> QED BY <1>2, <1>19, Zenon DEF JInv

LEMMA OvertakenStays ==
  ASSUME overtaken, [JournalNext]_journalVars
  PROVE  overtaken'
  BY Zenon DEF JournalNext, journalVars, MountVolume, Recover, BeginMutation, FlushDirty, AbortMutation,
    Stage, Log, FlushLog, Arm, FlushArm, WriteRecord, FlushRecord, Checkpoint, FlushCheckpoint, Retire,
    FlushRetire, MarkClean, FlushClean, SetModifiedTime, RequestError, PowerCut, WriteThen, FlushThen

LEMMA StepJInv ==
  ASSUME JInv, [JournalNext]_journalVars, ~ overtaken'
  PROVE  JInv'
  <1>1. CASE UNCHANGED journalVars
    BY <1>1, IdleKeeps, Zenon
  <1>2. CASE \E t \in Tags, f \in [VolumeBlock -> Image] : Stage(t, f)
    BY <1>2, StageKeeps, Zenon
  <1>3. CASE \E b \in VolumeBlock, image \in Image : SetModifiedTime(b, image)
    BY <1>3, TimeKeeps, Zenon
  <1>4. CASE MountVolume \/ Recover \/ BeginMutation \/ FlushDirty \/ AbortMutation
    BY <1>4, MountKeeps, RecoverKeeps, BeginKeeps, FlushDirtyKeeps, AbortKeeps, Zenon
  <1>5. CASE Log \/ FlushLog \/ Arm \/ FlushArm \/ WriteRecord \/ FlushRecord
    BY <1>5, LogKeeps, FlushLogKeeps, ArmKeeps, FlushArmKeeps, RecordKeeps, FlushRecordKeeps, Zenon
  <1>6. CASE Checkpoint \/ FlushCheckpoint \/ Retire \/ FlushRetire \/ MarkClean \/ FlushClean
    BY <1>6, CheckpointKeeps, FlushCheckpointKeeps, RetireKeeps, FlushRetireKeeps, CleanKeeps, FlushCleanKeeps, Zenon
  <1>7. CASE RequestError \/ PowerCut
    BY <1>7, ErrorKeeps, CutKeeps, Zenon
  <1> QED BY <1>1, <1>2, <1>3, <1>4, <1>5, <1>6, <1>7, Zenon DEF JournalNext

-----------------------------------------------------------------------------
(***************************************************************************)
(* The results.                                                            *)
(***************************************************************************)
LEMMA JInvFates ==
  ASSUME JInv
  PROVE  TwoFates
  BY SoundOpens, Zenon DEF JInv, Lasting, TwoFates

LEMMA JInvReplayable ==
  ASSUME JInv
  PROVE  OneReplayable
  <1>1. Lasting
    BY Zenon DEF JInv
  <1>2. ASSUME NEW img \in media, Older(img, Number(img)), NEW i \in 1 .. MaxTx + 2
        PROVE  img[Journal(i)] # Sealed(img[Journal(0)].sequence)
    <2>1. Number(img) \in 1 .. MaxSequence
      BY <1>1, SoundHead, Zenon DEF Lasting
    <2> QED BY <1>2, <2>1 DEF Older, Number
  <1>3. ASSUME NEW img \in media, NEW seq \in 1 .. MaxSequence, LogAt(img, 0, seq)
        PROVE  Older(img, Number(img)) /\ img[Journal(0)].start = 0
    <2>1. img[Journal(0)].start = 0 /\ Number(img) = seq
      BY <1>3, HeadIs, Zenon
    <2>2. Older(img, Number(img) + img[Journal(0)].start)
      BY <1>1, Zenon DEF Lasting, Sound
    <2>3. seq + 0 = seq
      OBVIOUS
    <2> QED BY <2>1, <2>2, <2>3, Zenon
  <1>4. Number(disk) \in 1 .. MaxSequence
    BY <1>1, SoundHead, Zenon DEF Lasting
  <1>5. ASSUME NEW img \in media
        PROVE  /\ pc \in {"FlushDirty", "Stage", "Log", "FlushLog"} => img[Journal(0)].start = 0
               /\ pc \in {"FlushDirty", "Stage", "Log", "FlushLog", "Arm", "FlushArm", "Commit"} =>
                     Older(img, Number(img))
    <2>1. CASE pc = "FlushDirty"
      <3>1. LogAt(img, 0, Number(disk))
        BY <2>1, Zenon DEF JInv, Here, AtFlushDirty, AtRest
      <3> QED BY <1>3, <1>4, <3>1, Zenon
    <2>2. CASE pc \in {"Stage", "Log", "FlushLog", "Arm"}
      <3>1. AtStage \/ AtLog \/ AtFlushLog \/ AtArm
        BY <2>2, Zenon DEF JInv, Here
      <3>2. LogAt(img, 0, sequence) /\ sequence \in 1 .. MaxSequence - 1
        BY <3>1, Zenon DEF AtStage, AtLog, AtFlushLog, AtArm, Staged, Settled
      <3>3. sequence \in 1 .. MaxSequence
        BY <3>2, JournalAssumption
      <3> QED BY <1>3, <2>2, <3>2, <3>3, Zenon
    <2>3. CASE pc = "FlushArm"
      BY <2>3, Zenon DEF JInv, Here, AtFlushArm
    <2>4. CASE pc = "Commit"
      <3>1. /\ LogAt(img, 1, sequence) /\ sequence \in 1 .. MaxSequence /\ Older(img, sequence)
        BY <2>4, JournalAssumption DEF JInv, Here, AtCommit, Staged, Settled
      <3> QED BY <2>4, <3>1, HeadIs, Zenon
    <2> QED BY <2>1, <2>2, <2>3, <2>4, Zenon
  <1> QED BY <1>2, <1>5, Zenon DEF OneReplayable

\* The inductive invariant holds until a mutation overtakes another.
LEMMA AlwaysJInv == JournalSpec => [](overtaken \/ JInv)
  <1>1. JournalInit => overtaken \/ JInv
    BY InitJInv, Zenon
  <1>2. (overtaken \/ JInv) /\ [JournalNext]_journalVars => (overtaken \/ JInv)'
    BY StepJInv, OvertakenStays, Zenon
  <1> QED BY <1>1, <1>2, PTL DEF JournalSpec

\* Whenever power is lost, in a mutation, in the recovery from an earlier one or
\* after any number of failed requests, a volume whose superblock is whole opens
\* and holds what it held before the mutation or what the whole of it leads to, for
\* every volume and every set of staged blocks, until a mutation begins on a mount
\* where another one failed with its log armed (begin_mutation, finish_mutation,
\* replay).
THEOREM MutationsAtomic == JournalSpec => []TwoFates
  <1>1. overtaken \/ JInv => TwoFates
    BY JInvFates, Zenon DEF TwoFates
  <1> QED BY <1>1, AlwaysJInv, PTL

\* Until then, too, nothing is replayable while a mutation has not armed its log,
\* and a commit record left in the log by an earlier, failed or discarded
\* transaction is never taken for the one of the transaction under way: retiring a
\* transaction advances the sequence.
THEOREM NoStaleReplay == JournalSpec => []OneReplayable
  <1>1. overtaken \/ JInv => OneReplayable
    BY JInvReplayable, Zenon DEF OneReplayable
  <1> QED BY <1>1, AlwaysJInv, PTL
=============================================================================
