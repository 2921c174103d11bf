------------------------------ MODULE StateFs ------------------------------
(***************************************************************************)
(* The single-file filesystem of crates/storage/troe-fs-statefs on the     *)
(* transaction store.  A file is a sequence of chunks.  The image written  *)
(* to the store is the file with a header and a checksum; it is parsed     *)
(* back to the file it was made from, and an image without the present     *)
(* flag and an empty store both mean that there is no file.  Requests on   *)
(* other paths are refused without effect.                                 *)
(***************************************************************************)
EXTENDS SlotStore, Sequences

CONSTANTS
    Chunk,      \* what one append adds
    MaxFile,    \* max_file_bytes, in chunks
    NoPending   \* no streamed write is under way

VARIABLES
    bytes,      \* the committed file, or Absent
    pending     \* the file a streamed write has built so far

vars == <<view, maybe, alive, active, step, staged, safe, bytes, pending>>

Files(n) == UNION {[1 .. k -> Chunk] : k \in 0 .. n}

ASSUME StateFsAssumption == MaxFile \in Nat /\ Payload = Files(MaxFile) \cup {Absent}

-----------------------------------------------------------------------------
Mount ==
    /\ Open
    /\ bytes' = active'.payload
    /\ pending' = NoPending

\* A file that does not fit and an exhausted store are refused at once.
CommitFile(file) ==
    /\ step = "Idle"
    /\ IF file \in Payload /\ ~ Exhausted THEN BeginCommit(file) ELSE UNCHANGED storeVars
    /\ UNCHANGED bytes

WriteFile(file) ==
    /\ pending' = NoPending
    /\ CommitFile(file)

TruncateFile ==
    /\ step = "Idle"
    /\ pending' = <<>>
    /\ UNCHANGED <<storeVars, bytes>>

\* The file a streamed write goes on from.
Base == IF pending # NoPending THEN pending ELSE IF bytes = Absent THEN <<>> ELSE bytes

\* The stream is opened before its room is checked, so that an append that is
\* refused leaves one behind.
AppendFile(chunk) ==
    /\ step = "Idle"
    /\ pending' = IF Len(Base) < MaxFile THEN Append(Base, chunk) ELSE Base
    /\ UNCHANGED <<storeVars, bytes>>

\* The stream is taken before the commit and not put back when that fails.
SyncFile ==
    /\ pending # NoPending
    /\ pending' = NoPending
    /\ CommitFile(pending)

RemoveFile ==
    /\ pending' = NoPending
    /\ IF bytes # Absent THEN CommitFile(Absent) ELSE step = "Idle" /\ UNCHANGED <<storeVars, bytes>>

\* The store's commit goes on; the file changes when it has succeeded.
CommitStep ==
    /\ Commit
    /\ bytes' = active'.payload
    /\ UNCHANGED pending

Forget == bytes' = Absent /\ pending' = NoPending

-----------------------------------------------------------------------------
Init == StoreInit /\ bytes = Absent /\ pending = NoPending

Operation ==
    \/ \E file \in Files(MaxFile + 1) : WriteFile(file)
    \/ \E chunk \in Chunk : AppendFile(chunk)
    \/ TruncateFile
    \/ SyncFile
    \/ RemoveFile

Next == Mount \/ Operation \/ CommitStep \/ (PowerLoss /\ Forget)

Spec == Init /\ [][Next]_vars

\* Restarts that keep the device's cache are possible as well.
WarmSpec == Init /\ [][Next \/ (WarmRestart /\ Forget)]_vars

-----------------------------------------------------------------------------
\* What readers are shown is what is held on the medium: the file in memory is
\* the newest committed one, and both blocks of its slot are settled, whatever
\* commit is under way or has failed.
ShownIsDurable ==
    /\ TypeOK
    /\ bytes \in Payload
    /\ pending \in Files(MaxFile) \cup {NoPending}
    /\ Mounted =>
          /\ bytes = active.payload
          /\ active.generation > 0 =>
                LET record == [generation |-> active.generation, payload |-> bytes]
                IN  /\ maybe[DataBlock(active.slot)] = {record}
                    /\ maybe[CommitBlock(active.slot)] = {record}
=============================================================================
