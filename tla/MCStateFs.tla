----------------------------- MODULE MCStateFs -----------------------------
(* Files of at most one chunk, and a few generations. *)
EXTENDS StateFs, TLC

MCPayload == Files(MaxFile) \cup {Absent}

\* Chunks are only copied and compared.
Symmetry == Permutations(Chunk)
=============================================================================
