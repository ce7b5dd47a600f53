-------------------------- MODULE UploadParameters --------------------------
(***************************************************************************)
(* The parameters and bounds of the media modules.                         *)
(***************************************************************************)
EXTENDS Naturals, CommonParameters

CONSTANTS
    Procs,        \* server processes (API_WORKERS)
    Size,         \* length of the client's file, in units of the smallest chunk
    ChunkLimit,   \* longest chunk one PATCH may carry
    MaxPatches,   \* bound: PATCH requests the client sends
    MaxCrashes,   \* bound: restarts of the API
    NoFile        \* no file at a path

ASSUME UploadAssumption ==
    /\ Size \in Nat \ {0}
    /\ ChunkLimit \in Nat \ {0}
    /\ MaxPatches \in Nat /\ MaxCrashes \in Nat
    /\ Procs # {}

\* What stands for a file or a row that is missing is neither.
ASSUME PlaceholderAssumption ==
    \A n \in 0..Size :
        LET beginning == [i \in 1..n |-> i]
        IN  /\ NoFile # beginning
            /\ \A clip \in BOOLEAN : NoRow # [clip |-> clip, of |-> beginning]
=============================================================================
