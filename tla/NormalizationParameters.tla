----------------------- MODULE NormalizationParameters -----------------------
EXTENDS Naturals

CONSTANTS
    MaxUploads,  \* bound: uploads finalized
    StoryCuts,   \* uploads cut from a story, which have no backup of their own
    OssMode      \* TRUE when media is kept in the object store

ASSUME NormalizationAssumption ==
    MaxUploads \in Nat /\ StoryCuts \subseteq 1..MaxUploads /\ OssMode \in BOOLEAN
=============================================================================
