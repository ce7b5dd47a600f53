------------------------- MODULE ContentParameters -------------------------
(***************************************************************************)
(* The parameters and bounds of the modules about published content.       *)
(***************************************************************************)
EXTENDS Naturals, CommonParameters

CONSTANTS
    Texts,        \* the public texts that a work has in turn
    NonEnglish,   \* texts with a script other than Latin
    Locales,      \* SUPPORTED_LOCALES
    SourceOf,     \* SourceOf[t]: the language that is detected in a text
    MaxAttempts,  \* MAX_ATTEMPTS: calls for one job
    MaxEdits    \* bound: changes by creators and operators, and crashes

ASSUME ContentAssumption ==
    /\ NonEnglish \subseteq Texts /\ SourceOf \in [Texts -> Locales]
    /\ MaxAttempts \in Nat \ {0} /\ MaxEdits \in Nat
    /\ NoRow \notin [text : Texts, status : {"ready", "stale"}]
=============================================================================
