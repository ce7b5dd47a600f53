-------------------------- MODULE CommonParameters --------------------------
(***************************************************************************)
(* What the components beside the creator pipeline have in common.         *)
(***************************************************************************)
CONSTANTS
    Requests,   \* requests that may be under way at one time
    NoRow       \* no row in a table, or a column that is NULL
=============================================================================
