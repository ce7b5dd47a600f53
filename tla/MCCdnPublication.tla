-------------------------- MODULE MCCdnPublication --------------------------
(***************************************************************************)
(* TLC instances of CdnPublication: publications c (of a creator) and a    *)
(* (of an operator) of one video.                                          *)
(***************************************************************************)
EXTENDS CdnPublication, TLC

CONSTANTS v1

OneVideo == [p \in Pubs |-> v1]
=============================================================================
