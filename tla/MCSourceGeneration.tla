------------------------- MODULE MCSourceGeneration -------------------------
(***************************************************************************)
(* TLC instances of SourceGeneration.                                      *)
(***************************************************************************)
EXTENDS SourceGeneration, TLC

Symmetry == Permutations(Gens) \cup Permutations(Drafts) \cup Permutations(Clients)

\* Bound of the run with overlapping requests: requests race each other, the
\* coordinator works between them, jobs are answered ready or failed at the
\* first call, no time limit passes, and no draft is accepted.
RequestsOnly ==
  /\ worker.pc = "idle" \/ \A c \in Clients : session[c] = None
  /\ worker.pc \in {"idle", "claimed", "work", "replied"}
  /\ worker.reply \in {"none", "ready", "failed"}
  /\ \A g \in Gens : age[g] = 0 /\ ~ gen[g].accepted /\ upload[g] # "failed"
=============================================================================
