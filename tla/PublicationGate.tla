-------------------------- MODULE PublicationGate --------------------------
(***************************************************************************)
(* What the CDN gate of app/cdn_publication.py promises to viewers: a      *)
(* publication is released only once the CDN has its entry point, a newer  *)
(* publication of the same video supersedes one that still waits, and the  *)
(* outcome of a gate is final.                                             *)
(***************************************************************************)
CONSTANTS Pubs, Videos, VideoOf, None

VARIABLES
  gate,      \* none, warming, active, failed or superseded
  warm,      \* publications whose entry point the CDN delivers
  released   \* the publication viewers of a video get, or None

vars == <<gate, warm, released>>

\* Publications of the same video that wait for the CDN.
Waiting(v) == {p \in Pubs : VideoOf[p] = v /\ gate[p] = "warming"}

Init ==
  /\ gate = [p \in Pubs |-> "none"]
  /\ warm = {}
  /\ released = [v \in Videos |-> None]

\* The CDN obtains entry points.
Warm ==
  /\ \E S \in SUBSET Pubs : warm' = warm \cup S
  /\ UNCHANGED <<gate, released>>

\* A new publication waits, unless its entry point is already decided.
Publish(p) ==
  /\ gate[p] = "none"
  /\ \E outcome \in {"warming", "active", "failed"} :
       /\ outcome = "active" => p \in warm
       /\ gate' = [q \in Pubs |->
                     CASE q = p -> outcome
                       [] q \in Waiting(VideoOf[p]) -> "superseded"
                       [] OTHER -> gate[q]]
       /\ \/ UNCHANGED released
          \/ /\ outcome = "active"
             /\ released' = [released EXCEPT ![VideoOf[p]] = p]
  /\ UNCHANGED warm

\* Waiting gates end, the successful ones by releasing their publication (a
\* creator's gate only opens what the video shows already).
Resolve ==
  \E good, bad \in SUBSET {p \in Pubs : gate[p] = "warming"} :
    /\ good \cap bad = {} /\ good \subseteq warm
    /\ gate' = [p \in Pubs |-> CASE p \in good -> "active"
                                 [] p \in bad -> "failed"
                                 [] OTHER -> gate[p]]
    /\ released' \in [Videos -> good \cup {released[v] : v \in Videos}]
    /\ \A v \in Videos : released'[v] # released[v] =>
         released'[v] \in good /\ VideoOf[released'[v]] = v
    /\ UNCHANGED warm

\* An active publication is published again.
Republish(p) ==
  /\ gate[p] = "active"
  /\ released' = [released EXCEPT ![VideoOf[p]] = p]
  /\ UNCHANGED <<gate, warm>>

\* A video is deleted, softly or with its row.
Withdraw(v) ==
  /\ gate' = [p \in Pubs |-> IF p \in Waiting(v) THEN "superseded" ELSE gate[p]]
  /\ released' \in {released, [released EXCEPT ![v] = None]}
  /\ UNCHANGED warm

Next ==
  \/ Warm \/ Resolve
  \/ \E p \in Pubs : Publish(p) \/ Republish(p)
  \/ \E v \in Videos : Withdraw(v)

Spec == Init /\ [][Next]_vars
=============================================================================
