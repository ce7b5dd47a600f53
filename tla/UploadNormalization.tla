------------------------ MODULE UploadNormalization ------------------------
(***************************************************************************)
(* The worker's normalization of finalized uploads: one upload at a time   *)
(* is submitted to ivadmin or polled, the oldest unfinished one first; the *)
(* ready ones that miss their backup in the object store are polled when   *)
(* nothing is unfinished.  Uploads are numbered in the order of creation.  *)
(***************************************************************************)
EXTENDS Naturals, NormalizationParameters

VARIABLES
    norm,     \* norm[u]: normalization_status, "none" before the upload exists
    job,      \* uploads whose normalization_job_id is known
    backup,   \* uploads whose media objects are both known
    remote    \* remote[u]: ivadmin's job, "none" before it is submitted

vars == <<norm, job, backup, remote>>

Uploads == 1..MaxUploads
Unfinished == {u \in Uploads : norm[u] \in {"pending", "normalizing"}}
Oldest(S) == CHOOSE u \in S : \A v \in S : u <= v

TypeOK ==
    /\ norm \in [Uploads -> {"none", "pending", "normalizing", "ready", "failed"}]
    /\ job \subseteq Uploads /\ backup \subseteq Uploads
    /\ remote \in [Uploads -> {"none", "running", "ready", "backed_up", "failed"}]

Init ==
    /\ norm = [u \in Uploads |-> "none"]
    /\ job = {} /\ backup = {}
    /\ remote = [u \in Uploads |-> "none"]

\* finalize has committed the CreatorUpload row.
AddUpload(u) ==
    /\ norm[u] = "none" /\ \A v \in Uploads : v < u => norm[v] # "none"
    /\ norm' = [norm EXCEPT ![u] = "pending"]
    /\ UNCHANGED <<job, backup, remote>>

\* ivadmin works on its jobs; a backup may never come.
RemoteStep(u) ==
    /\ \/ remote[u] = "running" /\ remote' \in {[remote EXCEPT ![u] = s] : s \in {"ready", "failed"}}
       \/ remote[u] = "ready" /\ remote' = [remote EXCEPT ![u] = "backed_up"]
    /\ UNCHANGED <<norm, job, backup>>

MissesBackup == {u \in Uploads \ (backup \cup StoryCuts) : norm[u] = "ready"}

OldestFirst ==
    LET all == Unfinished \cup (IF OssMode THEN MissesBackup ELSE {})
    IN  IF all # {} THEN {Oldest(all)} ELSE {}

\* The row a tick works on: unfinished uploads first, so that an old ready one never holds
\* up a newer one.
Candidates == IF Unfinished # {} THEN {Oldest(Unfinished)}
              ELSE IF OssMode /\ MissesBackup # {} THEN {Oldest(MissesBackup)} ELSE {}

\* _apply_normalization_payload: the row takes what the job says.
Applied(u, answer) ==
    /\ job' = job \cup {u}
    /\ norm' = [norm EXCEPT ![u] = CASE answer = "running" -> "normalizing"
                                     [] answer = "failed" -> "failed"
                                     [] OTHER -> "ready"]
    /\ backup' = IF answer = "backed_up" THEN backup \cup {u} ELSE backup

\* One request: the submission, which ivadmin knows by its request id, or a poll.
Answered(u) ==
    /\ u \in Candidates
    /\ remote' = IF remote[u] = "none" THEN [remote EXCEPT ![u] = "running"] ELSE remote
    /\ Applied(u, remote'[u])

\* The service cannot be reached or the answer is lost: the row stays as it was.
Unanswered(u) ==
    /\ u \in Candidates
    /\ remote' \in {remote, IF remote[u] = "none" /\ u \notin job
                               THEN [remote EXCEPT ![u] = "running"] ELSE remote}
    /\ UNCHANGED <<norm, job, backup>>

\* The request is refused or the answer cannot be used.
Rejected(u) ==
    /\ u \in Candidates
    /\ norm' = [norm EXCEPT ![u] = "failed"]
    /\ UNCHANGED <<job, backup, remote>>

\* What the preview and the analysis may use.
Playable(u) == norm[u] = "ready"

Next == \E u \in Uploads : \/ AddUpload(u) \/ RemoteStep(u) \/ Answered(u)
                           \/ Unanswered(u) \/ Rejected(u)

\* The worker loop runs for ever and its requests do not fail for ever; ivadmin ends what
\* it runs.
Fairness == \A u \in Uploads :
    /\ WF_vars(remote[u] = "running" /\ RemoteStep(u))
    /\ WF_vars(Answered(u))

Spec == Init /\ [][Next]_vars
LiveSpec == Spec /\ Fairness

-----------------------------------------------------------------------------
\* Every upload is normalized or fails, although the backup of an older one may never
\* come.
NormalizationEnds ==
    \A u \in Uploads : norm[u] = "pending" ~> norm[u] \in {"ready", "failed"}

\* What a creator may preview is what ivadmin has made.
PlayableIsMade == \A u \in Uploads : Playable(u) => remote[u] \in {"ready", "backed_up"}
=============================================================================
