--------------------------- MODULE CreatorVersions ---------------------------
(***************************************************************************)
(* The versions of one creation: the REST handlers of                      *)
(* app/routers/platform.py that create, edit, cancel, retry and publish    *)
(* them, and the part of the coordinator (app/worker.py) that has ivadmin  *)
(* analyse them one after the other.  What happens to a creation after it  *)
(* is submitted for review (moderation, deletion, restoring) is left out.  *)
(*                                                                         *)
(* Requests and the coordinator work on REPEATABLE READ snapshots and      *)
(* write back the columns they changed, as in SourceGeneration.  Versions  *)
(* are named by their number; a job is named by the version and the retry  *)
(* it was submitted for, which is what its request id is made of.          *)
(***************************************************************************)
EXTENDS Integers, FiniteSets, FiniteSetsExt

CONSTANTS
  MaxVersions,   \* bound on versions of the creation
  MaxRetries,    \* bound on retries of the one version that is retried
  MaxCrashes,    \* bound on coordinator crashes
  Clients,       \* requests in flight at once, of the creator and of operators
  None

ASSUME ConstantsAssumption ==
  /\ MaxVersions \in Nat \ {0} /\ MaxRetries \in Nat /\ MaxCrashes \in Nat
  /\ None \notin Nat

VARIABLES
  version,   \* creator_versions, by number
  draft,     \* the creator_creations row, and whether a video was made of it
  upload,    \* normalization status of the source upload
  remote,    \* the ivadmin jobs
  session,   \* the snapshot of the request each client has in flight
  worker,    \* the coordinator: what it is doing, for which version, from what read
  crashes

db == <<version, draft, upload>>
vars == <<version, draft, upload, remote, session, worker, crashes>>

Numbers == 1..MaxVersions
Retries == 0..MaxRetries

Active == {"queued", "running"}
VersionStatus ==
  Active \cup {"none", "ready", "failed", "cancelled", "published"}
Closed == {"pending_review", "published", "abandoned"}
DraftStatus == {"source_ready", "ready", "failed", "cancelled"}
                 \cup Active \cup Closed
RemoteStatus == {"none", "running", "ready", "failed", "cancelled"}

VersionRow == [status : VersionStatus, cancel : BOOLEAN, retry : Retries,
               job : Retries \cup {None}]
DraftRow == [status : DraftStatus, published : BOOLEAN]

NoVersion == [status |-> "none", cancel |-> FALSE, retry |-> 0, job |-> None]

(***************************************************************************)
(* Sessions.                                                               *)
(***************************************************************************)
Database == [version : [Numbers -> VersionRow], draft : DraftRow]

Snapshot == [version |-> version, draft |-> draft]

\* The unit of work writes the columns that differ from what was read.
FlushRow(read, written, current) ==
  [col \in DOMAIN current |->
     IF written[col] = read[col] THEN current[col] ELSE written[col]]

\* Unique keys: (creation, number) and the primary key of the video.
Conflict(S, T) ==
  \/ \E v \in Numbers : /\ S.version[v].status = "none"
                        /\ T.version[v].status # "none"
                        /\ version[v].status # "none"
  \/ ~ S.draft.published /\ T.draft.published /\ draft.published

\* Commit of the transaction that read S and holds T in its session.
Commit(S, T) ==
  /\ ~ Conflict(S, T)
  /\ version' = [v \in Numbers |->
                   FlushRow(S.version[v], T.version[v], version[v])]
  /\ draft' = FlushRow(S.draft, T.draft, draft)
  /\ UNCHANGED upload

With(S, status) == {v \in Numbers : S.version[v].status \in status}

Existing(S) == {v \in Numbers : S.version[v].status # "none"}

(***************************************************************************)
(* Requests.                                                               *)
(***************************************************************************)
\* The bearer token is read: the snapshot of the whole request.
Begin(c) ==
  /\ session[c] = None
  /\ session' = [session EXCEPT ![c] = Snapshot]
  /\ UNCHANGED <<db, remote, worker, crashes>>

\* A refused, replayed, conflicting or timed-out request changes nothing.
RequestEnds(c) ==
  /\ session[c] # None
  /\ session' = [session EXCEPT ![c] = None]
  /\ UNCHANGED <<db, remote, worker, crashes>>

\* _claim_next locks every active version; an UPDATE of one waits.
Locked(S, T) ==
  /\ worker.locked
  /\ \E v \in With(worker.snap, Active) : T.version[v] # S.version[v]

Respond(c, T) ==
  /\ ~ Locked(session[c], T)
  /\ Commit(session[c], T)
  /\ session' = [session EXCEPT ![c] = None]
  /\ UNCHANGED <<remote, worker, crashes>>

\* A new version n of session S, shown as the creation's current one.
Added(S, n, status) ==
  [S EXCEPT !.version[n] = [NoVersion EXCEPT !.status = status],
            !.draft.status = status]

NextNumber(S) == Cardinality(Existing(S)) + 1

\* create_version.
CreateVersion(c) ==
  LET S == session[c]
  IN  /\ S # None /\ S.draft.status \notin Closed
      /\ NextNumber(S) \in Numbers
      /\ Respond(c, Added(S, NextNumber(S), "queued"))

\* save_manual_edits on the latest ready version.
SaveManualEdits(c) ==
  LET S == session[c]
  IN  /\ S # None
      /\ S.draft.status \notin Closed
      /\ With(S, Active) = {} /\ With(S, {"ready"}) # {}
      /\ NextNumber(S) \in Numbers
      /\ Respond(c, Added(S, NextNumber(S), "ready"))

\* _cancel_version_row: a version that ended already stays as it is.
CancelVersionRow(S, v) ==
  IF S.version[v].status = "queued" /\ S.version[v].job = None
  THEN [S EXCEPT !.version[v].status = "cancelled"]
  ELSE IF S.version[v].status \in Active
  THEN [S EXCEPT !.version[v].cancel = TRUE]
  ELSE S

\* cancel_version of any version that is not ready or published; it takes no
\* lock and does not ask for the creation's status.
CancelVersion(c, v) ==
  LET S == session[c]
      T == CancelVersionRow(S, v)
  IN  /\ S # None
      /\ v \in With(S, Active \cup {"cancelled", "failed"})
      /\ Respond(c, [T EXCEPT !.draft.status = T.version[v].status])

\* cancel_creation once the source is accepted: the first active version.
CancelCreation(c) ==
  /\ session[c] # None /\ With(session[c], Active) # {}
  /\ CancelVersion(c, Min(With(session[c], Active)))

\* abandon_creation.
AbandonCreation(c) ==
  LET S == session[c]
      row(v) == CancelVersionRow(S, v).version[v]
  IN  /\ S # None
      /\ S.draft.status \notin {"pending_review", "published"}
      /\ Respond(c, [S EXCEPT !.version = [v \in Numbers |-> row(v)],
                              !.draft.status = "abandoned"])

\* retry_version, and retry_creation for the last version that can be retried.
RetryVersion(c, v) ==
  LET S == session[c]
  IN  /\ S # None /\ S.draft.status \notin Closed
      /\ v \in With(S, {"failed", "cancelled"})
      /\ S.version[v].retry < MaxRetries
      /\ \A n \in Numbers \ {v} : version[n].retry = 0
      /\ Respond(c, [S EXCEPT
           !.version[v] = [NoVersion EXCEPT !.status = "queued",
                                            !.retry = S.version[v].retry + 1],
           !.draft.status = "queued"])

PublishableAgain(S, v) == S.version[v].status = "ready"

\* publish_creation of a ready version; what was published before is not
\* published again, but other versions may still be at work.
Publishable(S, v) == S.version[v].status = "ready" /\ ~ S.draft.published

PublishCreation(c, v) ==
  LET S == session[c]
  IN  /\ S # None /\ Publishable(S, v)
      /\ Respond(c, [S EXCEPT !.version[v].status = "published",
           !.draft = [status |-> "pending_review", published |-> TRUE]])

(***************************************************************************)
(* The coordinator.                                                        *)
(***************************************************************************)
NoWork == [pc |-> "idle", v |-> None, locked |-> FALSE, snap |-> None,
           reply |-> "none"]

Replies == (RemoteStatus \ {"none"}) \cup {"lost", "rejected"}

Work ==
  [pc : {"work", "failing"}, v : Numbers, locked : BOOLEAN,
   snap : Database, reply : {"none"}]
  \cup [pc : {"replied"}, v : Numbers, locked : BOOLEAN,
        snap : Database, reply : Replies]
  \cup [pc : {"claimed", "fail"}, v : Numbers, locked : {FALSE},
        snap : {None}, reply : {"none"}]

\* _sync_creation: the creation shows its first active version, or the last
\* one; only abandoned creations are left alone.
Sync(S) ==
  LET current == IF With(S, Active) # {} THEN Min(With(S, Active))
                 ELSE Max(Existing(S))
  IN  IF S.draft.status = "abandoned" THEN S
      ELSE [S EXCEPT !.draft.status = S.version[current].status]

\* One transition of the version, synced.
Turned(S, v, status) == Sync([S EXCEPT !.version[v].status = status])

Goto(pc, locked, snap, reply) ==
  worker' = [pc |-> pc, v |-> worker.v, locked |-> locked, snap |-> snap,
             reply |-> reply]

\* _claim_next: the oldest active version, which has no active predecessor.
Claim ==
  LET v == Min(With(Snapshot, Active))
  IN  /\ worker.pc = "idle" /\ With(Snapshot, Active) # {}
      /\ \/ /\ version[v].status = "queued"
            /\ Commit(Snapshot, Turned(Snapshot, v, "running"))
            /\ worker' = [NoWork EXCEPT !.pc = "claimed", !.v = v]
         \/ /\ version[v].status = "running"
            /\ worker' = [pc |-> "work", v |-> v, locked |-> TRUE,
                          snap |-> Snapshot, reply |-> "none"]
            /\ UNCHANGED db
      /\ UNCHANGED <<remote, session, crashes>>

\* The refresh after the claim's commit starts the transaction of the tick.
Refresh ==
  /\ worker.pc = "claimed"
  /\ Goto("work", FALSE, Snapshot, "none")
  /\ UNCHANGED <<db, remote, session, crashes>>

\* One commit of the tick; the coordinator inserts no rows.
Done(T) ==
  /\ Commit(worker.snap, T)
  /\ worker' = NoWork
  /\ UNCHANGED <<remote, session, crashes>>

\* The first version waits for the upload, also when it is cancelled.
Waits(S, v) == v = 1 /\ S.version[v].job = None /\ upload = "pending"

Analysed(S) == \E v \in Numbers : S.version[v].job # None

\* The branches of process_creator_version, in the order of the code.
AwaitUpload ==
  /\ worker.pc = "work" /\ Waits(worker.snap, worker.v)
  /\ Done(Turned(worker.snap, worker.v, "running"))

CancelLocally ==
  LET r == worker.snap.version[worker.v]
  IN  /\ worker.pc = "work" /\ ~ Waits(worker.snap, worker.v)
      /\ r.cancel /\ r.job = None
      /\ Done(Turned(worker.snap, worker.v, "cancelled"))

\* _submit_job before anything was analysed needs the normalized upload.
LacksUpload(S, v) ==
  /\ ~ S.version[v].cancel /\ S.version[v].job = None
  /\ ~ Analysed(S) /\ upload # "ready"

UploadMissing ==
  /\ worker.pc = "work" /\ ~ Waits(worker.snap, worker.v)
  /\ LacksUpload(worker.snap, worker.v)
  /\ IF upload = "failed" THEN Goto("fail", FALSE, None, "none")
     ELSE worker' = NoWork
  /\ UNCHANGED <<db, remote, session, crashes>>

JobOf(r) == IF r.job = None THEN r.retry ELSE r.job

\* Submission (idempotent by request id), poll or cancellation.  The job's
\* progress shows in what the call finds; the call can take effect and its
\* answer be lost, and a refusal or an unusable result fails the version.
CallIvadmin ==
  LET v == worker.v
      r == worker.snap.version[v]
      k == <<v, JobOf(r)>>
      after == IF remote[k] \notin {"none", "running"} THEN {remote[k]}
               ELSE {"running", "ready", "failed"}
                      \cup IF r.cancel THEN {"cancelled"} ELSE {}
  IN  /\ worker.pc = "work" /\ ~ Waits(worker.snap, v)
      /\ r.cancel => r.job # None
      /\ ~ LacksUpload(worker.snap, v)
      /\ \/ \E status \in after, lost \in BOOLEAN :
              /\ remote' = [remote EXCEPT ![k] = status]
              /\ worker' = [worker EXCEPT !.pc = "replied",
                              !.reply = IF lost THEN "lost" ELSE status]
         \/ /\ worker' = [worker EXCEPT !.pc = "replied", !.reply = "rejected"]
            /\ UNCHANGED remote
      /\ UNCHANGED <<db, session, crashes>>

\* _apply_remote_job.
ApplyReply ==
  LET v == worker.v
      S == [worker.snap EXCEPT !.version[v].job = JobOf(worker.snap.version[v])]
  IN  /\ worker.pc = "replied" /\ worker.reply \notin {"lost", "rejected"}
      /\ Done(Turned(S, v, worker.reply))

\* CreatorTransportError: rolled back, tried again with the next tick.
CallLost ==
  /\ worker.pc = "replied" /\ worker.reply = "lost"
  /\ worker' = NoWork
  /\ UNCHANGED <<db, remote, session, crashes>>

CallRejected ==
  /\ worker.pc = "replied" /\ worker.reply = "rejected"
  /\ Goto("fail", FALSE, None, "none")
  /\ UNCHANGED <<db, remote, session, crashes>>

\* The coordinator holds the versions and wants the creation, a handler holds
\* the creation and wants a version: the coordinator may be the victim.
DeadlockVictim ==
  /\ worker.pc \in {"work", "replied"} /\ worker.locked
  /\ \E c \in Clients : session[c] # None
  /\ Goto("fail", FALSE, None, "none")
  /\ UNCHANGED <<db, remote, session, crashes>>

\* _fail rolls back, reads the rows again and commits the failure.
FailRead ==
  /\ worker.pc = "fail"
  /\ Goto("failing", FALSE, Snapshot, "none")
  /\ UNCHANGED <<db, remote, session, crashes>>

FailCommit ==
  /\ worker.pc = "failing"
  /\ Done(Turned(worker.snap, worker.v, "failed"))

\* process_next_upload_normalization, when the job has an outcome.
NormalizeUpload ==
  /\ worker.pc = "idle" /\ upload = "pending"
  /\ upload' \in {"ready", "failed"}
  /\ UNCHANGED <<version, draft, remote, session, worker, crashes>>

\* The coordinator dies; its transaction and its locks are gone.
Crash ==
  /\ worker.pc # "idle" /\ crashes < MaxCrashes
  /\ crashes' = crashes + 1
  /\ worker' = NoWork
  /\ UNCHANGED <<db, remote, session>>

\* A creation whose source was uploaded or accepted.
Init ==
  /\ version = [v \in Numbers |-> NoVersion]
  /\ draft = [status |-> "source_ready", published |-> FALSE]
  /\ upload = "pending"
  /\ remote = [k \in Numbers \X Retries |-> "none"]
  /\ session = [c \in Clients |-> None]
  /\ worker = NoWork
  /\ crashes = 0

Handler(c) ==
  \/ CreateVersion(c) \/ SaveManualEdits(c) \/ CancelCreation(c)
  \/ AbandonCreation(c)
  \/ \E v \in Numbers :
       CancelVersion(c, v) \/ RetryVersion(c, v) \/ PublishCreation(c, v)

Tick ==
  \/ Refresh \/ AwaitUpload \/ CancelLocally \/ UploadMissing \/ CallIvadmin
  \/ ApplyReply \/ CallLost \/ CallRejected \/ FailRead \/ FailCommit

Next ==
  \/ \E c \in Clients : Begin(c) \/ RequestEnds(c) \/ Handler(c)
  \/ Claim \/ Tick \/ DeadlockVictim \/ NormalizeUpload \/ Crash

Spec == Init /\ [][Next]_vars

(***************************************************************************)
(* Properties.                                                             *)
(***************************************************************************)
\* Every row and every session holds values of its columns.
TypeOK ==
  /\ version \in [Numbers -> VersionRow]
  /\ draft \in DraftRow
  /\ upload \in {"pending", "ready", "failed"}
  /\ remote \in [Numbers \X Retries -> RemoteStatus]
  /\ session \in [Clients -> Database \cup {None}]
  /\ worker \in Work \cup {NoWork}
  /\ crashes \in 0..MaxCrashes

\* A creation is published once: its video was made of one of its versions and
\* never of a second one, whatever requests and coordinator interleave.
PublishedOnce ==
  Cardinality(With(Snapshot, {"published"}))
    <= IF draft.published THEN 1 ELSE 0

\* A creation that was submitted for review waits for the review: neither the
\* analysis of another version (_sync_creation) nor cancel_version changes it.
PublishedIsClosed ==
  draft.published => draft.status = "pending_review"
=============================================================================
