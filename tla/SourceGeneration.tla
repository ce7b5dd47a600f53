-------------------------- MODULE SourceGeneration --------------------------
(***************************************************************************)
(* AI source generation of one creator: the REST handlers of               *)
(* app/routers/platform.py, the coordinator of app/worker.py, the credit   *)
(* reservations of app/credits.py and the private ivadmin job they drive.  *)
(*                                                                         *)
(* A handler's database session starts its REPEATABLE READ snapshot when   *)
(* the bearer token is looked up (app/auth_user.py), before the handler    *)
(* waits for the grant row in _lock_creator.  A request is therefore two   *)
(* steps: Begin takes the snapshot, a handler action decides from it and   *)
(* commits.  The session writes back only the columns it changed, so a     *)
(* commit merges them into the current rows (Commit).  The coordinator is  *)
(* one process; what it does between two commits is one action each, with  *)
(* its HTTP calls as actions of their own.                                 *)
(***************************************************************************)
EXTENDS Integers, FiniteSets

CONSTANTS
  Gens,            \* source generations, named by their unique request id
  Drafts,          \* creations (creator_creations rows)
  Clients,         \* requests of the creator that can be in flight at once
  Cost,            \* creator_video_duration_seconds: Credits of one source
  InitialCredits,  \* the creator's balance before the first reservation
  MaxCrashes,      \* bound on coordinator crashes
  None

ASSUME ConstantsAssumption ==
  /\ IsFiniteSet(Gens) /\ IsFiniteSet(Clients) /\ Clients # {}
  /\ Cost \in Nat \ {0}
  /\ InitialCredits \in Nat
  /\ MaxCrashes \in Nat
  /\ None \notin Gens /\ None \notin Drafts

VARIABLES
  gen,      \* creator_source_generations
  draft,    \* creator_creations; versions sums up the draft's creator_versions
  hold,     \* status of the reservation "source:<generation>"
  ledger,   \* credit_ledger_entries, keyed <<kind, generation>>
  upload,   \* normalization status of the generated upload up_ai_<generation>
  remote,   \* the ivadmin job with this generation's request id
  age,      \* 0 fresh, 1 past the 2400 s limit, 2 past expires_at
  session,  \* the snapshot of the request each client has in flight
  worker,   \* the coordinator: what it is doing, for which row, from what read
  crashes   \* coordinator crashes so far

db == <<gen, draft, hold, ledger, upload>>
vars == <<gen, draft, hold, ledger, upload, remote, age, session, worker, crashes>>

Active == {"queued", "running"}
GenStatus == Active \cup {"none", "ready", "failed", "cancelled", "expired"}
DraftStatus == {"none", "queued", "running", "source_ready", "failed",
                "cancelled", "analysed", "abandoned"}
HoldStatus == {"none", "reserved", "settled", "released"}
UploadStatus == {"none", "pending", "ready", "failed"}
RemoteStatus == {"none", "running", "ready", "failed", "cancelled"}

GenRow == [status : GenStatus, cancel : BOOLEAN, job : BOOLEAN,
           upload : BOOLEAN, accepted : BOOLEAN,
           creation : Drafts \cup {None}, attempt : Nat]
DraftRow == [status : DraftStatus, source : Gens \cup {None},
             upload : Gens \cup {None}, versions : {"none", "busy", "done"}]

NoGen == [status |-> "none", cancel |-> FALSE, job |-> FALSE, upload |-> FALSE,
          accepted |-> FALSE, creation |-> None, attempt |-> 0]
NoDraft == [status |-> "none", source |-> None, upload |-> None,
            versions |-> "none"]

(***************************************************************************)
(* Sessions: what a transaction reads and how its changes reach the rows.  *)
(***************************************************************************)
Database == [gen : [Gens -> GenRow], draft : [Drafts -> DraftRow],
             hold : [Gens -> HoldStatus],
             ledger : SUBSET ({"hold", "settle", "release"} \X Gens),
             upload : [Gens -> UploadStatus]]

\* A consistent read of every table: the snapshot of a transaction.
Snapshot == [gen |-> gen, draft |-> draft, hold |-> hold, ledger |-> ledger,
             upload |-> upload]

\* The unit of work flushes a column only when it differs from what was read.
Flush(read, written, current) ==
  IF written = read THEN current ELSE written

FlushWholeRow(read, written, current) == written

FlushRow(read, written, current) ==
  [col \in DOMAIN current |-> Flush(read[col], written[col], current[col])]

ConflictByRequestId(S, T) ==
  \/ (T.ledger \ S.ledger) \cap ledger # {}
  \/ \E g \in Gens : /\ S.gen[g].status = "none" /\ T.gen[g].status # "none"
                     /\ gen[g].status # "none"

\* Rows whose keys another transaction inserted meanwhile: the primary key of
\* a ledger entry, a generation's request id, and (creation, attempt).
Conflict(S, T) ==
  \/ (T.ledger \ S.ledger) \cap ledger # {}
  \/ \E g \in Gens :
       /\ S.gen[g].status = "none" /\ T.gen[g].status # "none"
       /\ \/ gen[g].status # "none"
          \/ \E h \in Gens : /\ gen[h].creation = T.gen[g].creation
                             /\ gen[h].attempt = T.gen[g].attempt

\* Commit of the transaction that read S and holds T in its session.
Commit(S, T) ==
  /\ ~ Conflict(S, T)
  /\ gen' = [g \in Gens |-> FlushRow(S.gen[g], T.gen[g], gen[g])]
  /\ draft' = [k \in Drafts |-> FlushRow(S.draft[k], T.draft[k], draft[k])]
  /\ hold' = [g \in Gens |-> Flush(S.hold[g], T.hold[g], hold[g])]
  /\ upload' = [g \in Gens |-> Flush(S.upload[g], T.upload[g], upload[g])]
  /\ ledger' = ledger \cup (T.ledger \ S.ledger)

(***************************************************************************)
(* app/credits.py on a session's view S.                                   *)
(***************************************************************************)
Entries(L, kind) == {g \in Gens : <<kind, g>> \in L}

\* balance(): holds are negative entries, releases give the amount back.
Balance(L) ==
  InitialCredits - Cost * Cardinality(Entries(L, "hold"))
                 + Cost * Cardinality(Entries(L, "release"))

Reserve(S, g) ==
  [S EXCEPT !.hold[g] = "reserved", !.ledger = @ \cup {<<"hold", g>>}]

SettleAsCharged(S, g) ==
  IF S.hold[g] = "reserved" THEN [S EXCEPT !.hold[g] = "charged"] ELSE S

Settle(S, g) ==
  IF S.hold[g] = "reserved"
  THEN [S EXCEPT !.hold[g] = "settled", !.ledger = @ \cup {<<"settle", g>>}]
  ELSE S

Release(S, g) ==
  IF S.hold[g] = "reserved"
  THEN [S EXCEPT !.hold[g] = "released", !.ledger = @ \cup {<<"release", g>>}]
  ELSE S

(***************************************************************************)
(* app/creator_drafts.py: another draft is generating.                     *)
(***************************************************************************)
Busy(S, k) ==
  \/ \E g \in Gens : S.gen[g].creation = k /\ S.gen[g].status \in Active
  \/ S.draft[k].versions = "busy"

OthersIdle(S, k) == \A j \in Drafts \ {k} : ~ Busy(S, j)

(***************************************************************************)
(* Requests.                                                               *)
(***************************************************************************)
\* require_creator_user reads the token: the snapshot of the whole request.
\* What is asked for shows when the handler acts.
Begin(c) ==
  /\ session[c] = None
  /\ session' = [session EXCEPT ![c] = Snapshot]
  /\ UNCHANGED <<db, remote, age, worker, crashes>>

\* A refused, replayed, conflicting or timed-out request changes nothing.
RequestEnds(c) ==
  /\ session[c] # None
  /\ session' = [session EXCEPT ![c] = None]
  /\ UNCHANGED <<db, remote, age, worker, crashes>>

\* A row the coordinator holds FOR UPDATE makes a handler's UPDATE wait.
Locked(S, T) == worker.locked /\ T.gen[worker.g] # S.gen[worker.g]

\* The handler's only commit; the grant row lock makes it one step.
Respond(c, T) ==
  /\ ~ Locked(session[c], T)
  /\ Commit(session[c], T)
  /\ session' = [session EXCEPT ![c] = None]
  /\ UNCHANGED <<remote, age, worker, crashes>>

NewGen(S, k) ==
  [NoGen EXCEPT !.status = "queued", !.creation = k,
     !.attempt = 1 + Cardinality({h \in Gens : S.gen[h].creation = k})]

AdmittedUnchecked(S, g, k) == S.gen[g].status = "none" /\ OthersIdle(S, k)

\* A request for a new generation is admitted: unused id, no other draft
\* generating, enough Credits, all in the request's snapshot.
Admitted(S, g, k) ==
  /\ S.gen[g].status = "none"
  /\ OthersIdle(S, k)
  /\ Balance(S.ledger) >= Cost

Enqueue(S, g, k, row) ==
  Reserve([S EXCEPT !.gen[g] = NewGen(S, k), !.draft[k] = row], g)

\* create_interactive_video, source_mode "prompt": the creation id is fresh.
CreateInteractiveVideo(c, g, k) ==
  /\ session[c] # None /\ draft[k].status = "none"
  /\ Admitted(session[c], g, None)
  /\ Respond(c, Enqueue(session[c], g, k,
                  [NoDraft EXCEPT !.status = "queued", !.source = g]))

\* A draft the request finds and the handler may still change.
Open(c, k) ==
  /\ session[c] # None
  /\ session[c].draft[k].status \notin {"none", "abandoned"}

\* regenerate_creation_source: the previous upload stays until the new one
\* is ready.
RegenerateCreationSource(c, g, k) ==
  LET S == session[c]
      d == S.draft[k]
  IN  /\ Open(c, k) /\ d.versions = "none"
      /\ S.gen[d.source].status \notin Active
      /\ Admitted(S, g, k)
      /\ Respond(c, Enqueue(S, g, k, [d EXCEPT !.status = "queued",
                                               !.source = g]))

\* accept_creation_source: the source becomes the draft's, and unless the
\* client defers it the first analysis version is queued.
Acceptable(S, g, k) ==
  /\ S.draft[k].source = g /\ S.draft[k].versions = "none"
  /\ S.gen[g].status = "ready" /\ S.gen[g].upload /\ S.upload[g] = "ready"

Accepted(S, g, k) ==
  [S EXCEPT !.gen[g].accepted = TRUE, !.draft[k].upload = g]

AcceptCreationSource(c, g, k) ==
  /\ Open(c, k) /\ Acceptable(session[c], g, k)
  /\ OthersIdle(session[c], k)
  /\ Respond(c, [Accepted(session[c], g, k) EXCEPT
                   !.draft[k].status = "queued", !.draft[k].versions = "busy"])

AcceptDeferred(c, g, k) ==
  /\ Open(c, k) /\ Acceptable(session[c], g, k)
  /\ ~ session[c].gen[g].accepted
  /\ Respond(c, [Accepted(session[c], g, k) EXCEPT
                   !.draft[k].status = "source_ready"])

\* A queued generation without a job is cancelled and its hold released.
CancelQueued(S, g) ==
  Release([S EXCEPT !.gen[g].status = "cancelled"], g)

\* What cancelling an active generation writes.
Stop(S, g) ==
  IF S.gen[g].status = "queued" /\ ~ S.gen[g].job THEN CancelQueued(S, g)
  ELSE [S EXCEPT !.gen[g].cancel = TRUE]

\* cancel_creation, for a source that is not accepted yet; it does not ask
\* whether the draft was abandoned.
CancelCreation(c, g, k) ==
  LET S == session[c]
      T == IF S.gen[g].status = "ready"
           THEN [S EXCEPT !.gen[g].status = "cancelled"] ELSE Stop(S, g)
  IN  /\ S # None
      /\ S.draft[k].source = g /\ ~ S.gen[g].accepted
      /\ S.gen[g].status \in Active \cup {"ready"}
      /\ Respond(c, [T EXCEPT !.draft[k].status =
           IF T.gen[g].status = "cancelled" THEN "cancelled" ELSE "running"])

\* abandon_creation.
AbandonCreation(c, g, k) ==
  LET S == session[c]
      T == IF ~ S.gen[g].accepted /\ S.gen[g].status \in Active
           THEN Stop(S, g) ELSE S
  IN  /\ S # None
      /\ S.draft[k].source = g
      /\ Respond(c, [T EXCEPT !.draft[k].status = "abandoned"])

(***************************************************************************)
(* The coordinator, app/worker.py.                                         *)
(***************************************************************************)
NoWork == [pc |-> "idle", g |-> None, locked |-> FALSE, snap |-> None,
           reply |-> "none"]

Replies == RemoteStatus \cup {"lost", "rejected"}

\* At work on generation g: with a transaction open, or between two.
Work ==
  [pc : {"work", "replied", "failing"}, g : Gens, locked : BOOLEAN,
   snap : Database, reply : Replies]
  \cup [pc : {"claimed", "fail", "expire"}, g : Gens, locked : BOOLEAN,
        snap : {None}, reply : Replies]

\* _sync_source_creation: the draft follows its current generation unless it
\* was abandoned.
Sync(S, g) ==
  LET r == S.gen[g]
      d == S.draft[r.creation]
      shown == CASE r.status = "ready" -> "source_ready"
                 [] r.status \in {"failed", "cancelled"} -> r.status
                 [] OTHER -> "running"
  IN  IF d.source # g \/ d.status = "abandoned" THEN S
      ELSE [S EXCEPT !.draft[r.creation] =
              [d EXCEPT !.status = shown,
                        !.upload = IF r.upload THEN g ELSE @]]

FinishWithoutRelease(S, g) ==
  CASE S.upload[g] = "ready" -> Settle([S EXCEPT !.gen[g].status = "ready"], g)
    [] S.upload[g] = "failed" -> [S EXCEPT !.gen[g].status = "failed"]
    [] OTHER -> [S EXCEPT !.gen[g].status = "running"]

\* _finish_source_from_upload for an upload with normalization status
\* S.upload[g].
FinishSourceFromUpload(S, g) ==
  CASE S.upload[g] = "ready" ->
         Settle([S EXCEPT !.gen[g].status = "ready"], g)
    [] S.upload[g] = "failed" -> Release([S EXCEPT !.gen[g].status = "failed"], g)
    [] OTHER -> [S EXCEPT !.gen[g].status = "running"]

\* _generated_upload: the row has one id per generation.
GeneratedUpload(S, g) ==
  IF S.gen[g].upload THEN S
  ELSE [S EXCEPT !.upload[g] = "pending", !.gen[g].upload = TRUE]

\* _apply_source_job for a well-formed payload of this generation.
ApplySourceJob(S, g, reply) ==
  LET J == [S EXCEPT !.gen[g].job = TRUE]
  IN  Sync(CASE reply = "running" -> [J EXCEPT !.gen[g].status = "running"]
             [] reply \in {"failed", "cancelled"} ->
                  Release([J EXCEPT !.gen[g].status = reply], g)
             [] OTHER -> FinishSourceFromUpload(GeneratedUpload(J, g), g), g)

Cancelled(S, g) == Sync(CancelQueued(S, g), g)

\* _fail_source.
Failed(S, g) ==
  Sync(Release([S EXCEPT !.gen[g].status = "failed"], g), g)

Goto(pc, locked, snap, reply) ==
  worker' = [pc |-> pc, g |-> worker.g, locked |-> locked, snap |-> snap,
             reply |-> reply]

\* _claim_next_source on a queued row: its commit also lets go of the row.
ClaimQueued(g) ==
  /\ worker.pc = "idle" /\ gen[g].status = "queued"
  /\ Commit(Snapshot, Sync([Snapshot EXCEPT !.gen[g].status = "running"], g))
  /\ worker' = [NoWork EXCEPT !.pc = "claimed", !.g = g]
  /\ UNCHANGED <<remote, age, session, crashes>>

\* The refresh after that commit starts the transaction of the tick.
Refresh ==
  /\ worker.pc = "claimed"
  /\ Goto("work", FALSE, Snapshot, "none")
  /\ UNCHANGED <<db, remote, age, session, crashes>>

\* _claim_next_source on a running row that is due: the row stays locked.
ClaimRunning(g) ==
  /\ worker.pc = "idle" /\ gen[g].status = "running"
  /\ worker' = [pc |-> "work", g |-> g, locked |-> TRUE, snap |-> Snapshot,
                reply |-> "none"]
  /\ UNCHANGED <<db, remote, age, session, crashes>>

\* One commit of the tick; a key conflict raises and fails the generation.
Done(T) ==
  \/ /\ Commit(worker.snap, T)
     /\ worker' = NoWork
  \/ /\ Conflict(worker.snap, T)
     /\ UNCHANGED db
     /\ Goto("fail", FALSE, None, "none")

StuckTimeOut == FALSE

\* process_source_generation, the branches in the order of the code:
\* the 2400 s limit, a cancelled source with its upload, the upload, a
\* cancellation without a job, and the HTTP calls.
NeedsCall(r) == ~ r.upload /\ (r.job \/ ~ r.cancel)

TimeOut ==
  /\ worker.pc = "work" /\ age[worker.g] > 0
  /\ Goto("fail", FALSE, None, "none")
  /\ UNCHANGED <<db, remote, age, session, crashes>>

CancelLocally ==
  LET r == worker.snap.gen[worker.g]
  IN  /\ worker.pc = "work" /\ age[worker.g] = 0
      /\ r.cancel /\ ~ NeedsCall(r)
      /\ Done(Cancelled(worker.snap, worker.g))
      /\ UNCHANGED <<remote, age, session, crashes>>

FinishUpload ==
  LET r == worker.snap.gen[worker.g]
  IN  /\ worker.pc = "work" /\ age[worker.g] = 0
      /\ ~ r.cancel /\ r.upload
      /\ Done(Sync(FinishSourceFromUpload(worker.snap, worker.g), worker.g))
      /\ UNCHANGED <<remote, age, session, crashes>>

\* POST a job (idempotent by request id), poll it, or ask for its
\* cancellation.  The job's progress shows in what the call finds; the call
\* can take effect and its answer be lost, and a 4xx answer is not retried.
CallIvadmin ==
  LET g == worker.g
      r == worker.snap.gen[g]
      after == IF remote[g] \notin {"none", "running"} THEN {remote[g]}
               ELSE {"running", "ready", "failed"}
                      \cup IF r.job /\ r.cancel THEN {"cancelled"} ELSE {}
  IN  /\ worker.pc = "work" /\ age[g] = 0 /\ NeedsCall(r)
      /\ \/ \E status \in after, lost \in BOOLEAN :
              /\ remote' = [remote EXCEPT ![g] = status]
              /\ worker' = [worker EXCEPT !.pc = "replied",
                              !.reply = IF lost THEN "lost" ELSE status]
         \/ /\ worker' = [worker EXCEPT !.pc = "replied", !.reply = "rejected"]
            /\ UNCHANGED remote
      /\ UNCHANGED <<db, age, session, crashes>>

ApplyReply ==
  /\ worker.pc = "replied" /\ worker.reply \notin {"lost", "rejected"}
  /\ Done(ApplySourceJob(worker.snap, worker.g, worker.reply))
  /\ UNCHANGED <<remote, age, session, crashes>>

\* CreatorTransportError: rolled back, polled again in 5 s.
CallLost ==
  /\ worker.pc = "replied" /\ worker.reply = "lost"
  /\ worker' = NoWork
  /\ UNCHANGED <<db, remote, age, session, crashes>>

CallRejected ==
  /\ worker.pc = "replied" /\ worker.reply = "rejected"
  /\ Goto("fail", FALSE, None, "none")
  /\ UNCHANGED <<db, remote, age, session, crashes>>

\* The coordinator holds the generation and wants the draft, a handler holds
\* the draft and wants the generation: InnoDB may pick the coordinator's
\* commit as the victim, which fails the generation like any other error.
DeadlockVictim ==
  /\ worker.pc \in {"work", "replied"} /\ worker.locked
  /\ \E c \in Clients :
       /\ session[c] # None
       /\ \E k \in Drafts : session[c].draft[k].source = worker.g
  /\ Goto("fail", FALSE, None, "none")
  /\ UNCHANGED <<db, remote, age, session, crashes>>

\* _fail_source rolls back, reads the rows again and commits the failure.
FailRead ==
  /\ worker.pc = "fail"
  /\ Goto("failing", FALSE, Snapshot, "none")
  /\ UNCHANGED <<db, remote, age, session, crashes>>

\* An error of this last commit leaves the process.
FailCommit ==
  /\ worker.pc = "failing"
  /\ \/ Commit(worker.snap, Failed(worker.snap, worker.g))
     \/ /\ Conflict(worker.snap, Failed(worker.snap, worker.g))
        /\ UNCHANGED db
  /\ worker' = NoWork
  /\ UNCHANGED <<remote, age, session, crashes>>

\* process_next_upload_normalization, when the job has an outcome.
NormalizeUpload(g) ==
  /\ worker.pc = "idle" /\ upload[g] = "pending"
  /\ \E outcome \in {"ready", "failed"} :
       upload' = [upload EXCEPT ![g] = outcome]
  /\ UNCHANGED <<gen, draft, hold, ledger, remote, age, session, worker, crashes>>

\* process_next_expired_source locks the row, deletes at ivadmin, retires the
\* upload and abandons a draft that has nothing else.
Expirable(g) ==
  /\ gen[g].status \in {"ready", "failed", "cancelled"}
  /\ ~ gen[g].accepted /\ age[g] = 2

ExpireClaim(g) ==
  /\ worker.pc = "idle" /\ Expirable(g)
  /\ worker' = [NoWork EXCEPT !.pc = "expire", !.g = g, !.locked = TRUE]
  /\ UNCHANGED <<db, remote, age, session, crashes>>

ExpireCommit ==
  LET g == worker.g
      k == gen[g].creation
  IN  /\ worker.pc = "expire"
      /\ gen' = [gen EXCEPT ![g].status = "expired", ![g].upload = FALSE]
      /\ upload' = [upload EXCEPT ![g] = "none"]
      /\ draft' = [draft EXCEPT
           ![k].upload = IF @ = g THEN None ELSE @,
           ![k].status = IF draft[k].source = g /\ draft[k].versions = "none"
                         THEN "abandoned" ELSE @]
      /\ worker' = NoWork
      /\ UNCHANGED <<hold, ledger, remote, age, session, crashes>>

\* A failed remote deletion or commit is retried later.
ExpireDeferred ==
  /\ worker.pc = "expire"
  /\ worker' = NoWork
  /\ UNCHANGED <<db, remote, age, session, crashes>>

\* The draft's analysis ends (module CreatorVersions).
VersionSettles(k) ==
  /\ worker.pc = "idle" /\ draft[k].versions = "busy"
  /\ draft' = [draft EXCEPT ![k].versions = "done",
                 ![k].status = IF @ = "abandoned" THEN @ ELSE "analysed"]
  /\ UNCHANGED <<gen, hold, ledger, upload, remote, age, session, worker, crashes>>

\* The coordinator dies; its transaction and its row lock are gone.
Crash ==
  /\ worker.pc # "idle" /\ crashes < MaxCrashes
  /\ crashes' = crashes + 1
  /\ worker' = NoWork
  /\ UNCHANGED <<db, remote, age, session>>

(***************************************************************************)
(* Time.                                                                   *)
(***************************************************************************)
\* Between the time limit and the retention of the draft lie 30 days; that they
\* pass shows only in a generation with an outcome.
TimePasses(g) ==
  /\ gen[g].status # "none" /\ age[g] < 2
  /\ age[g] = 1 => gen[g].status \notin Active
  /\ age' = [age EXCEPT ![g] = @ + 1]
  /\ UNCHANGED <<db, remote, session, worker, crashes>>

Init ==
  /\ gen = [g \in Gens |-> NoGen]
  /\ draft = [k \in Drafts |-> NoDraft]
  /\ hold = [g \in Gens |-> "none"]
  /\ ledger = {}
  /\ upload = [g \in Gens |-> "none"]
  /\ remote = [g \in Gens |-> "none"]
  /\ age = [g \in Gens |-> 0]
  /\ session = [c \in Clients |-> None]
  /\ worker = NoWork
  /\ crashes = 0

Handler(c) ==
  \E g \in Gens, k \in Drafts :
    \/ CreateInteractiveVideo(c, g, k)
    \/ RegenerateCreationSource(c, g, k)
    \/ AcceptCreationSource(c, g, k)
    \/ AcceptDeferred(c, g, k)
    \/ CancelCreation(c, g, k)
    \/ AbandonCreation(c, g, k)

Claim(g) == ClaimQueued(g) \/ ClaimRunning(g)

Tick ==
  \/ Refresh \/ TimeOut \/ CancelLocally \/ FinishUpload \/ CallIvadmin
  \/ ApplyReply \/ CallLost \/ CallRejected \/ FailRead \/ FailCommit

Next ==
  \/ \E c \in Clients : Begin(c) \/ RequestEnds(c) \/ Handler(c)
  \/ \E g \in Gens : Claim(g) \/ NormalizeUpload(g) \/ ExpireClaim(g)
  \/ Tick \/ DeadlockVictim
  \/ ExpireCommit \/ ExpireDeferred \/ Crash
  \/ \E k \in Drafts : VersionSettles(k)
  \/ \E g \in Gens : TimePasses(g)

Spec == Init /\ [][Next]_vars

\* The loop of main() never stops ticking and takes the due row created first,
\* so that every active row gets its turn; a started cleanup ends; time passes.
Fairness ==
  /\ WF_vars(Tick)
  /\ WF_vars(ExpireCommit \/ ExpireDeferred)
  /\ \A g \in Gens : SF_vars(Claim(g)) /\ WF_vars(TimePasses(g))

LiveSpec == Spec /\ Fairness

(***************************************************************************)
(* Properties.                                                             *)
(***************************************************************************)
\* Every row and every session holds values of its columns.
TypeOK ==
  /\ gen \in [Gens -> GenRow]
  /\ draft \in [Drafts -> DraftRow]
  /\ hold \in [Gens -> HoldStatus]
  /\ ledger \subseteq {"hold", "settle", "release"} \X Gens
  /\ upload \in [Gens -> UploadStatus]
  /\ remote \in [Gens -> RemoteStatus]
  /\ age \in [Gens -> 0..2]
  /\ session \in [Clients -> Database \cup {None}]
  /\ worker \in Work \cup {NoWork}
  /\ crashes \in 0..MaxCrashes

\* No race of handlers and coordinator leaves Credits on hold for a generation
\* that can no longer produce a video, and a failed one is never charged.
NoLeakedHold ==
  \A g \in Gens :
    /\ hold[g] = "reserved" => gen[g].status \in Active
    /\ gen[g].status = "failed" => hold[g] = "released"

\* A source that is ready was paid for.
ReadyIsPaid ==
  \A g \in Gens : gen[g].status = "ready" => hold[g] = "settled"

\* Handlers decide on snapshots older than the grant lock they wait for, so n
\* requests in flight can overdraw a balance, but by no more than the n-1
\* reservations that were not in the last one's snapshot.
OverdraftBounded ==
  Balance(ledger) >= - Cost * (Cardinality(Clients) - 1)

\* One draft never has two reservations open: the (creation, attempt) key
\* refuses the second of two overlapping regenerations.
OneHoldPerDraft ==
  \A g, h \in Gens :
    (/\ hold[g] = "reserved" /\ hold[h] = "reserved"
     /\ gen[g].creation = gen[h].creation) => g = h

\* A generation that is ready, failed or expired is never put back to work by
\* a stale session.
OutcomeIsFinal ==
  [][\A g \in Gens : gen[g].status \in {"ready", "failed", "expired"} =>
       gen'[g].status \notin Active]_vars

\* Whatever ivadmin answers or fails to answer, reserved Credits are settled
\* or given back.
HoldResolves ==
  \A g \in Gens : hold[g] = "reserved" ~> hold[g] # "reserved"
=============================================================================
