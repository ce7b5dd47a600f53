------------------------- MODULE ContentTranslation ------------------------
(***************************************************************************)
(* The translation of a published work and the audit of its text.          *)
(*                                                                         *)
(* Every change of the text queues a job for its hash.  The coordinator    *)
(* claims a job for three minutes, sends it, and applies the answer in the *)
(* transaction that it opened before the call: what it compares is what    *)
(* was there then.                                                         *)
(***************************************************************************)
EXTENDS Naturals, Sequences, SequencesExt, ContentParameters

VARIABLES
    db,       \* the rows: see Init
    worker,   \* the coordinator's session
    scan,     \* the audit's session
    changes,  \* changes by creators and operators, and crashes
    calm,     \* history: no job or text has been changed during a call
    quiet     \* history: no text has been changed during a scan

vars == <<db, worker, scan, changes, calm, quiet>>

NoSession == [step |-> "idle"]
Statuses == {"queued", "running", "partial", "ready", "failed", "stale"}

Job == [text : Texts, status : Statuses, attempt : 0..MaxAttempts, targets : SUBSET Locales,
        leased : BOOLEAN, waits : BOOLEAN]

TypeOK ==
    /\ db.text \in Texts /\ db.issue \in {"none", "open", "resolved"}
    /\ db.jobs \in Seq(Job)
    /\ db.loc \in [Locales -> [text : Texts, status : {"ready", "stale"}] \cup {NoRow}]
    /\ worker.step \in {"idle", "claimed", "calling"} /\ scan.step \in {"idle", "read"}
    /\ changes \in 0..MaxEdits /\ calm \in BOOLEAN /\ quiet \in BOOLEAN

Candidates(d) == {j \in DOMAIN d.jobs : d.jobs[j].status \in {"queued", "partial"}}

-----------------------------------------------------------------------------
(* Queueing                                                                *)

\* The jobs of the same text that queue_content_translation uses again.
Reusable == {"queued", "running", "partial", "ready"}

Current(d) == {j \in DOMAIN d.jobs : d.jobs[j].text = d.text /\ d.jobs[j].status \in Reusable}

LeftAsTheyWere(jobs, t) == jobs

\* The jobs of other texts end.
Staled(jobs, t) ==
    [j \in DOMAIN jobs |-> IF jobs[j].text = t THEN jobs[j]
                           ELSE [jobs[j] EXCEPT !.status = "stale", !.leased = FALSE]]

Queue(d) ==
    IF Current(d) # {} THEN d
    ELSE [d EXCEPT
            !.jobs = Append(Staled(@, d.text),
                            [text |-> d.text, status |-> "queued", attempt |-> 0,
                             targets |-> Locales, leased |-> FALSE, waits |-> FALSE]),
            !.loc = [l \in Locales |-> IF @[l] # NoRow /\ @[l].text # d.text
                                       THEN [@[l] EXCEPT !.status = "stale"] ELSE @[l]]]

\* record_public_text_issues
NeverResolved(text, old) == IF text \in NonEnglish THEN "open" ELSE old

Audited(text, old) ==
    IF text \in NonEnglish THEN "open" ELSE IF old = "open" THEN "resolved" ELSE old

Init ==
    \E t \in Texts :
        /\ db = Queue([text |-> t,                         \* published_videos: its public text
                       issue |-> Audited(t, "none"),       \* public_text_issues
                       jobs |-> <<>>,                      \* content_translation_jobs, oldest first
                       loc |-> [l \in Locales |-> NoRow]]) \* content_localizations
        /\ worker = NoSession /\ scan = NoSession /\ changes = 0
        /\ calm = TRUE /\ quiet = TRUE

Change(new) ==
    /\ changes < MaxEdits /\ changes' = changes + 1
    /\ db' = new
    /\ calm' = (calm /\ worker = NoSession)
    /\ UNCHANGED <<worker, scan>>

\* publish_video, patch_content_management_detail and the activation of a publication; with
\* the text unchanged, backfill_content_localizations.
Edit(t) ==
    /\ Change(Queue([db EXCEPT !.text = t, !.issue = Audited(t, @)]))
    /\ quiet' = (quiet /\ (scan = NoSession \/ t = db.text))

Requeued(job, targets) ==
    [job EXCEPT !.status = "queued", !.attempt = 0, !.targets = targets, !.leased = FALSE,
                !.waits = FALSE]

Has(d, l, t, status) == d.loc[l] # NoRow /\ d.loc[l].text = t /\ d.loc[l].status = status

\* retry_content_localizations
Retry ==
    LET again(job) ==
            LET left == {l \in Locales : ~Has(db, l, job.text, "ready")} IN
            IF job.status \notin {"failed", "partial"} THEN job
            ELSE IF left = {} THEN [job EXCEPT !.status = "ready", !.targets = {}]
            ELSE Requeued(job, left)
    IN  /\ Change([db EXCEPT !.jobs = [j \in DOMAIN @ |-> again(@[j])]])
        /\ UNCHANGED quiet

\* retranslate_content_localizations
Retranslate ==
    LET d == Queue(db)
        j == CHOOSE k \in Current(d) : \A m \in Current(d) : m <= k
    IN  /\ \E l \in Locales : db.loc[l] # NoRow /\ db.loc[l].status = "ready"
        /\ Change([d EXCEPT
              !.jobs[j] = Requeued(@, Locales),
              !.loc = [l \in Locales |-> IF Has(d, l, d.text, "ready")
                                         THEN [@[l] EXCEPT !.status = "stale"] ELSE @[l]]])
        /\ UNCHANGED quiet

-----------------------------------------------------------------------------
(* The coordinator                                                         *)

Quietly == UNCHANGED <<scan, changes, calm, quiet>>

NothingExpires(jobs) == jobs

\* _claim_next: what a worker that stopped has left.
Expired(jobs) ==
    [j \in DOMAIN jobs |->
        IF jobs[j].status # "running" \/ jobs[j].leased THEN jobs[j]
        ELSE [jobs[j] EXCEPT !.status = IF @ = "running" /\ jobs[j].attempt >= MaxAttempts
                                        THEN "failed" ELSE "partial"]]

\* The oldest job that does not wait for its next try.
Claim ==
    LET d == [db EXCEPT !.jobs = Expired(@)]
        due == {j \in Candidates(d) : ~d.jobs[j].waits}
        j == CHOOSE k \in due : \A m \in due : k <= m
        taken == [d.jobs[j] EXCEPT !.status = "running", !.attempt = @ + 1, !.leased = TRUE]
    IN  /\ worker = NoSession
        /\ IF due = {} THEN d # db /\ db' = d /\ UNCHANGED worker
           ELSE /\ d.jobs[j].attempt < MaxAttempts
                /\ db' = [d EXCEPT !.jobs[j] = taken]
                /\ worker' = [step |-> "claimed", job |-> j]
        /\ Quietly

\* The session reads its job again; what it reads later is of this time.
Call ==
    /\ worker.step = "claimed"
    /\ worker' = [step |-> "calling", job |-> worker.job, db |-> db]
    /\ UNCHANGED db /\ Quietly

\* _upsert_localization writes the columns that differ from what the session has read.
Upserted(old, seen, t) ==
    IF seen = NoRow \/ old = NoRow THEN [text |-> t, status |-> "ready"]
    ELSE [text |-> IF seen.text = t THEN old.text ELSE t,
          status |-> IF seen.status = "ready" THEN old.status ELSE "ready"]

\* _valid_payload: any of the locales asked for may come back whole.
Valid(job) == SUBSET job.targets

\* apply_translation_result
Answer(valid) ==
    LET s == worker.db
        j == worker.job
        job == s.jobs[j]
        missing == job.targets \ valid
        status == IF job.text # s.text THEN "stale"
                  ELSE IF missing = {} THEN "ready"
                  ELSE IF job.attempt < MaxAttempts THEN "partial" ELSE "failed"
        stored == IF status = "stale" THEN {} ELSE valid \ {SourceOf[job.text]}
        over == [db.jobs[j] EXCEPT
                   !.status = IF status = job.status THEN @ ELSE status,
                   !.leased = FALSE,
                   !.targets = IF status = "partial" /\ missing # job.targets THEN missing ELSE @,
                   !.waits = IF status = "partial" THEN TRUE ELSE @]
    IN  /\ worker.step = "calling" /\ valid \in Valid(job)
        /\ db' = [db EXCEPT
              !.jobs[j] = over,
              !.loc = [l \in Locales |-> IF l \in stored THEN Upserted(@[l], s.loc[l], job.text)
                                         ELSE @[l]]]
        /\ worker' = NoSession /\ Quietly

\* A call that fails: the job is read again.
Failed ==
    /\ worker.step = "calling"
    /\ db' = [db EXCEPT !.jobs[worker.job] =
                [@ EXCEPT !.leased = FALSE,
                          !.status = IF db.jobs[worker.job].attempt >= MaxAttempts
                                     THEN "failed" ELSE "partial",
                          !.waits = db.jobs[worker.job].attempt < MaxAttempts]]
    /\ worker' = NoSession /\ Quietly

Crash ==
    /\ worker # NoSession /\ changes < MaxEdits /\ changes' = changes + 1
    /\ worker' = NoSession
    /\ UNCHANGED <<db, scan, calm, quiet>>

\* Time passes: a lease or the delay before the next try.
Lapse(j) ==
    /\ \/ db.jobs[j].leased /\ worker = NoSession
       \/ db.jobs[j].waits
    /\ db' = [db EXCEPT !.jobs[j] = [@ EXCEPT !.leased = FALSE, !.waits = FALSE]]
    /\ UNCHANGED worker /\ Quietly

-----------------------------------------------------------------------------
(* The audit of the text                                                   *)

\* scan_public_text reads every row and records what it found at its end.
ScanRead ==
    /\ scan = NoSession
    /\ scan' = [step |-> "read", text |-> db.text, issue |-> db.issue]
    /\ UNCHANGED <<db, worker, changes, calm, quiet>>

ScanRecord ==
    /\ scan.step = "read"
    /\ LET issue == Audited(scan.text, scan.issue)
       IN  db' = [db EXCEPT !.issue = IF issue = scan.issue THEN @ ELSE issue]
    /\ scan' = NoSession
    /\ UNCHANGED <<worker, changes, calm, quiet>>

Next ==
    \/ \E t \in Texts : Edit(t)
    \/ Retry \/ Retranslate \/ Claim \/ Call \/ Failed \/ Crash \/ ScanRead \/ ScanRecord
    \/ \E valid \in SUBSET Locales : Answer(valid)
    \/ \E j \in DOMAIN db.jobs : Lapse(j)

Finish == Failed \/ \E valid \in SUBSET Locales : Answer(valid)
Lapses == \E j \in DOMAIN db.jobs : Lapse(j)

Spec == Init /\ [][Next]_vars

LiveSpec == Spec /\ WF_vars(Claim) /\ WF_vars(Call) /\ WF_vars(Finish) /\ WF_vars(Lapses)

-----------------------------------------------------------------------------
\* localized_content serves a locale of the present text.
Served(l) == l = SourceOf[db.text] \/ Has(db, l, db.text, "ready")

\* The job that localized_content looks at.
Latest(j) ==
    LET here == {k \in DOMAIN db.jobs : db.jobs[k].text = db.text /\ db.jobs[k].status # "stale"}
    IN  j \in here /\ \A k \in here : k <= j

\* When the job of the present text is ready, every locale of it is served, through edits
\* there and back, partial answers, retries and crashes, unless a job or the text was changed
\* during a call.
ReadyIsServed ==
    calm => \A j \in DOMAIN db.jobs :
                Latest(j) /\ db.jobs[j].status = "ready" => \A l \in Locales : Served(l)

\* The audit reports what is public, unless a text was changed during a scan.
AuditIsRight == quiet => (db.issue = "open" <=> db.text \in NonEnglish)

\* Every text that stays is translated or given up, whatever calls fail and workers stop,
\* unless a job or the text was changed during a call.
TextSettles ==
    <>[](calm => \E j \in DOMAIN db.jobs : db.jobs[j].text = db.text
                                           /\ db.jobs[j].status \in {"ready", "failed"})
=============================================================================
