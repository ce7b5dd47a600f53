---------------------------- MODULE ContentProofs ----------------------------
(***************************************************************************)
(* Theorems of the components MCContent puts side by side: the             *)
(* localization of texts, the packaging and import of HTML works, the      *)
(* cycles and pools of the recommendation and the published feed.  Every   *)
(* part of its behaviour is a behaviour of the component it instantiates,  *)
(* so that what is proved of the component holds of the part.              *)
(***************************************************************************)
EXTENDS MCContent, TLAPS, FiniteSetTheorems, SequenceTheorems, WellFoundedInduction

-----------------------------------------------------------------------------
(***************************************************************************)
(* The parts.                                                              *)
(***************************************************************************)

\* A step is a step of the part that moves and leaves the others alone.
LEMMA PartsNext ==
  ASSUME [Next]_vars
  PROVE  /\ [Feed!Next]_feedVars /\ [Cycle!Next]_cycleVars /\ [Localize!Next]_textVars
         /\ [Package!Build]_packageVars /\ [Import!Next]_importVars
         /\ [Pools!Next]_poolVars
<1>1. CASE Feed!Next /\ UNCHANGED <<cycleVars, poolVars, textVars, packageVars, importVars>>
  BY <1>1
<1>2. CASE Cycle!Next /\ UNCHANGED <<feedVars, poolVars, textVars, packageVars, importVars>>
  BY <1>2
<1>3. CASE Pools!Next /\ UNCHANGED <<feedVars, cycleVars, textVars, packageVars, importVars>>
  BY <1>3
<1>4. CASE Localize!Next /\ UNCHANGED <<feedVars, cycleVars, poolVars, packageVars, importVars>>
  BY <1>4
<1>5. CASE Package!Build /\ UNCHANGED <<feedVars, cycleVars, poolVars, textVars, importVars>>
  BY <1>5
<1>6. CASE Import!Next /\ UNCHANGED <<feedVars, cycleVars, poolVars, textVars, packageVars>>
  BY <1>6
<1>7. CASE UNCHANGED vars
  BY <1>7 DEF vars
<1> QED BY <1>1, <1>2, <1>3, <1>4, <1>5, <1>6, <1>7 DEF Next

-----------------------------------------------------------------------------
(***************************************************************************)
(* ContentTranslation: the audit reports what is public, and a ready job   *)
(* means that every locale is served.                                      *)
(***************************************************************************)

\* A row of content_localizations.
TextRow == [text : Texts, status : {"ready", "stale"}]
\* The audit issue: never opened, open or resolved.
TextIssues == {"none", "open", "resolved"}
\* The tables of the localization.
TextRows == [text : Texts, issue : TextIssues, jobs : Seq(Localize!Job),
             loc : [Locales -> TextRow \cup {NoRow}]]

\* The types of the rows and of the sessions, whose job is one of the rows.
TextTyped ==
    /\ db \in TextRows
    /\ worker \in {Localize!NoSession} \cup [step : {"claimed"}, job : Nat]
                  \cup [step : {"calling"}, job : Nat, db : TextRows]
    /\ worker # Localize!NoSession => worker.job \in DOMAIN db.jobs
    /\ worker.step = "calling" => worker.job \in DOMAIN worker.db.jobs
    /\ scan \in {Localize!NoSession} \cup [step : {"read"}, text : Texts, issue : TextIssues]
    /\ tChanges \in 0..MaxEdits /\ tCalm \in BOOLEAN /\ quiet \in BOOLEAN

\* A scan that nothing has been changed during has read what is public.
ScanIsFresh ==
    quiet => /\ scan # Localize!NoSession => scan.text = db.text /\ scan.issue = db.issue
             /\ db.issue = "open" <=> db.text \in NonEnglish

\* Jobs of earlier texts have ended.
OthersAreStale == \A j \in DOMAIN db.jobs : db.jobs[j].status # "stale"
  => db.jobs[j].text = db.text

\* The job of a session runs; a session that calls has read what is there.
SessionIsFresh ==
    worker # Localize!NoSession =>
        /\ db.jobs[worker.job].status = "running" /\ ~db.jobs[worker.job].waits
        /\ worker.step = "calling" => /\ worker.db.text = db.text /\ worker.db.loc = db.loc
                                      /\ worker.db.jobs[worker.job] = db.jobs[worker.job]

\* What the latest job does not ask for any more is served.
RestIsServed ==
    \A j \in DOMAIN db.jobs : Localize!Latest(j) /\ db.jobs[j].status \in Localize!Reusable =>
        \A l \in Locales : db.jobs[j].status = "ready"
        \/ l \notin db.jobs[j].targets => Localize!Served(l)

\* What holds of the jobs and of the session while nothing overlaps with a call.
Translated == tCalm => OthersAreStale /\ SessionIsFresh /\ RestIsServed

-----------------------------------------------------------------------------
\* A list whose rows are replaced one by one is a list of the same length.
LEMMA MappedJobs ==
  ASSUME NEW jobs \in Seq(Localize!Job), NEW to, DOMAIN to = DOMAIN jobs,
         to = [j \in DOMAIN jobs |-> to[j]],
         \A j \in DOMAIN jobs : to[j] \in Localize!Job
  PROVE  to \in Seq(Localize!Job)
<1>1. Len(jobs) \in Nat /\ DOMAIN jobs = 1..Len(jobs)
  OBVIOUS
<1>2. to \in [1..Len(jobs) -> Localize!Job]
  BY <1>1
<1> QED BY <1>1, <1>2

\* Some numbers have a least one.
LEMMA FirstOfSome ==
  ASSUME NEW A, A \subseteq Nat, A # {}
  PROVE  \E z \in A : \A k \in A : z =< k
<1> DEFINE R == OpToRel(<, Nat)
<1>1. IsWellFoundedOn(R, Nat)
  BY NatLessThanWellFounded
<1>2. \A z, k \in Nat : k < z => <<k, z>> \in R
  BY DEF OpToRel
<1> HIDE DEF R
<1>3. PICK z \in A : \A k \in A : ~ (<<k, z>> \in R)
  BY <1>1, WFMin
<1>4. ASSUME NEW k \in A PROVE z =< k
  <2>1. z \in Nat /\ k \in Nat
    OBVIOUS
  <2>2. ~ (k < z)
    BY <2>1, <1>2, <1>3
  <2> QED BY <2>1, <2>2
<1> QED BY <1>4

\* Some of the first n numbers have a greatest one.
LEMMA LastOfSome ==
  ASSUME NEW n \in Nat, NEW A, A \subseteq 1..n, A # {}
  PROVE  \E z \in A : \A k \in A : k =< z
<1> DEFINE B == {k \in 1..n : n - k + 1 \in A}
<1>1. B # {}
  <2>1. PICK z \in A : TRUE
    OBVIOUS
  <2>2. n - z + 1 \in B
    BY <2>1
  <2> QED BY <2>2
<1>2. PICK b \in B : \A k \in B : b =< k
  <2>1. B \subseteq Nat
    OBVIOUS
  <2> HIDE DEF B
  <2> QED BY <1>1, <2>1, FirstOfSome
<1>3. \A k \in A : n - k + 1 \in B /\ k \in 1..n
  OBVIOUS
<1>4. \A k \in A : k =< n - b + 1
  BY <1>2, <1>3
<1> QED BY <1>2, <1>4

\* Ending the jobs of other texts keeps the list well-typed.
LEMMA StaledJobs ==
  ASSUME NEW jobs \in Seq(Localize!Job), NEW t
  PROVE  Localize!Staled(jobs, t) \in Seq(Localize!Job)
         /\ DOMAIN Localize!Staled(jobs, t) = DOMAIN jobs
<1>1. ASSUME NEW j \in DOMAIN jobs PROVE Localize!Staled(jobs, t)[j] \in Localize!Job
  <2>1. jobs[j] \in Localize!Job
    OBVIOUS
  <2>2. [jobs[j] EXCEPT !.status = "stale", !.leased = FALSE] \in Localize!Job
    BY <2>1 DEF Localize!Job, Localize!Statuses
  <2> QED BY <2>1, <2>2 DEF Localize!Staled
<1> QED BY <1>1, MappedJobs DEF Localize!Staled

\* So does giving up what a worker that stopped has left.
LEMMA ExpiredJobs ==
  ASSUME NEW jobs \in Seq(Localize!Job)
  PROVE  Localize!Expired(jobs) \in Seq(Localize!Job)
         /\ DOMAIN Localize!Expired(jobs) = DOMAIN jobs
<1>1. ASSUME NEW j \in DOMAIN jobs PROVE Localize!Expired(jobs)[j] \in Localize!Job
  <2>1. jobs[j] \in Localize!Job
    OBVIOUS
  <2>2. [jobs[j] EXCEPT !.status = "failed"] \in Localize!Job
        /\ [jobs[j] EXCEPT !.status = "partial"] \in Localize!Job
    BY <2>1 DEF Localize!Job, Localize!Statuses
  <2>3. Localize!Expired(jobs)[j] \in {jobs[j], [jobs[j] EXCEPT !.status = "failed"],
                              [jobs[j] EXCEPT !.status = "partial"]}
    BY DEF Localize!Expired
  <2> QED BY <2>1, <2>2, <2>3
<1> QED BY <1>1, MappedJobs DEF Localize!Expired

\* Queueing keeps the rows well-typed and every job at its place.
LEMMA QueueTyped ==
  ASSUME NEW d \in TextRows
  PROVE  /\ Localize!Queue(d) \in TextRows /\ Localize!Queue(d).text = d.text
            /\ Localize!Queue(d).issue = d.issue
         /\ DOMAIN d.jobs \subseteq DOMAIN Localize!Queue(d).jobs
<1>1. CASE Localize!Current(d) # {}
  BY <1>1 DEF Localize!Queue
<1>2. CASE Localize!Current(d) = {}
  <2> DEFINE new == [text |-> d.text, status |-> "queued", attempt |-> 0,
                     targets |-> Locales, leased |-> FALSE, waits |-> FALSE]
             loc == [l \in Locales |-> IF d.loc[l] # NoRow /\ d.loc[l].text # d.text
                                       THEN [d.loc[l] EXCEPT !.status = "stale"] ELSE d.loc[l]]
  <2>1. d.jobs \in Seq(Localize!Job) /\ d.text \in Texts
        /\ d.loc \in [Locales -> TextRow \cup {NoRow}]
    BY DEF TextRows
  <2>2. new \in Localize!Job
    BY <2>1, ContentAssumption DEF Localize!Job, Localize!Statuses
  <2>3. Localize!Staled(d.jobs, d.text) \in Seq(Localize!Job)
        /\ DOMAIN Localize!Staled(d.jobs, d.text) = DOMAIN d.jobs
    BY <2>1, StaledJobs
  <2>4. loc \in [Locales -> TextRow \cup {NoRow}]
    BY <2>1 DEF TextRow
  <2>5. Localize!Queue(d) = [d EXCEPT !.jobs = Append(Localize!Staled(d.jobs, d.text), new),
                             !.loc = loc]
    BY <1>2 DEF Localize!Queue
  <2> HIDE DEF new, loc
  <2>6. Append(Localize!Staled(d.jobs, d.text), new) \in Seq(Localize!Job)
    BY <2>2, <2>3
  <2>8. DOMAIN d.jobs \subseteq DOMAIN Append(Localize!Staled(d.jobs, d.text), new)
    BY <2>2, <2>3
  <2> QED BY <2>4, <2>5, <2>6, <2>8 DEF TextRows
<1> QED BY <1>1, <1>2

-----------------------------------------------------------------------------
\* A change by a creator or an operator keeps the types.
LEMMA ChangeTyped ==
  ASSUME TextTyped, NEW new \in TextRows, DOMAIN db.jobs \subseteq DOMAIN new.jobs,
         Localize!Change(new),
         quiet' \in BOOLEAN
  PROVE  TextTyped'
  BY ContentAssumption DEF Localize!Change, TextTyped, Localize!NoSession

\* What an audit says of a text.
LEMMA AuditedIssue ==
  ASSUME NEW t, NEW old \in TextIssues
  PROVE  Localize!Audited(t, old) \in TextIssues
  BY DEF Localize!Audited, TextIssues

\* An edit keeps the types.
LEMMA TypedEdit ==
  ASSUME TextTyped, NEW t \in Texts, Localize!Edit(t)
  PROVE  TextTyped'
<1> DEFINE d == [db EXCEPT !.text = t, !.issue = Localize!Audited(t, db.issue)]
<1>1. Localize!Change(Localize!Queue(d)) /\ quiet' \in BOOLEAN
  BY DEF Localize!Edit, TextTyped
<1>2. d \in TextRows /\ d.jobs = db.jobs
  BY AuditedIssue DEF TextTyped, TextRows
<1> HIDE DEF d
<1> QED BY <1>1, <1>2, QueueTyped, ChangeTyped

\* A job queued again is a job.
LEMMA RequeuedJob ==
  ASSUME NEW job \in Localize!Job, NEW left \in SUBSET Locales
  PROVE  /\ Localize!Requeued(job, left) \in Localize!Job
            /\ Localize!Requeued(job, left).text = job.text
         /\ Localize!Requeued(job, left).status = "queued"
            /\ Localize!Requeued(job, left).targets = left
         /\ ~Localize!Requeued(job, left).waits
<1> DEFINE one == [job EXCEPT !.status = "queued"]
           two == [one EXCEPT !.attempt = 0]
           three == [two EXCEPT !.targets = left]
           four == [three EXCEPT !.leased = FALSE]
           five == [four EXCEPT !.waits = FALSE]
<1>1. one \in Localize!Job /\ one.text = job.text /\ one.status = "queued"
  BY DEF Localize!Job, Localize!Statuses
<1>2. 0 \in 0..MaxAttempts
  BY ContentAssumption
<1>3. Localize!Requeued(job, left) = five
  BY Zenon DEF Localize!Requeued
<1> HIDE DEF one
<1>4. two \in Localize!Job /\ two.text = job.text /\ two.status = "queued"
  BY <1>1, <1>2 DEF Localize!Job
<1> HIDE DEF two
<1>5. three \in Localize!Job /\ three.text = job.text /\ three.status = "queued"
      /\ three.targets = left
  BY <1>4 DEF Localize!Job
<1> HIDE DEF three
<1>6. four \in Localize!Job /\ four.text = job.text /\ four.status = "queued"
      /\ four.targets = left
  BY <1>5 DEF Localize!Job
<1> HIDE DEF four
<1>7. five \in Localize!Job /\ five.text = job.text /\ five.status = "queued"
      /\ five.targets = left
      /\ ~five.waits
  BY <1>6 DEF Localize!Job
<1> HIDE DEF five
<1> QED BY <1>3, <1>7

\* What Retry makes of a job.
Again(job) ==
  LET left == {l \in Locales : ~Localize!Has(db, l, job.text, "ready")} IN
  IF job.status \notin {"failed", "partial"} THEN job
  ELSE IF left = {} THEN [job EXCEPT !.status = "ready", !.targets = {}]
  ELSE Localize!Requeued(job, left)

\* Retry queues again what has failed, and nothing else.
LEMMA RetryJobs ==
  ASSUME TextTyped, Localize!Retry
  PROVE  /\ Localize!Change([db EXCEPT !.jobs = [j \in DOMAIN db.jobs |-> Again(db.jobs[j])]])
         /\ quiet' = quiet
         /\ [j \in DOMAIN db.jobs |-> Again(db.jobs[j])] \in Seq(Localize!Job)
<1>1. db.jobs \in Seq(Localize!Job)
  BY DEF TextTyped, TextRows
<1>2. ASSUME NEW j \in DOMAIN db.jobs PROVE Again(db.jobs[j]) \in Localize!Job
  <2>1. db.jobs[j] \in Localize!Job
    BY <1>1
  <2>2. [db.jobs[j] EXCEPT !.status = "ready", !.targets = {}] \in Localize!Job
    BY <2>1 DEF Localize!Job, Localize!Statuses
  <2>3. ASSUME NEW left \in SUBSET Locales
        PROVE Localize!Requeued(db.jobs[j], left) \in Localize!Job
    BY <2>1, RequeuedJob
  <2> QED BY <2>1, <2>2, <2>3 DEF Again
<1>3. [j \in DOMAIN db.jobs |-> Again(db.jobs[j])] \in Seq(Localize!Job)
  <2> DEFINE to == [j \in DOMAIN db.jobs |-> Again(db.jobs[j])]
  <2>1. DOMAIN to = DOMAIN db.jobs /\ to = [j \in DOMAIN db.jobs |-> to[j]]
        /\ \A j \in DOMAIN db.jobs : to[j] \in Localize!Job
    BY <1>2
  <2> HIDE DEF to
  <2>2. to \in Seq(Localize!Job)
    BY <1>1, <2>1, MappedJobs
  <2> QED BY <2>2 DEF to
<1> QED BY <1>3 DEF Localize!Retry, Again

\* Retry keeps the types.
LEMMA TypedRetry ==
  ASSUME TextTyped, Localize!Retry
  PROVE  TextTyped'
<1> DEFINE to == [j \in DOMAIN db.jobs |-> Again(db.jobs[j])]
<1>1. /\ Localize!Change([db EXCEPT !.jobs = to]) /\ to \in Seq(Localize!Job)
      /\ quiet' \in BOOLEAN /\ DOMAIN to = DOMAIN db.jobs
  BY RetryJobs DEF TextTyped
<1> HIDE DEF to
<1>2. [db EXCEPT !.jobs = to] \in TextRows
      /\ DOMAIN db.jobs \subseteq DOMAIN [db EXCEPT !.jobs = to].jobs
  BY <1>1 DEF TextTyped, TextRows
<1> QED BY <1>1, <1>2, ChangeTyped

\* The latest job of the text is queued again when it is not over: after queueing there is one.
LEMMA QueueCurrent ==
  ASSUME NEW d \in TextRows
  PROVE  /\ Localize!Current(Localize!Queue(d)) # {}
            /\ Localize!Current(Localize!Queue(d)) \subseteq DOMAIN Localize!Queue(d).jobs
         /\ \E j \in Localize!Current(Localize!Queue(d)) : \A k
              \in Localize!Current(Localize!Queue(d)) : k =< j
<1>1. Localize!Current(Localize!Queue(d)) # {}
  <2>1. CASE Localize!Current(d) # {}
    BY <2>1 DEF Localize!Queue
  <2>2. CASE Localize!Current(d) = {}
    <3> DEFINE new == [text |-> d.text, status |-> "queued", attempt |-> 0,
                       targets |-> Locales, leased |-> FALSE, waits |-> FALSE]
               jobs == Append(Localize!Staled(d.jobs, d.text), new)
    <3>1. Localize!Queue(d).jobs = jobs
      BY <2>2 DEF Localize!Queue, TextRows
    <3>2. new \in Localize!Job
      BY ContentAssumption DEF Localize!Job, Localize!Statuses, TextRows
    <3>3. Localize!Staled(d.jobs, d.text) \in Seq(Localize!Job)
      BY StaledJobs DEF TextRows
    <3>4. new.text = d.text /\ new.status \in Localize!Reusable
      BY DEF Localize!Reusable
    <3> HIDE DEF new
    <3>5. Len(jobs) \in DOMAIN jobs /\ jobs[Len(jobs)] = new
      BY <3>2, <3>3
    <3> HIDE DEF jobs
    <3>6. Len(jobs) \in Localize!Current(Localize!Queue(d))
      BY <3>1, <3>4, <3>5, QueueTyped DEF Localize!Current
    <3> QED BY <3>6
  <2> QED BY <2>1, <2>2
<1>2. Localize!Current(Localize!Queue(d)) \subseteq DOMAIN Localize!Queue(d).jobs
  BY DEF Localize!Current
<1>3. Localize!Queue(d).jobs \in Seq(Localize!Job)
  BY QueueTyped DEF TextRows
<1>4. Len(Localize!Queue(d).jobs) \in Nat
      /\ DOMAIN Localize!Queue(d).jobs = 1..Len(Localize!Queue(d).jobs)
  BY <1>3
<1> QED BY <1>1, <1>2, <1>4, LastOfSome

\* What Retranslate makes of the localizations.
StaleRows(d) ==
  [l \in Locales |->
      IF Localize!Has(d, l, d.text, "ready") THEN [d.loc[l] EXCEPT !.status = "stale"]
      ELSE d.loc[l]]

\* Retranslate queues the latest job of the text again.
LEMMA RetranslateRows ==
  ASSUME TextTyped, Localize!Retranslate
  PROVE  \E j \in Localize!Current(Localize!Queue(db)) :
            /\ \A k \in Localize!Current(Localize!Queue(db)) : k =< j
            /\ Localize!Change([Localize!Queue(db) EXCEPT
                         !.jobs = [Localize!Queue(db).jobs EXCEPT
                                     ![j] = Localize!Requeued(Localize!Queue(db).jobs[j],
                                                              Locales)],
                         !.loc = StaleRows(Localize!Queue(db))])
            /\ quiet' = quiet
<1> DEFINE d == Localize!Queue(db)
           j == CHOOSE k \in Localize!Current(d) : \A n \in Localize!Current(d) : n <= k
<1>1. j \in Localize!Current(d) /\ \A n \in Localize!Current(d) : n <= j
  BY QueueCurrent DEF TextTyped
<1>2. /\ Localize!Change([d EXCEPT !.jobs[j] = Localize!Requeued(@, Locales),
                          !.loc = StaleRows(d)])
      /\ quiet' = quiet
  BY DEF Localize!Retranslate, StaleRows
<1> HIDE DEF j, d
<1>3. [d EXCEPT !.jobs[j] = Localize!Requeued(@, Locales), !.loc = StaleRows(d)]
      = [d EXCEPT !.jobs = [d.jobs EXCEPT ![j] = Localize!Requeued(d.jobs[j], Locales)],
                  !.loc = StaleRows(d)]
  OBVIOUS
<1>4. Localize!Change(
        [d EXCEPT !.jobs = [d.jobs EXCEPT ![j] = Localize!Requeued(d.jobs[j], Locales)],
                  !.loc = StaleRows(d)])
  BY <1>2, <1>3, Zenon
<1> QED BY <1>1, <1>2, <1>4 DEF d

\* One job replaced.
LEMMA ReplacedJob ==
  ASSUME NEW jobs \in Seq(Localize!Job), NEW j \in DOMAIN jobs, NEW job \in Localize!Job
  PROVE  [jobs EXCEPT ![j] = job] \in Seq(Localize!Job)
         /\ DOMAIN [jobs EXCEPT ![j] = job] = DOMAIN jobs
<1>1. j \in 1..Len(jobs)
  OBVIOUS
<1> QED BY <1>1, ExceptSeq

\* Retranslate keeps the types.
LEMMA TypedRetranslate ==
  ASSUME TextTyped, Localize!Retranslate
  PROVE  TextTyped'
<1> DEFINE d == Localize!Queue(db)
<1>1. d \in TextRows /\ DOMAIN db.jobs \subseteq DOMAIN d.jobs
  BY QueueTyped DEF TextTyped
<1>2. PICK j \in Localize!Current(d) :
        /\ Localize!Change(
              [d EXCEPT !.jobs = [d.jobs EXCEPT ![j] = Localize!Requeued(d.jobs[j], Locales)],
                        !.loc = StaleRows(d)])
        /\ quiet' = quiet
  BY RetranslateRows
<1> HIDE DEF d
<1>3. d.jobs \in Seq(Localize!Job) /\ j \in DOMAIN d.jobs
  BY <1>1 DEF TextRows, Localize!Current
<1>4. d.jobs[j] \in Localize!Job
  BY <1>3
<1>5. Localize!Requeued(d.jobs[j], Locales) \in Localize!Job
  BY <1>4, RequeuedJob
<1>6. StaleRows(d) \in [Locales -> TextRow \cup {NoRow}]
  BY <1>1 DEF StaleRows, TextRows, TextRow, Localize!Has
<1> DEFINE jobs == [d.jobs EXCEPT ![j] = Localize!Requeued(d.jobs[j], Locales)]
           new == [d EXCEPT !.jobs = jobs, !.loc = StaleRows(d)]
<1>7. jobs \in Seq(Localize!Job) /\ DOMAIN jobs = DOMAIN d.jobs
  BY <1>3, <1>5, ReplacedJob
<1>8. Localize!Change(new) /\ quiet' \in BOOLEAN
  BY <1>2 DEF TextTyped
<1> HIDE DEF jobs
<1>9. new \in TextRows /\ new.jobs = jobs
  BY <1>1, <1>6, <1>7 DEF TextRows
<1> HIDE DEF new
<1> QED BY <1>1, <1>7, <1>8, <1>9, ChangeTyped

-----------------------------------------------------------------------------
\* A session of the worker that has claimed a job.
Sessions == {Localize!NoSession} \cup [step : {"claimed"}, job : Nat]
            \cup [step : {"calling"}, job : Nat, db : TextRows]

\* A step of the coordinator keeps the types.
LEMMA WorkTyped ==
  ASSUME TextTyped, NEW jobs \in Seq(Localize!Job), DOMAIN jobs = DOMAIN db.jobs,
         NEW loc \in [Locales -> TextRow \cup {NoRow}],
         db' = [db EXCEPT !.jobs = jobs, !.loc = loc], Localize!Quietly,
         worker' \in Sessions,
         worker' # Localize!NoSession => worker'.job \in DOMAIN db.jobs,
         worker'.step = "calling" => worker'.job \in DOMAIN worker'.db.jobs
  PROVE  TextTyped'
<1>1. db' \in TextRows /\ db'.jobs = jobs
  BY DEF TextTyped, TextRows
<1> QED BY <1>1 DEF TextTyped, Sessions, Localize!Quietly

\* What Claim makes of the job it takes.
ClaimedJob(old) == [old EXCEPT !.status = "running", !.attempt = @ + 1, !.leased = TRUE]

\* Claim takes an idle coordinator to that job, or gives up what a worker has left.
LEMMA ClaimRows ==
  ASSUME TextTyped, Localize!Claim
  PROVE  /\ worker = Localize!NoSession /\ Localize!Quietly
         /\ \/ db' = [db EXCEPT !.jobs = Localize!Expired(db.jobs)]
               /\ worker' = Localize!NoSession
            \/ \E j \in DOMAIN db.jobs :
                  LET old == Localize!Expired(db.jobs)[j]
                  IN  /\ old.status \in {"queued", "partial"} /\ ~old.waits
                      /\ old.attempt < MaxAttempts
                      /\ db' = [db EXCEPT !.jobs =
                                [Localize!Expired(db.jobs) EXCEPT ![j] = ClaimedJob(old)]]
                      /\ worker' = [step |-> "claimed", job |-> j]
<1> DEFINE d == [db EXCEPT !.jobs = Localize!Expired(@)]
           due == {j \in Localize!Candidates(d) : ~d.jobs[j].waits}
           j == CHOOSE k \in due : \A n \in due : k <= n
<1>1. /\ worker = Localize!NoSession /\ Localize!Quietly
      /\ IF due = {} THEN d # db /\ db' = d /\ UNCHANGED worker
         ELSE /\ d.jobs[j].attempt < MaxAttempts
              /\ db' = [d EXCEPT !.jobs[j] = ClaimedJob(d.jobs[j])]
              /\ worker' = [step |-> "claimed", job |-> j]
  BY DEF Localize!Claim, ClaimedJob
<1>2. db.jobs \in Seq(Localize!Job) /\ d.jobs = Localize!Expired(db.jobs)
  BY DEF TextTyped, TextRows
<1>3. d = [db EXCEPT !.jobs = Localize!Expired(db.jobs)]
  OBVIOUS
<1>4. due \subseteq DOMAIN db.jobs /\ DOMAIN db.jobs \subseteq Nat
  BY <1>2, ExpiredJobs DEF Localize!Candidates
<1>5. \A k \in due : d.jobs[k].status \in {"queued", "partial"} /\ ~d.jobs[k].waits
  BY DEF Localize!Candidates
<1>6. due # {} => j \in due
  <2> HIDE DEF due
  <2> SUFFICES ASSUME due # {} PROVE \E k \in due : \A n \in due : k <= n
    OBVIOUS
  <2> QED BY <1>4, FirstOfSome
<1> HIDE DEF d, due, j
<1>7. CASE due = {}
  BY <1>1, <1>3, <1>7
<1>8. CASE due # {}
  <2> DEFINE old == Localize!Expired(db.jobs)[j]
             jobs == [Localize!Expired(db.jobs) EXCEPT ![j] = ClaimedJob(old)]
  <2>1. /\ j \in DOMAIN db.jobs /\ old.status \in {"queued", "partial"} /\ ~old.waits
        /\ old.attempt < MaxAttempts
    BY <1>1, <1>2, <1>4, <1>5, <1>6, <1>8
  <2>3. [d.jobs EXCEPT ![j] = ClaimedJob(d.jobs[j])] = jobs
    BY <1>2, Zenon
  <2>4. db' = [d EXCEPT !.jobs = jobs]
    BY <1>1, <1>8, <2>3, Zenon
  <2> HIDE DEF jobs
  <2>5. db' = [db EXCEPT !.jobs = jobs]
    BY <1>3, <2>4 DEF TextTyped, TextRows
  <2>6. worker' = [step |-> "claimed", job |-> j]
    BY <1>1, <1>8
  <2> HIDE DEF old
  <2> QED BY <1>1, <2>1, <2>5, <2>6, Zenon DEF jobs, old
<1> QED BY <1>1, <1>7, <1>8

\* Claim keeps the types.
LEMMA TypedClaim ==
  ASSUME TextTyped, Localize!Claim
  PROVE  TextTyped'
<1>1. db.jobs \in Seq(Localize!Job) /\ db.loc \in [Locales -> TextRow \cup {NoRow}]
      /\ db = [db EXCEPT !.loc = db.loc]
  BY DEF TextTyped, TextRows
<1>2. Localize!Expired(db.jobs) \in Seq(Localize!Job)
      /\ DOMAIN Localize!Expired(db.jobs) = DOMAIN db.jobs
  BY <1>1, ExpiredJobs
<1>3. CASE db' = [db EXCEPT !.jobs = Localize!Expired(db.jobs)] /\ worker' = Localize!NoSession
  <2>1. db' = [db EXCEPT !.jobs = Localize!Expired(db.jobs), !.loc = db.loc]
    BY <1>1, <1>3
  <2> QED BY <1>1, <1>2, <1>3, <2>1, ClaimRows, WorkTyped DEF Sessions, Localize!NoSession
<1>4. ASSUME NEW j \in DOMAIN db.jobs, NEW to,
             to = ClaimedJob(Localize!Expired(db.jobs)[j]),
             Localize!Expired(db.jobs)[j].attempt < MaxAttempts,
             db' = [db EXCEPT !.jobs = [Localize!Expired(db.jobs) EXCEPT ![j] = to]],
             worker' = [step |-> "claimed", job |-> j]
      PROVE  TextTyped'
  <2>1. Localize!Expired(db.jobs)[j] \in Localize!Job
    BY <1>2
  <2>2. to \in Localize!Job
    <3> DEFINE old == Localize!Expired(db.jobs)[j]
           one == [old EXCEPT !.status = "running"]
           two == [one EXCEPT !.attempt = old.attempt + 1]
    <3>1. to = [two EXCEPT !.leased = TRUE]
      BY <1>4, Zenon DEF ClaimedJob
    <3>2. old.attempt + 1 \in 0..MaxAttempts
      BY <1>4, <2>1, ContentAssumption DEF Localize!Job
    <3>3. one \in Localize!Job
      BY <2>1 DEF Localize!Job, Localize!Statuses
    <3> HIDE DEF old, one
    <3>4. two \in Localize!Job
      BY <3>2, <3>3 DEF Localize!Job
    <3> HIDE DEF two
    <3> QED BY <3>1, <3>4 DEF Localize!Job
  <2> DEFINE jobs == [Localize!Expired(db.jobs) EXCEPT ![j] = to]
  <2>3. jobs \in Seq(Localize!Job) /\ DOMAIN jobs = DOMAIN db.jobs
    BY <1>2, <2>2, ReplacedJob
  <2>4. db' = [db EXCEPT !.jobs = jobs, !.loc = db.loc]
    BY <1>1, <1>4
  <2>5. j \in Nat
    BY <1>1
  <2> HIDE DEF jobs
  <2> QED BY <1>1, <1>4, <2>3, <2>4, <2>5, ClaimRows, WorkTyped DEF Sessions, Localize!NoSession
<1> QED BY <1>3, <1>4, ClaimRows

\* What Call reads is well-typed.
LEMMA TypedCall ==
  ASSUME TextTyped, Localize!Call
  PROVE  TextTyped'
<1>1. db' = db /\ Localize!Quietly
      /\ worker' = [step |-> "calling", job |-> worker.job, db |-> db]
  BY DEF Localize!Call
<1>2. db \in TextRows /\ worker.job \in Nat /\ worker.job \in DOMAIN db.jobs
  BY DEF TextTyped, Localize!Call, Localize!NoSession
<1>3. worker' \in Sessions
  BY <1>1, <1>2 DEF Sessions
<1> QED BY <1>1, <1>2, <1>3 DEF TextTyped, Sessions, Localize!Quietly

\* What Answer makes of the job of the session.
AnsweredWith(valid) ==
  LET s == worker.db
      job == s.jobs[worker.job]
      missing == job.targets \ valid
      status == IF job.text # s.text THEN "stale"
                ELSE IF missing = {} THEN "ready"
                ELSE IF job.attempt < MaxAttempts THEN "partial" ELSE "failed"
  IN  [db.jobs[worker.job] EXCEPT
         !.status = IF status = job.status THEN @ ELSE status,
         !.leased = FALSE,
         !.targets = IF status = "partial" /\ missing # job.targets THEN missing ELSE @,
         !.waits = IF status = "partial" THEN TRUE ELSE @]

\* And of the localizations.
Stored(valid) ==
  LET s == worker.db
      job == s.jobs[worker.job]
  IN  [l \in Locales |-> IF job.text = s.text /\ l \in valid \ {SourceOf[job.text]}
                         THEN Localize!Upserted(db.loc[l], s.loc[l], job.text) ELSE db.loc[l]]

\* What an answer writes.
LEMMA AnswerRows ==
  ASSUME TextTyped, NEW valid, Localize!Answer(valid)
  PROVE  /\ worker.step = "calling" /\ valid \subseteq worker.db.jobs[worker.job].targets
         /\ db' = [db EXCEPT !.jobs = [db.jobs EXCEPT ![worker.job] = AnsweredWith(valid)],
                             !.loc = Stored(valid)]
         /\ worker' = Localize!NoSession /\ Localize!Quietly
<1> DEFINE s == worker.db
           j == worker.job
           job == s.jobs[j]
           missing == job.targets \ valid
           status == IF job.text # s.text THEN "stale"
                     ELSE IF missing = {} THEN "ready"
                     ELSE IF job.attempt < MaxAttempts THEN "partial" ELSE "failed"
           stored == IF status = "stale" THEN {} ELSE valid \ {SourceOf[job.text]}
           loc == [l \in Locales |->
                     IF l \in stored THEN Localize!Upserted(db.loc[l], s.loc[l], job.text)
                     ELSE db.loc[l]]
           to == [db.jobs[j] EXCEPT
                    !.status = IF status = job.status THEN @ ELSE status,
                    !.leased = FALSE,
                    !.targets = IF status = "partial"
                    /\ missing # job.targets THEN missing ELSE @,
                    !.waits = IF status = "partial" THEN TRUE ELSE @]
<1>1. /\ worker.step = "calling" /\ valid \in Localize!Valid(job) /\ worker' = Localize!NoSession
         /\ Localize!Quietly
      /\ db' = [db EXCEPT !.jobs = [db.jobs EXCEPT ![j] = to], !.loc = loc]
  BY Zenon DEF Localize!Answer
<1>5. to = AnsweredWith(valid)
  BY Zenon DEF AnsweredWith
<1> HIDE DEF to
<1>2. status = "stale" <=> job.text # s.text
  <2> HIDE DEF job, missing
  <2> QED OBVIOUS
<1>3. loc = Stored(valid)
  <2>1. stored = IF job.text # s.text THEN {} ELSE valid \ {SourceOf[job.text]}
    BY <1>2, Zenon
  <2> HIDE DEF stored, status
  <2> QED BY <2>1 DEF Stored
<1>4. valid \subseteq worker.db.jobs[worker.job].targets
  BY <1>1, Zenon DEF Localize!Valid
<1> HIDE DEF loc
<1> QED BY <1>1, <1>3, <1>4, <1>5, Zenon

\* A localization that an answer writes is a row of the text of the job.
LEMMA UpsertedRow ==
  ASSUME NEW old \in TextRow \cup {NoRow}, NEW was \in TextRow \cup {NoRow}, NEW t \in Texts
  PROVE  Localize!Upserted(old, was, t) \in TextRow
<1>1. CASE was = NoRow \/ old = NoRow
  BY <1>1 DEF Localize!Upserted, TextRow
<1>2. CASE was # NoRow /\ old # NoRow
  <2>1. /\ (IF was.text = t THEN old.text ELSE t) \in Texts
        /\ (IF was.status = "ready" THEN old.status ELSE "ready") \in {"ready", "stale"}
    BY <1>2 DEF TextRow
  <2> QED BY <1>2, <2>1 DEF Localize!Upserted, TextRow
<1> QED BY <1>1, <1>2

\* What the coordinator has read, while it calls.
LEMMA CallFacts ==
  ASSUME TextTyped, worker.step = "calling"
  PROVE  /\ worker \in [step : {"calling"}, job : Nat, db : TextRows]
         /\ worker # Localize!NoSession /\ worker.job \in DOMAIN db.jobs /\ worker.db \in TextRows
         /\ worker.db.jobs[worker.job] \in Localize!Job /\ db.jobs[worker.job] \in Localize!Job
         /\ db.jobs \in Seq(Localize!Job) /\ db.loc \in [Locales -> TextRow \cup {NoRow}]
<1>1. worker \in [step : {"calling"}, job : Nat, db : TextRows] /\ worker # Localize!NoSession
  BY DEF TextTyped, Localize!NoSession
<1>2. worker.db \in TextRows /\ worker.job \in DOMAIN worker.db.jobs
      /\ worker.job \in DOMAIN db.jobs
  BY <1>1 DEF TextTyped
<1>3. worker.db.jobs \in Seq(Localize!Job) /\ db.jobs \in Seq(Localize!Job)
      /\ db.loc \in [Locales -> TextRow \cup {NoRow}]
  BY <1>2 DEF TextTyped, TextRows
<1>4. worker.db.jobs[worker.job] \in Localize!Job /\ db.jobs[worker.job] \in Localize!Job
  BY <1>2, <1>3
<1> QED BY <1>1, <1>2, <1>3, <1>4

\* A job whose status, lease, locales and delay are changed is a job.
EndedWith(job, status, targets, waits) ==
  [job EXCEPT !.status = status, !.leased = FALSE, !.targets = targets, !.waits = waits]

\* A job that ends has the status, the targets and the lease that its end gives it.
LEMMA EndedJob ==
  ASSUME NEW job \in Localize!Job, NEW status \in Localize!Statuses,
         NEW targets \in SUBSET Locales,
         NEW waits \in BOOLEAN
  PROVE  /\ EndedWith(job, status, targets, waits) \in Localize!Job
         /\ EndedWith(job, status, targets, waits).text = job.text
         /\ EndedWith(job, status, targets, waits).status = status
         /\ EndedWith(job, status, targets, waits).targets = targets
<1> DEFINE one == [job EXCEPT !.status = status]
           two == [one EXCEPT !.leased = FALSE]
           three == [two EXCEPT !.targets = targets]
           four == [three EXCEPT !.waits = waits]
<1>1. one \in Localize!Job /\ one.text = job.text /\ one.status = status
  BY DEF Localize!Job
<1>2. EndedWith(job, status, targets, waits) = four
  BY Zenon DEF EndedWith
<1> HIDE DEF one
<1>3. two \in Localize!Job /\ two.text = job.text /\ two.status = status
  BY <1>1 DEF Localize!Job
<1> HIDE DEF two
<1>4. three \in Localize!Job /\ three.text = job.text /\ three.status = status
      /\ three.targets = targets
  BY <1>3 DEF Localize!Job
<1> HIDE DEF three
<1>5. four \in Localize!Job /\ four.text = job.text /\ four.status = status
      /\ four.targets = targets
  BY <1>4 DEF Localize!Job
<1> HIDE DEF four
<1> QED BY <1>2, <1>5

\* What an answer makes of the job, which has been read as it is and runs when nothing has
\* changed it during the call.
LEMMA AnsweredJob ==
  ASSUME TextTyped, worker.step = "calling", NEW valid
  PROVE  LET job == worker.db.jobs[worker.job]
             to == AnsweredWith(valid)
             missing == job.targets \ valid
         IN  /\ to \in Localize!Job /\ to.text = db.jobs[worker.job].text
             /\ job = db.jobs[worker.job] /\ job.status = "running" =>
                   /\ to.targets \in {missing, job.targets}
                   /\ \/ job.text # worker.db.text /\ to.status = "stale"
                      \/ job.text = worker.db.text /\ missing = {} /\ to.status = "ready"
                      \/ job.text = worker.db.text /\ to.status = "failed"
                      \/ job.text = worker.db.text /\ to.status = "partial"
                         /\ to.targets = missing
<1> DEFINE s == worker.db
           job == s.jobs[worker.job]
           old == db.jobs[worker.job]
           missing == job.targets \ valid
           status == IF job.text # s.text THEN "stale"
                     ELSE IF missing = {} THEN "ready"
                     ELSE IF job.attempt < MaxAttempts THEN "partial" ELSE "failed"
           new == IF status = job.status THEN old.status ELSE status
           targets == IF status = "partial" /\ missing # job.targets THEN missing ELSE old.targets
           waits == IF status = "partial" THEN TRUE ELSE old.waits
<1>1. job \in Localize!Job /\ old \in Localize!Job
  BY CallFacts
<1>2. AnsweredWith(valid) = EndedWith(old, new, targets, waits)
  BY Zenon DEF AnsweredWith, EndedWith
<1>3. missing \in SUBSET Locales
  BY <1>1 DEF Localize!Job
<1>4. /\ status \in {"stale", "ready", "partial", "failed"}
      /\ status = "stale" <=> job.text # s.text
      /\ status = "ready" => missing = {}
  <2> HIDE DEF job, missing
  <2> QED OBVIOUS
<1> HIDE DEF status, missing, job, old, s
<1>5. new \in Localize!Statuses /\ targets \in SUBSET Locales /\ waits \in BOOLEAN
      /\ targets \in {missing, old.targets}
  BY <1>1, <1>3, <1>4 DEF Localize!Job, Localize!Statuses
<1>6. job = old /\ job.status = "running" =>
         new = status /\ (status = "partial" => targets = missing)
  BY <1>4
<1> HIDE DEF new, targets, waits
<1>7. /\ AnsweredWith(valid) \in Localize!Job /\ AnsweredWith(valid).text = old.text
      /\ AnsweredWith(valid).status = new /\ AnsweredWith(valid).targets = targets
  BY <1>1, <1>2, <1>5, EndedJob
<1>8. job = old /\ job.status = "running" =>
         /\ targets \in {missing, job.targets}
         /\ \/ job.text # s.text /\ new = "stale"
            \/ job.text = s.text /\ missing = {} /\ new = "ready"
            \/ job.text = s.text /\ new = "failed"
            \/ job.text = s.text /\ new = "partial" /\ targets = missing
  BY <1>4, <1>5, <1>6
<1> QED BY <1>7, <1>8 DEF job, s, old, missing

\* An answer keeps the types.
LEMMA TypedAnswer ==
  ASSUME TextTyped, NEW valid, Localize!Answer(valid)
  PROVE  TextTyped'
<1>1. /\ worker.step = "calling" /\ worker' = Localize!NoSession /\ Localize!Quietly
      /\ db' = [db EXCEPT !.jobs = [db.jobs EXCEPT ![worker.job] = AnsweredWith(valid)],
                          !.loc = Stored(valid)]
  BY AnswerRows
<1>2. AnsweredWith(valid) \in Localize!Job
  BY <1>1, AnsweredJob
<1>3. Stored(valid) \in [Locales -> TextRow \cup {NoRow}]
  <2>1. /\ worker.db.loc \in [Locales -> TextRow \cup {NoRow}]
           /\ db.loc \in [Locales -> TextRow \cup {NoRow}]
        /\ worker.db.jobs[worker.job].text \in Texts
    BY <1>1, CallFacts DEF TextRows, Localize!Job
  <2> QED BY <2>1, UpsertedRow DEF Stored
<1> DEFINE jobs == [db.jobs EXCEPT ![worker.job] = AnsweredWith(valid)]
           loc == Stored(valid)
<1>4. jobs \in Seq(Localize!Job) /\ DOMAIN jobs = DOMAIN db.jobs
  BY <1>1, <1>2, CallFacts, ReplacedJob
<1>5. db' = [db EXCEPT !.jobs = jobs, !.loc = loc] /\ loc \in [Locales -> TextRow \cup {NoRow}]
  BY <1>1, <1>3
<1> HIDE DEF jobs, loc
<1> QED BY <1>1, <1>4, <1>5, WorkTyped DEF Sessions, Localize!NoSession

\* A call that fails changes its job.
LEMMA FailedRows ==
  ASSUME TextTyped, Localize!Failed
  PROVE  /\ worker.step = "calling" /\ worker' = Localize!NoSession /\ Localize!Quietly
         /\ \E to \in Localize!Job : /\ to.status \in {"failed", "partial"}
                                     /\ to.text = db.jobs[worker.job].text
                                     /\ to.targets = db.jobs[worker.job].targets
                                     /\ db' = [db EXCEPT !.jobs =
                                               [db.jobs EXCEPT ![worker.job] = to]]
<1> DEFINE old == db.jobs[worker.job]
           status == IF old.attempt >= MaxAttempts THEN "failed" ELSE "partial"
           waits == old.attempt < MaxAttempts
           to == [old EXCEPT !.leased = FALSE, !.status = status, !.waits = waits]
<1>1. worker.step = "calling" /\ worker' = Localize!NoSession /\ Localize!Quietly
      /\ db' = [db EXCEPT !.jobs = [db.jobs EXCEPT ![worker.job] = to]]
  BY Zenon DEF Localize!Failed
<1>2. old \in Localize!Job
  BY <1>1, CallFacts
<1>3. status \in {"failed", "partial"} /\ waits \in BOOLEAN
  OBVIOUS
<1> HIDE DEF status, waits, old
<1>4. to \in Localize!Job /\ to.status = status /\ to.text = old.text /\ to.targets = old.targets
  BY <1>2, <1>3 DEF Localize!Job, Localize!Statuses
<1> HIDE DEF to
<1> QED BY <1>1, <1>3, <1>4, Zenon DEF old

\* One job replaced keeps the types.
LEMMA TypedReplaced ==
  ASSUME TextTyped, NEW j \in DOMAIN db.jobs, NEW to \in Localize!Job, Localize!Quietly,
         db' = [db EXCEPT !.jobs = [db.jobs EXCEPT ![j] = to]],
         worker' \in Sessions, worker' = Localize!NoSession \/ worker' = worker
  PROVE  TextTyped'
<1> DEFINE jobs == [db.jobs EXCEPT ![j] = to]
<1>1. db.jobs \in Seq(Localize!Job) /\ db.loc \in [Locales -> TextRow \cup {NoRow}]
      /\ db = [db EXCEPT !.loc = db.loc]
  BY DEF TextTyped, TextRows
<1>2. jobs \in Seq(Localize!Job) /\ DOMAIN jobs = DOMAIN db.jobs
  BY <1>1, ReplacedJob
<1>3. db' = [db EXCEPT !.jobs = jobs, !.loc = db.loc]
  BY <1>1
<1> HIDE DEF jobs
<1>4. /\ worker' # Localize!NoSession => worker'.job \in DOMAIN db.jobs
      /\ worker'.step = "calling" => worker'.job \in DOMAIN worker'.db.jobs
  BY DEF TextTyped, Localize!NoSession
<1> QED BY <1>1, <1>2, <1>3, <1>4, WorkTyped

\* Every step keeps the types.
LEMMA TextTypedNext == TextTyped /\ [Localize!Next]_Localize!vars => TextTyped'
<1> SUFFICES ASSUME TextTyped, [Localize!Next]_Localize!vars PROVE TextTyped'
  OBVIOUS
<1>1. ASSUME NEW t \in Texts, Localize!Edit(t) PROVE TextTyped'
  BY <1>1, TypedEdit
<1>2. CASE Localize!Failed
  <2>1. Localize!NoSession \in Sessions
    BY DEF Sessions
  <2>2. worker.job \in DOMAIN db.jobs
    BY <1>2, FailedRows, CallFacts
  <2> QED BY <1>2, <2>1, <2>2, FailedRows, TypedReplaced
<1>3. CASE Localize!Crash
  BY <1>3, ContentAssumption DEF Localize!Crash, TextTyped, Localize!NoSession
<1>4. ASSUME NEW j \in DOMAIN db.jobs, Localize!Lapse(j) PROVE TextTyped'
  <2> DEFINE to == [db.jobs[j] EXCEPT !.leased = FALSE, !.waits = FALSE]
  <2>1. db' = [db EXCEPT !.jobs = [db.jobs EXCEPT ![j] = to]] /\ worker' = worker
        /\ Localize!Quietly
    BY <1>4 DEF Localize!Lapse
  <2>2. db.jobs[j] \in Localize!Job
    BY DEF TextTyped, TextRows
  <2>3. to \in Localize!Job
    BY <2>2 DEF Localize!Job
  <2>4. worker \in Sessions
    BY DEF TextTyped, Sessions
  <2> HIDE DEF to
  <2> QED BY <2>1, <2>3, <2>4, TypedReplaced
<1>5. CASE Localize!ScanRead
  BY <1>5 DEF Localize!ScanRead, TextTyped, TextRows
<1>6. CASE Localize!ScanRecord
  <2>1. scan.text \in Texts /\ scan.issue \in TextIssues
    BY <1>6 DEF Localize!ScanRecord, TextTyped, Localize!NoSession
  <2>2. Localize!Audited(scan.text, scan.issue) \in TextIssues /\ db.issue \in TextIssues
    BY <2>1, AuditedIssue DEF TextTyped, TextRows
  <2>3. PICK issue \in TextIssues : db' = [db EXCEPT !.issue = issue]
    BY <1>6, <2>2 DEF Localize!ScanRecord
  <2>4. db' \in TextRows /\ db'.jobs = db.jobs
    BY <2>3 DEF TextTyped, TextRows
  <2> QED BY <1>6, <2>4 DEF Localize!ScanRecord, TextTyped
<1>7. CASE UNCHANGED Localize!vars
  BY <1>7 DEF Localize!vars, TextTyped
<1> QED BY <1>1, <1>2, <1>3, <1>4, <1>5, <1>6, <1>7, TypedRetry, TypedRetranslate, TypedClaim,
           TypedCall, TypedAnswer DEF Localize!Next

-----------------------------------------------------------------------------
\* The audit.

\* The audit opens an issue for a text that is not English.
LEMMA AuditOpens == \A t, old : Localize!Audited(t, old) = "open" <=> t \in NonEnglish
<1>1. ASSUME NEW t, NEW old PROVE Localize!Audited(t, old) = "open" <=> t \in NonEnglish
  <2>1. CASE t \in NonEnglish
    BY <2>1 DEF Localize!Audited
  <2>2. CASE t \notin NonEnglish /\ old = "open"
    BY <2>2 DEF Localize!Audited
  <2>3. CASE t \notin NonEnglish /\ old # "open"
    BY <2>3 DEF Localize!Audited
  <2> QED BY <2>1, <2>2, <2>3
<1> QED BY <1>1

\* No other step touches the text or what the audit says of it.
LEMMA ScanUndisturbed ==
  ASSUME TextTyped, [Localize!Next]_Localize!vars
  PROVE  \/ db'.text = db.text /\ db'.issue = db.issue /\ quiet' = quiet /\ scan' = scan
         \/ \E t \in Texts : Localize!Edit(t)
         \/ Localize!ScanRead \/ Localize!ScanRecord
<1> DEFINE Same == db'.text = db.text /\ db'.issue = db.issue /\ quiet' = quiet /\ scan' = scan
<1>1. ASSUME NEW jobs, NEW loc, db' = [db EXCEPT !.jobs = jobs, !.loc = loc], Localize!Quietly
      PROVE Same
  BY <1>1 DEF Localize!Quietly, TextTyped, TextRows
<1>2. ASSUME NEW jobs, db' = [db EXCEPT !.jobs = jobs], Localize!Quietly PROVE Same
  BY <1>2 DEF Localize!Quietly, TextTyped, TextRows
<1>3. CASE Localize!Retry
  BY <1>3, RetryJobs DEF Localize!Change, TextTyped, TextRows
<1>4. CASE Localize!Retranslate
  <2>1. PICK jobs, loc : Localize!Change([Localize!Queue(db) EXCEPT !.jobs = jobs, !.loc = loc])
        /\ quiet' = quiet
    BY <1>4, RetranslateRows
  <2>2. Localize!Queue(db).text = db.text /\ Localize!Queue(db).issue = db.issue
        /\ Localize!Queue(db) \in TextRows
    BY QueueTyped DEF TextTyped
  <2>3. [Localize!Queue(db) EXCEPT !.jobs = jobs, !.loc = loc].text = Localize!Queue(db).text
        /\ [Localize!Queue(db) EXCEPT !.jobs = jobs, !.loc = loc].issue = Localize!Queue(db).issue
    BY <2>2 DEF TextRows
  <2> QED BY <2>1, <2>2, <2>3 DEF Localize!Change
<1>5. CASE Localize!Claim
  BY <1>2, <1>5, ClaimRows
<1>6. CASE Localize!Call
  BY <1>6 DEF Localize!Call, Localize!Quietly
<1>7. CASE Localize!Failed
  BY <1>2, <1>7, FailedRows
<1>8. CASE Localize!Crash
  BY <1>8 DEF Localize!Crash
<1>9. ASSUME NEW valid, Localize!Answer(valid) PROVE Same
  BY <1>1, <1>9, AnswerRows
<1>10. ASSUME NEW j, Localize!Lapse(j) PROVE Same
  BY <1>2, <1>10 DEF Localize!Lapse
<1>11. CASE UNCHANGED Localize!vars
  BY <1>11 DEF Localize!vars
<1> QED BY <1>3, <1>4, <1>5, <1>6, <1>7, <1>8, <1>9, <1>10, <1>11 DEF Localize!Next

\* No step leaves the scan behind the text.
LEMMA ScanNext == TextTyped /\ ScanIsFresh /\ [Localize!Next]_Localize!vars => ScanIsFresh'
<1> SUFFICES ASSUME TextTyped, ScanIsFresh, [Localize!Next]_Localize!vars PROVE ScanIsFresh'
  OBVIOUS
<1>1. CASE db'.text = db.text /\ db'.issue = db.issue /\ quiet' = quiet /\ scan' = scan
  BY <1>1 DEF ScanIsFresh
<1>2. ASSUME NEW t \in Texts, Localize!Edit(t) PROVE ScanIsFresh'
  <2> DEFINE d == [db EXCEPT !.text = t, !.issue = Localize!Audited(t, db.issue)]
  <2>1. /\ db' = Localize!Queue(d) /\ scan' = scan
        /\ quiet' = (quiet /\ (scan = Localize!NoSession \/ t = db.text))
    BY <1>2 DEF Localize!Edit, Localize!Change
  <2>2. d \in TextRows /\ d.text = t /\ d.issue = Localize!Audited(t, db.issue)
    BY AuditedIssue DEF TextTyped, TextRows
  <2> HIDE DEF d
  <2>3. db'.text = t /\ db'.issue = Localize!Audited(t, db.issue)
    BY <2>1, <2>2, QueueTyped
  <2>4. quiet /\ t = db.text => Localize!Audited(t, db.issue) = db.issue
    BY AuditOpens DEF ScanIsFresh, Localize!Audited
  <2> QED BY <2>1, <2>3, <2>4, AuditOpens DEF ScanIsFresh
<1>3. CASE Localize!ScanRead
  BY <1>3 DEF Localize!ScanRead, ScanIsFresh
<1>4. CASE Localize!ScanRecord
  <2>1. scan # Localize!NoSession /\ scan' = Localize!NoSession /\ quiet' = quiet
    BY <1>4 DEF Localize!ScanRecord, Localize!NoSession
  <2>2. db'.text = db.text
        /\ db'.issue = IF Localize!Audited(scan.text, scan.issue) = scan.issue THEN db.issue
                       ELSE Localize!Audited(scan.text, scan.issue)
    BY <1>4 DEF Localize!ScanRecord, TextTyped, TextRows
  <2> QED BY <2>1, <2>2, AuditOpens DEF ScanIsFresh
<1> QED BY <1>1, <1>2, <1>3, <1>4, ScanUndisturbed

-----------------------------------------------------------------------------
\* The jobs of the text.

\* What a step may make of a job j while the text stays: it ends, or it goes on with the same
\* locales, or all that it does not ask for is served.
Goes(j) ==
  /\ db'.jobs[j].text = db.jobs[j].text
  /\ db'.jobs[j].status = "stale" <=> db.jobs[j].status = "stale"
  /\ db.jobs[j].status # "stale" /\ db'.jobs[j].status \in Localize!Reusable =>
        \/ /\ db.jobs[j].status \in Localize!Reusable /\ db'.jobs[j].targets = db.jobs[j].targets
           /\ db'.jobs[j].status = "ready" => db.jobs[j].status = "ready"
        \/ Localize!Latest(j) => \A l \in Locales :
              db'.jobs[j].status = "ready" \/ l \notin db'.jobs[j].targets => Localize!Served(l)'

\* Such steps keep what is said of the jobs.
LEMMA TextStays ==
  ASSUME TextTyped, OthersAreStale, RestIsServed, db'.text = db.text,
         DOMAIN db'.jobs = DOMAIN db.jobs, \A j \in DOMAIN db.jobs : Goes(j),
         \A l \in Locales : Localize!Served(l) => Localize!Served(l)'
  PROVE  OthersAreStale' /\ RestIsServed'
<1>1. OthersAreStale'
  BY DEF OthersAreStale, Goes
<1>2. ASSUME NEW j \in DOMAIN db.jobs, Localize!Latest(j)' PROVE Localize!Latest(j)
  BY <1>2 DEF Localize!Latest, Goes
<1>3. ASSUME NEW j \in DOMAIN db.jobs, Localize!Latest(j)',
             (db.jobs[j].status \in Localize!Reusable)', NEW l \in Locales,
             (db.jobs[j].status = "ready" \/ l \notin db.jobs[j].targets)'
      PROVE  Localize!Served(l)'
  <2>1. Localize!Latest(j) /\ db.jobs[j].status # "stale"
    BY <1>2, <1>3 DEF Localize!Latest
  <2>2. CASE /\ db.jobs[j].status \in Localize!Reusable
             /\ db'.jobs[j].targets = db.jobs[j].targets
             /\ db'.jobs[j].status = "ready" => db.jobs[j].status = "ready"
    BY <1>3, <2>1, <2>2 DEF RestIsServed
  <2> QED BY <1>3, <2>1, <2>2 DEF Goes
<1>4. RestIsServed'
  BY <1>3 DEF RestIsServed
<1> QED BY <1>1, <1>4

\* A step that changes no text and no localization, and every job as above.
LEMMA JobsGoOn ==
  ASSUME TextTyped, OthersAreStale, RestIsServed, NEW jobs, DOMAIN jobs = DOMAIN db.jobs,
         db' = [db EXCEPT !.jobs = jobs],
         \A j \in DOMAIN db.jobs :
            \/ jobs[j] = db.jobs[j]
            \/ /\ jobs[j].text = db.jobs[j].text /\ jobs[j].targets = db.jobs[j].targets
               /\ jobs[j].status = "stale" <=> db.jobs[j].status = "stale"
               /\ jobs[j].status \in Localize!Reusable => db.jobs[j].status \in Localize!Reusable
               /\ jobs[j].status = "ready" => db.jobs[j].status = "ready"
  PROVE  OthersAreStale' /\ RestIsServed'
<1>1. db'.jobs = jobs /\ db'.text = db.text /\ db'.loc = db.loc
  BY DEF TextTyped, TextRows
<1>2. \A j \in DOMAIN db.jobs : Goes(j)
  BY <1>1, Zenon DEF Goes
<1>3. \A l \in Locales : Localize!Served(l) => Localize!Served(l)'
  BY <1>1 DEF Localize!Served, Localize!Has
<1> QED BY <1>1, <1>2, <1>3, TextStays

\* The jobs of other texts have ended, in a list of rows.
OthersOf(d) == \A j \in DOMAIN d.jobs : d.jobs[j].status # "stale" => d.jobs[j].text = d.text

\* Queueing ends the jobs of other texts; what it adds asks for every locale.
LEMMA QueueEnds ==
  ASSUME NEW d \in TextRows, Localize!Current(d) = {}
  PROVE  /\ OthersOf(Localize!Queue(d))
         /\ \E n \in DOMAIN Localize!Queue(d).jobs :
              /\ \A k \in DOMAIN Localize!Queue(d).jobs : k =< n
              /\ Localize!Queue(d).jobs[n].text = d.text
                 /\ Localize!Queue(d).jobs[n].status = "queued"
              /\ Localize!Queue(d).jobs[n].targets = Locales
<1> DEFINE new == [text |-> d.text, status |-> "queued", attempt |-> 0,
                   targets |-> Locales, leased |-> FALSE, waits |-> FALSE]
           old == Localize!Staled(d.jobs, d.text)
           jobs == Append(old, new)
<1>1. Localize!Queue(d).jobs = jobs /\ Localize!Queue(d).text = d.text
  BY QueueTyped DEF Localize!Queue, TextRows
<1>2. new \in Localize!Job /\ d.jobs \in Seq(Localize!Job)
  BY ContentAssumption DEF Localize!Job, Localize!Statuses, TextRows
<1>3. old \in Seq(Localize!Job) /\ DOMAIN old = DOMAIN d.jobs
  BY <1>2, StaledJobs
<1>4. new.text = d.text /\ new.status = "queued" /\ new.targets = Locales
  OBVIOUS
<1>5. \A j \in DOMAIN d.jobs : old[j].status # "stale" => old[j].text = d.text
  <2>1. ASSUME NEW j \in DOMAIN d.jobs, old[j].status # "stale" PROVE old[j].text = d.text
    <3>1. d.jobs[j] \in Localize!Job
      BY <1>2
    <3>2. CASE d.jobs[j].text = d.text
      BY <3>2 DEF Localize!Staled
    <3>3. CASE d.jobs[j].text # d.text
      BY <2>1, <3>1, <3>3 DEF Localize!Staled, Localize!Job
    <3> QED BY <3>2, <3>3
  <2> QED BY <2>1
<1> HIDE DEF new, old
<1>6. /\ DOMAIN jobs = 1..Len(old) + 1 /\ jobs[Len(old) + 1] = new /\ Len(old) \in Nat
      /\ \A j \in 1..Len(old) : jobs[j] = old[j]
      /\ DOMAIN old = 1..Len(old)
  BY <1>2, <1>3
<1> HIDE DEF jobs
<1>7. \A j \in DOMAIN jobs : j = Len(old) + 1 \/ j \in DOMAIN d.jobs
  BY <1>3, <1>6
<1>8. \A j \in DOMAIN jobs : jobs[j].status # "stale" => jobs[j].text = d.text
  BY <1>3, <1>4, <1>5, <1>6, <1>7
<1>9. /\ Len(old) + 1 \in DOMAIN jobs /\ \A k \in DOMAIN jobs : k =< Len(old) + 1
  BY <1>6
<1> QED BY <1>1, <1>4, <1>6, <1>8, <1>9 DEF OthersOf

\* An edit: the text has its job, whose locales have been kept, or all of them are asked for.
LEMMA TranslatedEdit ==
  ASSUME TextTyped, OthersAreStale, RestIsServed, NEW t \in Texts, Localize!Edit(t)
  PROVE  OthersAreStale' /\ RestIsServed'
<1> DEFINE d == [db EXCEPT !.text = t, !.issue = Localize!Audited(t, db.issue)]
<1>1. db' = Localize!Queue(d)
  BY DEF Localize!Edit, Localize!Change
<1>2. d \in TextRows /\ d.text = t /\ d.jobs = db.jobs /\ d.loc = db.loc
  BY AuditedIssue DEF TextTyped, TextRows
<1> HIDE DEF d
<1>3. CASE Localize!Current(d) # {}
  <2>1. PICK j \in DOMAIN db.jobs : db.jobs[j].text = t /\ db.jobs[j].status \in Localize!Reusable
    BY <1>2, <1>3 DEF Localize!Current
  <2>2. t = db.text
    BY <2>1 DEF OthersAreStale, Localize!Reusable
  <2>3. db' = d
    BY <1>1, <1>3 DEF Localize!Queue
  <2>4. db'.text = db.text /\ db'.jobs = db.jobs /\ db'.loc = db.loc
    BY <1>2, <2>2, <2>3
  <2>5. \A k \in DOMAIN db.jobs : Goes(k)
    BY <2>4 DEF Goes
  <2>6. \A l \in Locales : Localize!Served(l) => Localize!Served(l)'
    BY <2>4 DEF Localize!Served, Localize!Has
  <2> QED BY <2>4, <2>5, <2>6, TextStays
<1>4. CASE Localize!Current(d) = {}
  <2>1. OthersAreStale'
    BY <1>1, <1>2, <1>4, QueueEnds, QueueTyped DEF OthersOf, OthersAreStale
  <2>2. PICK n \in DOMAIN db'.jobs :
          /\ \A k \in DOMAIN db'.jobs : k =< n
          /\ db'.jobs[n].text = db'.text /\ db'.jobs[n].status = "queued"
          /\ db'.jobs[n].targets = Locales
    BY <1>1, <1>2, <1>4, QueueEnds, QueueTyped
  <2>3. db'.jobs \in Seq(Localize!Job)
    BY <1>1, <1>2, QueueTyped DEF TextRows
  <2>4. ASSUME NEW j \in DOMAIN db'.jobs, Localize!Latest(j)' PROVE j = n
    BY <2>2, <2>3, <2>4 DEF Localize!Latest
  <2>5. RestIsServed'
    BY <2>2, <2>4 DEF RestIsServed
  <2> QED BY <2>1, <2>5
<1> QED BY <1>3, <1>4

\* A retry: a job that is over asks for what is not served.
LEMMA TranslatedRetry ==
  ASSUME TextTyped, OthersAreStale, RestIsServed, Localize!Retry
  PROVE  OthersAreStale' /\ RestIsServed'
<1> DEFINE to == [j \in DOMAIN db.jobs |-> Again(db.jobs[j])]
<1>1. db' = [db EXCEPT !.jobs = to]
  BY RetryJobs DEF Localize!Change
<1>2. DOMAIN to = DOMAIN db.jobs /\ \A j \in DOMAIN db.jobs : to[j] = Again(db.jobs[j])
  OBVIOUS
<1> HIDE DEF to
<1>3. db'.jobs = to /\ db'.text = db.text /\ db'.loc = db.loc
  BY <1>1 DEF TextTyped, TextRows
<1>4. \A l \in Locales : Localize!Served(l) <=> Localize!Served(l)'
  BY <1>3 DEF Localize!Served, Localize!Has
<1>5. ASSUME NEW j \in DOMAIN db.jobs PROVE Goes(j)
  <2> DEFINE job == db.jobs[j]
             left == {l \in Locales : ~Localize!Has(db, l, job.text, "ready")}
  <2>1. job \in Localize!Job /\ left \in SUBSET Locales
    BY DEF TextTyped, TextRows
  <2>2. Localize!Latest(j) => \A l \in Locales : l \notin left => Localize!Served(l)'
    BY <1>4 DEF Localize!Latest, Localize!Served
  <2>3. db'.jobs[j] = Again(job)
    BY <1>2, <1>3
  <2>4. Again(job) = IF job.status \notin {"failed", "partial"} THEN job
                     ELSE IF left = {} THEN [job EXCEPT !.status = "ready", !.targets = {}]
                     ELSE Localize!Requeued(job, left)
    BY DEF Again
  <2> HIDE DEF left
  <2>5. CASE job.status \notin {"failed", "partial"}
    BY <2>3, <2>4, <2>5 DEF Goes
  <2>6. CASE job.status \in {"failed", "partial"} /\ left = {}
    <3> DEFINE one == [job EXCEPT !.status = "ready", !.targets = {}]
    <3>1. one.text = job.text /\ one.status = "ready"
      BY <2>1 DEF Localize!Job
    <3>2. db'.jobs[j] = one
      BY <2>3, <2>4, <2>6
    <3> HIDE DEF one
    <3> QED BY <2>2, <2>6, <3>1, <3>2 DEF Goes
  <2>7. CASE job.status \in {"failed", "partial"} /\ left # {}
    <3>1. db'.jobs[j] = Localize!Requeued(job, left)
      BY <2>3, <2>4, <2>7
    <3>2. /\ Localize!Requeued(job, left).text = job.text
             /\ Localize!Requeued(job, left).status = "queued"
          /\ Localize!Requeued(job, left).targets = left
      BY <2>1, RequeuedJob
    <3> HIDE DEF job
    <3> QED BY <2>2, <2>7, <3>1, <3>2 DEF Goes, job
  <2> QED BY <2>5, <2>6, <2>7
<1> QED BY <1>2, <1>3, <1>4, <1>5, TextStays

\* The operator asks for every locale again: the job is the latest of the text.
LEMMA TranslatedRetranslate ==
  ASSUME TextTyped, OthersAreStale, Localize!Retranslate
  PROVE  OthersAreStale' /\ RestIsServed'
<1> DEFINE d == Localize!Queue(db)
<1>1. d \in TextRows /\ d.text = db.text /\ OthersOf(d)
  <2>1. CASE Localize!Current(db) # {}
    BY <2>1 DEF Localize!Queue, OthersOf, OthersAreStale, TextTyped
  <2>2. CASE Localize!Current(db) = {}
    BY <2>2, QueueEnds, QueueTyped DEF TextTyped
  <2> QED BY <2>1, <2>2, QueueTyped DEF TextTyped
<1>2. PICK j \in Localize!Current(d) :
        /\ \A k \in Localize!Current(d) : k =< j
        /\ Localize!Change(
              [d EXCEPT !.jobs = [d.jobs EXCEPT ![j] = Localize!Requeued(d.jobs[j], Locales)],
                        !.loc = StaleRows(d)])
  BY RetranslateRows
<1> HIDE DEF d
<1>3. d.jobs \in Seq(Localize!Job) /\ j \in DOMAIN d.jobs /\ d.jobs[j].text = d.text
      /\ d.jobs[j].status \in Localize!Reusable
  BY <1>1 DEF TextRows, Localize!Current
<1>4. d.jobs[j] \in Localize!Job /\ DOMAIN d.jobs \subseteq Nat
  BY <1>3
<1> DEFINE new == Localize!Requeued(d.jobs[j], Locales)
<1>5. new \in Localize!Job /\ new.text = d.text /\ new.status = "queued" /\ new.targets = Locales
  BY <1>3, <1>4, RequeuedJob
<1>6. db' = [d EXCEPT !.jobs = [d.jobs EXCEPT ![j] = new], !.loc = StaleRows(d)]
  BY <1>2 DEF Localize!Change
<1> HIDE DEF new
<1>7. db'.jobs = [d.jobs EXCEPT ![j] = new] /\ db'.text = d.text
  BY <1>1, <1>6 DEF TextRows
<1>8. /\ DOMAIN db'.jobs = DOMAIN d.jobs /\ db'.jobs[j] = new
      /\ \A k \in DOMAIN d.jobs : k # j => db'.jobs[k] = d.jobs[k]
  BY <1>3, <1>7
<1>9. OthersAreStale'
  BY <1>1, <1>5, <1>7, <1>8 DEF OthersOf, OthersAreStale
<1>10. ASSUME NEW k \in DOMAIN d.jobs, Localize!Latest(k)',
              db'.jobs[k].status \in Localize!Reusable
       PROVE  k = j
  <2>1. j =< k
    BY <1>3, <1>5, <1>7, <1>8, <1>10 DEF Localize!Latest
  <2>2. CASE k # j
    <3>1. k \in Localize!Current(d)
      BY <1>7, <1>8, <1>10, <2>2 DEF Localize!Latest, Localize!Current
    <3> QED BY <1>2, <1>3, <1>4, <2>1, <3>1
  <2> QED BY <2>2
<1>11. RestIsServed'
  BY <1>5, <1>8, <1>10 DEF RestIsServed
<1> QED BY <1>9, <1>11

\* A claim goes on with the locales of the job, and with those of the jobs it gives up.
LEMMA TranslatedClaim ==
  ASSUME TextTyped, OthersAreStale, RestIsServed, Localize!Claim
  PROVE  OthersAreStale' /\ RestIsServed' /\ SessionIsFresh'
<1>1. db.jobs \in Seq(Localize!Job)
  BY DEF TextTyped, TextRows
<1>2. Localize!Expired(db.jobs) \in Seq(Localize!Job)
      /\ DOMAIN Localize!Expired(db.jobs) = DOMAIN db.jobs
  BY <1>1, ExpiredJobs
<1>3. ASSUME NEW j \in DOMAIN db.jobs
      PROVE  /\ Localize!Expired(db.jobs)[j].text = db.jobs[j].text
             /\ Localize!Expired(db.jobs)[j].targets = db.jobs[j].targets
             /\ \/ Localize!Expired(db.jobs)[j].status = db.jobs[j].status
                \/ db.jobs[j].status = "running"
                   /\ Localize!Expired(db.jobs)[j].status \in {"failed", "partial"}
  <2>1. db.jobs[j] \in Localize!Job
    BY <1>1
  <2>2. /\ Localize!Expired(db.jobs)[j] \in {db.jobs[j], [db.jobs[j] EXCEPT !.status = "failed"],
                                    [db.jobs[j] EXCEPT !.status = "partial"]}
        /\ db.jobs[j].status # "running" => Localize!Expired(db.jobs)[j] = db.jobs[j]
    BY DEF Localize!Expired
  <2> QED BY <2>1, <2>2 DEF Localize!Job
<1> DEFINE old == Localize!Expired(db.jobs)
<1> HIDE DEF old
<1>4. CASE db' = [db EXCEPT !.jobs = old] /\ worker' = Localize!NoSession
  <2>1. OthersAreStale' /\ RestIsServed'
    BY <1>2, <1>3, <1>4, JobsGoOn DEF old, Localize!Reusable
  <2> QED BY <1>4, <2>1 DEF SessionIsFresh
<1>5. ASSUME NEW j \in DOMAIN db.jobs, old[j].status \in {"queued", "partial"}, ~old[j].waits,
             db' = [db EXCEPT !.jobs = [old EXCEPT ![j] = ClaimedJob(old[j])]],
             worker' = [step |-> "claimed", job |-> j]
      PROVE  OthersAreStale' /\ RestIsServed' /\ SessionIsFresh'
  <2> DEFINE new == ClaimedJob(old[j])
             jobs == [old EXCEPT ![j] = new]
  <2>1. old[j] \in Localize!Job
    BY <1>2 DEF old
  <2>2. new.text = old[j].text /\ new.targets = old[j].targets /\ new.status = "running"
        /\ ~new.waits
    BY <1>5, <2>1 DEF ClaimedJob, Localize!Job
  <2> HIDE DEF new
  <2>3. /\ DOMAIN jobs = DOMAIN db.jobs /\ jobs[j] = new
        /\ \A k \in DOMAIN db.jobs : k # j => jobs[k] = old[k]
    BY <1>2 DEF old
  <2>4. db' = [db EXCEPT !.jobs = jobs]
    BY <1>5 DEF new
  <2> HIDE DEF jobs
  <2>5. db'.jobs = jobs
    BY <2>4 DEF TextTyped, TextRows
  <2>6. OthersAreStale' /\ RestIsServed'
    <3>1. ASSUME NEW k \in DOMAIN db.jobs
          PROVE  /\ jobs[k].text = db.jobs[k].text /\ jobs[k].targets = db.jobs[k].targets
                 /\ jobs[k].status = "stale" <=> db.jobs[k].status = "stale"
                 /\ jobs[k].status \in Localize!Reusable
                      => db.jobs[k].status \in Localize!Reusable
                 /\ jobs[k].status = "ready" => db.jobs[k].status = "ready"
      <4>1. CASE k = j
        BY <1>3, <1>5, <2>2, <2>3, <4>1 DEF old, Localize!Reusable
      <4>2. CASE k # j
        BY <1>3, <2>3, <4>2 DEF old, Localize!Reusable
      <4> QED BY <4>1, <4>2
    <3> QED BY <2>3, <2>4, <3>1, JobsGoOn
  <2>7. SessionIsFresh'
    BY <1>5, <2>2, <2>3, <2>5 DEF SessionIsFresh
  <2> QED BY <2>6, <2>7
<1> QED BY <1>4, <1>5, ClaimRows, Zenon DEF old

\* An answer: what came back is served, and the job asks for the rest or is ready.
LEMMA TranslatedAnswer ==
  ASSUME TextTyped, OthersAreStale, SessionIsFresh, RestIsServed, NEW valid,
         Localize!Answer(valid)
  PROVE  OthersAreStale' /\ RestIsServed' /\ SessionIsFresh'
<1> DEFINE i == worker.job
           old == db.jobs[i]
           to == AnsweredWith(valid)
           missing == old.targets \ valid
<1>1. /\ worker.step = "calling" /\ worker' = Localize!NoSession
      /\ db' = [db EXCEPT !.jobs = [db.jobs EXCEPT ![i] = to], !.loc = Stored(valid)]
  BY AnswerRows
<1>2. /\ old = worker.db.jobs[i] /\ old.status = "running" /\ worker.db.text = db.text
      /\ worker.db.loc = db.loc
      /\ i \in DOMAIN db.jobs /\ old \in Localize!Job
  BY <1>1, CallFacts DEF SessionIsFresh
<1>3. old.text = db.text
  BY <1>2 DEF OthersAreStale
<1>4. /\ to.text = old.text
      /\ \/ missing = {} /\ to.status = "ready"
         \/ to.status = "failed"
         \/ to.status = "partial" /\ to.targets = missing
  BY <1>1, <1>2, <1>3, AnsweredJob
<1>5. \A l \in Locales :
         Stored(valid)[l] = IF l \in valid \ {SourceOf[db.text]}
                            THEN [text |-> db.text, status |-> "ready"] ELSE db.loc[l]
  <2>1. ASSUME NEW l \in Locales
        PROVE  Stored(valid)[l] = IF l \in valid \ {SourceOf[db.text]}
                                  THEN Localize!Upserted(db.loc[l], db.loc[l], db.text)
                                    ELSE db.loc[l]
    BY <1>2, <1>3 DEF Stored
  <2>2. \A l \in Locales : Localize!Upserted(db.loc[l], db.loc[l], db.text)
                           = [text |-> db.text, status |-> "ready"]
    BY Zenon DEF Localize!Upserted
  <2> QED BY <2>1, <2>2
<1> HIDE DEF to
<1>6. /\ db'.text = db.text /\ DOMAIN db'.jobs = DOMAIN db.jobs /\ db'.jobs[i] = to
      /\ db'.loc = Stored(valid)
      /\ \A k \in DOMAIN db.jobs : k # i => db'.jobs[k] = db.jobs[k]
  BY <1>1, <1>2 DEF TextTyped, TextRows
<1> HIDE DEF old, i, missing
<1>7. NoRow # [text |-> db.text, status |-> "ready"]
  <2>1. db.text \in Texts
    BY DEF TextTyped, TextRows
  <2> QED BY <2>1, ContentAssumption
<1>8. \A l \in Locales : Localize!Served(l) \/ l \in valid => Localize!Served(l)'
  BY <1>5, <1>6, <1>7 DEF Localize!Served, Localize!Has
<1>9. ASSUME NEW k \in DOMAIN db.jobs PROVE Goes(k)
  <2>1. CASE k # i
    BY <1>6, <2>1 DEF Goes
  <2>2. CASE k = i
    <3>1. ASSUME Localize!Latest(k), NEW l \in Locales, to.status = "ready"
                 \/ l \notin to.targets,
                 to.status # "failed"
          PROVE  Localize!Served(l)'
      <4>1. l \in valid \/ l \notin old.targets
        BY <1>4, <3>1 DEF missing
      <4>2. old = db.jobs[k] /\ old.status \in Localize!Reusable
        BY <1>2, <2>2 DEF old, Localize!Reusable
      <4> QED BY <1>8, <3>1, <4>1, <4>2 DEF RestIsServed
    <3>2. db.jobs[k] = old /\ db'.jobs[k] = to
      BY <1>6, <2>2 DEF old
    <3>3. to.text = old.text /\ to.status # "stale" /\ old.status # "stale"
      BY <1>2, <1>4
    <3>4. to.status \in Localize!Reusable => to.status # "failed"
      BY DEF Localize!Reusable
    <3> QED BY <3>1, <3>2, <3>3, <3>4 DEF Goes
  <2> QED BY <2>1, <2>2
<1>10. OthersAreStale' /\ RestIsServed'
  BY <1>6, <1>8, <1>9, TextStays
<1> QED BY <1>1, <1>10 DEF SessionIsFresh

\* A call that fails, and a delay or a lease that is over, keep the locales of the job.
LEMMA TranslatedFailed ==
  ASSUME TextTyped, OthersAreStale, SessionIsFresh, RestIsServed, Localize!Failed
  PROVE  OthersAreStale' /\ RestIsServed' /\ SessionIsFresh'
<1>1. worker.job \in DOMAIN db.jobs /\ db.jobs[worker.job].status = "running"
      /\ worker' = Localize!NoSession
  BY FailedRows, CallFacts DEF SessionIsFresh
<1>2. PICK to \in Localize!Job : /\ to.status \in {"failed", "partial"}
                                 /\ to.text = db.jobs[worker.job].text
                                 /\ to.targets = db.jobs[worker.job].targets
                                 /\ db' = [db EXCEPT !.jobs = [db.jobs EXCEPT ![worker.job] = to]]
  BY FailedRows
<1> DEFINE jobs == [db.jobs EXCEPT ![worker.job] = to]
<1>3. /\ DOMAIN jobs = DOMAIN db.jobs /\ jobs[worker.job] = to
      /\ \A k \in DOMAIN db.jobs : k # worker.job => jobs[k] = db.jobs[k]
  BY <1>1 DEF TextTyped, TextRows
<1>4. db' = [db EXCEPT !.jobs = jobs]
  BY <1>2
<1> HIDE DEF jobs
<1>5. OthersAreStale' /\ RestIsServed'
  BY <1>1, <1>2, <1>3, <1>4, JobsGoOn DEF Localize!Reusable
<1> QED BY <1>1, <1>5 DEF SessionIsFresh

\* A lease or a wait that lapses changes no status, target or text.
LEMMA TranslatedLapse ==
  ASSUME TextTyped, OthersAreStale, SessionIsFresh, RestIsServed, NEW j \in DOMAIN db.jobs,
         Localize!Lapse(j)
  PROVE  OthersAreStale' /\ RestIsServed' /\ SessionIsFresh'
<1> DEFINE to == [db.jobs[j] EXCEPT !.leased = FALSE, !.waits = FALSE]
           jobs == [db.jobs EXCEPT ![j] = to]
<1>1. /\ db' = [db EXCEPT !.jobs = jobs] /\ worker' = worker
      /\ (db.jobs[j].leased /\ worker = Localize!NoSession) \/ db.jobs[j].waits
  BY DEF Localize!Lapse
<1>2. db.jobs \in Seq(Localize!Job)
  BY DEF TextTyped, TextRows
<1>3. db.jobs[j] \in Localize!Job
  BY <1>2
<1>4. to.text = db.jobs[j].text /\ to.status = db.jobs[j].status
      /\ to.targets = db.jobs[j].targets
  BY <1>3 DEF Localize!Job
<1> HIDE DEF to
<1>5. /\ DOMAIN jobs = DOMAIN db.jobs /\ jobs[j] = to
      /\ \A k \in DOMAIN db.jobs : k # j => jobs[k] = db.jobs[k]
  BY <1>2
<1> HIDE DEF jobs
<1>6. OthersAreStale' /\ RestIsServed'
  BY <1>1, <1>4, <1>5, JobsGoOn
<1>7. db'.jobs = jobs /\ db'.text = db.text /\ db'.loc = db.loc
  BY <1>1 DEF TextTyped, TextRows
<1>8. worker # Localize!NoSession => worker.job # j /\ worker.job \in DOMAIN db.jobs
  BY <1>1 DEF SessionIsFresh, TextTyped
<1>9. SessionIsFresh'
  BY <1>1, <1>5, <1>7, <1>8 DEF SessionIsFresh
<1> QED BY <1>6, <1>9

\* Every step keeps what is said of the jobs, unless it changes one during a call.
LEMMA TranslatedNext == TextTyped /\ Translated /\ [Localize!Next]_Localize!vars => Translated'
<1> SUFFICES ASSUME TextTyped, Translated, [Localize!Next]_Localize!vars, tCalm' PROVE Translated'
  BY DEF Translated
<1>1. ASSUME NEW new, Localize!Change(new) PROVE tCalm /\ SessionIsFresh'
  BY <1>1 DEF Localize!Change, SessionIsFresh
<1>2. ASSUME Localize!Quietly PROVE tCalm
  BY <1>2 DEF Localize!Quietly
<1>3. ASSUME NEW t \in Texts, Localize!Edit(t) PROVE Translated'
  BY <1>1, <1>3, TranslatedEdit DEF Translated, Localize!Edit
<1>4. CASE Localize!Retry
  BY <1>1, <1>4, TranslatedRetry, RetryJobs DEF Translated
<1>5. CASE Localize!Retranslate
  BY <1>1, <1>5, TranslatedRetranslate, RetranslateRows DEF Translated
<1>6. CASE Localize!Claim
  BY <1>2, <1>6, TranslatedClaim, ClaimRows DEF Translated
<1>7. CASE Localize!Call
  <2>1. db' = db /\ worker' = [step |-> "calling", job |-> worker.job, db |-> db] /\ tCalm
        /\ worker # Localize!NoSession
    BY <1>2, <1>7 DEF Localize!Call, Localize!NoSession
  <2>2. OthersAreStale' /\ RestIsServed'
    BY <2>1 DEF Translated, OthersAreStale, RestIsServed, Localize!Latest, Localize!Served,
           Localize!Has
  <2>3. SessionIsFresh'
    BY <2>1 DEF Translated, SessionIsFresh
  <2> QED BY <2>2, <2>3 DEF Translated
<1>8. CASE Localize!Failed
  BY <1>2, <1>8, TranslatedFailed, FailedRows DEF Translated
<1>9. CASE db'.text = db.text /\ db'.jobs = db.jobs /\ db'.loc = db.loc /\ tCalm
           /\ (worker' = worker \/ worker' = Localize!NoSession)
  <2>1. OthersAreStale' /\ RestIsServed'
    BY <1>9 DEF Translated, OthersAreStale, RestIsServed, Localize!Latest, Localize!Served,
           Localize!Has
  <2>2. SessionIsFresh'
    BY <1>9 DEF Translated, SessionIsFresh
  <2> QED BY <2>1, <2>2 DEF Translated
<1>10. CASE Localize!Crash
  BY <1>9, <1>10 DEF Localize!Crash
<1>11. CASE Localize!ScanRead
  BY <1>9, <1>11 DEF Localize!ScanRead
<1>12. CASE Localize!ScanRecord
  <2>1. db'.text = db.text /\ db'.jobs = db.jobs /\ db'.loc = db.loc /\ tCalm /\ worker' = worker
    BY <1>12 DEF Localize!ScanRecord, TextTyped, TextRows
  <2> QED BY <1>9, <2>1
<1>13. CASE UNCHANGED Localize!vars
  BY <1>9, <1>13 DEF Localize!vars
<1>14. ASSUME NEW valid, Localize!Answer(valid) PROVE Translated'
  BY <1>2, <1>14, TranslatedAnswer, AnswerRows DEF Translated
<1>15. ASSUME NEW j \in DOMAIN db.jobs, Localize!Lapse(j) PROVE Translated'
  <2>1. Localize!Quietly
    BY <1>15 DEF Localize!Lapse
  <2> QED BY <1>2, <1>15, <2>1, TranslatedLapse DEF Translated
<1> QED BY <1>3, <1>4, <1>5, <1>6, <1>7, <1>8, <1>10, <1>11, <1>12, <1>13, <1>14, <1>15
           DEF Localize!Next

-----------------------------------------------------------------------------
\* The first job is queued for every locale, and the audit has seen the text.
LEMMA TextInit == Localize!Init => TextTyped /\ ScanIsFresh /\ Translated
<1> SUFFICES ASSUME Localize!Init PROVE TextTyped /\ ScanIsFresh /\ Translated
  OBVIOUS
<1>1. PICK t \in Texts :
        db = Localize!Queue([text |-> t, issue |-> Localize!Audited(t, "none"), jobs |-> <<>>,
                    loc |-> [l \in Locales |-> NoRow]])
  BY DEF Localize!Init
<1> DEFINE d == [text |-> t, issue |-> Localize!Audited(t, "none"), jobs |-> <<>>,
                 loc |-> [l \in Locales |-> NoRow]]
<1>2. d \in TextRows /\ d.text = t /\ d.issue = Localize!Audited(t, "none")
      /\ Localize!Current(d) = {}
  <2>1. Localize!Audited(t, "none") \in TextIssues
    BY AuditedIssue DEF TextIssues
  <2>2. <<>> \in Seq(Localize!Job)
        /\ [l \in Locales |-> NoRow] \in [Locales -> TextRow \cup {NoRow}]
    OBVIOUS
  <2>3. DOMAIN d.jobs = {}
    OBVIOUS
  <2> QED BY <2>1, <2>2, <2>3 DEF TextRows, Localize!Current
<1>3. db = Localize!Queue(d)
  BY <1>1
<1> HIDE DEF d
<1>4. db \in TextRows /\ db.text = t /\ db.issue = Localize!Audited(t, "none")
  BY <1>2, <1>3, QueueTyped
<1>5. worker = Localize!NoSession /\ scan = Localize!NoSession /\ tChanges = 0 /\ tCalm = TRUE
      /\ quiet = TRUE
  BY DEF Localize!Init
<1>6. TextTyped
  BY <1>4, <1>5, ContentAssumption DEF TextTyped, Localize!NoSession
<1>7. ScanIsFresh
  BY <1>4, <1>5, AuditOpens DEF ScanIsFresh
<1>8. OthersAreStale
  BY <1>2, <1>3, <1>4, QueueEnds DEF OthersOf, OthersAreStale
<1>9. PICK n \in DOMAIN db.jobs :
        /\ \A k \in DOMAIN db.jobs : k =< n
        /\ db.jobs[n].text = db.text /\ db.jobs[n].status = "queued"
        /\ db.jobs[n].targets = Locales
  BY <1>2, <1>3, <1>4, QueueEnds
<1>10. ASSUME NEW j \in DOMAIN db.jobs, Localize!Latest(j) PROVE j = n
  <2>1. db.jobs \in Seq(Localize!Job)
    BY <1>4 DEF TextRows
  <2> QED BY <1>9, <1>10, <2>1 DEF Localize!Latest
<1>11. RestIsServed
  BY <1>9, <1>10 DEF RestIsServed
<1>12. SessionIsFresh
  BY <1>5 DEF SessionIsFresh
<1> QED BY <1>6, <1>7, <1>8, <1>11, <1>12 DEF Translated

\* All of it holds always.
LEMMA TextAlways == Localize!Spec => [](TextTyped /\ ScanIsFresh /\ Translated)
<1> DEFINE Inv == TextTyped /\ ScanIsFresh /\ Translated
<1>1. Inv /\ [Localize!Next]_Localize!vars => Inv'
  BY TextTypedNext, ScanNext, TranslatedNext
<1> QED BY <1>1, TextInit, PTL DEF Localize!Spec

\* The audit reports what is public, unless a text was changed during a scan.
THEOREM AuditsRight == Localize!Spec => []Localize!AuditIsRight
<1>1. ScanIsFresh => Localize!AuditIsRight
  BY DEF ScanIsFresh, Localize!AuditIsRight
<1> QED BY <1>1, TextAlways, PTL

\* Every locale is served when the latest job of the text is ready, unless a job or the text
\* was changed during a call.
THEOREM TextsServed == Localize!Spec => []Localize!ReadyIsServed
<1>1. Translated => Localize!ReadyIsServed
  BY DEF Translated, RestIsServed, Localize!ReadyIsServed, Localize!Latest, Localize!Reusable
<1> QED BY <1>1, TextAlways, PTL

\* The types.
THEOREM TextTypes == Localize!Spec => []Localize!TypeOK
<1>1. TextTyped => Localize!TypeOK
  BY DEF TextTyped, Localize!TypeOK, TextRows, TextIssues, TextRow, Localize!NoSession
<1> QED BY <1>1, TextAlways, PTL

\* The part that is Localize behaves as the component does.
LEMMA LocalizeBehaves == Spec => Localize!Spec
<1>1. Init => Localize!Init
  BY DEF Init
<1>2. [Next]_vars => [Localize!Next]_Localize!vars
  BY PartsNext DEF textVars, Localize!vars
<1> QED BY <1>1, <1>2, PTL DEF Spec, Localize!Spec

\* However edits, retries, crashes and the worker's calls fall between its scan and its record,
\* the audit's issue is open exactly while the public text is not English.
THEOREM AuditsAreRight == Spec => []AuditIsRight
BY LocalizeBehaves, AuditsRight, PTL DEF AuditIsRight

\* However edits, retries, retranslations, failures and crashes overlap with a call, a locale that
\* a ready job has translated is served in the text that is there.
THEOREM TextsAreServed == Spec => []ReadyIsServed
BY LocalizeBehaves, TextsServed, PTL DEF ReadyIsServed

-----------------------------------------------------------------------------
(***************************************************************************)
(* HtmlPackaging: a finished package is closed, and a refusal names a      *)
(* reason that is in the source.                                           *)
(***************************************************************************)

\* The phases of a build.
PackPhases == {"scripts", "pages", "closing", "checking", "limits", "done", "refused"}
\* The states of a build.
PackStates == [phase : PackPhases, left : SUBSET Package!TextFiles,
               at : Package!TextFiles \cup {NoRow}, owed : SUBSET (Urls \cup Paths),
               staged : SUBSET Urls, cache : SUBSET Urls,
               adapted : SUBSET Package!TextFiles, reason : Package!Reasons]

\* The types of a build.
PackTyped ==
    /\ lands \in Redirects /\ mentions \in [Package!TextFiles -> SUBSET (Urls \cup Paths)]
    /\ build \in PackStates

\* The texts of the tree.
HeldFiles == Package!Own \cup build.staged

\* What a text mentions and has been rewritten is known by its file.
RewrittenIsKnown ==
    /\ \A t \in build.adapted : Package!Needs(t) \subseteq build.cache
    /\ build.at = NoRow => build.owed = {}
    /\ build.at # NoRow =>
         /\ build.owed \subseteq mentions[build.at] /\ build.at \in HeldFiles
         /\ \A z \in mentions[build.at] \ build.owed :
               ~Package!IsLocal(build.at, z) => Package!AddressOf(z) \in build.cache

\* The files that have been fetched are those of the known addresses, which the source reaches.
FilesAreReached ==
    /\ build.staged \subseteq build.cache /\ \A u \in build.cache : lands[u] \in build.staged
    /\ build.adapted \subseteq HeldFiles /\ build.left \subseteq HeldFiles
    /\ \A f \in build.staged : \E u \in Package!Reach : f = lands[u]

\* The passes leave no text out.
PassesAreWhole ==
    /\ build.phase = "scripts" => "script" \in build.left \cup build.adapted
    /\ build.phase = "pages" => "script" \in build.adapted
       /\ "page" \in build.left \cup build.adapted
    /\ build.phase \in {"closing", "checking", "limits", "done"}
         => Package!Own \subseteq build.adapted
    /\ build.phase \in {"checking", "limits", "done"} =>
         build.left = {} /\ build.at = NoRow /\ Package!StagedTexts(build) \subseteq build.adapted

\* A reason is given by a refusal alone.
ReasonIsGiven == Package!RefusalHasReason /\ (build.phase # "refused" => build.reason = "none")

\* The inductive invariant of the packaging.
PackInv == RewrittenIsKnown /\ FilesAreReached /\ PassesAreWhole /\ ReasonIsGiven

-----------------------------------------------------------------------------
\* A build begins well-typed.
LEMMA PackTypedInit == Package!Init => PackTyped
  BY HtmlAssumption DEF Package!Init, PackTyped, PackStates, PackPhases, Package!Reasons,
         Package!TextFiles, Package!Own

\* Addresses.
LEMMA Addressed == \A z \in Urls \cup Paths : Package!AddressOf(z) \in Urls
  BY HtmlAssumption DEF Package!AddressOf

\* A final address is where it ends itself.
LEMMA Landed ==
  PackTyped => lands \in [Urls -> Urls] /\ \A u \in Urls : lands[lands[u]] = lands[u]
  BY HtmlAssumption DEF PackTyped

\* What a text of the tree needs is reached.
LEMMA NeedsAreReached ==
  ASSUME PackTyped, FilesAreReached, NEW t \in Package!TextFiles, t \in HeldFiles,
         NEW u \in Package!Needs(t)
  PROVE  u \in Package!Reach
<1>1. u \in Urls
  <2>1. PICK z \in mentions[t] : u = Package!AddressOf(z)
    BY DEF Package!Needs
  <2>2. z \in Urls \cup Paths
    BY <2>1 DEF PackTyped
  <2> QED BY <2>1, <2>2, Addressed
<1>2. ASSUME NEW T \in SUBSET Urls, Package!Closed(T) PROVE u \in T
  <2>1. t \in Package!Own \cup ({lands[v] : v \in T} \cap Package!TextFiles)
    <3>1. CASE t \in Package!Own
      BY <3>1
    <3>2. CASE t \notin Package!Own
      <4>1. PICK v \in Package!Reach : t = lands[v]
        BY <3>2 DEF FilesAreReached, HeldFiles
      <4>2. v \in T
        BY <1>2, <4>1 DEF Package!Reach
      <4> QED BY <4>1, <4>2
    <3> QED BY <3>1, <3>2
  <2> QED BY <1>2, <2>1 DEF Package!Closed
<1> QED BY <1>1, <1>2 DEF Package!Reach

\* Every step leaves the source as it is.
LEMMA SourceStays == [Package!Build]_Package!vars => UNCHANGED <<mentions, lands>>
  BY DEF Package!Build, Package!Next, Package!TakeText, Package!Take, Package!TakePage,
         Package!RewriteLocal, Package!UseCached, Package!Vendor, Package!WriteText,
         Package!WritePage, Package!Written, Package!PagesNext, Package!CloseNext,
         Package!ValidateTree, Package!RefuseReference, Package!ValidateLimits,
         Package!RefusedFor, Package!Step, Package!vars

\* What the definitions say of the next state when the source stays.
LEMMA SameSource ==
  ASSUME UNCHANGED <<mentions, lands>>
  PROVE  /\ Package!Reach' = Package!Reach
            /\ \A t \in Package!TextFiles : Package!Needs(t)' = Package!Needs(t)
         /\ Package!RefusalHasReason' <=>
              /\ build'.reason = "origin" => \E u \in Package!Reach : u \notin Approved
              /\ build'.reason = "redirect" => \E u \in Package!Reach : lands[u] \notin Approved
              /\ build'.reason = "absent" => \E z \in build'.owed : z \notin Present
              /\ build'.reason = "collision" =>
                    \E z \in build'.owed : lands[Package!AddressOf(z)]
                      \in Package!TextFiles \ {Package!AddressOf(z)}
<1>1. Package!Reach' = Package!Reach
  BY DEF Package!Reach, Package!Closed, Package!Needs, Package!IsLocal, Package!AddressOf
<1>2. \A t \in Package!TextFiles : Package!Needs(t)' = Package!Needs(t)
  BY DEF Package!Needs, Package!IsLocal, Package!AddressOf
<1> QED BY <1>1, <1>2 DEF Package!RefusalHasReason, Package!AddressOf

\* The last mention to be rewritten, while nothing is refused.
LEMMA PackAtWork ==
  ASSUME PackTyped, PackInv, NEW z \in build.owed
  PROVE  /\ build.at \in Package!TextFiles /\ build.at # NoRow /\ build.at \in HeldFiles
         /\ z \in mentions[build.at] /\ z \in Urls \cup Paths
         /\ Package!AddressOf(z) \in Urls
         /\ ~Package!IsLocal(build.at, z) => Package!AddressOf(z) \in Package!Reach
<1>1. /\ build.at \in Package!TextFiles /\ build.at # NoRow /\ build.at \in HeldFiles
         /\ z \in mentions[build.at]
  BY DEF PackTyped, PackInv, RewrittenIsKnown, PackStates
<1>2. z \in Urls \cup Paths
  BY <1>1 DEF PackTyped
<1>3. ~Package!IsLocal(build.at, z) => Package!AddressOf(z) \in Package!Needs(build.at)
  BY <1>1 DEF Package!Needs
<1> QED BY <1>1, <1>2, <1>3, Addressed, NeedsAreReached DEF PackInv

\* A refusal leaves the rest of the build as it is.
LEMMA RefusalsEnd ==
  ASSUME PackTyped, PackInv, NEW why \in Package!Reasons, Package!RefusedFor(why),
         /\ why = "origin" => \E u \in Package!Reach : u \notin Approved
         /\ why = "redirect" => \E u \in Package!Reach : lands[u] \notin Approved
         /\ why = "absent" => \E z \in build.owed : z \notin Present
         /\ why = "collision" =>
               \E z \in build.owed : lands[Package!AddressOf(z)]
                 \in Package!TextFiles \ {Package!AddressOf(z)}
  PROVE  PackTyped' /\ PackInv'
<1>1. /\ UNCHANGED <<mentions, lands>>
         /\ build' = [build EXCEPT !.phase = "refused", !.reason = why]
  BY DEF Package!RefusedFor, Package!Step
<1>2. /\ build' \in PackStates /\ build'.phase = "refused" /\ build'.reason = why
      /\ build'.left = build.left /\ build'.at = build.at /\ build'.owed = build.owed
      /\ build'.staged = build.staged /\ build'.cache = build.cache
      /\ build'.adapted = build.adapted
  BY <1>1 DEF PackTyped, PackStates, PackPhases
<1>3. PackTyped'
  BY <1>1, <1>2 DEF PackTyped
<1>4. RewrittenIsKnown'
  BY <1>1, <1>2, SameSource DEF PackTyped, PackStates, PackInv, RewrittenIsKnown, HeldFiles,
         Package!IsLocal, Package!AddressOf
<1>5. FilesAreReached'
  BY <1>1, <1>2, SameSource DEF PackInv, FilesAreReached, HeldFiles
<1>6. PassesAreWhole'
  BY <1>2 DEF PassesAreWhole
<1>7. ReasonIsGiven'
  BY <1>1, <1>2, SameSource DEF ReasonIsGiven
<1> QED BY <1>3, <1>4, <1>5, <1>6, <1>7 DEF PackInv

\* A text is taken.
LEMMA TakesFile ==
  ASSUME PackTyped, PackInv, Package!Running, NEW t \in build.left, Package!Take(t),
         build.at = NoRow
  PROVE  PackTyped' /\ PackInv'
<1>1. UNCHANGED <<mentions, lands>> /\ build' = [build EXCEPT !.at = t, !.owed = mentions[t]]
  BY DEF Package!Take, Package!Step
<1>2. t \in Package!TextFiles /\ t # NoRow /\ mentions[t] \in SUBSET (Urls \cup Paths)
  BY HtmlAssumption DEF PackTyped, PackStates, Package!TextFiles, Package!Own
<1>3. /\ build' \in PackStates /\ build'.phase = build.phase /\ build'.reason = build.reason
      /\ build'.left = build.left /\ build'.at = t /\ build'.owed = mentions[t]
      /\ build'.staged = build.staged /\ build'.cache = build.cache
      /\ build'.adapted = build.adapted
  BY <1>1, <1>2 DEF PackTyped, PackStates
<1>4. PackTyped'
  BY <1>1, <1>3 DEF PackTyped
<1>5. t \in HeldFiles
  BY DEF PackInv, FilesAreReached
<1>6. RewrittenIsKnown'
  BY <1>1, <1>2, <1>3, <1>5, SameSource DEF PackTyped, PackStates, PackInv, RewrittenIsKnown,
         HeldFiles
<1>7. FilesAreReached'
  BY <1>1, <1>3, SameSource DEF PackInv, FilesAreReached, HeldFiles
<1>8. PassesAreWhole'
  BY <1>3 DEF PackInv, PassesAreWhole
<1>9. ReasonIsGiven'
  BY <1>1, <1>3, SameSource DEF PackInv, ReasonIsGiven, Package!Running
<1> QED BY <1>4, <1>6, <1>7, <1>8, <1>9 DEF PackInv

\* A text is written: all that it needs is known.
LEMMA WritesFile ==
  ASSUME PackTyped, PackInv, Package!Running, build.at # NoRow, build.owed = {}, Package!Written
  PROVE  PackTyped' /\ PackInv'
<1> DEFINE t == build.at
<1>1. /\ UNCHANGED <<mentions, lands>>
      /\ build' = [build EXCEPT !.at = NoRow, !.left = build.left \ {t},
                   !.adapted = build.adapted \cup {t}]
  BY DEF Package!Written, Package!Step
<1>2. t \in Package!TextFiles /\ t \in HeldFiles
  BY DEF PackTyped, PackStates, PackInv, RewrittenIsKnown
<1>3. /\ build' \in PackStates /\ build'.phase = build.phase /\ build'.reason = build.reason
      /\ build'.left = build.left \ {t} /\ build'.at = NoRow /\ build'.owed = build.owed
      /\ build'.staged = build.staged /\ build'.cache = build.cache
      /\ build'.adapted = build.adapted \cup {t}
  BY <1>1, <1>2 DEF PackTyped, PackStates
<1>4. PackTyped'
  BY <1>1, <1>3 DEF PackTyped
<1>5. Package!Needs(t) \subseteq build.cache
  BY DEF Package!Needs, PackInv, RewrittenIsKnown
<1> HIDE DEF t
<1>6. RewrittenIsKnown'
  BY <1>1, <1>2, <1>3, <1>5, SameSource DEF PackTyped, PackStates, PackInv, RewrittenIsKnown
<1>7. FilesAreReached'
  BY <1>1, <1>2, <1>3, SameSource DEF PackInv, FilesAreReached, HeldFiles
<1>8. PassesAreWhole'
  BY <1>3 DEF PackInv, PassesAreWhole, t
<1>9. ReasonIsGiven'
  BY <1>1, <1>3, SameSource DEF PackInv, ReasonIsGiven, Package!Running
<1> QED BY <1>4, <1>6, <1>7, <1>8, <1>9 DEF PackInv

\* A mention is rewritten, and its file is known.
LEMMA RewritesText ==
  ASSUME PackTyped, PackInv, Package!Running, NEW z \in build.owed,
         NEW staged \in SUBSET Urls, NEW cache \in SUBSET Urls,
         build.staged \subseteq staged, build.cache \subseteq cache,
         staged \subseteq cache, \A u \in cache : lands[u] \in staged,
         \A f \in staged : \E u \in Package!Reach : f = lands[u],
         ~Package!IsLocal(build.at, z) => Package!AddressOf(z) \in cache,
         Package!Step([build EXCEPT !.owed = @ \ {z}, !.staged = staged, !.cache = cache])
  PROVE  PackTyped' /\ PackInv'
<1>1. /\ UNCHANGED <<mentions, lands>>
      /\ build' = [build EXCEPT !.owed = build.owed \ {z}, !.staged = staged, !.cache = cache]
  BY DEF Package!Step
<1>2. /\ build' \in PackStates /\ build'.phase = build.phase /\ build'.reason = build.reason
      /\ build'.left = build.left /\ build'.at = build.at /\ build'.owed = build.owed \ {z}
      /\ build'.staged = staged /\ build'.cache = cache
      /\ build'.adapted = build.adapted
  BY <1>1 DEF PackTyped, PackStates
<1>3. PackTyped'
  BY <1>1, <1>2 DEF PackTyped
<1>4. build.at \in Package!TextFiles /\ build.at # NoRow /\ build.at \in HeldFiles
  BY PackAtWork
<1>5. \A t \in build.adapted : Package!Needs(t)' \subseteq cache
  BY <1>1, SameSource DEF PackTyped, PackStates, PackInv, RewrittenIsKnown
<1>6. build'.at \in HeldFiles'
  BY <1>2, <1>4 DEF HeldFiles
<1>7. \A k \in mentions[build.at] \ (build.owed \ {z}) :
         ~Package!IsLocal(build.at, k) => Package!AddressOf(k) \in cache
  BY <1>4 DEF PackInv, RewrittenIsKnown
<1>8. RewrittenIsKnown'
  <2>1. build'.owed \subseteq mentions'[build'.at]
    BY <1>1, <1>2, <1>4 DEF PackInv, RewrittenIsKnown
  <2>2. \A k \in mentions'[build'.at] \ build'.owed :
           ~Package!IsLocal(build'.at, k) => Package!AddressOf(k) \in build'.cache
    BY <1>1, <1>2, <1>7
  <2>3. \A t \in build'.adapted : Package!Needs(t)' \subseteq build'.cache
    BY <1>2, <1>5
  <2>4. build'.at # NoRow
    BY <1>2, <1>4
  <2>5. \A k : Package!IsLocal(build'.at, k) <=> Package!IsLocal(build.at, k)'
    BY DEF Package!IsLocal
  <2> QED BY <1>6, <2>1, <2>2, <2>3, <2>4, <2>5 DEF RewrittenIsKnown, Package!AddressOf
<1>9. FilesAreReached'
  BY <1>1, <1>2, SameSource DEF PackInv, FilesAreReached, HeldFiles
<1>10. PassesAreWhole'
  BY <1>2, <1>4 DEF PackInv, PassesAreWhole
<1>11. ReasonIsGiven'
  BY <1>1, <1>2, SameSource DEF PackInv, ReasonIsGiven, Package!Running
<1> QED BY <1>3, <1>8, <1>9, <1>10, <1>11 DEF PackInv

\* A pass ends, or a check does.
LEMMA PassesOn ==
  ASSUME PackTyped, PackInv, Package!Running, build.at = NoRow,
         NEW phase \in PackPhases \ {"refused"},
         NEW left \in SUBSET Package!TextFiles, left \subseteq HeldFiles,
         Package!Step([build EXCEPT !.phase = phase, !.left = left]),
         phase # "scripts",
         phase = "pages" => "script" \in build.adapted /\ "page" \in left,
         phase \notin {"scripts", "pages"} => Package!Own \subseteq build.adapted,
         phase \in {"checking", "limits", "done"} =>
            left = {} /\ Package!StagedTexts(build) \subseteq build.adapted
  PROVE  PackTyped' /\ PackInv'
<1>1. UNCHANGED <<mentions, lands>> /\ build' = [build EXCEPT !.phase = phase, !.left = left]
  BY DEF Package!Step
<1>2. /\ build' \in PackStates /\ build'.phase = phase /\ build'.reason = build.reason
      /\ build'.left = left /\ build'.at = build.at /\ build'.owed = build.owed
      /\ build'.staged = build.staged /\ build'.cache = build.cache
      /\ build'.adapted = build.adapted
  BY <1>1 DEF PackTyped, PackStates
<1>3. PackTyped'
  BY <1>1, <1>2 DEF PackTyped
<1>4. RewrittenIsKnown'
  BY <1>1, <1>2, SameSource DEF PackTyped, PackStates, PackInv, RewrittenIsKnown
<1>5. FilesAreReached'
  BY <1>1, <1>2, SameSource DEF PackInv, FilesAreReached, HeldFiles
<1>6. PassesAreWhole'
  BY <1>2 DEF PackInv, PassesAreWhole, Package!StagedTexts
<1>7. ReasonIsGiven'
  BY <1>1, <1>2, SameSource DEF PackInv, ReasonIsGiven, Package!Running
<1> QED BY <1>3, <1>4, <1>5, <1>6, <1>7 DEF PackInv

\* A file that is fetched, and the refusals of one.
LEMMA VendorsUrl ==
  ASSUME PackTyped, PackInv, Package!Running, NEW z \in build.owed, Package!Vendor(z)
  PROVE  PackTyped' /\ PackInv'
<1> DEFINE u == Package!AddressOf(z)
           f == lands[u]
<1>1. /\ u \in Urls /\ u \in Package!Reach /\ u \notin build.cache /\ f \in Urls /\ lands[f] = f
      /\ ~Package!IsLocal(build.at, z)
  BY PackAtWork, Landed DEF Package!Vendor, Package!Known
<1>2. CASE Package!RefusedFor("origin") /\ u \notin Approved
  BY <1>1, <1>2, RefusalsEnd DEF Package!Reasons
<1>3. CASE Package!RefusedFor("fetch")
  BY <1>3, RefusalsEnd DEF Package!Reasons
<1>4. CASE Package!RefusedFor("redirect") /\ f \notin Approved
  BY <1>1, <1>4, RefusalsEnd DEF Package!Reasons
<1>5. CASE Package!RefusedFor("collision") /\ Package!Rewritten(build, f)
  <2>1. f \in Package!TextFiles /\ f \in build.adapted
    BY <1>5 DEF Package!Rewritten, PackTyped, PackStates
  <2>2. f # u
    <3>1. u \in build.adapted => u \in Package!Own \/ u \in build.cache
      BY DEF PackInv, FilesAreReached, HeldFiles
    <3>2. u \notin Package!Own
      BY <1>1, HtmlAssumption DEF Package!Own
    <3> QED BY <1>1, <2>1, <3>1, <3>2
  <2> QED BY <1>5, <2>1, <2>2, RefusalsEnd DEF Package!Reasons
<1>6. CASE Package!Step([build EXCEPT !.owed = @ \ {z}, !.staged = @ \cup {f},
                         !.cache = Package!Remembered(build, u)])
  <2> DEFINE staged == build.staged \cup {f}
             cache == build.cache \cup {u, f}
  <2>1. Package!Step([build EXCEPT !.owed = @ \ {z}, !.staged = staged, !.cache = cache])
    BY <1>6 DEF Package!Remembered
  <2>2. staged \in SUBSET Urls /\ cache \in SUBSET Urls
    BY <1>1 DEF PackTyped, PackStates
  <2>3. /\ staged \subseteq cache /\ \A v \in cache : lands[v] \in staged
        /\ \A g \in staged : \E v \in Package!Reach : g = lands[v]
    BY <1>1 DEF PackInv, FilesAreReached
  <2>4. build.staged \subseteq staged /\ build.cache \subseteq cache
        /\ Package!AddressOf(z) \in cache
    OBVIOUS
  <2> HIDE DEF staged, cache
  <2> QED BY <2>1, <2>2, <2>3, <2>4, RewritesText
<1> QED BY <1>2, <1>3, <1>4, <1>5, <1>6 DEF Package!Vendor

\* Every step of the build keeps the invariant.
LEMMA PackNext == PackTyped /\ PackInv /\ [Package!Build]_Package!vars => PackTyped' /\ PackInv'
<1> SUFFICES ASSUME PackTyped, PackInv, [Package!Build]_Package!vars PROVE PackTyped' /\ PackInv'
  OBVIOUS
<1>1. CASE UNCHANGED Package!vars
  <2>1. UNCHANGED <<mentions, lands, build>>
    BY <1>1 DEF Package!vars
  <2>2. PackTyped'
    BY <2>1 DEF PackTyped
  <2>3. RewrittenIsKnown'
    BY <2>1, SameSource DEF PackTyped, PackStates, PackInv, RewrittenIsKnown, HeldFiles,
           Package!IsLocal, Package!AddressOf
  <2>4. FilesAreReached' /\ PassesAreWhole' /\ ReasonIsGiven'
    BY <2>1, SameSource DEF PackInv, FilesAreReached, HeldFiles, PassesAreWhole,
           Package!StagedTexts, ReasonIsGiven, Package!RefusalHasReason
  <2> QED BY <2>2, <2>3, <2>4 DEF PackInv
<1>2. ASSUME Package!Running, NEW t \in Package!TextFiles, Package!TakeText(t)
      PROVE PackTyped' /\ PackInv'
  BY <1>2, TakesFile DEF Package!TakeText
<1>3. ASSUME Package!Running, Package!TakePage PROVE PackTyped' /\ PackInv'
  BY <1>3, TakesFile, RefusalsEnd DEF Package!TakePage, Package!Reasons
<1>4. ASSUME Package!Running, NEW z \in build.owed, Package!RewriteLocal(z)
      PROVE PackTyped' /\ PackInv'
  <2>1. CASE z \notin Present
    BY <1>4, <2>1, RefusalsEnd DEF Package!RewriteLocal, Package!Reasons
  <2>2. CASE z \in Present
    <3>1. Package!Step([build EXCEPT !.owed = @ \ {z}, !.staged = build.staged,
                        !.cache = build.cache])
      BY <1>4, <2>2 DEF Package!RewriteLocal, PackTyped, PackStates
    <3> QED BY <1>4, <3>1, RewritesText DEF Package!RewriteLocal, PackTyped, PackStates, PackInv,
                   FilesAreReached
  <2> QED BY <2>1, <2>2
<1>5. ASSUME Package!Running, NEW z \in build.owed, Package!UseCached(z)
      PROVE PackTyped' /\ PackInv'
  <2>1. Package!Step([build EXCEPT !.owed = @ \ {z}, !.staged = build.staged,
                      !.cache = build.cache])
    BY <1>5 DEF Package!UseCached, PackTyped, PackStates
  <2> QED BY <1>5, <2>1, RewritesText DEF Package!UseCached, Package!Known, PackTyped, PackStates,
                 PackInv, FilesAreReached
<1>6. ASSUME Package!Running, Package!WriteText \/ Package!WritePage PROVE PackTyped' /\ PackInv'
  BY <1>6, HtmlAssumption, WritesFile DEF Package!WriteText, Package!WritePage
<1>7. ASSUME Package!Running, Package!PagesNext PROVE PackTyped' /\ PackInv'
  <2>1. /\ build.at = NoRow /\ "script" \in build.adapted
        /\ Package!Step([build EXCEPT !.phase = "pages", !.left = {"page"}])
    BY <1>7 DEF Package!PagesNext, Package!PassOver, PackInv, PassesAreWhole
  <2>2. "pages" \in PackPhases \ {"refused"} /\ {"page"} \in SUBSET Package!TextFiles
        /\ {"page"} \subseteq HeldFiles
    BY DEF PackPhases, Package!TextFiles, Package!Own, HeldFiles
  <2> QED BY <1>7, <2>1, <2>2, PassesOn
<1>8. ASSUME Package!Running, Package!CloseNext PROVE PackTyped' /\ PackInv'
  <2>1. build.at = NoRow /\ Package!Own \subseteq build.adapted
    BY <1>8 DEF Package!CloseNext, Package!PassOver, PackInv, PassesAreWhole, Package!Own
  <2>2. CASE Package!RefusedFor("many")
    BY <2>2, RefusalsEnd DEF Package!Reasons
  <2>3. CASE Package!Pending(build) = {} /\ Package!Step([build EXCEPT !.phase = "checking"])
    <3>1. build.left = {} /\ build \in PackStates
      BY <1>8 DEF Package!CloseNext, Package!PassOver, PackTyped
    <3>2. Package!Step([build EXCEPT !.phase = "checking", !.left = {}])
      BY <2>3, <3>1 DEF PackStates
    <3>3. Package!StagedTexts(build) \subseteq build.adapted
      BY <2>3 DEF Package!Pending
    <3> QED BY <1>8, <2>1, <3>2, <3>3, PassesOn DEF PackPhases
  <2>4. CASE Package!Step([build EXCEPT !.phase = "closing", !.left = Package!Pending(build)])
    <3>1. Package!Pending(build) \in SUBSET Package!TextFiles
          /\ Package!Pending(build) \subseteq HeldFiles
      BY DEF Package!Pending, Package!StagedTexts, HeldFiles
    <3> QED BY <1>8, <2>1, <2>4, <3>1, PassesOn DEF PackPhases
  <2> QED BY <1>8, <2>2, <2>3, <2>4 DEF Package!CloseNext
<1>9. ASSUME Package!Running, Package!ValidateTree \/ Package!ValidateLimits
      PROVE PackTyped' /\ PackInv'
  <2>1. CASE Package!RefusedFor("unsafe") \/ Package!RefusedFor("many")
    BY <2>1, RefusalsEnd DEF Package!Reasons
  <2>2. ASSUME NEW phase \in {"limits", "done"}, Package!Step([build EXCEPT !.phase = phase]),
               build.phase \in {"checking", "limits"}
        PROVE  PackTyped' /\ PackInv'
    <3>1. /\ build.left = {} /\ build.at = NoRow /\ Package!Own \subseteq build.adapted
          /\ Package!StagedTexts(build) \subseteq build.adapted
      BY <2>2 DEF PackInv, PassesAreWhole
    <3>2. Package!Step([build EXCEPT !.phase = phase, !.left = {}])
      BY <2>2, <3>1 DEF PackTyped, PackStates
    <3> QED BY <1>9, <2>2, <3>1, <3>2, PassesOn DEF PackPhases
  <2> QED BY <1>9, <2>1, <2>2 DEF Package!ValidateTree, Package!ValidateLimits
<1>10. ASSUME Package!RefuseReference PROVE PackTyped' /\ PackInv'
  BY <1>10, RefusalsEnd DEF Package!RefuseReference, Package!Reasons
<1> QED BY <1>1, <1>2, <1>3, <1>4, <1>5, <1>6, <1>7, <1>8, <1>9, <1>10, VendorsUrl
           DEF Package!Build, Package!Next

\* A build begins with the invariant.
LEMMA PackInit == Package!Init => PackTyped /\ PackInv
<1> SUFFICES ASSUME Package!Init PROVE PackInv
  BY PackTypedInit
<1> QED BY DEF Package!Init, PackInv, RewrittenIsKnown, FilesAreReached, PassesAreWhole,
               ReasonIsGiven, Package!RefusalHasReason, HeldFiles, Package!Own

\* The invariant of the packaging.
LEMMA PackAlways == Package!Spec => [](PackTyped /\ PackInv)
BY PackInit, PackNext, PTL DEF Package!Spec

\* What the source reaches is what the finished package holds.
THEOREM PackagesClosed == Package!Spec => []Package!PackageIsClosed
<1>1. PackTyped /\ PackInv => Package!PackageIsClosed
  <2> SUFFICES ASSUME PackTyped, PackInv, build.phase = "done" PROVE Package!PackageIsClosed
    BY DEF Package!PackageIsClosed
  <2>1. Package!Own \cup Package!StagedTexts(build) \subseteq build.adapted
    BY DEF PackInv, PassesAreWhole
  <2> DEFINE T == {u \in Urls : lands[u] \in build.staged}
  <2>2. Package!Closed(T)
    <3>1. ASSUME NEW t \in Package!Own \cup ({lands[u] : u \in T} \cap Package!TextFiles)
          PROVE Package!Needs(t) \subseteq T
      <4>1. t \in build.adapted
        BY <2>1 DEF Package!StagedTexts
      <4>2. Package!Needs(t) \subseteq build.cache
        BY <4>1 DEF PackInv, RewrittenIsKnown
      <4> QED BY <4>2 DEF PackInv, FilesAreReached, PackTyped, PackStates
    <3> QED BY <3>1 DEF Package!Closed
  <2>3. \A u \in Package!Reach : lands[u] \in build.staged
    BY <2>2 DEF Package!Reach
  <2>4. build.staged = {lands[u] : u \in Package!Reach}
    BY <2>3 DEF PackInv, FilesAreReached
  <2> QED BY <2>1, <2>4 DEF Package!PackageIsClosed
<1> QED BY <1>1, PackAlways, PTL

\* A source is refused for a reason that is in it.
THEOREM RefusalsReasoned == Package!Spec => []Package!RefusalHasReason
<1>1. PackInv => Package!RefusalHasReason
  BY DEF PackInv, ReasonIsGiven
<1> QED BY <1>1, PackAlways, PTL

\* A build holds files, addresses and a reason of their kinds.
THEOREM PackTypes == Package!Spec => []Package!TypeOK
<1>1. PackTyped => Package!TypeOK
  BY DEF PackTyped, Package!TypeOK, PackStates, PackPhases
<1> QED BY <1>1, PackAlways, PTL

\* The part that is Package behaves as the component does.
LEMMA PackageBehaves == Spec => Package!Spec
<1>1. Init => Package!Init
  BY DEF Init
<1>2. [Next]_vars => [Package!Build]_Package!vars
  BY PartsNext DEF packageVars, Package!vars
<1> QED BY <1>1, <1>2, PTL DEF Spec, Package!Spec

\* Whatever the texts of a work mention and wherever addresses end, a finished package has
\* every file its texts refer to, and nothing of it is left to an outside address.
THEOREM PackagesAreClosed == Spec => []PackageIsClosed
BY PackageBehaves, PackagesClosed, PTL DEF PackageIsClosed

\* No work is refused for a reason that its source does not give.
THEOREM RefusalsHaveReasons == Spec => []RefusalHasReason
BY PackageBehaves, RefusalsReasoned, PTL DEF RefusalHasReason

-----------------------------------------------------------------------------
(***************************************************************************)
(* HtmlImports: a preview passed in the browser, and a published version   *)
(* does not change.                                                        *)
(***************************************************************************)

\* What an attempt knows.
AttemptState ==
    [way : Import!Ways, stage : Import!Stages, told : BOOLEAN, copy : Copies \cup {NoRow},
     manifest : SUBSET Capabilities, package : Import!Package \cup {NoRow},
     builds : 0..MaxBuilds]

\* The types of the attempts and of the packages.
AttemptsTyped ==
    /\ active \in Attempts \cup {NoRow} /\ att \in [Attempts -> AttemptState]
    /\ packages \subseteq Import!Package /\ approved \subseteq Import!Package
    /\ backup \in [stored : BOOLEAN, row : BOOLEAN]
    /\ \A a \in Attempts :
         /\ att[a].stage # "idle" => att[a].copy \in Copies
         /\ att[a].stage \in {"trying", "uploading", "finalizing", "answered"} =>
              att[a].package \in Import!Package

\* The stages before the first build.
BeforeBuild == {"idle", "validating", "extracting", "scanning"}

\* What an attempt is about to build asks for what its copy uses; what it has built does, and
\* what it uploads has passed.
AttemptChecked(a) ==
    /\ att[a].way # "operator" /\ att[a].stage \in {"building", "trying", "repairing"} =>
         Uses[att[a].copy] \subseteq att[a].manifest
    /\ att[a].way # "operator" /\
         att[a].stage \in {"trying", "uploading", "finalizing", "answered"} =>
         Uses[att[a].package.copy] \subseteq att[a].package.caps
    /\ att[a].stage \in {"uploading", "finalizing", "answered"} =>
         Verdicts[att[a].package.copy] = "passes"
    /\ att[a].stage \in {"finalizing", "answered"} => att[a].package \in packages
    /\ att[a].stage \in BeforeBuild => att[a].builds = 0
    /\ att[a].stage \in {"building", "repairing"} => att[a].builds < MaxBuilds

\* Every attempt.
AttemptsChecked == \A a \in Attempts : AttemptChecked(a)

\* The types of the published work and of the publications.
PublicationsTyped ==
    /\ item \in Import!Published \cup {NoRow}
    /\ iReq \in [Requests -> {Import!NoRequest} \cup [read : Import!Published \cup {NoRow},
                                                      new : Import!Published]]
    /\ effects \in [prefetched : SUBSET Import!Package, activated : BOOLEAN,
                    described : Titles \cup {NoRow}]
    /\ begun \in 0..MaxPublished /\ iCalm \in BOOLEAN
    /\ \A r \in Requests : iReq[r] # Import!NoRequest
       /\ iReq[r].read # NoRow => item \in Import!Published

\* One publication at a time has read the row that is there.
ReadIsFresh ==
    iCalm => \A r \in Requests : iReq[r] # Import!NoRequest =>
                /\ iReq[r].read = item
                /\ \A q \in Requests : iReq[q] # Import!NoRequest => q = r

-----------------------------------------------------------------------------
\* A package is no missing row.
LEMMA NoRowTypes == NoRow \notin Copies /\ MaxBuilds \in Nat /\ MaxPublished \in Nat
  BY HtmlAssumption

\* The stages that an attempt may move to.
LEMMA MovesTo ==
  ASSUME AttemptsTyped, NEW a \in Attempts, NEW stage \in Import!Stages
  PROVE  /\ att[a] \in AttemptState
         /\ Import!To(a, stage) \in AttemptState /\ Import!To(a, stage).stage = stage
         /\ Import!To(a, stage).way = att[a].way /\ Import!To(a, stage).copy = att[a].copy
         /\ Import!To(a, stage).manifest = att[a].manifest
            /\ Import!To(a, stage).package = att[a].package
         /\ Import!To(a, stage).builds = att[a].builds
<1>1. att[a] \in AttemptState
  BY DEF AttemptsTyped
<1> DEFINE one == [att[a] EXCEPT !.stage = stage]
<1>2. /\ one \in AttemptState /\ one.stage = stage /\ one.way = att[a].way
         /\ one.copy = att[a].copy
      /\ one.manifest = att[a].manifest /\ one.package = att[a].package
      /\ one.builds = att[a].builds
  BY <1>1 DEF AttemptState
<1>3. Import!To(a, stage) = [one EXCEPT !.told = FALSE]
  BY Zenon DEF Import!To
<1> HIDE DEF one
<1> QED BY <1>1, <1>2, <1>3 DEF AttemptState

\* An attempt whose new record is as it should be, while no package is lost.
LEMMA MovedAttempt ==
  ASSUME AttemptsTyped, AttemptsChecked, NEW a \in Attempts, NEW new \in AttemptState,
         Import!Move(a, new),
         packages \subseteq packages', packages' \subseteq Import!Package,
         active' \in Attempts \cup {NoRow}, UNCHANGED <<approved, backup>>,
         new.stage # "idle" => new.copy \in Copies,
         new.stage \in {"trying", "uploading", "finalizing", "answered"}
           => new.package \in Import!Package,
         new.way # "operator" /\ new.stage \in {"building", "trying", "repairing"} =>
            Uses[new.copy] \subseteq new.manifest,
         new.way # "operator" /\
         new.stage \in {"trying", "uploading", "finalizing", "answered"} =>
            Uses[new.package.copy] \subseteq new.package.caps,
         new.stage \in {"uploading", "finalizing", "answered"} =>
            Verdicts[new.package.copy] = "passes",
         new.stage \in {"finalizing", "answered"} => new.package \in packages',
         new.stage \in BeforeBuild => new.builds = 0,
         new.stage \in {"building", "repairing"} => new.builds < MaxBuilds
  PROVE  AttemptsTyped' /\ AttemptsChecked'
<1>1. /\ att' \in [Attempts -> AttemptState] /\ att'[a] = new
      /\ \A c \in Attempts : c # a => att'[c] = att[c]
  BY DEF Import!Move, AttemptsTyped
<1>2. AttemptsTyped'
  BY <1>1 DEF AttemptsTyped
<1>3. AttemptChecked(a)'
  BY <1>1, Zenon DEF AttemptChecked
<1>4. ASSUME NEW c \in Attempts, c # a PROVE AttemptChecked(c)'
  BY <1>1, <1>4 DEF AttemptsChecked, AttemptChecked
<1>5. AttemptsChecked'
  BY <1>3, <1>4 DEF AttemptsChecked
<1> QED BY <1>2, <1>5

\* An attempt that fails, or goes on before the first build.
LEMMA RestartedAttempt ==
  ASSUME AttemptsTyped, AttemptsChecked, NEW a \in Attempts,
         NEW stage \in {"failed", "extracting", "scanning"}, att[a].stage # "idle",
         stage # "failed" => att[a].stage \in BeforeBuild, Import!Only(a, Import!To(a, stage))
  PROVE  AttemptsTyped' /\ AttemptsChecked'
<1>1. /\ Import!Move(a, Import!To(a, stage)) /\ packages' = packages /\ active' = active
      /\ UNCHANGED <<approved, backup>>
  BY DEF Import!Only, Import!service
<1>2. /\ Import!To(a, stage) \in AttemptState /\ Import!To(a, stage).stage = stage
         /\ Import!To(a, stage).copy \in Copies
      /\ Import!To(a, stage).builds = att[a].builds
  BY MovesTo DEF Import!Stages, AttemptsTyped
<1>3. stage \in BeforeBuild => att[a].builds = 0
  BY DEF AttemptsChecked, AttemptChecked, BeforeBuild
<1> QED BY <1>1, <1>2, <1>3, MovedAttempt DEF AttemptsTyped, BeforeBuild

\* The service starts an attempt.
LEMMA BeginsAttempt ==
  ASSUME AttemptsTyped, AttemptsChecked, NEW a \in Attempts, NEW way \in Import!Ways,
         NEW c \in Copies,
         Import!Begin(a, way, c)
  PROVE  AttemptsTyped' /\ AttemptsChecked'
<1> DEFINE stage == IF way = "operator" THEN "building" ELSE "validating"
           asked == IF way = "operator" THEN Asked ELSE {}
           one == [Import!To(a, stage) EXCEPT !.way = way]
           two == [one EXCEPT !.copy = c]
           new == [two EXCEPT !.manifest = asked]
<1>1. stage \in Import!Stages /\ asked \in SUBSET Capabilities /\ stage # "repairing"
      /\ stage \notin {"trying", "uploading", "finalizing", "answered"}
      /\ (way # "operator" => stage # "building")
  BY HtmlAssumption DEF Import!Stages
<1>2. /\ Import!Move(a, new) /\ packages' = packages /\ UNCHANGED <<approved, backup>>
      /\ active' \in {a, active}
  BY Zenon DEF Import!Begin
<1> HIDE DEF stage, asked
<1>6. att[a].builds = 0
  BY DEF Import!Begin, AttemptsChecked, AttemptChecked, BeforeBuild
<1>3. one \in AttemptState /\ one.stage = stage /\ one.way = way /\ one.builds = 0
  BY <1>1, <1>6, MovesTo DEF AttemptState
<1> HIDE DEF one
<1>4. two \in AttemptState /\ two.stage = stage /\ two.way = way /\ two.copy = c /\ two.builds = 0
  BY <1>3 DEF AttemptState
<1> HIDE DEF two
<1>5. new \in AttemptState /\ new.stage = stage /\ new.way = way /\ new.copy = c /\ new.builds = 0
  BY <1>1, <1>4 DEF AttemptState
<1> HIDE DEF new
<1>7. 0 < MaxBuilds
  BY HtmlAssumption
<1> QED BY <1>1, <1>2, <1>5, <1>7, MovedAttempt DEF AttemptsTyped

\* It is told of a stage, and may refuse the attempt.
LEMMA TellsOperator ==
  ASSUME AttemptsTyped, AttemptsChecked, NEW a \in Attempts, Import!Tell(a)
  PROVE  AttemptsTyped' /\ AttemptsChecked'
<1>1. CASE Import!Move(a, Import!To(a, "failed"))
  BY <1>1, RestartedAttempt DEF Import!Tell, Import!Only
<1>2. CASE Import!Move(a, [att[a] EXCEPT !.told = TRUE])
  <2> DEFINE new == [att[a] EXCEPT !.told = TRUE]
  <2>1. att[a] \in AttemptState
    BY DEF AttemptsTyped
  <2>2. /\ new \in AttemptState /\ new.stage = att[a].stage /\ new.way = att[a].way
        /\ new.copy = att[a].copy /\ new.manifest = att[a].manifest
           /\ new.package = att[a].package
        /\ new.builds = att[a].builds
    BY <2>1 DEF AttemptState
  <2>3. /\ packages' = packages /\ active' = active /\ UNCHANGED <<approved, backup>>
    BY DEF Import!Tell, Import!service
  <2>4. AttemptChecked(a) /\ Import!Move(a, new)
    BY <1>2 DEF AttemptsChecked
  <2>5. /\ att[a].stage # "idle" => att[a].copy \in Copies
        /\ att[a].stage \in {"trying", "uploading", "finalizing", "answered"} =>
             att[a].package \in Import!Package
        /\ active \in Attempts \cup {NoRow} /\ packages \subseteq Import!Package
    BY DEF AttemptsTyped
  <2> HIDE DEF new
  <2> QED BY <2>2, <2>3, <2>4, <2>5, MovedAttempt DEF AttemptChecked
<1> QED BY <1>1, <1>2 DEF Import!Tell

\* The manifest of a copy asks for what it uses.
LEMMA AsksFor == \A c \in Copies, named \in SUBSET Capabilities :
                Uses[c] \subseteq Import!Granted(c, named)
                /\ Import!Granted(c, named) \in SUBSET Capabilities
  BY HtmlAssumption DEF Import!Granted

\* The scan asks for what the copy uses.
LEMMA ScansCopy ==
  ASSUME AttemptsTyped, AttemptsChecked, NEW a \in Attempts, Import!Scan(a)
  PROVE  AttemptsTyped' /\ AttemptsChecked'
<1> DEFINE one == Import!To(a, "building")
           new == [one EXCEPT !.manifest = Import!Granted(att[a].copy, {})]
<1>1. /\ Import!Move(a, new) /\ packages' = packages /\ active' = active /\ UNCHANGED <<approved,
         backup>>
      /\ att[a].stage = "scanning"
  BY DEF Import!Scan, Import!Only, Import!service, Import!Told
<1>6. att[a].builds = 0 /\ 0 < MaxBuilds
  BY <1>1, HtmlAssumption DEF AttemptsChecked, AttemptChecked, BeforeBuild
<1>2. one \in AttemptState /\ one.stage = "building" /\ one.copy = att[a].copy /\ one.builds = 0
  BY <1>6, MovesTo DEF Import!Stages
<1> HIDE DEF one
<1>3. att[a].copy \in Copies
  BY <1>1 DEF AttemptsTyped
<1>4. /\ Import!Granted(att[a].copy, {}) \in SUBSET Capabilities
         /\ Uses[att[a].copy] \subseteq Import!Granted(att[a].copy, {})
  BY <1>3, AsksFor
<1>5. /\ new \in AttemptState /\ new.stage = "building" /\ new.copy = att[a].copy
      /\ new.manifest = Import!Granted(att[a].copy, {}) /\ new.builds = 0
  BY <1>2, <1>4 DEF AttemptState
<1> HIDE DEF new
<1> QED BY <1>1, <1>3, <1>4, <1>5, <1>6, MovedAttempt DEF AttemptsTyped, BeforeBuild

\* A package holds the copy and asks for what its manifest asks for.
LEMMA BuildsPackage ==
  ASSUME AttemptsTyped, AttemptsChecked, NEW a \in Attempts, Import!Build(a)
  PROVE  AttemptsTyped' /\ AttemptsChecked'
<1> DEFINE p == [copy |-> att[a].copy, caps |-> att[a].manifest]
           one == [Import!To(a, "trying") EXCEPT !.builds = att[a].builds + 1]
           new == [one EXCEPT !.package = p]
<1>1. att[a].stage = "building" /\ att[a] \in AttemptState
  BY MovesTo DEF Import!Build, Import!Told, Import!Stages
<1>2. /\ att[a].copy \in Copies /\ att[a].builds < MaxBuilds
      /\ att[a].way # "operator" => Uses[att[a].copy] \subseteq att[a].manifest
  BY <1>1 DEF AttemptsTyped, AttemptsChecked, AttemptChecked
<1>3. p \in Import!Package
  BY <1>1, <1>2 DEF Import!Package, AttemptState
<1>4. att[a].builds + 1 \in 0..MaxBuilds
  BY <1>1, <1>2, NoRowTypes DEF AttemptState
<1>5. /\ Import!To(a, "trying") \in AttemptState /\ Import!To(a, "trying").stage = "trying"
      /\ Import!To(a, "trying").way = att[a].way /\ Import!To(a, "trying").copy = att[a].copy
      /\ Import!To(a, "trying").manifest = att[a].manifest
         /\ Import!To(a, "trying").builds = att[a].builds
  BY MovesTo DEF Import!Stages
<1>6. Import!Move(a, new) /\ packages' = packages /\ active' = active /\ UNCHANGED <<approved,
      backup>>
  BY <1>5, Zenon DEF Import!Build, Import!Only, Import!service
<1>7. /\ one \in AttemptState /\ one.stage = "trying" /\ one.way = att[a].way
         /\ one.copy = att[a].copy
      /\ one.manifest = att[a].manifest
  BY <1>4, <1>5 DEF AttemptState
<1> HIDE DEF one
<1>8. /\ new \in AttemptState /\ new.stage = "trying" /\ new.way = att[a].way
         /\ new.copy = att[a].copy
      /\ new.manifest = att[a].manifest /\ new.package = p
  BY <1>3, <1>7 DEF AttemptState
<1>9. p.copy = att[a].copy /\ p.caps = att[a].manifest
  OBVIOUS
<1> HIDE DEF new, p
<1> QED BY <1>2, <1>3, <1>6, <1>8, <1>9, MovedAttempt DEF AttemptsTyped, BeforeBuild

\* A package that has passed is uploaded, else the copy may be repaired.
LEMMA TriesPackage ==
  ASSUME AttemptsTyped, AttemptsChecked, NEW a \in Attempts, Import!Try(a)
  PROVE  AttemptsTyped' /\ AttemptsChecked'
<1>1. att[a].stage = "trying"
  BY DEF Import!Try, Import!Told
<1>2. /\ att[a].copy \in Copies /\ att[a].package \in Import!Package
      /\ att[a].way # "operator" => /\ Uses[att[a].copy] \subseteq att[a].manifest
                                    /\ Uses[att[a].package.copy] \subseteq att[a].package.caps
  BY <1>1 DEF AttemptsTyped, AttemptsChecked, AttemptChecked
<1>3. ASSUME NEW stage \in {"uploading", "repairing"}, Import!Only(a, Import!To(a, stage)),
             stage = "uploading" => Verdicts[att[a].package.copy] = "passes",
             stage = "repairing" => att[a].builds < MaxBuilds
      PROVE  AttemptsTyped' /\ AttemptsChecked'
  <2>1. /\ Import!Move(a, Import!To(a, stage)) /\ packages' = packages /\ active' = active
        /\ UNCHANGED <<approved, backup>>
    BY <1>3 DEF Import!Only, Import!service
  <2>2. /\ Import!To(a, stage) \in AttemptState /\ Import!To(a, stage).stage = stage
        /\ Import!To(a, stage).way = att[a].way /\ Import!To(a, stage).copy = att[a].copy
        /\ Import!To(a, stage).manifest = att[a].manifest
           /\ Import!To(a, stage).package = att[a].package
        /\ Import!To(a, stage).builds = att[a].builds
    BY MovesTo DEF Import!Stages
  <2> QED BY <1>2, <1>3, <2>1, <2>2, MovedAttempt DEF AttemptsTyped, BeforeBuild
<1>4. CASE Import!Only(a, Import!To(a, "failed"))
  BY <1>1, <1>4, RestartedAttempt
<1>5. \/ Verdicts[att[a].package.copy] = "passes" /\ Import!Only(a, Import!To(a, "uploading"))
      \/ Import!Repairable(a) /\ Import!Only(a, Import!To(a, "repairing"))
      \/ Import!Only(a, Import!To(a, "failed"))
  BY Zenon DEF Import!Try
<1> QED BY <1>3, <1>4, <1>5 DEF Import!Repairable

\* A patch that is applied asks for what the new copy uses, one that is refused leaves both.
LEMMA RepairsCopy ==
  ASSUME AttemptsTyped, AttemptsChecked, NEW a \in Attempts, Import!Repair(a)
  PROVE  AttemptsTyped' /\ AttemptsChecked'
<1> DEFINE one == Import!To(a, "building")
<1>1. att[a].stage = "repairing"
  BY DEF Import!Repair, Import!Told
<1>2. /\ att[a].copy \in Copies /\ att[a].builds < MaxBuilds
      /\ att[a].way # "operator" => Uses[att[a].copy] \subseteq att[a].manifest
  BY <1>1 DEF AttemptsTyped, AttemptsChecked, AttemptChecked
<1>3. /\ one \in AttemptState /\ one.stage = "building" /\ one.way = att[a].way
      /\ one.manifest = att[a].manifest /\ one.builds = att[a].builds
  BY MovesTo DEF Import!Stages
<1> HIDE DEF one
<1>4. ASSUME NEW new \in AttemptState, Import!Only(a, new), new.stage = "building",
             new.copy \in Copies,
             new.way # "operator" => Uses[new.copy] \subseteq new.manifest,
             new.builds = att[a].builds
      PROVE  AttemptsTyped' /\ AttemptsChecked'
  <2>1. Import!Move(a, new) /\ packages' = packages /\ active' = active /\ UNCHANGED <<approved,
        backup>>
    BY <1>4 DEF Import!Only, Import!service
  <2> QED BY <1>2, <1>4, <2>1, MovedAttempt DEF AttemptsTyped, BeforeBuild
<1>5. ASSUME NEW c \in Copies, NEW named \in SUBSET Capabilities,
             Import!Only(a, [one EXCEPT !.copy = c, !.manifest = Import!Granted(c, named)])
      PROVE  AttemptsTyped' /\ AttemptsChecked'
  <2> DEFINE new == [one EXCEPT !.copy = c, !.manifest = Import!Granted(c, named)]
  <2>1. Import!Granted(c, named) \in SUBSET Capabilities
        /\ Uses[c] \subseteq Import!Granted(c, named)
    BY AsksFor
  <2>2. /\ new \in AttemptState /\ new.stage = "building" /\ new.copy = c
        /\ new.manifest = Import!Granted(c, named) /\ new.builds = att[a].builds
    BY <1>3, <2>1 DEF AttemptState
  <2> HIDE DEF new
  <2> QED BY <1>4, <1>5, <2>1, <2>2 DEF new
<1>6. ASSUME Import!Only(a, [one EXCEPT !.copy = att[a].copy])
      PROVE  AttemptsTyped' /\ AttemptsChecked'
  <2> DEFINE new == [one EXCEPT !.copy = att[a].copy]
  <2>1. /\ new \in AttemptState /\ new.stage = "building" /\ new.copy = att[a].copy
        /\ new.manifest = att[a].manifest /\ new.builds = att[a].builds /\ new.way = att[a].way
    BY <1>2, <1>3 DEF AttemptState
  <2> HIDE DEF new
  <2> QED BY <1>2, <1>4, <1>6, <2>1 DEF new
<1> QED BY <1>5, <1>6, Zenon DEF Import!Repair, Import!Refused, one

\* A package is uploaded, and the preview answered.
LEMMA UploadsPackage ==
  ASSUME AttemptsTyped, AttemptsChecked, NEW a \in Attempts, Import!Upload(a) \/ Import!Answer(a)
  PROVE  AttemptsTyped' /\ AttemptsChecked'
<1>1. PICK stage \in {"finalizing", "answered"} :
        /\ Import!Move(a, Import!To(a, stage)) /\ active' = active /\ UNCHANGED <<approved,
           backup>>
        /\ att[a].stage \in {"uploading", "finalizing"}
        /\ packages \subseteq packages' /\ att[a].package \in packages'
        /\ packages' \subseteq packages \cup {att[a].package}
  BY DEF Import!Upload, Import!Answer, Import!Told, Import!Only, Import!service, AttemptsChecked,
         AttemptChecked
<1>2. /\ att[a].copy \in Copies /\ att[a].package \in Import!Package
      /\ att[a].way # "operator" => Uses[att[a].package.copy] \subseteq att[a].package.caps
      /\ Verdicts[att[a].package.copy] = "passes"
  BY <1>1 DEF AttemptsTyped, AttemptsChecked, AttemptChecked
<1>3. /\ Import!To(a, stage) \in AttemptState /\ Import!To(a, stage).stage = stage
      /\ Import!To(a, stage).way = att[a].way /\ Import!To(a, stage).copy = att[a].copy
      /\ Import!To(a, stage).manifest = att[a].manifest
         /\ Import!To(a, stage).package = att[a].package
  BY MovesTo DEF Import!Stages
<1> QED BY <1>1, <1>2, <1>3, MovedAttempt DEF AttemptsTyped, BeforeBuild

\* Steps that leave the attempts and the packages alone.
LEMMA AttemptsStay ==
  ASSUME AttemptsTyped, AttemptsChecked, UNCHANGED <<att, packages, active>>,
         approved' \subseteq Import!Package, backup' \in [stored : BOOLEAN, row : BOOLEAN]
  PROVE  AttemptsTyped' /\ AttemptsChecked'
  BY DEF AttemptsTyped, AttemptsChecked, AttemptChecked

\* Every step keeps the attempts in order.
LEMMA AttemptsNext == AttemptsTyped /\ AttemptsChecked
/\ [Import!Next]_Import!vars => AttemptsTyped' /\ AttemptsChecked'
<1> SUFFICES ASSUME AttemptsTyped, AttemptsChecked, [Import!Next]_Import!vars
             PROVE AttemptsTyped' /\ AttemptsChecked'
  OBVIOUS
<1>1. ASSUME NEW a \in Attempts, Import!Validate(a) \/ Import!Extract(a)
      PROVE AttemptsTyped' /\ AttemptsChecked'
  BY <1>1, RestartedAttempt DEF Import!Validate, Import!Extract, Import!Told, BeforeBuild
<1>2. ASSUME NEW a \in Attempts, Import!Fail(a) PROVE AttemptsTyped' /\ AttemptsChecked'
  BY <1>2, RestartedAttempt DEF Import!Fail, Import!Only
<1>3. ASSUME NEW a \in Attempts, Import!GiveUp(a) PROVE AttemptsTyped' /\ AttemptsChecked'
  BY <1>3, RestartedAttempt DEF Import!GiveUp, Import!Told
<1>4. CASE Import!StoreBackup \/ Import!RecordBackup
  BY <1>4, AttemptsStay DEF Import!StoreBackup, Import!RecordBackup, AttemptsTyped
<1>5. ASSUME NEW p \in packages, Import!Approve(p) PROVE AttemptsTyped' /\ AttemptsChecked'
  BY <1>5, AttemptsStay DEF Import!Approve, AttemptsTyped
<1>6. ASSUME NEW r \in Requests, NEW new, Import!BeginPublish(r, new)
      PROVE AttemptsTyped' /\ AttemptsChecked'
  BY <1>6, AttemptsStay DEF Import!BeginPublish, Import!Open, Import!service, AttemptsTyped
<1>7. ASSUME NEW r \in Requests, NEW a, Import!BeginCommand(r, a)
      PROVE AttemptsTyped' /\ AttemptsChecked'
  BY <1>7, AttemptsStay DEF Import!BeginCommand, Import!Open, Import!service, AttemptsTyped
<1>8. ASSUME NEW r \in Requests, Import!CommitPublish(r) \/ Import!RefusePublish(r)
      PROVE  AttemptsTyped' /\ AttemptsChecked'
  BY <1>8, AttemptsStay DEF Import!CommitPublish, Import!RefusePublish, Import!service,
         AttemptsTyped
<1>9. CASE UNCHANGED Import!vars
  BY <1>9, AttemptsStay DEF Import!vars, AttemptsTyped
<1> QED BY <1>1, <1>2, <1>3, <1>4, <1>5, <1>6, <1>7, <1>8, <1>9, BeginsAttempt, TellsOperator,
           ScansCopy, BuildsPackage, TriesPackage, RepairsCopy, UploadsPackage DEF Import!Next

\* No attempt has begun.
LEMMA AttemptsInit == Import!Init => AttemptsTyped /\ AttemptsChecked
<1> SUFFICES ASSUME Import!Init PROVE AttemptsTyped /\ AttemptsChecked
  OBVIOUS
<1>1. Import!Idle \in AttemptState /\ Import!Idle.stage = "idle" /\ Import!Idle.builds = 0
  BY HtmlAssumption DEF Import!Idle, AttemptState, Import!Ways, Import!Stages
<1>2. \A a \in Attempts : att[a] = Import!Idle
  BY DEF Import!Init
<1>3. AttemptsTyped
  BY <1>1, <1>2, HtmlAssumption DEF Import!Init, AttemptsTyped, Import!Package
<1>4. AttemptsChecked
  BY <1>1, <1>2 DEF AttemptsChecked, AttemptChecked
<1> QED BY <1>3, <1>4

\* The invariant of the attempts.
LEMMA AttemptsAlways == Import!Spec => [](AttemptsTyped /\ AttemptsChecked)
BY AttemptsInit, AttemptsNext, PTL DEF Import!Spec

\* A preview that an import answers has passed and names the capabilities its files use.
THEOREM PreviewsChecked == Import!Spec => []Import!PreviewIsChecked
<1>1. AttemptsChecked => Import!PreviewIsChecked
  BY DEF AttemptsChecked, AttemptChecked, Import!PreviewIsChecked
<1> QED BY <1>1, AttemptsAlways, PTL

-----------------------------------------------------------------------------
\* A published version is no missing row, and a publication under way is none that is over.
LEMMA PublishedRows ==
  /\ \A p \in Import!Published : p \in [package : Import!Package, caps : SUBSET Capabilities,
                                        title : Titles]
  /\ Import!NoRequest.new = NoRow /\ Import!NoRequest.read = NoRow
  BY DEF Import!Published, Import!NoRequest

\* With the row that was read still there, what is written is the new version.
LEMMA Overwrites ==
  ASSUME NEW old \in Import!Published, NEW new \in Import!Published, NEW is \in Import!Published
  PROVE  /\ Import!Over(old, new, is) \in Import!Published
         /\ old = is => Import!Over(old, new, is) = new
<1> DEFINE to == Import!Over(old, new, is)
<1>1. to = [f \in {"package", "caps", "title"} |-> IF new[f] = old[f] THEN is[f] ELSE new[f]]
  BY DEF Import!Over
<1>2. /\ DOMAIN to = {"package", "caps", "title"}
      /\ to["package"] = IF new["package"] = old["package"] THEN is["package"] ELSE new["package"]
      /\ to["caps"] = IF new["caps"] = old["caps"] THEN is["caps"] ELSE new["caps"]
      /\ to["title"] = IF new["title"] = old["title"] THEN is["title"] ELSE new["title"]
      /\ to = [f \in {"package", "caps", "title"} |-> to[f]]
  BY <1>1
<1> HIDE DEF to
<1>3. /\ to["package"] \in Import!Package /\ to["caps"] \in SUBSET Capabilities
         /\ to["title"] \in Titles
  BY <1>2 DEF Import!Published
<1>4. to = [package |-> to["package"], caps |-> to["caps"], title |-> to["title"]]
  BY <1>2
<1>5. to \in Import!Published
  BY <1>3, <1>4 DEF Import!Published
<1>6. old = is => to["package"] = new["package"] /\ to["caps"] = new["caps"]
      /\ to["title"] = new["title"]
  BY <1>2
<1>7. old = is => to = new
  BY <1>5, <1>6 DEF Import!Published
<1> QED BY <1>5, <1>7 DEF to

\* A publication begins: it is the only one while none have overlapped.
LEMMA Opens ==
  ASSUME PublicationsTyped, ReadIsFresh, NEW r \in Requests, NEW new \in Import!Published,
         Import!Open(r, new)
  PROVE  PublicationsTyped' /\ ReadIsFresh'
<1> DEFINE q == [read |-> item, new |-> new]
<1>1. /\ iReq' = [iReq EXCEPT ![r] = q] /\ UNCHANGED <<item, effects>>
      /\ begun' \in 0..MaxPublished
         /\ iCalm' = (iCalm /\ \A p \in Requests : iReq[p] = Import!NoRequest)
  BY NoRowTypes DEF Import!Open, PublicationsTyped
<1>2. q \in [read : Import!Published \cup {NoRow}, new : Import!Published] /\ q.read = item
  BY DEF PublicationsTyped
<1> HIDE DEF q
<1>3. /\ iReq' \in [Requests -> {Import!NoRequest} \cup [read : Import!Published \cup {NoRow},
                                                         new : Import!Published]]
      /\ iReq'[r] = q /\ \A p \in Requests : p # r => iReq'[p] = iReq[p]
  BY <1>1, <1>2 DEF PublicationsTyped
<1>4. PublicationsTyped'
  BY <1>1, <1>2, <1>3 DEF PublicationsTyped
<1>5. ReadIsFresh'
  BY <1>1, <1>2, <1>3 DEF ReadIsFresh
<1> QED BY <1>4, <1>5

\* A publication under way is well-typed, and what it has read is the row that is there.
LEMMA Publishing ==
  ASSUME PublicationsTyped, NEW r \in Requests, iReq[r] # Import!NoRequest
  PROVE  iReq[r].read \in Import!Published \cup {NoRow} /\ iReq[r].new \in Import!Published
  BY DEF PublicationsTyped

\* It ends.
LEMMA Closes ==
  ASSUME PublicationsTyped, ReadIsFresh, NEW r \in Requests,
         Import!CommitPublish(r) \/ Import!RefusePublish(r)
  PROVE  /\ PublicationsTyped' /\ ReadIsFresh'
         /\ iCalm /\ item # NoRow /\ item' # NoRow /\ item'.package = item.package => item' = item
<1>1. /\ iReq[r] # Import!NoRequest /\ iReq' = [iReq EXCEPT ![r] = Import!NoRequest]
         /\ UNCHANGED <<begun, iCalm>>
      /\ iReq[r].read \in Import!Published \cup {NoRow} /\ iReq[r].new \in Import!Published
  BY Publishing DEF Import!CommitPublish, Import!RefusePublish
<1>2. iReq' \in [Requests -> {Import!NoRequest} \cup [read : Import!Published \cup {NoRow},
                                                      new : Import!Published]]
      /\ iReq'[r] = Import!NoRequest /\ \A p \in Requests : p # r => iReq'[p] = iReq[p]
  BY <1>1 DEF PublicationsTyped
<1>3. iCalm => /\ iReq[r].read = item /\ \A p \in Requests : iReq'[p] = Import!NoRequest
  BY <1>1, <1>2 DEF ReadIsFresh
<1>4. ReadIsFresh'
  BY <1>1, <1>3 DEF ReadIsFresh
<1>5. CASE Import!RefusePublish(r)
  BY <1>1, <1>2, <1>4, <1>5 DEF Import!RefusePublish, PublicationsTyped
<1>6. CASE Import!CommitPublish(r) /\ iReq[r].read = NoRow
  <2>1. /\ item = NoRow /\ item' = iReq[r].new
        /\ effects' = [prefetched |-> effects.prefetched \cup {iReq[r].new.package},
                       activated |-> TRUE, described |-> iReq[r].new.title]
    BY <1>6 DEF Import!CommitPublish, Import!Inserts
  <2>2. effects' \in [prefetched : SUBSET Import!Package, activated : BOOLEAN,
                      described : Titles \cup {NoRow}]
    BY <1>1, <2>1 DEF PublicationsTyped, Import!Published
  <2> QED BY <1>1, <1>2, <1>4, <2>1, <2>2 DEF PublicationsTyped
<1>7. CASE Import!CommitPublish(r) /\ iReq[r].read # NoRow /\ item \in Import!Published
  <2>1. /\ item' = Import!Over(iReq[r].read, iReq[r].new, item) /\ Import!Agrees(r)
        /\ effects' = [prefetched |-> effects.prefetched \cup {iReq[r].new.package},
                       activated |-> TRUE, described |-> iReq[r].new.title]
    BY <1>7 DEF Import!CommitPublish, Import!Inserts
  <2>2. effects' \in [prefetched : SUBSET Import!Package, activated : BOOLEAN,
                      described : Titles \cup {NoRow}]
    BY <1>1, <2>1 DEF PublicationsTyped, Import!Published
  <2>3. item' \in Import!Published /\ (iReq[r].read = item => item' = iReq[r].new)
    BY <1>1, <1>7, <2>1, Overwrites
  <2>4. iCalm /\ item'.package = item.package => item' = item
    BY <1>3, <1>7, <2>1, <2>3 DEF Import!Agrees
  <2> QED BY <1>1, <1>2, <1>4, <2>2, <2>3, <2>4 DEF PublicationsTyped
<1> QED BY <1>1, <1>5, <1>6, <1>7 DEF PublicationsTyped

\* Steps that leave the publications alone.
LEMMA PublicationsStay ==
  ASSUME PublicationsTyped, ReadIsFresh, UNCHANGED Import!publishing
  PROVE  PublicationsTyped' /\ ReadIsFresh'
  BY DEF Import!publishing, PublicationsTyped, ReadIsFresh

\* Every step keeps the types and what is read.
LEMMA PublicationsNext ==
  ASSUME AttemptsTyped, PublicationsTyped, ReadIsFresh, [Import!Next]_Import!vars
  PROVE  /\ PublicationsTyped' /\ ReadIsFresh'
         /\ iCalm /\ item # NoRow /\ item' # NoRow /\ item'.package = item.package => item' = item
<1>1. ASSUME UNCHANGED Import!publishing PROVE PublicationsTyped' /\ ReadIsFresh' /\ item' = item
  BY <1>1, PublicationsStay DEF Import!publishing
<1>2. ASSUME NEW a \in Attempts, NEW new, Import!Only(a, new) PROVE UNCHANGED Import!publishing
  BY <1>2 DEF Import!Only
<1>3. ASSUME NEW a \in Attempts, NEW way, NEW c, Import!Begin(a, way, c)
      PROVE UNCHANGED Import!publishing
  BY <1>3 DEF Import!Begin
<1>4. ASSUME NEW a \in Attempts,
             Import!Tell(a) \/ Import!Validate(a) \/ Import!Extract(a) \/ Import!Scan(a)
             \/ Import!Build(a) \/ Import!Upload(a) \/ Import!Answer(a)
             \/ Import!GiveUp(a) \/ Import!Fail(a)
      PROVE  UNCHANGED Import!publishing
  BY <1>2, <1>4 DEF Import!Tell, Import!Validate, Import!Extract, Import!Scan, Import!Build,
         Import!Upload, Import!Answer, Import!GiveUp, Import!Fail
<1>5. ASSUME NEW a \in Attempts, Import!Try(a) PROVE UNCHANGED Import!publishing
  <2>1. Import!Only(a, Import!To(a, "uploading")) \/ Import!Only(a, Import!To(a, "repairing"))
        \/ Import!Only(a, Import!To(a, "failed"))
    BY <1>5, Zenon DEF Import!Try
  <2> QED BY <1>2, <2>1
<1>6. ASSUME NEW a \in Attempts, Import!Repair(a) PROVE UNCHANGED Import!publishing
  BY <1>2, <1>6, Zenon DEF Import!Repair
<1>7. CASE Import!StoreBackup \/ Import!RecordBackup \/ (\E p \in packages : Import!Approve(p))
      \/ UNCHANGED Import!vars
  BY <1>1, <1>7 DEF Import!StoreBackup, Import!RecordBackup, Import!Approve, Import!vars,
         Import!publishing
<1>8. ASSUME NEW r \in Requests, NEW new \in Import!Published, Import!BeginPublish(r, new)
      PROVE  PublicationsTyped' /\ ReadIsFresh' /\ item' = item
  BY <1>8, Opens DEF Import!BeginPublish, Import!Open
<1>9. ASSUME NEW r \in Requests, NEW a \in Attempts, Import!BeginCommand(r, a)
      PROVE  PublicationsTyped' /\ ReadIsFresh' /\ item' = item
  <2>1. att[a].package \in Import!Package
    BY <1>9 DEF Import!BeginCommand, AttemptsTyped
  <2>2. PICK t \in Titles :
          Import!Open(r, [package |-> att[a].package, caps |-> att[a].package.caps, title |-> t])
    BY <1>9 DEF Import!BeginCommand
  <2>3. [package |-> att[a].package, caps |-> att[a].package.caps, title |-> t]
          \in Import!Published
    BY <2>1 DEF Import!Published, Import!Package
  <2> QED BY <2>2, <2>3, Opens DEF Import!Open
<1> QED BY <1>1, <1>3, <1>4, <1>5, <1>6, <1>7, <1>8, <1>9, Closes DEF Import!Next

\* At first nothing is published.
LEMMA PublicationsInit == Import!Init => PublicationsTyped /\ ReadIsFresh
  BY HtmlAssumption DEF Import!Init, PublicationsTyped, ReadIsFresh, Import!Package

\* The invariant of the publications.
LEMMA PublicationsAlways ==
  Import!Spec => [](AttemptsTyped /\ PublicationsTyped /\ ReadIsFresh)
<1>1. AttemptsTyped /\ PublicationsTyped /\ ReadIsFresh /\ [Import!Next]_Import!vars
      => PublicationsTyped' /\ ReadIsFresh'
  BY PublicationsNext
<1> QED BY <1>1, AttemptsAlways, PublicationsInit, PTL DEF Import!Spec

\* A version that is published again says the same, while publications do not overlap.
THEOREM VersionsFixed == Import!Spec => Import!VersionIsFixed
<1>1. AttemptsTyped /\ PublicationsTyped /\ ReadIsFresh /\ [Import!Next]_Import!vars
      => [iCalm /\ item # NoRow /\ item' # NoRow /\ item'.package = item.package
          => item' = item]_<<item, iCalm>>
  BY PublicationsNext
<1> QED BY <1>1, PublicationsAlways, PTL DEF Import!Spec, Import!VersionIsFixed

\* The types.
THEOREM ImportTypes == Import!Spec => []Import!TypeOK
<1>1. AttemptsTyped /\ PublicationsTyped => Import!TypeOK
  BY DEF AttemptsTyped, PublicationsTyped, Import!TypeOK, AttemptState
<1> QED BY <1>1, AttemptsAlways, PublicationsAlways, PTL

\* The part that is Import behaves as the component does.
LEMMA ImportBehaves == Spec => Import!Spec
<1>1. Init => Import!Init
  BY DEF Init
<1>2. [Next]_vars => [Import!Next]_Import!vars
  BY PartsNext DEF importVars, Import!vars
<1> QED BY <1>1, <1>2, PTL DEF Spec, Import!Spec

\* However attempts are retried, repaired and told what to do, a preview that is offered has
\* passed and asks for the capabilities its files use.
THEOREM PreviewsAreChecked == Spec => []PreviewIsChecked
BY ImportBehaves, PreviewsChecked, PTL DEF PreviewIsChecked

\* While publications follow one another, a version that is published keeps its list of
\* capabilities and its title.
THEOREM VersionsAreFixed == Spec => VersionIsFixed
BY ImportBehaves, VersionsFixed, PTL DEF VersionIsFixed

-----------------------------------------------------------------------------
(***************************************************************************)
(* RecommendationCycle: a cycle that ends has played the whole pool.       *)
(***************************************************************************)

\* A request under way.
CycleRequest ==
    [pc : {"pooled", "exhausted", "reset", "serve"}, token : 0..CycleItems \cup {NoRow},
     pool : Seq(Cycle!Ids), seen : SUBSET Cycle!Ids, from : Nat \cup {NoRow}]

\* The types of the pool and of the requests; what has been played is what Redis holds.
CycleTyped ==
    /\ yPool \in Seq(Cycle!Ids) /\ ySeen \subseteq Cycle!Ids /\ played = ySeen
       /\ alone \in BOOLEAN
    /\ yReq \in [Requests -> {Cycle!Idle} \cup CycleRequest]

\* While requests follow one another, a request has read the pool that is there, and one that
\* ends the cycle has found all of it played.
CycleIsFresh ==
    alone =>
        /\ \A r, q \in Requests : yReq[r] # Cycle!Idle /\ yReq[q] # Cycle!Idle => r = q
        /\ \A r \in Requests :
             /\ yReq[r].pc \in {"pooled", "exhausted", "reset"}
                  => Cycle!Range(yReq[r].pool) = Cycle!Range(yPool)
             /\ yReq[r].pc \in {"exhausted", "reset"} => Cycle!Range(yPool) \subseteq ySeen

\* A sequence without one of its items.
LEMMA RemovedItem ==
  ASSUME NEW s \in Seq(Cycle!Ids), NEW n \in DOMAIN s
  PROVE  /\ Cycle!RemoveAt(s, n) \in Seq(Cycle!Ids)
         /\ Len(Cycle!RemoveAt(s, n)) = Len(s) - 1
         /\ \A k \in 1..Len(s) - 1 : Cycle!RemoveAt(s, n)[k] = IF k < n THEN s[k] ELSE s[k + 1]
<1>1. Len(s) \in Nat /\ n \in 1..Len(s) /\ \A k \in 1..Len(s) : s[k] \in Cycle!Ids
  OBVIOUS
<1> DEFINE a == SubSeq(s, 1, n - 1)
           b == SubSeq(s, n + 1, Len(s))
<1>2. a \in Seq(Cycle!Ids) /\ Len(a) = n - 1 /\ \A k \in 1..n - 1 : a[k] = s[k]
  BY <1>1, SubSeqProperties
<1>3. b \in Seq(Cycle!Ids) /\ Len(b) = Len(s) - n /\ \A k \in 1..Len(s) - n : b[k] = s[n + k]
  BY <1>1, SubSeqProperties
<1>4. Cycle!RemoveAt(s, n) = a \o b
  BY DEF Cycle!RemoveAt
<1> HIDE DEF a, b
<1>5. /\ a \o b \in Seq(Cycle!Ids) /\ Len(a \o b) = Len(s) - 1
      /\ \A k \in 1..Len(s) - 1 : (a \o b)[k] = IF k =< n - 1 THEN a[k] ELSE b[k - (n - 1)]
  <2>1. Len(a) + Len(b) = Len(s) - 1 /\ Len(a) = n - 1
    BY <1>1, <1>2, <1>3
  <2>2. /\ a \o b \in Seq(Cycle!Ids) /\ Len(a \o b) = Len(a) + Len(b)
        /\ \A k \in 1..Len(a) + Len(b) : (a \o b)[k] = IF k =< Len(a) THEN a[k] ELSE b[k - Len(a)]
    BY <1>2, <1>3, ConcatProperties
  <2> QED BY <2>1, <2>2
<1>6. ASSUME NEW k \in 1..Len(s) - 1 PROVE (a \o b)[k] = IF k < n THEN s[k] ELSE s[k + 1]
  <2>1. CASE k < n
    BY <1>1, <1>2, <1>5, <2>1
  <2>2. CASE k >= n
    <3>1. k - (n - 1) \in 1..Len(s) - n /\ n + (k - (n - 1)) = k + 1
      <4>1. k \in Int /\ n \in Int /\ Len(s) \in Int /\ k >= n /\ k =< Len(s) - 1
        BY <1>1, <2>2
      <4> HIDE DEF a, b
      <4> QED BY <4>1
    <3> DEFINE j == k - (n - 1)
    <3>2. (a \o b)[k] = b[j]
      BY <1>1, <1>5, <2>2
    <3>3. b[j] = s[k + 1]
      <4>1. b[j] = s[n + j]
        <5> HIDE DEF j
        <5> QED BY <1>3, <3>1 DEF j
      <4>2. n + j = k + 1
        BY <3>1
      <4> HIDE DEF j
      <4> QED BY <4>1, <4>2, Zenon
    <3>4. ~(k < n)
      BY <1>1, <2>2
    <3> HIDE DEF j
    <3> QED BY <3>2, <3>3, <3>4, Zenon
  <2>3. k < n \/ k >= n
    BY <1>1
  <2> QED BY <2>1, <2>2, <2>3, Zenon
<1> QED BY <1>4, <1>5, <1>6

\* A sequence with one item more.
LEMMA InsertedItem ==
  ASSUME NEW s \in Seq(Cycle!Ids), NEW at \in 1..Len(s) + 1, NEW i \in Cycle!Ids
  PROVE  Cycle!InsertAt(s, at, i) \in Seq(Cycle!Ids)
<1>1. Len(s) \in Nat /\ \A k \in 1..Len(s) : s[k] \in Cycle!Ids
  OBVIOUS
<1>2. SubSeq(s, 1, at - 1) \in Seq(Cycle!Ids)
  BY <1>1, SubSeqProperties
<1>3. SubSeq(s, at, Len(s)) \in Seq(Cycle!Ids)
  BY <1>1, SubSeqProperties
<1>4. <<i>> \in Seq(Cycle!Ids)
  OBVIOUS
<1> DEFINE a == SubSeq(s, 1, at - 1)
           b == SubSeq(s, at, Len(s))
<1>5. Cycle!InsertAt(s, at, i) = a \o <<i>> \o b
  BY DEF Cycle!InsertAt
<1>6. a \in Seq(Cycle!Ids) /\ b \in Seq(Cycle!Ids)
  BY <1>2, <1>3
<1> HIDE DEF a, b
<1> QED BY <1>4, <1>5, <1>6

\* Pinning an item changes the order only.
LEMMA PinnedItems ==
  ASSUME NEW s \in Seq(Cycle!Ids), NEW t
  PROVE  Cycle!Pinned(s, t) \in Seq(Cycle!Ids) /\ Cycle!Range(Cycle!Pinned(s, t)) = Cycle!Range(s)
<1>1. CASE t \notin Cycle!Range(s)
  BY <1>1 DEF Cycle!Pinned
<1>2. CASE t \in Cycle!Range(s)
  <2> DEFINE n == CHOOSE k \in DOMAIN s : s[k] = t
             rest == Cycle!RemoveAt(s, n)
             to == <<t>> \o rest
  <2>1. n \in DOMAIN s /\ s[n] = t
    BY <1>2 DEF Cycle!Range
  <2>2. Cycle!Pinned(s, t) = to
    BY <1>2 DEF Cycle!Pinned, Cycle!Without, Cycle!Place
  <2> HIDE DEF n
  <2>3. /\ rest \in Seq(Cycle!Ids) /\ Len(rest) = Len(s) - 1
        /\ \A k \in 1..Len(s) - 1 : rest[k] = IF k < n THEN s[k] ELSE s[k + 1]
    BY <2>1, RemovedItem
  <2>4. Len(s) \in Nat /\ n \in 1..Len(s) /\ DOMAIN s = 1..Len(s) /\ t \in Cycle!Ids
    BY <2>1
  <2> HIDE DEF rest
  <2>5. /\ to \in Seq(Cycle!Ids) /\ DOMAIN to = 1..Len(s) /\ to[1] = t
        /\ \A k \in 1..Len(s) - 1 : to[k + 1] = rest[k]
    BY <2>3, <2>4
  <2> HIDE DEF to
  <2>6. \A k \in 1..Len(s) : \E j \in DOMAIN s : to[k] = s[j]
    <3>1. ASSUME NEW k \in 1..Len(s), k # 1 PROVE \E j \in DOMAIN s : to[k] = s[j]
      <4>1. k - 1 \in 1..Len(s) - 1 /\ (k - 1) + 1 = k
        BY <2>4, <3>1
      <4>2. to[k] = IF k - 1 < n THEN s[k - 1] ELSE s[k]
        BY <2>3, <2>5, <4>1
      <4> QED BY <2>4, <4>1, <4>2
    <3> QED BY <2>1, <2>5, <3>1
  <2>7. \A j \in DOMAIN s : \E k \in DOMAIN to : s[j] = to[k]
    <3>1. ASSUME NEW j \in DOMAIN s, j < n PROVE s[j] = to[j + 1] /\ j + 1 \in DOMAIN to
      BY <2>3, <2>4, <2>5, <3>1
    <3>2. ASSUME NEW j \in DOMAIN s, j > n PROVE s[j] = to[j] /\ j \in DOMAIN to
      <4>1. j - 1 \in 1..Len(s) - 1 /\ (j - 1) + 1 = j /\ ~(j - 1 < n)
        BY <2>4, <3>2
      <4> QED BY <2>3, <2>4, <2>5, <4>1
    <3>3. s[n] = to[1] /\ 1 \in DOMAIN to
      BY <2>1, <2>4, <2>5
    <3>4. \A j \in DOMAIN s : j < n \/ j = n \/ j > n
      BY <2>4
    <3> QED BY <3>1, <3>2, <3>3, <3>4
  <2>8. Cycle!Range(to) = Cycle!Range(s)
    <3>1. \A k \in DOMAIN to : to[k] \in Cycle!Range(s)
      BY <2>4, <2>5, <2>6, Zenon DEF Cycle!Range
    <3>2. \A j \in DOMAIN s : s[j] \in Cycle!Range(to)
      BY <2>7, Zenon DEF Cycle!Range
    <3>3. Cycle!Range(to) = {to[k] : k \in DOMAIN to} /\ Cycle!Range(s) = {s[k] : k \in DOMAIN s}
      BY Zenon DEF Cycle!Range
    <3> QED BY <3>1, <3>2, <3>3
  <2> QED BY <2>2, <2>5, <2>8
<1> QED BY <1>1, <1>2

-----------------------------------------------------------------------------
\* The other actions leave a request as it is.
LEMMA OtherRequests ==
  ASSUME CycleTyped, NEW r \in Requests, NEW q \in {Cycle!Idle} \cup CycleRequest,
         yReq' = [yReq EXCEPT ![r] = q]
  PROVE  /\ yReq' \in [Requests -> {Cycle!Idle} \cup CycleRequest] /\ yReq'[r] = q
         /\ \A o \in Requests : o # r => yReq'[o] = yReq[o]
  BY DEF CycleTyped

\* What moves the pool or the player while a request is under way ends the count of those that
\* follow one another.
LEMMA WorldMoves ==
  ASSUME CycleTyped, CycleIsFresh, Cycle!Moved, yReq' = yReq
  PROVE  CycleIsFresh'
<1>1. alone' => \A r \in Requests : yReq'[r] = Cycle!Idle
  BY DEF Cycle!Moved, Cycle!Running
<1> QED BY <1>1 DEF CycleIsFresh, Cycle!Idle

\* A request under way is well-typed.
LEMMA RequestUnderWay ==
  ASSUME CycleTyped, NEW r \in Requests, yReq[r].pc # "idle"
  PROVE  yReq[r] \in CycleRequest /\ yReq[r] # Cycle!Idle
  BY DEF CycleTyped, Cycle!Idle

\* A request that goes on with its pool.
LEMMA GoesOn ==
  ASSUME CycleTyped, CycleIsFresh, NEW r \in Requests, yReq[r] # Cycle!Idle,
         NEW q \in {Cycle!Idle} \cup CycleRequest, yReq' = [yReq EXCEPT ![r] = q],
         UNCHANGED <<yPool, alone>>, ySeen' \subseteq Cycle!Ids, played' = ySeen',
         q.pc \in {"exhausted", "reset"} =>
            /\ q.pool = yReq[r].pool /\ yReq[r].pc \in {"pooled", "exhausted"} /\ ySeen' = ySeen
            /\ alone => Cycle!Range(yReq[r].pool) \subseteq ySeen,
         q.pc # "pooled",
         ySeen' = ySeen \/ q.pc = "serve"
  PROVE  CycleTyped' /\ CycleIsFresh'
<1>1. /\ yReq' \in [Requests -> {Cycle!Idle} \cup CycleRequest] /\ yReq'[r] = q
      /\ \A o \in Requests : o # r => yReq'[o] = yReq[o]
  BY OtherRequests
<1>2. CycleTyped'
  BY <1>1 DEF CycleTyped
<1>3. ASSUME alone' PROVE \A o \in Requests : o # r => yReq'[o] = Cycle!Idle
  BY <1>1, <1>3 DEF CycleIsFresh
<1>4. Cycle!Idle.pc = "idle"
  BY DEF Cycle!Idle
<1>5. ASSUME alone', NEW o \in Requests, yReq'[o].pc \in {"exhausted", "reset"}
      PROVE  Cycle!Range(yReq'[o].pool) = Cycle!Range(yPool)
             /\ Cycle!Range(yPool) \subseteq ySeen'
  <2>1. o = r
    BY <1>3, <1>4, <1>5
  <2> QED BY <1>1, <1>5, <2>1 DEF CycleIsFresh
<1>6. ASSUME alone', NEW o \in Requests PROVE yReq'[o].pc # "pooled"
  BY <1>1, <1>3, <1>4, <1>6
<1>7. CycleIsFresh'
  BY <1>3, <1>5, <1>6 DEF CycleIsFresh
<1> QED BY <1>2, <1>7

\* A request reads the pool.
LEMMA CycleAsks ==
  ASSUME CycleTyped, CycleIsFresh, NEW r \in Requests, NEW token \in 0..CycleItems \cup {NoRow},
         Cycle!Ask(r, token)
  PROVE  CycleTyped' /\ CycleIsFresh'
<1> DEFINE q == [pc |-> "pooled", token |-> token, pool |-> Cycle!Pinned(yPool, tutorial),
                 seen |-> {}, from |-> NoRow]
<1>1. /\ yReq' = [yReq EXCEPT ![r] = q] /\ Cycle!Moved /\ UNCHANGED <<yPool, ySeen, played>>
  BY DEF Cycle!Ask
<1>2. Cycle!Pinned(yPool, tutorial) \in Seq(Cycle!Ids)
      /\ Cycle!Range(Cycle!Pinned(yPool, tutorial)) = Cycle!Range(yPool)
  BY PinnedItems DEF CycleTyped
<1>3. q \in CycleRequest /\ q.pc = "pooled" /\ Cycle!Range(q.pool) = Cycle!Range(yPool)
  BY <1>2 DEF CycleRequest
<1> HIDE DEF q
<1>4. /\ yReq' \in [Requests -> {Cycle!Idle} \cup CycleRequest] /\ yReq'[r] = q
      /\ \A o \in Requests : o # r => yReq'[o] = yReq[o]
  BY <1>1, <1>3, OtherRequests
<1>5. CycleTyped'
  BY <1>1, <1>4 DEF CycleTyped, Cycle!Moved
<1>6. alone' => \A o \in Requests : o # r => yReq'[o] = Cycle!Idle
  BY <1>1, <1>4 DEF Cycle!Moved, Cycle!Running
<1>7. CycleIsFresh'
  BY <1>1, <1>3, <1>4, <1>6 DEF CycleIsFresh, Cycle!Idle
<1> QED BY <1>5, <1>7

\* A request reads what has been played, of the pool or of late.
LEMMA CycleLists ==
  ASSUME CycleTyped, CycleIsFresh, NEW r \in Requests, Cycle!ListSeen(r) \/ Cycle!ListRecent(r)
  PROVE  CycleTyped' /\ CycleIsFresh'
<1>1. /\ yReq[r] \in CycleRequest /\ yReq[r] # Cycle!Idle /\ UNCHANGED <<yPool, ySeen, played,
         alone>>
      /\ ySeen \subseteq Cycle!Ids /\ played = ySeen
  BY RequestUnderWay DEF Cycle!ListSeen, Cycle!ListRecent, CycleTyped
<1>2. CASE Cycle!ListSeen(r) /\ Cycle!Exhausted(yReq[r]) /\ redis
  <2> DEFINE q == [yReq[r] EXCEPT !.pc = "exhausted", !.seen = ySeen]
  <2>1. yReq' = [yReq EXCEPT ![r] = q] /\ yReq[r].pc = "pooled"
        /\ Cycle!Range(yReq[r].pool) \subseteq ySeen
    BY <1>2 DEF Cycle!ListSeen, Cycle!Exhausted
  <2>2. q \in CycleRequest /\ q.pc = "exhausted" /\ q.pool = yReq[r].pool
    BY <1>1 DEF CycleRequest
  <2> HIDE DEF q
  <2> QED BY <1>1, <2>1, <2>2, GoesOn
<1>3. CASE Cycle!ListSeen(r) /\ ~(Cycle!Exhausted(yReq[r]) /\ redis)
  <2> DEFINE one == [yReq[r] EXCEPT !.pc = "serve"]
             two == [yReq[r] EXCEPT !.pc = "serve", !.seen = ySeen]
  <2>1. yReq' = [yReq EXCEPT ![r] = one] \/ yReq' = [yReq EXCEPT ![r] = two]
    BY <1>3 DEF Cycle!ListSeen
  <2>2. one \in CycleRequest /\ one.pc = "serve" /\ two \in CycleRequest /\ two.pc = "serve"
    BY <1>1 DEF CycleRequest
  <2> HIDE DEF one, two
  <2> QED BY <1>1, <2>1, <2>2, GoesOn
<1>4. CASE Cycle!ListRecent(r) /\ redis
  <2> DEFINE q == [yReq[r] EXCEPT !.pc = "reset",
                   !.from = Cycle!AfterRecent(yReq[r].pool, recent)]
  <2>1. yReq' = [yReq EXCEPT ![r] = q] /\ yReq[r].pc = "exhausted"
    BY <1>4 DEF Cycle!ListRecent
  <2>3. Cycle!AfterRecent(yReq[r].pool, recent) \in Nat
    <3> DEFINE s == yReq[r].pool
               at == {n \in DOMAIN s : s[n] \in Cycle!Range(recent)}
    <3>1. s \in Seq(Cycle!Ids)
      BY <1>1 DEF CycleRequest
    <3>2. CASE at = {}
      BY <3>2 DEF Cycle!AfterRecent
    <3>3. CASE at # {}
      <4>1. /\ Len(s) \in Nat /\ DOMAIN s = 1..Len(s) /\ at \subseteq Nat
               /\ at \subseteq 1..Len(s)
        BY <3>1
      <4>2. Cycle!Min(at) \in at
        <5>1. \E n \in at : \A k \in at : n =< k
          BY <3>3, <4>1, FirstOfSome
        <5> HIDE DEF at
        <5> QED BY <5>1 DEF Cycle!Min
      <4>3. Cycle!AfterRecent(s, recent) = Cycle!Min(at) % Len(s)
        BY <3>3 DEF Cycle!AfterRecent
      <4>4. Cycle!Min(at) \in Nat /\ Len(s) > 0
        BY <4>1, <4>2
      <4> HIDE DEF at
      <4> QED BY <4>1, <4>3, <4>4
    <3> QED BY <3>2, <3>3
  <2>2. q \in CycleRequest /\ q.pc = "reset" /\ q.pool = yReq[r].pool
    BY <1>1, <2>3 DEF CycleRequest
  <2> HIDE DEF q
  <2>4. alone => Cycle!Range(yReq[r].pool) \subseteq ySeen
    BY <2>1 DEF CycleIsFresh
  <2> QED BY <1>1, <2>1, <2>2, <2>4, GoesOn
<1>5. CASE Cycle!ListRecent(r) /\ ~redis
  <2> DEFINE q == [yReq[r] EXCEPT !.pc = "serve", !.seen = {}]
  <2>1. yReq' = [yReq EXCEPT ![r] = q]
    BY <1>5 DEF Cycle!ListRecent
  <2>2. q \in CycleRequest /\ q.pc = "serve"
    BY <1>1 DEF CycleRequest
  <2> HIDE DEF q
  <2> QED BY <1>1, <2>1, <2>2, GoesOn
<1> QED BY <1>2, <1>3, <1>4, <1>5

\* A request resets the cycle or answers; it resets one that has played the pool.
LEMMA CycleServes ==
  ASSUME CycleTyped, CycleIsFresh, NEW r \in Requests, Cycle!Reset(r) \/ Cycle!Serve(r)
  PROVE  /\ CycleTyped' /\ CycleIsFresh'
         /\ ySeen # {} /\ ySeen' = {} /\ alone => Cycle!Range(yPool) \subseteq played
<1>1. /\ yReq[r] \in CycleRequest /\ yReq[r] # Cycle!Idle /\ UNCHANGED <<yPool, alone>>
      /\ ySeen \subseteq Cycle!Ids /\ played = ySeen
  BY RequestUnderWay DEF Cycle!Reset, Cycle!Serve, CycleTyped
<1>2. CASE Cycle!Reset(r)
  <2> DEFINE q == [yReq[r] EXCEPT !.pc = "serve", !.seen = {}]
  <2>1. /\ yReq' = [yReq EXCEPT ![r] = q] /\ yReq[r].pc = "reset"
        /\ ySeen' \in {ySeen, {}} /\ played' = ySeen'
    BY <1>1, <1>2 DEF Cycle!Reset
  <2>2. q \in CycleRequest /\ q.pc = "serve"
    BY <1>1 DEF CycleRequest
  <2> HIDE DEF q
  <2>3. CycleTyped' /\ CycleIsFresh'
    BY <1>1, <2>1, <2>2, GoesOn
  <2> QED BY <1>1, <2>1, <2>3 DEF CycleIsFresh
<1>3. CASE Cycle!Serve(r)
  <2>1. yReq' = [yReq EXCEPT ![r] = Cycle!Idle] /\ ySeen' = ySeen /\ played' = ySeen'
    BY <1>1, <1>3 DEF Cycle!Serve
  <2>2. Cycle!Idle.pc = "idle"
    BY DEF Cycle!Idle
  <2>3. CycleTyped' /\ CycleIsFresh'
    BY <1>1, <2>1, <2>2, GoesOn
  <2> QED BY <2>1, <2>3
<1> QED BY <1>2, <1>3

\* Every step keeps the invariant, and ends a cycle only when the pool has been played.
LEMMA CycleNext ==
  ASSUME CycleTyped, CycleIsFresh, [Cycle!Next]_Cycle!vars
  PROVE  /\ CycleTyped' /\ CycleIsFresh'
         /\ ySeen # {} /\ ySeen' = {} /\ alone => Cycle!Range(yPool) \subseteq played
<1>1. ASSUME NEW i \in Cycle!Ids, NEW at \in 1..(Len(yPool) + 1), Cycle!Publish(i, at)
      PROVE  CycleTyped' /\ CycleIsFresh' /\ ySeen' = ySeen
  <2>1. Cycle!InsertAt(yPool, at, i) \in Seq(Cycle!Ids)
    BY InsertedItem DEF CycleTyped
  <2> QED BY <1>1, <2>1, WorldMoves DEF Cycle!Publish, CycleTyped, Cycle!Moved
<1>2. ASSUME NEW i \in Cycle!Ids, Cycle!Withdraw(i)
      PROVE CycleTyped' /\ CycleIsFresh' /\ ySeen' = ySeen
  <2>1. yPool' \in Seq(Cycle!Ids)
    BY <1>2, RemovedItem DEF Cycle!Withdraw, CycleTyped
  <2> QED BY <1>2, <2>1, WorldMoves DEF Cycle!Withdraw, CycleTyped, Cycle!Moved
<1>3. CASE Cycle!RedisTurns
  BY <1>3, WorldMoves DEF Cycle!RedisTurns, CycleTyped, Cycle!Moved
<1>4. ASSUME NEW i \in Cycle!Ids, Cycle!Impression(i)
      PROVE CycleTyped' /\ CycleIsFresh' /\ ySeen' # {}
  BY <1>4, WorldMoves DEF Cycle!Impression, CycleTyped, Cycle!Moved
<1>5. ASSUME NEW r \in Requests, NEW token \in {NoRow} \cup 0..CycleItems, Cycle!Ask(r, token)
      PROVE  CycleTyped' /\ CycleIsFresh' /\ ySeen' = ySeen
  BY <1>5, CycleAsks DEF Cycle!Ask
<1>6. ASSUME NEW r \in Requests, Cycle!ListSeen(r) \/ Cycle!ListRecent(r)
      PROVE  CycleTyped' /\ CycleIsFresh' /\ ySeen' = ySeen
  BY <1>6, CycleLists DEF Cycle!ListSeen, Cycle!ListRecent
<1>7. CASE UNCHANGED Cycle!vars
  BY <1>7 DEF Cycle!vars, CycleTyped, CycleIsFresh
<1> QED BY <1>1, <1>2, <1>3, <1>4, <1>5, <1>6, <1>7, CycleServes DEF Cycle!Next

\* Nothing has been played and nobody has asked.
LEMMA CycleInit == Cycle!Init => CycleTyped /\ CycleIsFresh
<1>1. <<>> \in Seq(Cycle!Ids)
  OBVIOUS
<1>2. Cycle!Idle.pc = "idle"
  BY DEF Cycle!Idle
<1> QED BY <1>1, <1>2 DEF Cycle!Init, CycleTyped, CycleIsFresh

\* The invariant of the cycle.
LEMMA CycleAlways == Cycle!Spec => [](CycleTyped /\ CycleIsFresh)
<1>1. CycleTyped /\ CycleIsFresh /\ [Cycle!Next]_Cycle!vars => CycleTyped' /\ CycleIsFresh'
  BY CycleNext
<1> QED BY <1>1, CycleInit, PTL DEF Cycle!Spec

\* A cycle that ends has played the whole pool, while requests follow one another.
THEOREM CyclesWhole == Cycle!Spec => Cycle!CycleIsWhole
<1>1. CycleTyped /\ CycleIsFresh /\ [Cycle!Next]_Cycle!vars
      => [ySeen # {} /\ ySeen' = {} /\ alone => Cycle!Range(yPool) \subseteq played]_Cycle!vars
  BY CycleNext
<1> QED BY <1>1, CycleAlways, PTL DEF Cycle!Spec, Cycle!CycleIsWhole

\* The types of what is beside the pool and the requests.
PlayerTyped ==
    /\ tutorial \in Cycle!Ids \cup {0} /\ recent \in Seq(Cycle!Ids)
    /\ cursor \in 0..CycleItems /\ redis \in BOOLEAN
    /\ screen \subseteq Cycle!Ids /\ next \in 0..CycleItems \cup {NoRow}

\* A sequence without an item.
LEMMA WithoutItem ==
  ASSUME NEW s \in Seq(Cycle!Ids), NEW t
  PROVE  Cycle!Without(s, t) \in Seq(Cycle!Ids)
<1>1. CASE t \in Cycle!Range(s)
  <2> DEFINE n == Cycle!Place(s, t)
  <2>1. n \in DOMAIN s
    BY <1>1 DEF Cycle!Range, Cycle!Place
  <2> HIDE DEF n
  <2>2. Cycle!RemoveAt(s, n) \in Seq(Cycle!Ids)
    BY <2>1, RemovedItem
  <2> QED BY <1>1, <2>2 DEF Cycle!Without, n
<1> QED BY <1>1 DEF Cycle!Without

\* A page ends at a place among the items that are left.
LEMMA PageEnds ==
  ASSUME NEW left, left \subseteq Cycle!Ids, NEW from \in Nat
  PROVE  Cycle!PageEnd(left, from, Limit) \in 0..CycleItems
<1> DEFINE n == Cardinality(left)
<1>1. CASE left = {}
  BY <1>1, BoundsAssumption DEF Cycle!PageEnd
<1>2. CASE left # {}
  <2>1. IsFiniteSet(Cycle!Ids) /\ Cardinality(Cycle!Ids) = CycleItems
    BY BoundsAssumption, FS_Interval DEF Cycle!Ids
  <2>2. IsFiniteSet(left) /\ n <= CycleItems
    BY <2>1, FS_Subset
  <2>3. n \in Nat /\ n # 0
    BY <1>2, <2>2, FS_CardinalityType, FS_EmptySet
  <2>4. Cycle!PageEnd(left, from, Limit) = ((from % n) + IF Limit < n THEN Limit ELSE n) % n
    BY <1>2 DEF Cycle!PageEnd, Cycle!Cardinality, Cardinality
  <2> HIDE DEF n
  <2>5. (from % n) + (IF Limit < n THEN Limit ELSE n) \in Nat
    BY <2>3, FeedAssumption
  <2> DEFINE e == (from % n) + (IF Limit < n THEN Limit ELSE n)
  <2> HIDE DEF e
  <2>6. e % n \in 0..(n - 1)
    BY <2>3, <2>5 DEF e
  <2> QED BY <2>2, <2>3, <2>4, <2>6, BoundsAssumption DEF e
<1> QED BY <1>1, <1>2

\* The player reports an item.
LEMMA PlayerReports ==
  ASSUME PlayerTyped, NEW i \in Cycle!Ids, Cycle!Impression(i)
  PROVE  PlayerTyped'
<1> DEFINE rest == Cycle!Without(recent, i)
           l == <<i>> \o rest
           n == IF Len(l) < RecentLimit THEN Len(l) ELSE RecentLimit
<1>1. recent' = SubSeq(l, 1, n) /\ UNCHANGED <<tutorial, cursor, redis, screen, next>>
  BY DEF Cycle!Impression
<1>2. rest \in Seq(Cycle!Ids)
  BY WithoutItem DEF PlayerTyped
<1> HIDE DEF rest
<1>3. l \in Seq(Cycle!Ids)
  BY <1>2
<1> HIDE DEF l
<1>4. n \in Nat /\ n <= Len(l)
  BY <1>3, FeedAssumption
<1> HIDE DEF n
<1>5. SubSeq(l, 1, n) \in Seq(Cycle!Ids)
  BY <1>3, <1>4, SubSeqProperties
<1> QED BY <1>1, <1>5 DEF PlayerTyped

\* A page is of the items that are left.
LEMMA PlayerIsServed ==
  ASSUME CycleTyped, PlayerTyped, NEW r \in Requests, Cycle!Serve(r)
  PROVE  PlayerTyped'
<1> DEFINE q == yReq[r]
           left == Cycle!Unseen(q.pool, q.seen)
           from == IF q.token # NoRow THEN q.token
                   ELSE IF q.from # NoRow THEN q.from ELSE cursor
           end == Cycle!PageEnd(left, from, Limit)
<1>1. /\ cursor' = (IF q.token = NoRow THEN end ELSE cursor)
      /\ screen' = (IF left = {} THEN screen ELSE Cycle!Page(q.pool, left, from, Limit))
      /\ next' = (IF left = {} THEN next ELSE end)
      /\ UNCHANGED <<tutorial, recent, redis>>
  BY DEF Cycle!Serve
<1>2. q \in CycleRequest
  BY RequestUnderWay DEF Cycle!Serve
<1>3. from \in Nat
  BY <1>2, BoundsAssumption DEF CycleRequest, PlayerTyped
<1>4. left \subseteq Cycle!Ids
  BY <1>2 DEF Cycle!Unseen, Cycle!Range, CycleRequest
<1> HIDE DEF left, from
<1>5. end \in 0..CycleItems
  BY <1>3, <1>4, PageEnds
<1>6. Cycle!Page(q.pool, left, from, Limit) \subseteq left
  BY DEF Cycle!Page
<1> HIDE DEF end, q
<1> QED BY <1>1, <1>4, <1>5, <1>6 DEF PlayerTyped

\* Every step keeps the types.
LEMMA PlayerNext ==
  ASSUME CycleTyped, PlayerTyped, [Cycle!Next]_Cycle!vars
  PROVE  PlayerTyped'
<1>1. ASSUME NEW i \in Cycle!Ids, NEW at \in 1..(Len(yPool) + 1), Cycle!Publish(i, at)
      PROVE  PlayerTyped'
  BY <1>1 DEF Cycle!Publish, PlayerTyped
<1>2. ASSUME NEW i \in Cycle!Ids, Cycle!Withdraw(i) PROVE PlayerTyped'
  BY <1>2 DEF Cycle!Withdraw, PlayerTyped
<1>3. CASE Cycle!RedisTurns
  BY <1>3 DEF Cycle!RedisTurns, PlayerTyped
<1>4. ASSUME NEW r \in Requests, NEW token \in {NoRow} \cup 0..CycleItems, Cycle!Ask(r, token)
      PROVE  PlayerTyped'
  BY <1>4 DEF Cycle!Ask, PlayerTyped
<1>5. ASSUME NEW r \in Requests, Cycle!ListSeen(r) \/ Cycle!ListRecent(r) \/ Cycle!Reset(r)
      PROVE  PlayerTyped'
  BY <1>5 DEF Cycle!ListSeen, Cycle!ListRecent, Cycle!Reset, PlayerTyped
<1>6. CASE UNCHANGED Cycle!vars
  BY <1>6 DEF Cycle!vars, PlayerTyped
<1> QED BY <1>1, <1>2, <1>3, <1>4, <1>5, <1>6, PlayerReports, PlayerIsServed DEF Cycle!Next

\* The pool, the played items, the cursors and the requests hold values of their kinds.
THEOREM CycleTypes == Cycle!Spec => []Cycle!TypeOK
<1>1. Cycle!Init => PlayerTyped
  BY BoundsAssumption DEF Cycle!Init, PlayerTyped
<1>2. CycleTyped /\ PlayerTyped /\ [Cycle!Next]_Cycle!vars => PlayerTyped'
  BY PlayerNext
<1>3. CycleTyped /\ PlayerTyped => Cycle!TypeOK
  <2> SUFFICES ASSUME CycleTyped, PlayerTyped PROVE Cycle!TypeOK
    OBVIOUS
  <2>1. \A r \in Requests : yReq[r] # Cycle!Idle =>
              yReq[r].pc \in {"pooled", "exhausted", "reset", "serve"}
    BY DEF CycleTyped, CycleRequest
  <2> QED BY <2>1 DEF CycleTyped, PlayerTyped, Cycle!TypeOK, Cycle!Running
<1> QED BY <1>1, <1>2, <1>3, CycleAlways, PTL DEF Cycle!Spec

\* The part that is Cycle behaves as the component does.
LEMMA CycleBehaves == Spec => Cycle!Spec
<1>1. Init => Cycle!Init
  BY DEF Init
<1>2. [Next]_vars => [Cycle!Next]_Cycle!vars
  BY PartsNext DEF cycleVars, Cycle!vars
<1> QED BY <1>1, <1>2, PTL DEF Spec, Cycle!Spec

\* While requests follow one another and nothing else moves, a cycle ends only when every item
\* of the pool has been played.
THEOREM CyclesAreWhole == Spec => CycleIsWhole
BY CycleBehaves, CyclesWhole, PTL DEF CycleIsWhole

-----------------------------------------------------------------------------
(***************************************************************************)
(* RecommendationPools: readers meet no half-built pool, and a viewer adds *)
(* at most one to the count of an item.                                    *)
(***************************************************************************)

\* What the pools of all levels hold.
LevelSets == [Pools!Levs -> SUBSET Pools!Ids]

\* A rebuild under way.
Rebuild == [pc : {"clear", "fill", "fill_new", "validate", "exists", "promote", "promote_both"},
            level : Pools!Levs, all : LevelSets, new : LevelSets]

\* A page under way.
Page == [pc : {"draw", "build", "mark", "filter", "count", "mark_counted"}, stage : Nat \ {0},
         ids : SUBSET Pools!Ids, rewind : BOOLEAN, items : SUBSET Pools!Ids,
         uncounted : SUBSET Pools!Ids]

\* The types of the pools and of the rebuilds.
PoolsTyped ==
    /\ rows \in [Pools!Ids -> Pools!Row \cup {NoRow}]
    /\ pool \in LevelSets /\ fresh \in LevelSets /\ shadow \in LevelSets
       /\ shadowNew \in LevelSets
    /\ built \in LevelSets /\ solo \in BOOLEAN
    /\ pBuild \in [Builders -> {Pools!Idle} \cup Rebuild]

\* What a rebuild that is alone has put into the shadow keys of its level.
InShadow(b, items, news) ==
    /\ \A k \in Pools!Levs : b.new[k] \subseteq b.all[k]
    /\ b.pc = "fill" => items[b.level] = {}
    /\ b.pc \in {"fill", "fill_new"} => news[b.level] = {}
    /\ b.pc \notin {"clear", "fill"} => items[b.level] = b.all[b.level]
    /\ b.pc \in {"validate", "exists", "promote_both"} => news[b.level] = b.new[b.level]
    /\ b.pc \in {"exists", "promote", "promote_both"} => items[b.level] # {}
    /\ b.pc = "promote_both" => news[b.level] # {}

\* While rebuilds do not overlap, the pools are whole and the shadow keys are those of the one
\* that runs.
PoolsInv ==
    solo =>
        /\ \A l \in Pools!Levs : pool[l] = built[l] /\ fresh[l] \subseteq pool[l]
        /\ \A w \in Builders : pBuild[w] # Pools!Idle =>
             /\ InShadow(pBuild[w], shadow, shadowNew)
             /\ \A v \in Builders : pBuild[v] # Pools!Idle => v = w

\* The types of the pages and of their records.
PagesTyped ==
    /\ pReq \in [Requests -> {Pools!Idle} \cup Page] /\ counted \subseteq Pools!Ids
    /\ \A r \in Requests : pReq[r].pc = "draw" => pReq[r].stage =< 3 * Levels
    /\ seen \in [{"page", "report"} -> SUBSET Pools!Ids]
    /\ stats \in [Pools!Ids -> Nat] /\ pCalm \in BOOLEAN /\ clientReport \in BOOLEAN
    /\ pChanges \in 0..PoolChanges

\* While pages do not overlap, what has been counted is recorded, or the page that counted it
\* is about to record it.
PagesInv ==
    pCalm =>
        /\ \A i \in Pools!Ids :
             stats[i] = 0 \/ (stats[i] = 1 /\
                (i \in counted \/
                 \E r \in Requests : pReq[r].pc = "mark_counted" /\ i \in pReq[r].uncounted))
        /\ \A r, q \in Requests : pReq[r] # Pools!Idle /\ pReq[q] # Pools!Idle => r = q
        /\ \A r \in Requests : pReq[r].pc = "count" => pReq[r].uncounted \cap counted = {}

-----------------------------------------------------------------------------
\* A rebuild under way is well-typed.
LEMMA RebuildUnderWay ==
  ASSUME PoolsTyped, NEW w \in Builders, pBuild[w].pc # "idle"
  PROVE  pBuild[w] \in Rebuild /\ pBuild[w] # Pools!Idle /\ pBuild[w].level \in Pools!Levs
  BY DEF PoolsTyped, Pools!Idle, Rebuild

\* There is a first level.
LEMMA LevelsTyped == Levels \in Nat \ {0} /\ 1 \in Pools!Levs
  BY FeedAssumption, BoundsAssumption DEF Pools!Levs

\* A step of a rebuild.
LEMMA Rebuilds ==
  ASSUME PoolsTyped, PoolsInv, NEW w \in Builders, pBuild[w] # Pools!Idle,
         NEW b \in {Pools!Idle} \cup Rebuild,
         pBuild' = [pBuild EXCEPT ![w] = b], UNCHANGED <<rows, solo>>,
         pool' \in LevelSets, fresh' \in LevelSets, shadow' \in LevelSets,
         shadowNew' \in LevelSets,
         built' \in LevelSets,
         solo => \A l \in Pools!Levs : pool'[l] = built'[l] /\ fresh'[l] \subseteq pool'[l],
         solo /\ b # Pools!Idle => InShadow(b, shadow', shadowNew')
  PROVE  PoolsTyped' /\ PoolsInv'
<1>1. /\ pBuild' \in [Builders -> {Pools!Idle} \cup Rebuild] /\ pBuild'[w] = b
      /\ \A v \in Builders : v # w => pBuild'[v] = pBuild[v]
  BY DEF PoolsTyped
<1>2. PoolsTyped'
  BY <1>1 DEF PoolsTyped
<1>3. solo => \A v \in Builders : v # w => pBuild'[v] = Pools!Idle
  BY <1>1 DEF PoolsInv
<1>4. PoolsInv'
  <2>1. ASSUME solo, NEW v \in Builders, pBuild'[v] # Pools!Idle
        PROVE  v = w /\ InShadow(pBuild'[v], shadow', shadowNew')
    BY <1>1, <1>3, <2>1, Zenon
  <2> QED BY <2>1 DEF PoolsInv
<1> QED BY <1>2, <1>4

\* A rebuild that goes on within its level.
LEMMA GoesToStep ==
  ASSUME PoolsTyped, NEW w \in Builders, pBuild[w].pc # "idle",
         NEW pc \in {"clear", "fill", "fill_new", "validate", "exists", "promote",
                     "promote_both"},
         NEW b, b = [pBuild[w] EXCEPT !.pc = pc]
  PROVE  /\ b \in Rebuild /\ b.pc = pc /\ b.level = pBuild[w].level
         /\ b.all = pBuild[w].all /\ b.new = pBuild[w].new
  BY RebuildUnderWay DEF Rebuild

\* A rebuild that goes to its next level.
LEMMA GoesToLevel ==
  ASSUME PoolsTyped, NEW w \in Builders, pBuild[w].pc # "idle", Pools!NextLevel(w)
  PROVE  \E b \in {Pools!Idle} \cup Rebuild :
           /\ pBuild' = [pBuild EXCEPT ![w] = b]
           /\ b # Pools!Idle => b.pc = "clear" /\ b.new = pBuild[w].new /\ b.all = pBuild[w].all
<1> DEFINE one == [pBuild[w] EXCEPT !.pc = "clear"]
           two == [one EXCEPT !.level = pBuild[w].level + 1]
           b == IF pBuild[w].level = Levels THEN Pools!Idle ELSE two
<1>1. pBuild[w] \in Rebuild /\ pBuild[w].level \in 1..Levels /\ Levels \in Nat
  BY RebuildUnderWay, LevelsTyped DEF Pools!Levs
<1>2. /\ one \in Rebuild /\ one.pc = "clear" /\ one.new = pBuild[w].new /\ one.all = pBuild[w].all
  BY <1>1 DEF Rebuild
<1>3. pBuild[w].level # Levels => pBuild[w].level + 1 \in Pools!Levs
  BY <1>1 DEF Pools!Levs
<1>4. [pBuild[w] EXCEPT !.pc = "clear", !.level = pBuild[w].level + 1] = two
  OBVIOUS
<1>5. pBuild' = [pBuild EXCEPT ![w] = b]
  BY <1>4, Zenon DEF Pools!NextLevel
<1> HIDE DEF one
<1>6. pBuild[w].level # Levels =>
        /\ two \in Rebuild /\ two.pc = "clear" /\ two.new = pBuild[w].new
           /\ two.all = pBuild[w].all
  BY <1>2, <1>3 DEF Rebuild
<1> HIDE DEF two
<1>7. b \in {Pools!Idle} \cup Rebuild
  BY <1>6
<1>8. b # Pools!Idle => b.pc = "clear" /\ b.new = pBuild[w].new /\ b.all = pBuild[w].all
  BY <1>6
<1> HIDE DEF b
<1> QED BY <1>5, <1>7, <1>8

\* The shadow keys are cleared.
LEMMA ClearsShadow ==
  ASSUME PoolsTyped, PoolsInv, NEW w \in Builders, Pools!ClearShadow(w)
  PROVE  PoolsTyped' /\ PoolsInv'
<1> DEFINE b == [pBuild[w] EXCEPT !.pc = "fill"]
           l == pBuild[w].level
<1>1. /\ pBuild[w].pc = "clear" /\ pBuild' = [pBuild EXCEPT ![w] = b]
      /\ shadow' = [shadow EXCEPT ![l] = {}] /\ shadowNew' = [shadowNew EXCEPT ![l] = {}]
      /\ UNCHANGED <<rows, pool, fresh, built, solo>>
  BY DEF Pools!ClearShadow, Pools!At, Pools!To, Pools!ClearedShadow
<1>2. pBuild[w] \in Rebuild /\ pBuild[w] # Pools!Idle /\ l \in Pools!Levs
  BY <1>1, RebuildUnderWay
<1>3. /\ b \in Rebuild /\ b.pc = "fill" /\ b.level = l /\ b.all = pBuild[w].all
      /\ b.new = pBuild[w].new
  BY <1>1, GoesToStep
<1>4. /\ shadow' \in LevelSets /\ shadowNew' \in LevelSets
      /\ shadow'[l] = {} /\ shadowNew'[l] = {}
  BY <1>1, <1>2 DEF PoolsTyped, LevelSets
<1> HIDE DEF b, l
<1>5. solo => InShadow(b, shadow', shadowNew')
  BY <1>2, <1>3, <1>4 DEF InShadow, PoolsInv
<1>6. solo => \A k \in Pools!Levs : pool'[k] = built'[k] /\ fresh'[k] \subseteq pool'[k]
  BY <1>1 DEF PoolsInv
<1>7. pool' \in LevelSets /\ fresh' \in LevelSets /\ built' \in LevelSets
  BY <1>1 DEF PoolsTyped
<1> QED BY <1>1, <1>2, <1>3, <1>4, <1>5, <1>6, <1>7, Rebuilds

\* The items of the level are written to its shadow key.
LEMMA FillsShadow ==
  ASSUME PoolsTyped, PoolsInv, NEW w \in Builders, Pools!FillShadow(w)
  PROVE  PoolsTyped' /\ PoolsInv'
<1> DEFINE b == [pBuild[w] EXCEPT !.pc = "fill_new"]
           l == pBuild[w].level
<1>1. /\ pBuild[w].pc = "fill" /\ pBuild' = [pBuild EXCEPT ![w] = b]
      /\ shadow' = [shadow EXCEPT ![l] = shadow[l] \cup pBuild[w].all[l]]
      /\ UNCHANGED <<rows, pool, fresh, shadowNew, built, solo>>
  BY DEF Pools!FillShadow, Pools!At, Pools!To
<1>2. pBuild[w] \in Rebuild /\ pBuild[w] # Pools!Idle /\ l \in Pools!Levs
  BY <1>1, RebuildUnderWay
<1>3. /\ b \in Rebuild /\ b.pc = "fill_new" /\ b.level = l /\ b.all = pBuild[w].all
      /\ b.new = pBuild[w].new
  BY <1>1, GoesToStep
<1>4. shadow' \in LevelSets /\ shadow'[l] = shadow[l] \cup pBuild[w].all[l]
  BY <1>1, <1>2 DEF PoolsTyped, LevelSets, Rebuild
<1> HIDE DEF b, l
<1>5. solo => InShadow(pBuild[w], shadow, shadowNew)
  BY <1>2 DEF PoolsInv
<1>6. pBuild[w].level = l
  BY DEF l
<1>7. solo => InShadow(b, shadow', shadowNew')
  BY <1>1, <1>3, <1>4, <1>5, <1>6 DEF InShadow
<1>8. solo => \A k \in Pools!Levs : pool'[k] = built'[k] /\ fresh'[k] \subseteq pool'[k]
  BY <1>1 DEF PoolsInv
<1>9. pool' \in LevelSets /\ fresh' \in LevelSets /\ built' \in LevelSets
      /\ shadowNew' \in LevelSets
  BY <1>1 DEF PoolsTyped
<1> QED BY <1>1, <1>2, <1>3, <1>4, <1>7, <1>8, <1>9, Rebuilds

\* The new items of the level are written to theirs.
LEMMA FillsNew ==
  ASSUME PoolsTyped, PoolsInv, NEW w \in Builders, Pools!FillNew(w)
  PROVE  PoolsTyped' /\ PoolsInv'
<1> DEFINE b == [pBuild[w] EXCEPT !.pc = "validate"]
           l == pBuild[w].level
<1>1. /\ pBuild[w].pc = "fill_new" /\ pBuild' = [pBuild EXCEPT ![w] = b]
      /\ shadowNew' = [shadowNew EXCEPT ![l] = shadowNew[l] \cup pBuild[w].new[l]]
      /\ UNCHANGED <<rows, pool, fresh, shadow, built, solo>>
  BY DEF Pools!FillNew, Pools!At, Pools!To
<1>2. pBuild[w] \in Rebuild /\ pBuild[w] # Pools!Idle /\ l \in Pools!Levs
  BY <1>1, RebuildUnderWay
<1>3. /\ b \in Rebuild /\ b.pc = "validate" /\ b.level = l /\ b.all = pBuild[w].all
      /\ b.new = pBuild[w].new
  BY <1>1, GoesToStep
<1>4. shadowNew' \in LevelSets /\ shadowNew'[l] = shadowNew[l] \cup pBuild[w].new[l]
  BY <1>1, <1>2 DEF PoolsTyped, LevelSets, Rebuild
<1> HIDE DEF b, l
<1>5. solo => InShadow(pBuild[w], shadow, shadowNew)
  BY <1>2 DEF PoolsInv
<1>6. pBuild[w].level = l
  BY DEF l
<1>7. solo => InShadow(b, shadow', shadowNew')
  BY <1>1, <1>3, <1>4, <1>5, <1>6 DEF InShadow
<1>8. solo => \A k \in Pools!Levs : pool'[k] = built'[k] /\ fresh'[k] \subseteq pool'[k]
  BY <1>1 DEF PoolsInv
<1>9. pool' \in LevelSets /\ fresh' \in LevelSets /\ built' \in LevelSets /\ shadow' \in LevelSets
  BY <1>1 DEF PoolsTyped
<1> QED BY <1>1, <1>2, <1>3, <1>4, <1>7, <1>8, <1>9, Rebuilds

\* A level without items is passed over.
LEMMA Validates ==
  ASSUME PoolsTyped, PoolsInv, NEW w \in Builders, Pools!Validate(w)
  PROVE  PoolsTyped' /\ PoolsInv'
<1> DEFINE l == pBuild[w].level
<1>1. /\ pBuild[w].pc = "validate" /\ UNCHANGED <<rows, pool, fresh, shadow, shadowNew, built,
         solo>>
      /\ IF shadow[l] = {} THEN Pools!NextLevel(w) ELSE Pools!To(w, "exists")
  BY DEF Pools!Validate, Pools!At
<1>2. pBuild[w] \in Rebuild /\ pBuild[w] # Pools!Idle /\ l \in Pools!Levs
  BY <1>1, RebuildUnderWay
<1> HIDE DEF l
<1>3. /\ solo => InShadow(pBuild[w], shadow, shadowNew)
      /\ solo => \A k \in Pools!Levs : pool'[k] = built'[k] /\ fresh'[k] \subseteq pool'[k]
      /\ pool' \in LevelSets /\ fresh' \in LevelSets /\ built' \in LevelSets
      /\ shadow' \in LevelSets /\ shadowNew' \in LevelSets
  BY <1>1, <1>2 DEF PoolsInv, PoolsTyped
<1>4. CASE Pools!NextLevel(w)
  <2>1. PICK b \in {Pools!Idle} \cup Rebuild :
           /\ pBuild' = [pBuild EXCEPT ![w] = b]
           /\ b # Pools!Idle => b.pc = "clear" /\ b.new = pBuild[w].new /\ b.all = pBuild[w].all
    BY <1>1, <1>4, GoesToLevel
  <2>2. solo /\ b # Pools!Idle => InShadow(b, shadow', shadowNew')
    BY <1>3, <2>1 DEF InShadow
  <2> QED BY <1>1, <1>2, <1>3, <2>1, <2>2, Rebuilds
<1>5. CASE shadow[l] # {} /\ Pools!To(w, "exists")
  <2> DEFINE b == [pBuild[w] EXCEPT !.pc = "exists"]
  <2>1. pBuild' = [pBuild EXCEPT ![w] = b]
    BY <1>5 DEF Pools!To
  <2>2. /\ b \in Rebuild /\ b.pc = "exists" /\ b.level = l /\ b.all = pBuild[w].all
        /\ b.new = pBuild[w].new /\ pBuild[w].level = l
    BY <1>1, GoesToStep DEF l
  <2> HIDE DEF b
  <2>3. solo => InShadow(b, shadow', shadowNew')
    BY <1>1, <1>3, <1>5, <2>2 DEF InShadow
  <2> QED BY <1>1, <1>2, <1>3, <2>1, <2>2, <2>3, Rebuilds
<1> QED BY <1>1, <1>4, <1>5

\* The rebuild finds out whether there are new items.
LEMMA LooksForNew ==
  ASSUME PoolsTyped, PoolsInv, NEW w \in Builders, Pools!Exists(w)
  PROVE  PoolsTyped' /\ PoolsInv'
<1> DEFINE l == pBuild[w].level
           pc == IF shadowNew[l] = {} THEN "promote" ELSE "promote_both"
           b == [pBuild[w] EXCEPT !.pc = pc]
<1>1. /\ pBuild[w].pc = "exists" /\ UNCHANGED <<rows, pool, fresh, shadow, shadowNew, built,
         solo>>
      /\ pBuild' = [pBuild EXCEPT ![w] = b]
  BY DEF Pools!Exists, Pools!At, Pools!To
<1>2. pBuild[w] \in Rebuild /\ pBuild[w] # Pools!Idle /\ l \in Pools!Levs
  BY <1>1, RebuildUnderWay
<1>3. /\ pc \in {"promote", "promote_both"} /\ (pc = "promote_both" => shadowNew[l] # {})
      /\ pBuild[w].level = l
  OBVIOUS
<1> HIDE DEF l, pc
<1>4. /\ b \in Rebuild /\ b.pc = pc /\ b.level = l /\ b.all = pBuild[w].all
      /\ b.new = pBuild[w].new
  BY <1>1, <1>3, GoesToStep
<1>5. /\ solo => InShadow(pBuild[w], shadow, shadowNew)
      /\ solo => \A k \in Pools!Levs : pool'[k] = built'[k] /\ fresh'[k] \subseteq pool'[k]
      /\ pool' \in LevelSets /\ fresh' \in LevelSets /\ built' \in LevelSets
      /\ shadow' \in LevelSets /\ shadowNew' \in LevelSets
  BY <1>1, <1>2 DEF PoolsInv, PoolsTyped
<1> HIDE DEF b
<1>6. solo => InShadow(b, shadow', shadowNew')
  BY <1>1, <1>3, <1>4, <1>5 DEF InShadow
<1> QED BY <1>1, <1>2, <1>4, <1>5, <1>6, Rebuilds

\* The shadow keys take the place of the pool and of its new items.
LEMMA Promotes ==
  ASSUME PoolsTyped, PoolsInv, NEW w \in Builders, Pools!Promote(w)
  PROVE  PoolsTyped' /\ PoolsInv'
<1> DEFINE l == pBuild[w].level
           both == pBuild[w].pc = "promote_both"
<1>1. /\ pBuild[w].pc = "promote" \/ both
      /\ pool' = IF shadow[l] = {} THEN pool ELSE [pool EXCEPT ![l] = shadow[l]]
      /\ fresh' = IF ~both THEN [fresh EXCEPT ![l] = {}]
                  ELSE IF shadowNew[l] = {} THEN fresh
                  ELSE [fresh EXCEPT ![l] = shadowNew[l]]
      /\ shadow' = [shadow EXCEPT ![l] = {}]
      /\ shadowNew' = IF both THEN [shadowNew EXCEPT ![l] = {}] ELSE shadowNew
      /\ built' = [built EXCEPT ![l] = pBuild[w].all[l]]
      /\ Pools!NextLevel(w) \/ pBuild' = [pBuild EXCEPT ![w] = Pools!Idle]
      /\ UNCHANGED <<rows, solo>>
  BY DEF Pools!Promote, Pools!At
<1>2. pBuild[w] \in Rebuild /\ pBuild[w] # Pools!Idle /\ l \in Pools!Levs /\ pBuild[w].pc # "idle"
  BY <1>1, RebuildUnderWay
<1>3. pBuild[w].all \in LevelSets /\ pBuild[w].level = l
  BY <1>2 DEF Rebuild
<1> HIDE DEF l
<1>4. solo => InShadow(pBuild[w], shadow, shadowNew)
  BY <1>2 DEF PoolsInv
<1>5. /\ pool' \in LevelSets /\ fresh' \in LevelSets /\ built' \in LevelSets
      /\ shadow' \in LevelSets /\ shadowNew' \in LevelSets
  BY <1>1, <1>2, <1>3 DEF PoolsTyped, LevelSets
<1>6. ASSUME solo, NEW k \in Pools!Levs PROVE pool'[k] = built'[k] /\ fresh'[k] \subseteq pool'[k]
  <2>1. /\ shadow[l] = pBuild[w].all[l] /\ shadow[l] # {}
        /\ both => shadowNew[l] = pBuild[w].new[l] /\ shadowNew[l] # {}
        /\ pBuild[w].new[l] \subseteq pBuild[w].all[l]
    BY <1>1, <1>2, <1>3, <1>4, <1>6 DEF InShadow
  <2>2. pool[k] = built[k] /\ fresh[k] \subseteq pool[k]
    BY <1>6 DEF PoolsInv
  <2>3. CASE k = l
    BY <1>1, <1>2, <2>1, <2>3 DEF PoolsTyped, LevelSets
  <2>4. CASE k # l
    BY <1>1, <1>2, <2>1, <2>2, <2>4 DEF PoolsTyped, LevelSets
  <2> QED BY <2>3, <2>4
<1> HIDE DEF both
<1>7. PICK b \in {Pools!Idle} \cup Rebuild :
         /\ pBuild' = [pBuild EXCEPT ![w] = b]
         /\ b # Pools!Idle => b.pc = "clear" /\ b.new = pBuild[w].new /\ b.all = pBuild[w].all
  BY <1>1, <1>2, GoesToLevel
<1>8. solo /\ b # Pools!Idle => InShadow(b, shadow', shadowNew')
  BY <1>4, <1>7 DEF InShadow
<1> QED BY <1>1, <1>2, <1>5, <1>6, <1>7, <1>8, Rebuilds

\* A rebuild loads the rows that can be played.
LEMMA Loads ==
  ASSUME PoolsTyped, PoolsInv, NEW w \in Builders, Pools!Load(w)
  PROVE  PoolsTyped' /\ PoolsInv'
<1> DEFINE all == [l \in Pools!Levs |-> Pools!Bucket(l)]
           new == [l \in Pools!Levs |-> {i \in Pools!Bucket(l) : rows[i].new}]
           b == [pc |-> "clear", level |-> 1, all |-> all, new |-> new]
<1>1. /\ pBuild[w] = Pools!Idle /\ pBuild' = [pBuild EXCEPT ![w] = b]
         /\ solo' = (solo /\ Pools!Building = {})
      /\ UNCHANGED <<rows, pool, fresh, shadow, shadowNew, built>>
  BY DEF Pools!Load
<1>2. /\ all \in LevelSets /\ new \in LevelSets /\ \A l \in Pools!Levs : new[l] \subseteq all[l]
  BY DEF LevelSets, Pools!Bucket, Pools!Shown
<1> HIDE DEF all, new
<1>3. b \in Rebuild /\ b.pc = "clear" /\ b.all = all /\ b.new = new
  BY <1>2, LevelsTyped DEF Rebuild
<1> HIDE DEF b
<1>4. /\ pBuild' \in [Builders -> {Pools!Idle} \cup Rebuild] /\ pBuild'[w] = b
      /\ \A v \in Builders : v # w => pBuild'[v] = pBuild[v]
  BY <1>1, <1>3 DEF PoolsTyped
<1>5. PoolsTyped'
  BY <1>1, <1>4 DEF PoolsTyped
<1>6. InShadow(b, shadow', shadowNew')
  BY <1>2, <1>3 DEF InShadow
<1>7. ASSUME solo', NEW v \in Builders, pBuild'[v] # Pools!Idle
      PROVE  v = w /\ InShadow(pBuild'[v], shadow', shadowNew')
  <2>1. v # w => pBuild[v] = Pools!Idle
    BY <1>1, <1>7 DEF Pools!Building
  <2> QED BY <1>4, <1>6, <1>7, <2>1, Zenon
<1>8. solo' => \A l \in Pools!Levs : pool'[l] = built'[l] /\ fresh'[l] \subseteq pool'[l]
  BY <1>1 DEF PoolsInv
<1> QED BY <1>5, <1>7, <1>8 DEF PoolsInv

\* A step that touches no pool.
LEMMA PoolsStay ==
  ASSUME PoolsTyped, PoolsInv, UNCHANGED <<pool, fresh, shadow, shadowNew, pBuild, built, solo>>,
         rows' \in [Pools!Ids -> Pools!Row \cup {NoRow}]
  PROVE  PoolsTyped' /\ PoolsInv'
  BY DEF PoolsTyped, PoolsInv

\* Every step keeps the pools whole.
LEMMA PoolsNext == PoolsTyped /\ PoolsInv /\ [Pools!Next]_Pools!vars => PoolsTyped' /\ PoolsInv'
<1> SUFFICES ASSUME PoolsTyped, PoolsInv, [Pools!Next]_Pools!vars PROVE PoolsTyped' /\ PoolsInv'
  OBVIOUS
<1>1. ASSUME NEW i \in Pools!Ids, NEW row \in Pools!Row, Pools!ChangeRow(i, row)
      PROVE PoolsTyped' /\ PoolsInv'
  <2>1. rows' \in [Pools!Ids -> Pools!Row \cup {NoRow}]
    BY <1>1 DEF Pools!ChangeRow, PoolsTyped
  <2> QED BY <1>1, <2>1, PoolsStay DEF Pools!ChangeRow
<1>2. ASSUME NEW w \in Builders, Pools!StopBuild(w) PROVE PoolsTyped' /\ PoolsInv'
  <2>1. /\ pBuild[w] # Pools!Idle /\ pBuild' = [pBuild EXCEPT ![w] = Pools!Idle]
        /\ UNCHANGED <<rows, pool, fresh, shadow, shadowNew, built, solo>>
    BY <1>2 DEF Pools!StopBuild
  <2>2. solo => \A l \in Pools!Levs : pool'[l] = built'[l] /\ fresh'[l] \subseteq pool'[l]
    BY <2>1 DEF PoolsInv
  <2>3. /\ pool' \in LevelSets /\ fresh' \in LevelSets /\ shadow' \in LevelSets
        /\ shadowNew' \in LevelSets /\ built' \in LevelSets
    BY <2>1 DEF PoolsTyped
  <2> QED BY <2>1, <2>2, <2>3, Rebuilds
<1>3. CASE UNCHANGED Pools!poolVars
  BY <1>3, PoolsStay DEF Pools!poolVars, PoolsTyped
<1>4. ASSUME NEW r \in Requests,
             \/ Pools!Ask(r) \/ Pools!Draw(r) \/ Pools!BuildItems(r) \/ Pools!MarkSeen(r)
             \/ Pools!FilterCounted(r) \/ Pools!Count(r) \/ Pools!MarkCounted(r) \/ Pools!Lose(r)
      PROVE  UNCHANGED Pools!poolVars
  BY <1>4 DEF Pools!Ask, Pools!Draw, Pools!BuildItems, Pools!MarkSeen, Pools!FilterCounted,
         Pools!Count, Pools!MarkCounted, Pools!Lose
<1>5. ASSUME NEW i \in Pools!Ids, Pools!Report(i) \/ Pools!Expire(i)
      PROVE UNCHANGED Pools!poolVars
  BY <1>5 DEF Pools!Report, Pools!Expire
<1>6. CASE UNCHANGED Pools!vars
  BY <1>3, <1>6 DEF Pools!vars, Pools!poolVars
<1> QED BY <1>1, <1>2, <1>3, <1>4, <1>5, <1>6, Loads, ClearsShadow, FillsShadow, FillsNew,
           Validates, LooksForNew, Promotes DEF Pools!Next

\* The pools begin empty.
LEMMA PoolsInit == Pools!Init => PoolsTyped /\ PoolsInv
<1> SUFFICES ASSUME Pools!Init PROVE PoolsTyped /\ PoolsInv
  OBVIOUS
<1>1. \A l \in Pools!Levs : pool[l] = {} /\ built[l] = {} /\ fresh[l] = {}
  BY DEF Pools!Init
<1>2. \A w \in Builders : pBuild[w] = Pools!Idle
  BY DEF Pools!Init
<1>3. PoolsTyped
  BY DEF Pools!Init, PoolsTyped, LevelSets
<1> QED BY <1>1, <1>2, <1>3 DEF PoolsInv

\* The invariant of the pools.
LEMMA PoolsAlways == Pools!Spec => [](PoolsTyped /\ PoolsInv)
  BY PoolsInit, PoolsNext, PTL DEF Pools!Spec

\* While rebuilds do not overlap, readers never meet a pool that is half rebuilt.
THEOREM PoolsWhole == Pools!Spec => []Pools!PoolsAreWhole
<1>1. PoolsTyped /\ PoolsInv => Pools!PoolsAreWhole
  BY DEF PoolsInv, Pools!PoolsAreWhole
<1> QED BY <1>1, PoolsAlways, PTL

-----------------------------------------------------------------------------
\* A page under way is well-typed, and while pages do not overlap it is the only one.
LEMMA PageUnderWay ==
  ASSUME PagesTyped, PagesInv, NEW r \in Requests, pReq[r].pc # "idle"
  PROVE  /\ pReq[r] \in Page /\ pReq[r] # Pools!Idle
         /\ pCalm => \A q \in Requests : q # r => pReq[q] = Pools!Idle
<1>1. pReq[r] \in Page /\ pReq[r] # Pools!Idle
  BY DEF PagesTyped, Pools!Idle, Page
<1> QED BY <1>1 DEF PagesInv

\* A step of a page.
LEMMA PageSteps ==
  ASSUME PagesTyped, PagesInv, NEW r \in Requests, pReq[r].pc # "idle",
         NEW b \in {Pools!Idle} \cup Page, b.pc = "draw" => b.stage =< 3 * Levels,
         pReq' = [pReq EXCEPT ![r] = b], UNCHANGED <<clientReport, pChanges>>,
         pCalm' = pCalm, counted' \subseteq Pools!Ids, stats' \in [Pools!Ids -> Nat],
         seen' \in [{"page", "report"} -> SUBSET Pools!Ids],
         pCalm => \A i \in Pools!Ids :
                    stats'[i] = 0 \/ (stats'[i] = 1 /\
                       (i \in counted' \/ (b.pc = "mark_counted" /\ i \in b.uncounted))),
         pCalm /\ b.pc = "count" => b.uncounted \cap counted' = {}
  PROVE  PagesTyped' /\ PagesInv'
<1>1. /\ pReq' \in [Requests -> {Pools!Idle} \cup Page] /\ pReq'[r] = b
      /\ \A q \in Requests : q # r => pReq'[q] = pReq[q]
  BY DEF PagesTyped
<1>2. PagesTyped'
  BY <1>1 DEF PagesTyped
<1>3. pCalm => \A q \in Requests : q # r => pReq'[q] = Pools!Idle
  BY <1>1, PageUnderWay
<1>4. ASSUME pCalm, NEW q \in Requests, pReq'[q].pc = "count"
      PROVE pReq'[q].uncounted \cap counted' = {}
  <2>1. q = r
    BY <1>3, <1>4 DEF Pools!Idle
  <2> QED BY <1>1, <1>4, <2>1
<1> QED BY <1>1, <1>2, <1>3, <1>4 DEF PagesInv

\* A step of a page that counts nothing.
LEMMA PageGoesOn ==
  ASSUME PagesTyped, PagesInv, NEW r \in Requests, pReq[r].pc \notin {"idle", "mark_counted"},
         NEW b \in {Pools!Idle} \cup Page, b.pc = "draw" => b.stage =< 3 * Levels,
         b.pc = "count" => b.uncounted \cap counted = {},
         pReq' = [pReq EXCEPT ![r] = b], UNCHANGED <<clientReport, pChanges, pCalm, counted,
         stats>>,
         seen' \in [{"page", "report"} -> SUBSET Pools!Ids]
  PROVE  PagesTyped' /\ PagesInv'
<1>1. pCalm => \A i \in Pools!Ids : stats[i] = 0 \/ (stats[i] = 1 /\ i \in counted)
  BY PageUnderWay DEF PagesInv
<1> QED BY <1>1, PageSteps DEF PagesTyped

\* A page is asked for.
LEMMA Asks ==
  ASSUME PagesTyped, PagesInv, NEW r \in Requests, Pools!Ask(r)
  PROVE  PagesTyped' /\ PagesInv'
<1> DEFINE b == [pc |-> "draw", stage |-> 1, ids |-> {}, rewind |-> FALSE, items |-> {},
                 uncounted |-> {}]
<1>1. /\ pReq[r] = Pools!Idle /\ pReq' = [pReq EXCEPT ![r] = b]
         /\ pCalm' = (pCalm /\ Pools!Running = {})
      /\ UNCHANGED <<seen, counted, stats, clientReport, pChanges>>
  BY DEF Pools!Ask
<1>2. b \in Page /\ b.pc = "draw" /\ b.stage = 1
  BY DEF Page
<1> HIDE DEF b
<1>3. /\ pReq' \in [Requests -> {Pools!Idle} \cup Page] /\ pReq'[r] = b
      /\ \A q \in Requests : q # r => pReq'[q] = pReq[q]
  BY <1>1, <1>2 DEF PagesTyped
<1>4. PagesTyped'
  BY <1>1, <1>2, <1>3, LevelsTyped DEF PagesTyped
<1>5. pCalm' => pCalm /\ \A q \in Requests : pReq[q].pc = "idle"
      /\ (q # r => pReq'[q] = Pools!Idle)
  <2>1. Pools!Running = {} => \A q \in Requests : pReq[q] = Pools!Idle
    BY DEF Pools!Running
  <2>2. Pools!Idle.pc = "idle"
    BY DEF Pools!Idle
  <2>3. pCalm' => pCalm /\ Pools!Running = {}
    BY <1>1
  <2> QED BY <1>3, <2>1, <2>2, <2>3
<1>6. pCalm' => \A i \in Pools!Ids : stats'[i] = 0 \/ (stats'[i] = 1 /\ i \in counted')
  BY <1>1, <1>5 DEF PagesInv
<1>7. pCalm' => \A q \in Requests : pReq'[q].pc \in {"draw", "idle"}
  BY <1>2, <1>3, <1>5 DEF Pools!Idle
<1> QED BY <1>3, <1>4, <1>5, <1>6, <1>7 DEF PagesInv

\* What a level holds is drawn.
LEMMA Draws ==
  ASSUME PoolsTyped, PagesTyped, PagesInv, NEW r \in Requests, Pools!Draw(r)
  PROVE  PagesTyped' /\ PagesInv'
<1> DEFINE q == pReq[r]
<1>1. /\ q.pc = "draw"
      /\ UNCHANGED <<seen, counted, stats, pCalm, clientReport, pChanges>>
  BY DEF Pools!Draw
<1>2. q \in Page /\ q.stage \in 1..(3 * Levels) /\ q.stage + 1 \in Nat \ {0}
  BY <1>1, PageUnderWay, LevelsTyped DEF PagesTyped, Page
<1>3. PICK S \in Pools!Sampled(q) :
        pReq' = [pReq EXCEPT ![r] =
             LET ids == q.ids \cup S
                 done == q.stage = 3 * Levels
                         \/ (q.stage >= 2 * Levels /\ Pools!Cardinality(ids) >= Target)
             IN  [q EXCEPT !.ids = ids, !.stage = q.stage + 1,
                           !.rewind = q.stage > 2 * Levels,
                           !.pc = IF done THEN "build" ELSE "draw"]]
  BY DEF Pools!Draw
<1>4. S \subseteq Pools!Ids
  <2>1. Pools!StageLevel(q.stage) \in Pools!Levs
    BY <1>2, LevelsTyped DEF Pools!StageLevel, Pools!Levs
  <2>2. fresh[Pools!StageLevel(q.stage)] \subseteq Pools!Ids
        /\ pool[Pools!StageLevel(q.stage)] \subseteq Pools!Ids
    BY <2>1 DEF PoolsTyped, LevelSets
  <2> QED BY <2>2 DEF Pools!Sampled, Pools!Unseen
<1> DEFINE ids == q.ids \cup S
           done == q.stage = 3 * Levels
           \/ (q.stage >= 2 * Levels /\ Pools!Cardinality(ids) >= Target)
           pc == IF done THEN "build" ELSE "draw"
           rewind == q.stage > 2 * Levels
           one == [q EXCEPT !.ids = ids]
           two == [one EXCEPT !.stage = q.stage + 1]
           three == [two EXCEPT !.rewind = rewind]
           b == [three EXCEPT !.pc = pc]
<1>5. pReq' = [pReq EXCEPT ![r] = b]
  BY <1>3, Zenon
<1>6. ids \subseteq Pools!Ids /\ pc \in {"draw", "build"} /\ rewind \in BOOLEAN
      /\ (pc = "draw" => q.stage + 1 =< 3 * Levels)
  BY <1>2, <1>4, LevelsTyped DEF Page
<1> HIDE DEF q, ids, pc, rewind
<1>7. one \in Page
  BY <1>2, <1>6 DEF Page
<1> HIDE DEF one
<1>8. two \in Page /\ two.stage = q.stage + 1
  BY <1>2, <1>7 DEF Page
<1> HIDE DEF two
<1>9. three \in Page /\ three.stage = q.stage + 1
  BY <1>6, <1>8 DEF Page
<1> HIDE DEF three
<1>10. b \in Page /\ b.pc = pc /\ b.stage = q.stage + 1
  BY <1>6, <1>9 DEF Page
<1> HIDE DEF b
<1>11. pReq[r].pc = "draw" /\ seen' \in [{"page", "report"} -> SUBSET Pools!Ids]
  BY <1>1 DEF PagesTyped, q
<1> QED BY <1>1, <1>5, <1>6, <1>10, <1>11, PageGoesOn

\* The items of a page are built.
LEMMA BuildsItems ==
  ASSUME PagesTyped, PagesInv, NEW r \in Requests, Pools!BuildItems(r)
  PROVE  PagesTyped' /\ PagesInv'
<1>1. /\ pReq[r].pc = "build" /\ UNCHANGED <<seen, counted, stats, pCalm, clientReport, pChanges>>
  BY DEF Pools!BuildItems
<1>2. PICK S \in SUBSET pReq[r].ids :
        pReq' = [pReq EXCEPT ![r] = IF S \cap Pools!Shown = {} THEN Pools!Idle
                                  ELSE [pReq[r] EXCEPT !.pc = "mark",
                                        !.items = S \cap Pools!Shown]]
  BY Zenon DEF Pools!BuildItems
<1> DEFINE one == [pReq[r] EXCEPT !.pc = "mark"]
           two == [one EXCEPT !.items = S \cap Pools!Shown]
           b == IF S \cap Pools!Shown = {} THEN Pools!Idle ELSE two
<1>3. pReq' = [pReq EXCEPT ![r] = b]
  BY <1>2, Zenon
<1>4. pReq[r] \in Page /\ S \cap Pools!Shown \subseteq Pools!Ids
  BY <1>1, PageUnderWay DEF Pools!Shown
<1>5. one \in Page /\ one.pc = "mark"
  BY <1>4 DEF Page
<1> HIDE DEF one
<1>6. two \in Page /\ two.pc = "mark"
  BY <1>4, <1>5 DEF Page
<1> HIDE DEF two
<1>7. b \in {Pools!Idle} \cup Page /\ b.pc \in {"idle", "mark"}
  BY <1>6 DEF Pools!Idle
<1> HIDE DEF b
<1>8. seen' \in [{"page", "report"} -> SUBSET Pools!Ids]
  BY <1>1 DEF PagesTyped
<1> QED BY <1>1, <1>3, <1>7, <1>8, PageGoesOn

\* The items of a page are marked as seen.
LEMMA MarksSeen ==
  ASSUME PagesTyped, PagesInv, NEW r \in Requests, Pools!MarkSeen(r)
  PROVE  PagesTyped' /\ PagesInv'
<1> DEFINE two == [pReq[r] EXCEPT !.pc = "filter"]
           b == IF pReq[r].rewind THEN Pools!Idle ELSE two
<1>1. /\ pReq[r].pc = "mark" /\ UNCHANGED <<counted, stats, pCalm, clientReport, pChanges>>
      /\ pReq' = [pReq EXCEPT ![r] = b]
      /\ seen' = IF clientReport THEN seen
           ELSE [seen EXCEPT !["page"] = seen["page"] \cup pReq[r].items]
  BY DEF Pools!MarkSeen
<1>2. pReq[r] \in Page
  BY <1>1, PageUnderWay
<1>3. two \in Page /\ two.pc = "filter"
  BY <1>2 DEF Page
<1> HIDE DEF two
<1>4. b \in {Pools!Idle} \cup Page /\ b.pc \in {"idle", "filter"}
  BY <1>3 DEF Pools!Idle
<1> HIDE DEF b
<1>5. seen' \in [{"page", "report"} -> SUBSET Pools!Ids]
  BY <1>1, <1>2 DEF PagesTyped, Page
<1> QED BY <1>1, <1>4, <1>5, PageGoesOn

\* What has been counted is left out.
LEMMA Filters ==
  ASSUME PagesTyped, PagesInv, NEW r \in Requests, Pools!FilterCounted(r)
  PROVE  PagesTyped' /\ PagesInv'
<1> DEFINE one == [pReq[r] EXCEPT !.pc = "count"]
           b == [one EXCEPT !.uncounted = Pools!Uncounted(pReq[r].items)]
<1>1. /\ pReq[r].pc = "filter" /\ UNCHANGED <<seen, counted, stats, pCalm, clientReport,
         pChanges>>
      /\ pReq' = [pReq EXCEPT ![r].pc = "count", ![r].uncounted = Pools!Uncounted(pReq[r].items)]
  BY DEF Pools!FilterCounted
<1>2. pReq[r] \in Page /\ pReq \in [Requests -> {Pools!Idle} \cup Page]
  BY <1>1, PageUnderWay DEF PagesTyped
<1>3. pReq' = [pReq EXCEPT ![r] = b]
  BY <1>1, <1>2
<1>4. Pools!Uncounted(pReq[r].items) \subseteq Pools!Ids
      /\ Pools!Uncounted(pReq[r].items) \cap counted = {}
  BY <1>2 DEF Page, Pools!Uncounted
<1>5. one \in Page /\ one.pc = "count"
  BY <1>2 DEF Page
<1> HIDE DEF one
<1>6. b \in Page /\ b.pc = "count" /\ b.uncounted \cap counted = {}
  BY <1>4, <1>5 DEF Page
<1> HIDE DEF b
<1>7. seen' \in [{"page", "report"} -> SUBSET Pools!Ids]
  BY <1>1 DEF PagesTyped
<1> QED BY <1>1, <1>3, <1>6, <1>7, PageGoesOn

\* What is left is counted.
LEMMA Counts ==
  ASSUME PagesTyped, PagesInv, NEW r \in Requests, Pools!Count(r)
  PROVE  PagesTyped' /\ PagesInv'
<1> DEFINE b == [pReq[r] EXCEPT !.pc = "mark_counted"]
<1>1. /\ pReq[r].pc = "count" /\ UNCHANGED <<seen, counted, pCalm, clientReport, pChanges>>
      /\ stats' = [i \in Pools!Ids |-> IF i \in pReq[r].uncounted THEN stats[i] + 1 ELSE stats[i]]
      /\ pReq' = [pReq EXCEPT ![r].pc = "mark_counted"]
  BY DEF Pools!Count
<1>2. /\ pReq[r] \in Page /\ pReq \in [Requests -> {Pools!Idle} \cup Page]
      /\ pCalm => \A q \in Requests : q # r => pReq[q].pc = "idle"
  BY <1>1, PageUnderWay DEF PagesTyped, Pools!Idle
<1>3. pReq' = [pReq EXCEPT ![r] = b]
  BY <1>1, <1>2
<1>4. b \in Page /\ b.pc = "mark_counted" /\ b.uncounted = pReq[r].uncounted
  BY <1>2 DEF Page
<1> HIDE DEF b
<1>5. stats' \in [Pools!Ids -> Nat]
  BY <1>1 DEF PagesTyped
<1>6. pCalm => pReq[r].uncounted \cap counted = {} /\ \A i \in Pools!Ids : stats[i] = 0
      \/ (stats[i] = 1 /\ i \in counted)
  BY <1>1, <1>2 DEF PagesInv
<1>7. pCalm => \A i \in Pools!Ids :
                 stats'[i] = 0 \/ (stats'[i] = 1 /\
                    (i \in counted' \/ (b.pc = "mark_counted" /\ i \in b.uncounted)))
  BY <1>1, <1>4, <1>6
<1> QED BY <1>1, <1>3, <1>4, <1>5, <1>7, PageSteps DEF PagesTyped

\* What has been counted is recorded.
LEMMA MarksCounted ==
  ASSUME PagesTyped, PagesInv, NEW r \in Requests, Pools!MarkCounted(r)
  PROVE  PagesTyped' /\ PagesInv'
<1>1. /\ pReq[r].pc = "mark_counted" /\ UNCHANGED <<seen, stats, pCalm, clientReport, pChanges>>
      /\ counted' = counted \cup pReq[r].uncounted /\ pReq' = [pReq EXCEPT ![r] = Pools!Idle]
  BY DEF Pools!MarkCounted
<1>2. /\ pReq[r] \in Page
      /\ pCalm => \A q \in Requests : q # r => pReq[q].pc = "idle"
  BY <1>1, PageUnderWay DEF PagesTyped, Pools!Idle
<1>3. counted' \subseteq Pools!Ids
  BY <1>1, <1>2 DEF PagesTyped, Page
<1>4. pCalm => \A i \in Pools!Ids : stats'[i] = 0 \/ (stats'[i] = 1 /\ i \in counted')
  BY <1>1, <1>2 DEF PagesInv
<1>5. Pools!Idle.pc = "idle" /\ Pools!Idle \in {Pools!Idle} \cup Page
  BY DEF Pools!Idle
<1> QED BY <1>1, <1>3, <1>4, <1>5, PageSteps DEF PagesTyped

\* A page that is lost, or a record that expires, ends what is known of the counts.
LEMMA CalmEnds ==
  ASSUME PagesTyped, PagesInv, pCalm' = FALSE, pReq' \in [Requests -> {Pools!Idle} \cup Page],
         \A r \in Requests : pReq'[r] \in {Pools!Idle, pReq[r]}, counted' \subseteq Pools!Ids,
         seen' \in [{"page", "report"} -> SUBSET Pools!Ids], pChanges' \in 0..PoolChanges,
         UNCHANGED <<stats, clientReport>>
  PROVE  PagesTyped' /\ PagesInv'
<1>1. Pools!Idle.pc # "draw"
  BY DEF Pools!Idle
<1> QED BY <1>1 DEF PagesTyped, PagesInv

\* A step that touches no page.
LEMMA PagesStay ==
  ASSUME PagesTyped, PagesInv, UNCHANGED <<pReq, counted, stats, pCalm, clientReport>>,
         seen' \in [{"page", "report"} -> SUBSET Pools!Ids], pChanges' \in 0..PoolChanges
  PROVE  PagesTyped' /\ PagesInv'
  BY DEF PagesTyped, PagesInv

\* A change is one of those the bound allows.
LEMMA Spends ==
  ASSUME PagesTyped, Pools!Spend
  PROVE  pChanges' \in 0..PoolChanges
  BY FeedAssumption, BoundsAssumption DEF PagesTyped, Pools!Spend

\* Every step keeps the counts.
LEMMA PagesNext == PoolsTyped /\ PagesTyped /\ PagesInv /\ [Pools!Next]_Pools!vars => PagesTyped'
/\ PagesInv'
<1> SUFFICES ASSUME PoolsTyped, PagesTyped, PagesInv, [Pools!Next]_Pools!vars
             PROVE PagesTyped' /\ PagesInv'
  OBVIOUS
<1>1. ASSUME UNCHANGED Pools!viewerVars, pChanges' \in 0..PoolChanges
      PROVE PagesTyped' /\ PagesInv'
  <2>1. seen' \in [{"page", "report"} -> SUBSET Pools!Ids]
    BY <1>1 DEF Pools!viewerVars, PagesTyped
  <2> QED BY <1>1, <2>1, PagesStay DEF Pools!viewerVars
<1>2. ASSUME NEW i \in Pools!Ids, NEW row \in Pools!Row, Pools!ChangeRow(i, row)
      PROVE PagesTyped' /\ PagesInv'
  BY <1>1, <1>2, Spends DEF Pools!ChangeRow
<1>3. ASSUME NEW w \in Builders,
             \/ Pools!Load(w) \/ Pools!ClearShadow(w) \/ Pools!FillShadow(w) \/ Pools!FillNew(w)
             \/ Pools!Validate(w) \/ Pools!Exists(w) \/ Pools!Promote(w)
      PROVE  PagesTyped' /\ PagesInv'
  <2>1. UNCHANGED <<Pools!viewerVars, pChanges>>
    BY <1>3 DEF Pools!Load, Pools!ClearShadow, Pools!FillShadow, Pools!FillNew, Pools!Validate,
           Pools!Exists, Pools!Promote
  <2> QED BY <1>1, <2>1 DEF PagesTyped
<1>4. ASSUME NEW w \in Builders, Pools!StopBuild(w) PROVE PagesTyped' /\ PagesInv'
  BY <1>1, <1>4, Spends DEF Pools!StopBuild
<1>5. ASSUME NEW i \in Pools!Ids, Pools!Report(i) PROVE PagesTyped' /\ PagesInv'
  <2>1. seen' \in [{"page", "report"} -> SUBSET Pools!Ids]
    BY <1>5 DEF Pools!Report, PagesTyped
  <2> QED BY <1>5, <2>1, Spends, PagesStay DEF Pools!Report
<1>6. ASSUME NEW i \in Pools!Ids, Pools!Expire(i) PROVE PagesTyped' /\ PagesInv'
  <2>1. seen' \in [{"page", "report"} -> SUBSET Pools!Ids] /\ counted' \subseteq Pools!Ids
    BY <1>6 DEF Pools!Expire, PagesTyped
  <2> QED BY <1>6, <2>1, Spends, CalmEnds DEF Pools!Expire, PagesTyped
<1>7. ASSUME NEW r \in Requests, Pools!Lose(r) PROVE PagesTyped' /\ PagesInv'
  BY <1>7, Spends, CalmEnds DEF Pools!Lose, PagesTyped
<1>8. CASE UNCHANGED Pools!vars
  BY <1>1, <1>8 DEF Pools!vars, Pools!viewerVars, PagesTyped
<1> QED BY <1>2, <1>3, <1>4, <1>5, <1>6, <1>7, <1>8, Asks, Draws, BuildsItems, MarksSeen, Filters,
           Counts, MarksCounted DEF Pools!Next

\* Nothing has been asked for or counted.
LEMMA PagesInit == Pools!Init => PagesTyped /\ PagesInv
<1> SUFFICES ASSUME Pools!Init PROVE PagesTyped /\ PagesInv
  OBVIOUS
<1>1. (\A r \in Requests : pReq[r] = Pools!Idle) /\ (\A i \in Pools!Ids : stats[i] = 0)
  BY DEF Pools!Init
<1>2. Pools!Idle.pc = "idle" /\ 0 \in 0..PoolChanges
  BY FeedAssumption, BoundsAssumption DEF Pools!Idle
<1>3. PagesTyped
  BY <1>1, <1>2 DEF Pools!Init, PagesTyped
<1> QED BY <1>1, <1>2, <1>3 DEF PagesInv

\* The invariant of the pages.
LEMMA PagesAlways == Pools!Spec => [](PagesTyped /\ PagesInv)
<1>1. PoolsTyped /\ PagesTyped /\ PagesInv /\ [Pools!Next]_Pools!vars => PagesTyped' /\ PagesInv'
  BY PagesNext
<1> QED BY <1>1, PagesInit, PoolsAlways, PTL DEF Pools!Spec

\* While pages do not overlap and none is lost, a viewer adds at most one to the count of an item.
THEOREM CountsOnce == Pools!Spec => []Pools!CountedOnce
<1>1. PagesInv => Pools!CountedOnce
  BY DEF PagesInv, Pools!CountedOnce
<1> QED BY <1>1, PagesAlways, PTL

\* The pools, the rebuilds, the pages and their records hold values of their kinds.
THEOREM PoolTypes == Pools!Spec => []Pools!TypeOK
<1>1. PoolsTyped /\ PagesTyped => Pools!TypeOK
  BY DEF PoolsTyped, PagesTyped, LevelSets, Pools!TypeOK
<1> QED BY <1>1, PoolsAlways, PagesAlways, PTL

\* The part that is Pools behaves as the component does.
LEMMA PoolsBehaves == Spec => Pools!Spec
<1>1. Init => Pools!Init
  BY DEF Init
<1>2. [Next]_vars => [Pools!Next]_Pools!vars
  BY PartsNext DEF poolVars, builderVars, viewerVars, Pools!vars
<1> QED BY <1>1, <1>2, PTL DEF Spec, Pools!Spec

\* However rebuilds follow one another and die on their way, readers never meet a pool that is
\* half rebuilt.
THEOREM PoolsArePromoted == Spec => []PoolsAreWhole
BY PoolsBehaves, PoolsWhole, PTL DEF PoolsAreWhole

\* However pages are drawn, repeated and rewound, while none overlaps with another, is lost or
\* loses its record, a viewer adds at most one to the count of an item.
THEOREM ViewersCountOnce == Spec => []CountedOnce
BY PoolsBehaves, CountsOnce, PTL DEF CountedOnce

-----------------------------------------------------------------------------
(***************************************************************************)
(* PublishedFeed: a reader who scrolls to the end sees every item once.    *)
(***************************************************************************)

\* The rows and the scroll have their types; a row that is shown is stored.
FeedTyped ==
    /\ fRows \in [Feed!Ids -> Feed!Row \cup {NoRow}] /\ now \in 0..MaxTime
    /\ fChanges \in 0..MaxChanges
    /\ scroll \in [kind : {"keyset", "offset"}, last : 0..MaxItems, at : 0..MaxTime,
                   offset : Nat, shown : SUBSET Feed!Ids, again : SUBSET Feed!Ids,
                   more : BOOLEAN]
    /\ kept \subseteq Feed!Ids /\ still \in BOOLEAN /\ swamped \in BOOLEAN

\* What comes before i in S, and what after.
Ahead(S, i) == {j \in S : Feed!After(i, j)}
Behind(S, i) == {j \in S : Feed!After(j, i)}

\* The first n of S, with the operators of this module.
LEMMA FirstIs ==
  ASSUME NEW S, NEW n
  PROVE  Feed!First(S, n) = {i \in S : Cardinality(Ahead(S, i)) < n}
BY DEF Feed!First, Feed!Cardinality, Cardinality, Ahead

\* The rows are in a strict order.
LEMMA RowsInOrder ==
  ASSUME FeedTyped
  PROVE  /\ \A i \in Feed!Stored : ~Feed!After(i, i)
         /\ \A i, j, k \in Feed!Stored :
               Feed!After(i, j) /\ Feed!After(j, k) => Feed!After(i, k)
         /\ \A i, j \in Feed!Stored : i = j \/ Feed!After(i, j) \/ Feed!After(j, i)
         /\ \A i, j \in Feed!Stored : ~(Feed!After(i, j) /\ Feed!After(j, i))
<1>1. \A i \in Feed!Stored : i \in Nat /\ fRows[i].at \in Nat
  <2>1. \A i \in Feed!Stored : i \in 1..MaxItems /\ fRows[i] \in Feed!Row
    BY DEF FeedTyped, Feed!Stored, Feed!Ids
  <2> QED BY <2>1, FeedAssumption DEF Feed!Row
<1> QED BY <1>1 DEF Feed!After

LEMMA FewRows ==
  ASSUME NEW S, S \subseteq Feed!Stored
  PROVE  /\ IsFiniteSet(S) /\ Cardinality(S) \in Nat
         /\ \A T : T \subseteq S => /\ IsFiniteSet(T) /\ Cardinality(T) \in Nat
                                    /\ Cardinality(T) <= Cardinality(S)
                                    /\ T # S => Cardinality(T) < Cardinality(S)
<1>1. IsFiniteSet(1..MaxItems)
  BY FS_Interval, FeedAssumption
<1>2. S \subseteq 1..MaxItems
  BY DEF Feed!Stored, Feed!Ids
<1>3. IsFiniteSet(S)
  BY <1>1, <1>2, FS_Subset
<1>4. ASSUME NEW T, T \subseteq S
      PROVE  /\ IsFiniteSet(T) /\ Cardinality(T) \in Nat /\ Cardinality(T) <= Cardinality(S)
             /\ T # S => Cardinality(T) < Cardinality(S)
  <2>1. IsFiniteSet(T) /\ Cardinality(T) <= Cardinality(S)
    BY <1>3, <1>4, FS_Subset
  <2>2. T # S => Cardinality(T) # Cardinality(S)
    BY <1>3, <1>4, FS_Subset
  <2> QED BY <2>1, <2>2, <1>3, FS_CardinalityType
<1> QED BY <1>3, <1>4, FS_CardinalityType

\* Among sets that shrink along with the rows they are of, one is empty.
LEMMA ShrinkToNone ==
  ASSUME NEW T, T \subseteq Feed!Stored, T # {}, NEW C \in [T -> SUBSET T],
         \A i \in T : i \notin C[i], \A i \in T : \A j \in C[i] : C[j] \subseteq C[i]
  PROVE  \E i \in T : C[i] = {}
<1> DEFINE size == {Cardinality(C[i]) : i \in T}
<1>1. \A i \in T : Cardinality(C[i]) \in Nat
  BY FewRows
<1>2. size \subseteq Nat /\ size # {}
  BY <1>1
<1>3. PICK z \in size : \A k \in size : z <= k
  <2> HIDE DEF size
  <2> QED BY <1>2, FirstOfSome
<1>4. PICK i \in T : z = Cardinality(C[i])
  BY <1>3
<1>5. \A j \in T : Cardinality(C[i]) <= Cardinality(C[j])
  BY <1>3, <1>4
<1>6. ASSUME NEW j \in C[i] PROVE FALSE
  <2>1. j \in T /\ C[j] \subseteq C[i] /\ j \notin C[j]
    OBVIOUS
  <2>2. C[j] # C[i] /\ C[i] \subseteq Feed!Stored
    BY <2>1
  <2>3. Cardinality(C[j]) < Cardinality(C[i])
    BY <2>1, <2>2, FewRows
  <2> QED BY <1>1, <1>5, <2>1, <2>3
<1> QED BY <1>6

\* Some rows have a newest and an oldest among them.
LEMMA NewestAndOldest ==
  ASSUME FeedTyped, NEW T, T \subseteq Feed!Stored, T # {}
  PROVE  /\ \E i \in T : \A j \in T : ~Feed!After(i, j)
         /\ \E i \in T : \A j \in T \ {i} : Feed!After(j, i) = FALSE /\ Feed!After(i, j)
<1>1. \E i \in T : Ahead(T, i) = {}
  <2> DEFINE C == [i \in T |-> Ahead(T, i)]
  <2>1. C \in [T -> SUBSET T] /\ \A i \in T : C[i] = Ahead(T, i)
    BY DEF Ahead
  <2> HIDE DEF C
  <2>2. \A i \in T : i \notin C[i]
    BY <2>1, RowsInOrder DEF Ahead
  <2>3. \A i \in T : \A j \in C[i] : C[j] \subseteq C[i]
    BY <2>1, RowsInOrder DEF Ahead
  <2> QED BY <2>1, <2>2, <2>3, ShrinkToNone
<1>2. \E i \in T : Behind(T, i) = {}
  <2> DEFINE C == [i \in T |-> Behind(T, i)]
  <2>1. C \in [T -> SUBSET T] /\ \A i \in T : C[i] = Behind(T, i)
    BY DEF Behind
  <2> HIDE DEF C
  <2>2. \A i \in T : i \notin C[i]
    BY <2>1, RowsInOrder DEF Behind
  <2>3. \A i \in T : \A j \in C[i] : C[j] \subseteq C[i]
    BY <2>1, RowsInOrder DEF Behind
  <2> QED BY <2>1, <2>2, <2>3, ShrinkToNone
<1> QED BY <1>1, <1>2, RowsInOrder DEF Ahead, Behind

-----------------------------------------------------------------------------
(* The first rows                                                          *)

\* What comes before a row of the first is of the first.
LEMMA FirstIsAhead ==
  ASSUME FeedTyped, NEW S, S \subseteq Feed!Stored, NEW n \in Nat
  PROVE  /\ Feed!First(S, n) \subseteq S
         /\ \A i \in Feed!First(S, n) : Ahead(S, i) \subseteq Feed!First(S, n)
<1>1. ASSUME NEW i \in Feed!First(S, n), NEW j \in Ahead(S, i) PROVE j \in Feed!First(S, n)
  <2>1. i \in S /\ j \in S /\ Cardinality(Ahead(S, i)) < n
    BY FirstIs DEF Ahead
  <2>2. Ahead(S, j) \subseteq Ahead(S, i) /\ Ahead(S, i) \subseteq Feed!Stored
    BY <2>1, RowsInOrder DEF Ahead
  <2>3. /\ Cardinality(Ahead(S, j)) \in Nat /\ Cardinality(Ahead(S, i)) \in Nat
        /\ Cardinality(Ahead(S, j)) <= Cardinality(Ahead(S, i))
    BY <2>2, FewRows
  <2> QED BY <2>1, <2>3, FirstIs
<1> QED BY <1>1, FirstIs

\* There are n of them, or all.
LEMMA FirstSize ==
  ASSUME FeedTyped, NEW S, S \subseteq Feed!Stored, NEW n \in Nat
  PROVE  /\ Cardinality(Feed!First(S, n)) \in Nat /\ Cardinality(Feed!First(S, n)) <= n
         /\ Cardinality(Feed!First(S, n)) < n => Feed!First(S, n) = S
         /\ Cardinality(S) <= n => Feed!First(S, n) = S
<1> DEFINE F == Feed!First(S, n)
<1>1. F \subseteq S /\ \A i \in F : Ahead(S, i) \subseteq F
  BY FirstIsAhead
<1>2. \A i \in S : i \in F <=> Cardinality(Ahead(S, i)) < n
  BY FirstIs
<1>3. \A i \in S : /\ Cardinality(Ahead(S, i)) \in Nat /\ IsFiniteSet(Ahead(S, i))
                   /\ i \notin Ahead(S, i)
  BY FewRows, RowsInOrder DEF Ahead
<1>4. Cardinality(F) \in Nat /\ IsFiniteSet(F)
  BY <1>1, FewRows
<1> HIDE DEF F
<1>5. Cardinality(F) <= n
  <2>1. CASE F = {}
    BY <2>1, FS_EmptySet
  <2>2. CASE F # {}
    <3>1. PICK i \in F : \A j \in F \ {i} : Feed!After(i, j)
      BY <1>1, <2>2, NewestAndOldest
    <3>2. F \subseteq Ahead(S, i) \cup {i}
      BY <1>1, <3>1 DEF Ahead
    <3>3. Cardinality(Ahead(S, i) \cup {i}) = Cardinality(Ahead(S, i)) + 1
      BY <1>1, <1>3, <3>1, FS_AddElement
    <3>4. Ahead(S, i) \cup {i} \subseteq Feed!Stored
      BY <1>1, <3>1 DEF Ahead
    <3>5. Cardinality(F) <= Cardinality(Ahead(S, i) \cup {i})
      BY <3>2, <3>4, FewRows
    <3> QED BY <1>1, <1>2, <1>3, <1>4, <3>1, <3>3, <3>5
  <2> QED BY <2>1, <2>2
<1>6. ASSUME F # S PROVE Cardinality(F) >= n
  <2>1. PICK i \in S \ F : \A j \in S \ F : ~Feed!After(i, j)
    <3>1. S \ F # {} /\ S \ F \subseteq Feed!Stored
      BY <1>1, <1>6
    <3> QED BY <3>1, NewestAndOldest
  <2>2. Ahead(S, i) \subseteq F
    BY <2>1 DEF Ahead
  <2>3. Cardinality(Ahead(S, i)) <= Cardinality(F) /\ Cardinality(Ahead(S, i)) \in Nat
    BY <1>1, <2>2, FewRows
  <2> QED BY <1>2, <1>4, <2>1, <2>3
<1>7. ASSUME Cardinality(S) <= n, NEW i \in S PROVE i \in F
  <2>1. Ahead(S, i) \subseteq S /\ Ahead(S, i) # S
    BY <1>3 DEF Ahead
  <2>2. Cardinality(Ahead(S, i)) < Cardinality(S) /\ Cardinality(S) \in Nat
    BY <2>1, FewRows
  <2> QED BY <1>2, <1>3, <1>7, <2>2
<1> QED BY <1>1, <1>4, <1>5, <1>6, <1>7 DEF F

\* The first m of the first n.
LEMMA FirstOfFirst ==
  ASSUME FeedTyped, NEW S, S \subseteq Feed!Stored, NEW n \in Nat, NEW k \in Nat, k <= n
  PROVE  Feed!First(Feed!First(S, n), k) = Feed!First(S, k)
<1> DEFINE F == Feed!First(S, n)
<1>1. F \subseteq S /\ \A i \in F : Ahead(S, i) \subseteq F
  BY FirstIsAhead
<1>2. \A i \in S : /\ i \in F <=> Cardinality(Ahead(S, i)) < n
                   /\ i \in Feed!First(S, k) <=> Cardinality(Ahead(S, i)) < k
                   /\ Cardinality(Ahead(S, i)) \in Nat
  BY FirstIs, FewRows DEF Ahead
<1>3. Feed!First(S, k) \subseteq F
  BY <1>2, FirstIs
<1> HIDE DEF F
<1>4. /\ Feed!First(F, k) \subseteq F
      /\ \A i \in F : i \in Feed!First(F, k) <=> Cardinality(Ahead(F, i)) < k
  BY FirstIs
<1>5. \A i \in F : Ahead(F, i) = Ahead(S, i)
  BY <1>1 DEF Ahead
<1>6. Feed!First(F, k) = Feed!First(S, k)
  BY <1>1, <1>2, <1>3, <1>4, <1>5
<1> QED BY <1>6 DEF F

\* The first n, and the next k after them.
LEMMA FirstAndNext ==
  ASSUME FeedTyped, NEW S, S \subseteq Feed!Stored, NEW n \in Nat, NEW k \in Nat,
         NEW both \in Nat, both = n + k,
         NEW F, F = Feed!First(S, n), NEW R, R = S \ F
  PROVE  Feed!First(S, both) = F \cup Feed!First(R, k)
<1>1. F \subseteq S /\ \A i \in F : Ahead(S, i) \subseteq F
  BY FirstIsAhead
<1>2. /\ \A i \in S : i \in Feed!First(S, both) <=> Cardinality(Ahead(S, i)) < both
      /\ \A i \in S : i \in F <=> Cardinality(Ahead(S, i)) < n
      /\ \A i \in R : i \in Feed!First(R, k) <=> Cardinality(Ahead(R, i)) < k
      /\ Feed!First(R, k) \subseteq R /\ Feed!First(S, both) \subseteq S
  BY FirstIs
<1>3. \A i \in S : Cardinality(Ahead(S, i)) \in Nat
  BY FewRows DEF Ahead
<1>5. ASSUME NEW i \in R PROVE Cardinality(Ahead(S, i)) = n + Cardinality(Ahead(R, i))
  <2>1. \A j \in F : Feed!After(i, j)
    <3> SUFFICES ASSUME NEW j \in F, ~Feed!After(i, j) PROVE FALSE
      OBVIOUS
    <3>1. i \in S /\ j \in S /\ i # j
      BY <1>1
    <3>2. Feed!After(j, i)
      BY <3>1, RowsInOrder
    <3>3. i \in Ahead(S, j)
      BY <3>1, <3>2 DEF Ahead
    <3> QED BY <1>1, <3>3
  <2>2. Ahead(S, i) = F \cup Ahead(R, i) /\ F \cap Ahead(R, i) = {}
    BY <1>1, <2>1 DEF Ahead
  <2>3. IsFiniteSet(F) /\ IsFiniteSet(Ahead(R, i))
    BY <1>1, FewRows DEF Ahead
  <2>4. Cardinality(F) = n
    <3>1. /\ Cardinality(F) \in Nat /\ Cardinality(F) <= n
          /\ Cardinality(F) < n => F = S
      BY FirstSize
    <3>2. F # S
      OBVIOUS
    <3> QED BY <3>1, <3>2
  <2>5. Cardinality(F \cup Ahead(R, i)) = Cardinality(F) + Cardinality(Ahead(R, i))
    <3>1. Cardinality(F \cup Ahead(R, i)) =
            Cardinality(F) + Cardinality(Ahead(R, i)) - Cardinality(F \cap Ahead(R, i))
      BY <2>3, FS_Union
    <3>2. Cardinality(F \cap Ahead(R, i)) = 0
      BY <2>2, FS_EmptySet
    <3>3. Cardinality(F) \in Nat /\ Cardinality(Ahead(R, i)) \in Nat
      BY <2>3, FS_CardinalityType
    <3> QED BY <3>1, <3>2, <3>3
  <2> QED BY <2>2, <2>4, <2>5
<1>4. Feed!First(S, both) = F \cup Feed!First(R, k)
  <2>1. ASSUME NEW i \in S PROVE i \in Feed!First(S, both) <=> i \in F \cup Feed!First(R, k)
    <3>1. CASE i \in F
      <4>1. Cardinality(Ahead(S, i)) < n
        BY <1>2, <3>1
      <4> QED BY <1>2, <1>3, <3>1, <4>1
    <3>2. CASE i \notin F
      <4>1. i \in R /\ Cardinality(Ahead(R, i)) \in Nat
        BY <3>2, FewRows DEF Ahead
      <4>2. i \in Feed!First(S, both) <=> n + Cardinality(Ahead(R, i)) < both
        BY <1>2, <1>5, <4>1
      <4>3. i \in Feed!First(R, k) <=> Cardinality(Ahead(R, i)) < k
        BY <1>2, <4>1
      <4> QED BY <3>2, <4>1, <4>2, <4>3
    <3> QED BY <3>1, <3>2
  <2> QED BY <1>1, <1>2, <2>1
<1> QED BY <1>4

-----------------------------------------------------------------------------
(* The scroll                                                              *)

\* A keyset scroll has shown rows at or before its cursor, none twice, and what has been listed
\* since it began is shown or is still to come, unless a window was swamped.
KeysetInv ==
    /\ scroll.again = {}
    /\ \A i \in scroll.shown :
         i \in Feed!Stored /\ scroll.last # 0 /\ ~Feed!BeforeCursor(i)
    /\ ~swamped =>
         \A i \in kept : i \in scroll.shown \/ (scroll.more /\ Feed!BeforeCursor(i))

\* An offset scroll has shown the first rows, while nothing changes.
OffsetInv ==
    /\ kept = Feed!Playable /\ scroll.again = {}
    /\ scroll.shown = Feed!Playable \cap Feed!First(Feed!Listed, scroll.offset)
    /\ ~scroll.more => Feed!First(Feed!Listed, scroll.offset) = Feed!Listed

\* The invariant of a scroll.
ScrollInv ==
    /\ kept \subseteq Feed!Playable
    /\ scroll.kind = "keyset" => KeysetInv
    /\ scroll.kind = "offset" /\ still => OffsetInv

\* The queries while no row changes.
LEMMA RowsStay ==
  ASSUME fRows' = fRows
  PROVE  /\ Feed!Stored' = Feed!Stored /\ Feed!Listed' = Feed!Listed
         /\ Feed!Playable' = Feed!Playable
         /\ Feed!First(Feed!Listed, scroll.offset)' = Feed!First(Feed!Listed, scroll'.offset)
<1>1. Feed!Stored' = Feed!Stored
  BY DEF Feed!Stored
<1>2. Feed!Listed' = Feed!Listed
  BY <1>1 DEF Feed!Listed
<1>3. Feed!Playable' = Feed!Playable
  BY <1>2 DEF Feed!Playable
<1>4. Feed!First(Feed!Listed, scroll.offset)' = Feed!First(Feed!Listed, scroll'.offset)
  BY <1>2 DEF Feed!First, Feed!After
<1> QED BY <1>1, <1>2, <1>3, <1>4

\* The queries are of rows that are stored.
LEMMA Queries == Feed!Playable \subseteq Feed!Listed /\ Feed!Listed \subseteq Feed!Stored
BY DEF Feed!Playable, Feed!Listed

\* A change to a row keeps the time it was created.
LEMMA ChangeNext ==
  ASSUME FeedTyped, ScrollInv, NEW new \in [Feed!Ids -> Feed!Row \cup {NoRow}],
         \A j \in Feed!Stored : new[j] # NoRow /\ new[j].at = fRows[j].at,
         Feed!Change(new), now' = now
  PROVE  FeedTyped' /\ ScrollInv'
<1>1. /\ fRows' = new /\ scroll' = scroll /\ swamped' = swamped /\ still' = FALSE
      /\ fChanges' = fChanges + 1 /\ fChanges < MaxChanges
      /\ kept' = kept \cap {i \in Feed!Listed : new[i] # NoRow /\ new[i].listed
                                                /\ new[i].playable}
  BY DEF Feed!Change
<1>2. FeedTyped'
  <2>1. fChanges' \in 0..MaxChanges /\ kept' \subseteq Feed!Ids
    BY <1>1, FeedAssumption DEF FeedTyped
  <2>2. fRows' \in [Feed!Ids -> Feed!Row \cup {NoRow}] /\ still' \in BOOLEAN
    BY <1>1
  <2> QED BY <1>1, <2>1, <2>2 DEF FeedTyped
<1>3. kept' \subseteq kept /\ kept' \subseteq Feed!Playable'
  BY <1>1, Queries DEF Feed!Playable, Feed!Listed, Feed!Stored
<1>4. \A i \in Feed!Stored : i \in Feed!Stored' /\ (Feed!BeforeCursor(i)' <=> Feed!BeforeCursor(i))
  BY <1>1 DEF Feed!Stored, Feed!BeforeCursor
<1>5. kept \subseteq Feed!Stored
  BY Queries DEF ScrollInv
<1>6. KeysetInv => KeysetInv'
  BY <1>1, <1>3, <1>4, <1>5 DEF KeysetInv
<1> QED BY <1>1, <1>2, <1>3, <1>6 DEF ScrollInv

\* A new row, and one that is listed or is no longer.
LEMMA RowsNext ==
  ASSUME FeedTyped, ScrollInv, NEW i \in Feed!Ids,
         \/ \E listed, playable \in BOOLEAN : Feed!Publish(i, listed, playable)
         \/ Feed!List(i)
  PROVE  FeedTyped' /\ ScrollInv'
<1>1. ASSUME NEW listed \in BOOLEAN, NEW playable \in BOOLEAN, Feed!Publish(i, listed, playable)
      PROVE FeedTyped' /\ ScrollInv'
  <2> DEFINE new == [fRows EXCEPT ![i] = [at |-> now, listed |-> listed, playable |-> playable]]
  <2>1. Feed!Change(new) /\ now' = now /\ i \notin Feed!Stored
    BY <1>1 DEF Feed!Publish, Feed!Stored
  <2>2. new \in [Feed!Ids -> Feed!Row \cup {NoRow}]
    BY DEF FeedTyped, Feed!Row
  <2>3. \A j \in Feed!Stored : new[j] # NoRow /\ new[j].at = fRows[j].at
    BY <2>1 DEF FeedTyped, Feed!Stored
  <2> QED BY <2>1, <2>2, <2>3, ChangeNext
<1>2. CASE Feed!List(i)
  <2> DEFINE new == [fRows EXCEPT ![i].listed = ~@]
  <2>1. Feed!Change(new) /\ now' = now /\ fRows[i] \in Feed!Row
    BY <1>2 DEF Feed!List, FeedTyped
  <2>2. new[i] \in Feed!Row /\ new[i].at = fRows[i].at
    BY <2>1 DEF FeedTyped, Feed!Row
  <2>3. new \in [Feed!Ids -> Feed!Row \cup {NoRow}] /\ \A j \in Feed!Ids \ {i} : new[j] = fRows[j]
    BY <2>2 DEF FeedTyped
  <2>4. NoRow \notin Feed!Row
    BY FeedAssumption DEF Feed!Row
  <2>5. \A j \in Feed!Stored : new[j] # NoRow /\ new[j].at = fRows[j].at
    BY <2>2, <2>3, <2>4 DEF Feed!Stored
  <2> HIDE DEF new
  <2> QED BY <2>1, <2>3, <2>5, ChangeNext
<1> QED BY <1>1, <1>2

\* A scroll that begins has shown nothing.
LEMMA OpenNext ==
  ASSUME FeedTyped, NEW kind \in {"keyset", "offset"}, Feed!Open(kind)
  PROVE  FeedTyped' /\ ScrollInv'
<1>1. /\ scroll' = Feed!Start(kind) /\ kept' = Feed!Playable /\ still' = TRUE
      /\ swamped' = FALSE /\ fRows' = fRows /\ now' = now /\ fChanges' = fChanges
  BY DEF Feed!Open
<1>2. /\ scroll'.kind = kind /\ scroll'.last = 0 /\ scroll'.offset = 0 /\ scroll'.shown = {}
      /\ scroll'.again = {} /\ scroll'.more = TRUE
  BY <1>1 DEF Feed!Start
<1>3. FeedTyped'
  <2>1. Feed!Playable \subseteq Feed!Ids
    BY DEF Feed!Playable, Feed!Listed, Feed!Stored
  <2>2. scroll' \in [kind : {"keyset", "offset"}, last : 0..MaxItems, at : 0..MaxTime,
                     offset : Nat, shown : SUBSET Feed!Ids, again : SUBSET Feed!Ids,
                     more : BOOLEAN]
    BY <1>1, FeedAssumption DEF Feed!Start
  <2> QED BY <1>1, <2>1, <2>2 DEF FeedTyped
<1>4. KeysetInv'
  BY <1>2 DEF KeysetInv, Feed!BeforeCursor
<1>5. Feed!First(Feed!Listed, 0) = {}
  <2>1. \A i : Cardinality(Ahead(Feed!Listed, i)) \in Nat
    BY FewRows, Queries DEF Ahead
  <2>2. \A i : ~(Cardinality(Ahead(Feed!Listed, i)) < 0)
    BY <2>1
  <2> QED BY <2>2, FirstIs
<1>6. OffsetInv'
  BY <1>1, <1>2, <1>5, RowsStay DEF OffsetInv
<1> QED BY <1>1, <1>3, <1>4, <1>6, RowsStay DEF ScrollInv

\* A row that can be shown and comes before one of the page is of the page.
LEMMA PageIsAhead ==
  ASSUME FeedTyped, NEW C, C \subseteq Feed!Stored, NEW page,
         page = Feed!First(Feed!First({i \in Feed!First(C, Window) : fRows[i].playable},
                                      Limit + 1), Limit)
  PROVE  /\ page \subseteq {i \in C : fRows[i].playable}
         /\ \A j \in page : \A i \in C : fRows[i].playable /\ Feed!After(j, i) => i \in page
<1> DEFINE read == Feed!First(C, Window)
           P == {i \in read : fRows[i].playable}
           accepted == Feed!First(P, Limit + 1)
<1>1. Window \in Nat /\ Limit \in Nat /\ Limit + 1 \in Nat
  BY FeedAssumption
<1>2. read \subseteq C /\ \A i \in read : Ahead(C, i) \subseteq read
  BY <1>1, FirstIsAhead
<1>3. P \subseteq Feed!Stored
  BY <1>2
<1>4. accepted \subseteq P /\ \A i \in accepted : Ahead(P, i) \subseteq accepted
  BY <1>1, <1>3, FirstIsAhead
<1>5. page \subseteq accepted /\ \A i \in page : Ahead(accepted, i) \subseteq page
  <2>1. accepted \subseteq Feed!Stored
    BY <1>3, <1>4
  <2> HIDE DEF accepted
  <2>2. page = Feed!First(accepted, Limit)
    BY DEF accepted
  <2> QED BY <1>1, <2>1, <2>2, FirstIsAhead
<1> HIDE DEF read, accepted
<1>6. ASSUME NEW j \in page, NEW i \in C, fRows[i].playable, Feed!After(j, i)
      PROVE  i \in page
  <2>1. i \in P
    BY <1>2, <1>4, <1>5, <1>6 DEF Ahead
  <2>2. i \in accepted
    BY <1>4, <1>5, <1>6, <2>1 DEF Ahead
  <2> QED BY <1>5, <1>6, <2>2 DEF Ahead
<1> QED BY <1>2, <1>4, <1>5, <1>6

\* What a page holds of its window: all that can be shown of a window that is not full, or a
\* row at least.
LEMMA PageSize ==
  ASSUME FeedTyped, NEW C, C \subseteq Feed!Stored, NEW read, read = Feed!First(C, Window),
         NEW accepted, accepted = Feed!First({i \in read : fRows[i].playable}, Limit + 1),
         NEW page, page = Feed!First(accepted, Limit)
  PROVE  /\ Cardinality(accepted) <= Limit /\ Cardinality(read) # Window =>
              page = {i \in C : fRows[i].playable}
         /\ Cardinality(accepted) > Limit => page # {}
<1>1. Window \in Nat /\ Limit \in Nat /\ Limit # 0 /\ Limit + 1 \in Nat
  BY FeedAssumption
<1>2. /\ read \subseteq C /\ Cardinality(read) \in Nat /\ Cardinality(read) <= Window
      /\ Cardinality(read) < Window => read = C
  BY <1>1, FirstSize, FirstIs
<1> DEFINE P == {i \in read : fRows[i].playable}
<1>3. P \subseteq Feed!Stored
  BY <1>2
<1>4. /\ accepted \subseteq P /\ Cardinality(accepted) \in Nat
      /\ Cardinality(accepted) < Limit + 1 => accepted = P
  <2>1. accepted = Feed!First(P, Limit + 1)
    OBVIOUS
  <2> HIDE DEF P
  <2>2. PICK n \in Nat : n = Limit + 1
    BY <1>1
  <2>3. accepted = Feed!First(P, n)
    BY <2>1, <2>2
  <2>4. accepted \subseteq P
    BY <2>3, FirstIs
  <2>5. Cardinality(accepted) \in Nat /\ (Cardinality(accepted) < n => accepted = P)
    BY <1>3, <2>3, FirstSize
  <2> QED BY <2>2, <2>4, <2>5
<1>5. accepted \subseteq Feed!Stored
  BY <1>3, <1>4
<1>6. /\ Cardinality(accepted) <= Limit => page = accepted
      /\ Cardinality(page) < Limit => page = accepted
  BY <1>1, <1>5, FirstSize
<1>7. ASSUME Cardinality(accepted) <= Limit, Cardinality(read) # Window
      PROVE  page = {i \in C : fRows[i].playable}
  <2>1. read = C
    BY <1>1, <1>2, <1>7
  <2>2. accepted = P
    BY <1>1, <1>4, <1>7
  <2> QED BY <1>6, <1>7, <2>1, <2>2
<1>8. ASSUME Cardinality(accepted) > Limit, page = {} PROVE FALSE
  <2>1. Cardinality(page) = 0
    BY <1>8, FS_EmptySet
  <2>2. page = accepted
    BY <1>1, <1>6, <2>1
  <2> QED BY <1>1, <1>8, <2>1, <2>2
<1> QED BY <1>7, <1>8

\* A page of a keyset list shows what comes next, and the cursor moves after it.
LEMMA KeysetNext ==
  ASSUME FeedTyped, ScrollInv, Feed!KeysetPage
  PROVE  FeedTyped' /\ ScrollInv'
<1> DEFINE C == {i \in Feed!Listed : Feed!BeforeCursor(i)}
           read == Feed!First(C, Window)
           accepted == Feed!First({i \in read : fRows[i].playable}, Limit + 1)
           page == Feed!First(accepted, Limit)
           last == CHOOSE i \in page : \A j \in page \ {i} : Feed!After(i, j)
<1>1. /\ scroll.kind = "keyset" /\ scroll.more
      /\ scroll' = [scroll EXCEPT
            !.more = Cardinality(accepted) > Limit,
            !.shown = scroll.shown \cup page, !.again = scroll.again \cup (scroll.shown \cap page),
            !.last = IF page = {} THEN @ ELSE last,
            !.at = IF page = {} THEN @ ELSE fRows[last].at]
      /\ swamped' = (swamped \/ (Cardinality(read) = Window /\ Cardinality(accepted) <= Limit))
      /\ fRows' = fRows /\ now' = now /\ kept' = kept /\ still' = still /\ fChanges' = fChanges
  BY DEF Feed!KeysetPage, Feed!Shown, Feed!Again, Feed!Cardinality, Cardinality
<1>2. C \subseteq Feed!Stored
  BY Queries
<1> HIDE DEF C
<1>3. /\ page \subseteq {i \in C : fRows[i].playable}
      /\ \A j \in page : \A i \in C : fRows[i].playable /\ Feed!After(j, i) => i \in page
  BY <1>2, PageIsAhead
<1>4. /\ Cardinality(accepted) <= Limit /\ Cardinality(read) # Window =>
           page = {i \in C : fRows[i].playable}
      /\ Cardinality(accepted) > Limit => page # {}
  BY <1>2, PageSize
<1>5. Cardinality(accepted) \in Nat /\ Limit \in Nat
  <2>1. {i \in read : fRows[i].playable} \subseteq Feed!Stored /\ Limit \in Nat /\ Limit + 1 \in Nat
    BY <1>2, FirstIs, FeedAssumption
  <2> QED BY <2>1, FirstSize
<1> HIDE DEF read, accepted, page
<1>6. page # {} => last \in page /\ \A j \in page \ {last} : Feed!After(last, j)
  <2> SUFFICES ASSUME page # {}
               PROVE  last \in page /\ \A j \in page \ {last} : Feed!After(last, j)
    OBVIOUS
  <2>1. page \subseteq Feed!Stored
    BY <1>2, <1>3
  <2>2. \E i \in page : \A j \in page \ {i} : Feed!After(i, j)
    BY <2>1, NewestAndOldest
  <2> QED BY <2>2
<1> HIDE DEF last
<1>7. page \subseteq Feed!Stored /\ page \subseteq Feed!Ids
  BY <1>2, <1>3 DEF Feed!Stored
<1>8. /\ scroll'.kind = scroll.kind /\ scroll'.more = (Cardinality(accepted) > Limit)
      /\ scroll'.shown = scroll.shown \cup page
      /\ scroll'.again = scroll.again \cup (scroll.shown \cap page)
      /\ scroll'.last = IF page = {} THEN scroll.last ELSE last
      /\ scroll'.at = IF page = {} THEN scroll.at ELSE fRows[last].at
  BY <1>1 DEF FeedTyped
<1>9. FeedTyped'
  <2>1. page # {} => last \in 0..MaxItems /\ fRows[last].at \in 0..MaxTime
    <3>1. ASSUME page # {} PROVE last \in 1..MaxItems /\ fRows[last] \in Feed!Row
      <4>1. last \in page
        BY <1>6, <3>1
      <4>2. last \in Feed!Ids /\ fRows[last] # NoRow
        BY <1>7, <4>1 DEF Feed!Stored
      <4> QED BY <4>2 DEF FeedTyped, Feed!Ids
    <3> QED BY <3>1, FeedAssumption DEF Feed!Row
  <2>2. scroll' \in [kind : {"keyset", "offset"}, last : 0..MaxItems, at : 0..MaxTime,
                     offset : Nat, shown : SUBSET Feed!Ids, again : SUBSET Feed!Ids,
                     more : BOOLEAN]
    <3>1. /\ scroll.shown \cup page \in SUBSET Feed!Ids
          /\ scroll.again \cup (scroll.shown \cap page) \in SUBSET Feed!Ids
          /\ (Cardinality(accepted) > Limit) \in BOOLEAN
      BY <1>7 DEF FeedTyped
    <3> QED BY <1>1, <2>1, <3>1 DEF FeedTyped
  <2>3. swamped' \in BOOLEAN
    BY <1>1 DEF FeedTyped
  <2> QED BY <1>1, <2>2, <2>3 DEF FeedTyped
<1>10. KeysetInv
  BY <1>1 DEF ScrollInv
<1>11. scroll'.again = {}
  BY <1>3, <1>8, <1>10 DEF KeysetInv, C
<1>12. ASSUME page # {}, NEW i
       PROVE  scroll'.last # 0 /\ (Feed!BeforeCursor(i)' <=> Feed!After(i, last))
  <2>1. last \in 1..MaxItems
    BY <1>6, <1>7, <1>12 DEF Feed!Ids
  <2>2. scroll'.last = last /\ scroll'.at = fRows[last].at
    BY <1>8, <1>12
  <2>3. last # 0
    BY <2>1, FeedAssumption
  <2> QED BY <1>1, <2>2, <2>3 DEF Feed!BeforeCursor, Feed!After
<1>13. ASSUME NEW i \in scroll'.shown
       PROVE  i \in Feed!Stored /\ scroll'.last # 0 /\ ~Feed!BeforeCursor(i)'
  <2>1. CASE page = {}
    <3>1. scroll'.last = scroll.last /\ scroll'.at = scroll.at /\ i \in scroll.shown
      BY <1>8, <1>13, <2>1
    <3>2. Feed!BeforeCursor(i)' <=> Feed!BeforeCursor(i)
      BY <1>1, <3>1 DEF Feed!BeforeCursor
    <3> QED BY <1>10, <3>1, <3>2 DEF KeysetInv
  <2>2. CASE page # {}
    <3>1. last \in page /\ \A j \in page \ {last} : Feed!After(last, j)
      BY <1>6, <2>2
    <3>2. ASSUME i \in page PROVE i \in Feed!Stored /\ ~Feed!After(i, last)
      BY <1>7, <3>1, <3>2, RowsInOrder
    <3>3. ASSUME i \in scroll.shown PROVE i \in Feed!Stored /\ ~Feed!After(i, last)
      <4>1. i \in Feed!Stored /\ scroll.last # 0 /\ ~Feed!BeforeCursor(i)
        BY <1>10, <3>3 DEF KeysetInv
      <4>2. Feed!BeforeCursor(last) /\ last \in Feed!Stored
        BY <1>3, <1>7, <3>1 DEF C
      <4>3. /\ i \in Nat /\ last \in Nat /\ fRows[i].at \in Nat /\ fRows[last].at \in Nat
            /\ scroll.last \in Nat /\ scroll.at \in Nat
        <5>1. \A j \in Feed!Stored : j \in 1..MaxItems /\ fRows[j] \in Feed!Row
          BY DEF FeedTyped, Feed!Stored, Feed!Ids
        <5>2. \A j \in Feed!Stored : j \in Nat /\ fRows[j].at \in Nat
          BY <5>1, FeedAssumption DEF Feed!Row
        <5>3. scroll.last \in Nat /\ scroll.at \in Nat
          BY FeedAssumption DEF FeedTyped
        <5> QED BY <4>1, <4>2, <5>2, <5>3
      <4> QED BY <4>1, <4>2, <4>3 DEF Feed!BeforeCursor, Feed!After
    <3>4. i \in page \/ i \in scroll.shown
      BY <1>8, <1>13
    <3> QED BY <1>12, <2>2, <3>2, <3>3, <3>4
  <2> QED BY <2>1, <2>2
<1>14. ASSUME ~swamped', NEW i \in kept', i \notin scroll'.shown
       PROVE  scroll'.more /\ Feed!BeforeCursor(i)'
  <2>1. i \in kept /\ ~swamped /\ i \notin scroll.shown /\ i \notin page
    BY <1>1, <1>8, <1>14
  <2>2. i \in C /\ fRows[i].playable /\ i \in Feed!Stored
    BY <1>2, <1>10, <2>1 DEF ScrollInv, KeysetInv, Feed!Playable, C
  <2>3. Cardinality(accepted) > Limit
    <3> SUFFICES ASSUME ~(Cardinality(accepted) > Limit) PROVE FALSE
      OBVIOUS
    <3>1. Cardinality(accepted) <= Limit
      BY <1>5
    <3>2. Cardinality(read) # Window
      BY <1>1, <1>14, <3>1
    <3> QED BY <1>4, <2>1, <2>2, <3>1, <3>2
  <2>4. last \in page /\ page # {}
    BY <1>4, <1>6, <2>3
  <2>5. ~Feed!After(last, i) /\ i # last
    BY <1>3, <2>1, <2>2, <2>4
  <2>6. Feed!After(i, last)
    BY <1>7, <2>2, <2>4, <2>5, RowsInOrder
  <2> QED BY <1>8, <1>12, <2>3, <2>4, <2>6
<1>15. KeysetInv'
  <2>1. \A i \in scroll'.shown : i \in Feed!Stored'
    BY <1>1, <1>13, RowsStay
  <2> QED BY <1>11, <1>13, <1>14, <2>1 DEF KeysetInv
<1> QED BY <1>1, <1>8, <1>9, <1>15, RowsStay DEF ScrollInv

\* A page of the other lists shows the next rows.
LEMMA OffsetNext ==
  ASSUME FeedTyped, ScrollInv, Feed!OffsetPage
  PROVE  FeedTyped' /\ ScrollInv'
<1> DEFINE F == Feed!First(Feed!Listed, scroll.offset)
           rest == Feed!Listed \ F
           read == Feed!First(rest, Limit + 1)
           first == Feed!First(read, Limit)
           page == {i \in first : fRows[i].playable}
<1>1. /\ scroll.kind = "offset" /\ scroll.more
      /\ scroll' = [scroll EXCEPT
            !.more = Cardinality(read) > Limit,
            !.shown = scroll.shown \cup page, !.again = scroll.again \cup (scroll.shown \cap page),
            !.offset = @ + Limit]
      /\ fRows' = fRows /\ now' = now /\ kept' = kept /\ still' = still /\ fChanges' = fChanges
      /\ swamped' = swamped
  BY DEF Feed!OffsetPage, Feed!Shown, Feed!Again, Feed!Cardinality, Cardinality
<1>2. scroll.offset \in Nat /\ Limit \in Nat /\ Limit + 1 \in Nat /\ Limit <= Limit + 1
  BY FeedAssumption DEF FeedTyped
<1>3. F \subseteq Feed!Listed /\ rest \subseteq Feed!Stored
  BY Queries, FirstIs
<1>4. /\ first = Feed!First(rest, Limit)
      /\ Feed!First(Feed!Listed, scroll.offset + Limit) = F \cup Feed!First(rest, Limit)
  <2>1. Feed!Listed \subseteq Feed!Stored
    BY Queries
  <2>2. scroll.offset + Limit \in Nat
    BY <1>2
  <2>3. Feed!First(Feed!Listed, scroll.offset + Limit) = F \cup Feed!First(rest, Limit)
    <3> DEFINE both == scroll.offset + Limit
               n == scroll.offset
    <3>1. n \in Nat /\ both \in Nat /\ both = n + Limit
      BY <1>2, <2>2
    <3>2. F = Feed!First(Feed!Listed, n) /\ rest = Feed!Listed \ F
      OBVIOUS
    <3>3. both = scroll.offset + Limit
      OBVIOUS
    <3> HIDE DEF n, both, F, rest
    <3>4. Feed!First(Feed!Listed, both) = F \cup Feed!First(rest, Limit)
      BY <1>2, <2>1, <3>1, <3>2, FirstAndNext
    <3> QED BY <3>3, <3>4
  <2> HIDE DEF rest
  <2>4. first = Feed!First(rest, Limit)
    BY <1>2, <1>3, FirstOfFirst
  <2> QED BY <2>3, <2>4
<1>5. read \subseteq rest /\ first \subseteq rest /\ Cardinality(read) \in Nat
  <2> HIDE DEF rest
  <2>1. ASSUME NEW n \in Nat
        PROVE  Feed!First(rest, n) \subseteq rest /\ Cardinality(Feed!First(rest, n)) \in Nat
    BY <1>3, FirstIs, FirstSize
  <2> QED BY <1>2, <1>4, <2>1
<1>6. Cardinality(read) <= Limit => first = rest
  <2> SUFFICES ASSUME Cardinality(read) <= Limit PROVE first = rest
    OBVIOUS
  <2> HIDE DEF rest
  <2>1. read = rest
    <3>1. Cardinality(read) < Limit + 1
      BY <1>2, <1>5
    <3> QED BY <1>2, <1>3, <3>1, FirstSize
  <2>2. read \subseteq Feed!Stored
    BY <1>3, <1>5
  <2> HIDE DEF read
  <2> QED BY <1>2, <2>1, <2>2, FirstSize
<1> HIDE DEF first, read, F
<1>7. /\ scroll'.kind = scroll.kind /\ scroll'.more = (Cardinality(read) > Limit)
      /\ scroll'.shown = scroll.shown \cup page
      /\ scroll'.again = scroll.again \cup (scroll.shown \cap page)
      /\ scroll'.offset = scroll.offset + Limit
  BY <1>1 DEF FeedTyped
<1>8. FeedTyped'
  <2>1. page \subseteq Feed!Ids
    BY <1>3, <1>5 DEF Feed!Stored
  <2> HIDE DEF page
  <2>2. /\ scroll.shown \cup page \in SUBSET Feed!Ids
        /\ scroll.again \cup (scroll.shown \cap page) \in SUBSET Feed!Ids
        /\ (Cardinality(read) > Limit) \in BOOLEAN /\ scroll.offset + Limit \in Nat
    BY <1>2, <2>1 DEF FeedTyped
  <2>3. scroll' \in [kind : {"keyset", "offset"}, last : 0..MaxItems, at : 0..MaxTime,
                     offset : Nat, shown : SUBSET Feed!Ids, again : SUBSET Feed!Ids,
                     more : BOOLEAN]
    BY <1>1, <2>2 DEF FeedTyped
  <2> QED BY <1>1, <2>3 DEF FeedTyped
<1>9. still => OffsetInv'
  <2> SUFFICES ASSUME still PROVE OffsetInv'
    OBVIOUS
  <2>1. /\ kept = Feed!Playable /\ scroll.again = {}
        /\ scroll.shown = Feed!Playable \cap F
    BY <1>1 DEF ScrollInv, OffsetInv, F
  <2>2. Feed!First(Feed!Listed, scroll.offset)' = F \cup first
    BY <1>1, <1>4, <1>7, RowsStay
  <2>3. page = Feed!Playable \cap first /\ F \cap first = {}
    BY <1>5 DEF Feed!Playable
  <2>4. scroll'.again = {} /\ scroll'.shown = Feed!Playable \cap (F \cup first)
    BY <1>7, <2>1, <2>3
  <2>5. ~scroll'.more => F \cup first = Feed!Listed
    <3> SUFFICES ASSUME ~scroll'.more PROVE F \cup first = Feed!Listed
      OBVIOUS
    <3>1. Cardinality(read) <= Limit
      <4>1. ~(Cardinality(read) > Limit)
        BY <1>7
      <4> QED BY <1>2, <1>5, <4>1
    <3>2. first = rest
      BY <1>6, <3>1
    <3> QED BY <1>3, <3>2
  <2> QED BY <1>1, <2>1, <2>2, <2>4, <2>5, RowsStay DEF OffsetInv
<1> QED BY <1>1, <1>7, <1>8, <1>9, RowsStay DEF ScrollInv

\* Every step keeps the invariant.
LEMMA ScrollNext ==
  ASSUME FeedTyped, ScrollInv, [Feed!Next]_Feed!vars
  PROVE  FeedTyped' /\ ScrollInv'
<1>1. ASSUME fRows' = fRows, scroll' = scroll, kept' = kept, still' = still, swamped' = swamped,
             fChanges' = fChanges, now' \in 0..MaxTime
      PROVE  FeedTyped' /\ ScrollInv'
  <2>1. /\ Feed!Playable' = Feed!Playable /\ Feed!Listed' = Feed!Listed
        /\ Feed!Stored' = Feed!Stored
        /\ Feed!First(Feed!Listed, scroll.offset)' = Feed!First(Feed!Listed, scroll.offset)
    BY <1>1, RowsStay
  <2>2. KeysetInv => KeysetInv'
    BY <1>1, <2>1 DEF KeysetInv, Feed!BeforeCursor
  <2>3. OffsetInv => OffsetInv'
    BY <1>1, <2>1 DEF OffsetInv
  <2> QED BY <1>1, <2>1, <2>2, <2>3 DEF ScrollInv, FeedTyped
<1>2. CASE Feed!Second
  <2>1. now' \in 0..MaxTime
    BY <1>2, FeedAssumption DEF Feed!Second, FeedTyped
  <2> QED BY <1>1, <1>2, <2>1 DEF Feed!Second
<1>3. CASE UNCHANGED Feed!vars
  BY <1>1, <1>3 DEF Feed!vars, FeedTyped
<1> QED BY <1>2, <1>3, RowsNext, OpenNext, KeysetNext, OffsetNext DEF Feed!Next

\* Nothing has been published or shown.
LEMMA ScrollInit == Feed!Init => FeedTyped /\ ScrollInv
<1> SUFFICES ASSUME Feed!Init PROVE FeedTyped /\ ScrollInv
  OBVIOUS
<1>1. FeedTyped
  <2>1. scroll \in [kind : {"keyset", "offset"}, last : 0..MaxItems, at : 0..MaxTime,
                    offset : Nat, shown : SUBSET Feed!Ids, again : SUBSET Feed!Ids,
                    more : BOOLEAN]
    BY FeedAssumption DEF Feed!Init, Feed!Start
  <2>2. fRows \in [Feed!Ids -> Feed!Row \cup {NoRow}]
    BY DEF Feed!Init
  <2>3. now \in 0..MaxTime /\ fChanges \in 0..MaxChanges
    BY FeedAssumption DEF Feed!Init
  <2> QED BY <2>1, <2>2, <2>3 DEF Feed!Init, FeedTyped
<1>2. KeysetInv /\ scroll.kind = "keyset" /\ kept = {}
  BY DEF Feed!Init, Feed!Start, KeysetInv
<1> QED BY <1>1, <1>2 DEF ScrollInv

\* The invariant of the scroll.
LEMMA ScrollAlways == Feed!Spec => [](FeedTyped /\ ScrollInv)
<1>1. FeedTyped /\ ScrollInv /\ [Feed!Next]_Feed!vars => FeedTyped' /\ ScrollInv'
  BY ScrollNext
<1> QED BY <1>1, ScrollInit, PTL DEF Feed!Spec

\* However rows are published, listed and withdrawn while a reader scrolls, the reader sees no
\* item twice and, at the end, every item that was there all along.
THEOREM ScrollsExact == Feed!Spec => []Feed!ScrollIsExact
<1>1. FeedTyped /\ ScrollInv => Feed!ScrollIsExact
  <2> SUFFICES ASSUME FeedTyped, ScrollInv PROVE Feed!ScrollIsExact
    OBVIOUS
  <2>1. scroll.kind \in {"keyset", "offset"}
    BY DEF FeedTyped
  <2>2. Feed!NothingTwice
    BY <2>1 DEF ScrollInv, KeysetInv, OffsetInv, Feed!NothingTwice
  <2>3. Feed!EndMeansAll
    <3> SUFFICES ASSUME ~scroll.more, IF scroll.kind = "keyset" THEN ~swamped ELSE still
                 PROVE  kept \subseteq scroll.shown
      BY DEF Feed!EndMeansAll
    <3>1. CASE scroll.kind = "keyset"
      BY <3>1 DEF ScrollInv, KeysetInv
    <3>2. CASE scroll.kind = "offset"
      BY <3>2, Queries DEF ScrollInv, OffsetInv
    <3> QED BY <2>1, <3>1, <3>2
  <2> QED BY <2>2, <2>3 DEF Feed!ScrollIsExact
<1> QED BY <1>1, ScrollAlways, PTL

\* The rows and the scroll hold values of their kinds.
THEOREM FeedTypes == Feed!Spec => []Feed!TypeOK
<1>1. FeedTyped => Feed!TypeOK
  BY FeedAssumption DEF FeedTyped, Feed!TypeOK, Feed!Ids
<1> QED BY <1>1, ScrollAlways, PTL

\* The part that is Feed behaves as the component does.
LEMMA FeedBehaves == Spec => Feed!Spec
<1>1. Init => Feed!Init
  BY DEF Init
<1>2. [Next]_vars => [Feed!Next]_Feed!vars
  BY PartsNext DEF feedVars, Feed!vars
<1> QED BY <1>1, <1>2, PTL DEF Spec, Feed!Spec

\* However rows are published, listed and withdrawn between two pages, many in one second
\* included, a reader who scrolls to the end sees every item once.
THEOREM ScrollsAreExact == Spec => []ScrollIsExact
BY FeedBehaves, ScrollsExact, PTL DEF ScrollIsExact

-----------------------------------------------------------------------------
(***************************************************************************)
(* All parts together.                                                     *)
(***************************************************************************)

\* What the components keep is of the kinds their tables and requests hold, whatever they do.
THEOREM ContentTypes == Spec => []TypeOK
<1>1. Feed!TypeOK /\ Cycle!TypeOK /\ Pools!TypeOK /\ Localize!TypeOK /\ Package!TypeOK
        /\ Import!TypeOK => TypeOK
  BY DEF TypeOK
<1> QED BY <1>1, FeedBehaves, FeedTypes, CycleBehaves, CycleTypes, PoolsBehaves, PoolTypes,
           LocalizeBehaves, TextTypes, PackageBehaves, PackTypes, ImportBehaves, ImportTypes, PTL
==============================================================================
