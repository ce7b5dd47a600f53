--------------------------- MODULE CdnPublication ---------------------------
(***************************************************************************)
(* The durable CDN outbox (app/cdn_cache.py), its worker                   *)
(* (app/cdn_worker.py) and the publication gates that wait for it          *)
(* (app/cdn_publication.py, with the handlers that stage and cancel them). *)
(*                                                                         *)
(* A runtime publication has one entry point, so a publication also names  *)
(* its URL.  One tick of the worker claims a batch, polls the provider     *)
(* tasks of the rows that have one, warms private media, submits the rest  *)
(* and opens gates; every provider call lies between a read and a commit,  *)
(* and a commit writes the columns that differ from what was read.  Delays *)
(* and leases are abstracted: a pending row may always be due, the lease   *)
(* of a running row may always have expired.                               *)
(***************************************************************************)
EXTENDS Integers, FiniteSets

CONSTANTS
  Pubs,            \* runtime publications, named by publication id
  Apks,            \* Android releases: prefetches with a reserved budget
  Privates,        \* private creator media, warmed by a direct request
  Refreshes,       \* emergency refreshes of exact files
  Videos, VideoOf, \* published_videos rows, the one each publication is of
  CreatorPubs,     \* publications made by publish_creation
  Workers,         \* cdn_worker processes (and drain-once commands)
  MaxAttempts,     \* cdn_worker_max_attempts
  RoutineBudget,   \* cdn_prefetch_daily_budget
  PriorityReserve, \* cdn_prefetch_priority_reserve
  MaxEvents,       \* bound on operator commands, other uploads, crashes, days
  None

Urls == Pubs \cup Apks \cup Privates \cup Refreshes

ASSUME ConstantsAssumption ==
  /\ IsFiniteSet(Urls)
  /\ VideoOf \in [Pubs -> Videos]
  /\ MaxAttempts \in Nat \ {0}
  /\ RoutineBudget \in Nat /\ PriorityReserve \in Nat
  /\ MaxEvents \in Nat
  /\ None \notin Pubs

VARIABLES
  job,        \* cdn_cache_jobs, by URL
  cached,     \* URLs the provider completed, were fetched, or fill on demand
  gate,       \* state of the cdn_publication_gates row
  video,      \* published_videos
  worker,     \* the tick of each worker process
  events      \* how many of the MaxEvents happened

vars == <<job, cached, gate, video, worker, events>>

\* task names a provider task by the URLs submitted with it.
JobRow == [state : {"none", "pending", "running", "succeeded", "failed"},
           attempts : 0..MaxAttempts, task : SUBSET Urls,
           request : {"none", "submitted", "on_demand"}, today : BOOLEAN]

NoJob == [state |-> "none", attempts |-> 0, task |-> {}, request |-> "none",
          today |-> FALSE]

\* shown is active_publication_id, ready is cdn_ready.
VideoRow == [exists : BOOLEAN, shown : Pubs \cup {None}, ready : BOOLEAN,
             deleted : BOOLEAN]

NoVideo == [exists |-> FALSE, shown |-> None, ready |-> FALSE, deleted |-> FALSE]

GateState == {"none", "warming", "active", "failed", "superseded"}

(***************************************************************************)
(* The outbox.                                                             *)
(***************************************************************************)
\* _enqueue_targets: a new row, or one put back because the caller forces it
\* or retries a failure.
NewJob == [NoJob EXCEPT !.state = "pending", !.today = TRUE]

Enqueued(row, force, retry) ==
  IF row.state = "none" \/ force \/ (retry /\ row.state = "failed")
  THEN NewJob ELSE row

\* The columns a session changes, on top of the current row.
Merge(read, written, current) ==
  [col \in DOMAIN current |->
     CASE col = "today" -> TRUE
       [] written[col] = read[col] -> current[col]
       [] OTHER -> written[col]]

\* A session that read the rows and commits its changes to those of S.
Store(S, read, Written(_)) ==
  job' = [u \in Urls |-> IF u \in S
                         THEN Merge(read[u], Written(read[u]), job[u])
                         ELSE job[u]]

\* _record_on_demand_prefetch_fallback.
OnDemand(row) ==
  [row EXCEPT !.state = "succeeded", !.task = {}, !.request = "on_demand"]

\* The provider refused or failed: again, or failed at the last attempt.
Retried(row) ==
  [row EXCEPT !.task = {},
     !.state = IF row.attempts >= MaxAttempts THEN "failed" ELSE "pending"]

\* _record_submission, accepted as one task.
Submitted(row, S) ==
  [row EXCEPT !.state = "pending", !.task = S, !.request = "submitted"]

\* _record_task_status.
Polled(row, reply) ==
  CASE reply = "complete" -> [row EXCEPT !.state = "succeeded"]
    [] reply = "failed" -> Retried(row)
    [] OTHER -> [row EXCEPT !.state = "pending"]

\* _daily_prefetch_usage counts rows whose last change is of today.
Used(S) ==
  Cardinality({u \in S : job[u].request = "submitted" /\ job[u].today})

Smaller(a, b) == IF a <= b THEN a ELSE b
Rest(limit, used) == IF limit > used THEN limit - used ELSE 0

\* _budget_prefetch_group: what of S may be submitted today.
Budgeted(S) ==
  LET total == RoutineBudget + PriorityReserve
      used == Used(Pubs \cup Apks \cup Privates)
      priority == Smaller(Cardinality(S \cap Apks), Rest(total, used))
      routine == Smaller(Cardinality(S \cap Pubs),
                   Smaller(Rest(RoutineBudget, Used(Pubs \cup Privates)),
                           Rest(total, used + priority)))
  IN  {T \in SUBSET S : /\ Cardinality(T \cap Apks) = priority
                        /\ Cardinality(T \cap Pubs) = routine}

(***************************************************************************)
(* The gates.                                                              *)
(***************************************************************************)
\* Publications of the same video that are warming.
Warming(v) == {p \in Pubs : VideoOf[p] = v /\ gate[p] = "warming"}

\* What activate_ready_publications decides for a warming gate.
OutcomeUnlessFailed(p, J, V) ==
  IF J[p].state = "failed" THEN "failed" ELSE "active"

Outcome(p, J, V) ==
  CASE J[p].state = "failed" -> "failed"
    [] J[p].state = "succeeded" ->
         IF V[VideoOf[p]].exists THEN "active" ELSE "failed"
    [] OTHER -> "warming"

\* _apply_payload: creators stage only the readiness bit, the publishing
\* operator also clears a deletion.
Applied(row, p) ==
  [row EXCEPT !.ready = TRUE,
              !.shown = IF p \in CreatorPubs THEN @ ELSE p,
              !.deleted = IF p \in CreatorPubs THEN @ ELSE FALSE]

\* activate_ready_publications on the warming gates of G, all of different
\* videos.
Activate(S, G, J, V) ==
  LET open == {p \in S : G[p] = "warming" /\ Outcome(p, J, V) = "active"}
  IN  /\ gate' = [p \in Pubs |-> IF p \in S /\ G[p] = "warming"
                                 THEN Outcome(p, J, V) ELSE G[p]]
      /\ video' = [v \in Videos |->
           IF \E p \in open : VideoOf[p] = v
           THEN Applied(V[v], CHOOSE p \in open : VideoOf[p] = v) ELSE V[v]]

StagedOnly(p) == [gate EXCEPT ![p] = "warming"]

\* stage_publication_gate for a new publication.
Staged(p) ==
  [q \in Pubs |-> CASE q = p -> "warming"
                    [] q \in Warming(VideoOf[p]) -> "superseded"
                    [] OTHER -> gate[q]]

CancelledNothing(v) == gate

\* cancel_warming_publications.
Cancelled(v) ==
  [p \in Pubs |-> IF p \in Warming(v) THEN "superseded" ELSE gate[p]]

(***************************************************************************)
(* Handlers and commands: one transaction each, without calls inside.      *)
(***************************************************************************)
\* enqueue_prefetch, the gate and its activation if the URL is warm already.
Publish(p, row) ==
  LET J == [job EXCEPT ![p] = Enqueued(@, FALSE, FALSE)]
  IN  /\ job' = J
      /\ Activate({p}, Staged(p), J, [video EXCEPT ![VideoOf[p]] = row])
      /\ UNCHANGED <<cached, worker, events>>

NewVideo(p) == [NoVideo EXCEPT !.exists = TRUE, !.shown = p]

\* publish_creation: the creation is published once.
CreatorPublish(p) ==
  /\ p \in CreatorPubs /\ gate[p] = "none"
  /\ ~ video[VideoOf[p]].exists
  /\ Publish(p, NewVideo(p))

\* publish_assets of a publication that was not staged before.
AdminPublish(p) ==
  /\ p \notin CreatorPubs /\ gate[p] = "none"
  /\ Publish(p, IF video[VideoOf[p]].exists THEN video[VideoOf[p]]
                ELSE NewVideo(p))

\* publish_assets again with the same content: a superseded gate and an
\* active one whose row is gone are refused.
AdminPublishAgain(p) ==
  LET v == VideoOf[p]
      row == CASE ~ video[v].exists -> NewVideo(p)
               [] gate[p] = "active" -> Applied(video[v], p)
               [] OTHER -> video[v]
      J == [job EXCEPT ![p] = Enqueued(@, FALSE, FALSE)]
  IN  /\ p \notin CreatorPubs
      /\ gate[p] \in {"warming", "failed", "active"}
      /\ gate[p] = "active" => video[v].exists
      /\ job' = J
      /\ Activate({p}, gate, J, [video EXCEPT ![v] = row])
      /\ UNCHANGED <<cached, worker, events>>

\* delete_published_video, trash_published_video.
Delete(v) ==
  /\ video[v].exists /\ ~ video[v].deleted
  /\ video' = [video EXCEPT ![v].deleted = TRUE]
  /\ gate' = Cancelled(v)
  /\ UNCHANGED <<job, cached, worker, events>>

\* restore_published_video, for creators and for operators.
Restore(v) ==
  /\ video[v].exists /\ video[v].deleted
  /\ video' = [video EXCEPT ![v].deleted = FALSE]
  /\ UNCHANGED <<job, cached, gate, worker, events>>

\* unpublish_video.
Unpublish(v) ==
  /\ video[v].exists
  /\ video' = [video EXCEPT ![v] = NoVideo]
  /\ gate' = Cancelled(v)
  /\ UNCHANGED <<job, cached, worker, events>>

\* An event the runs bound.
Event == events < MaxEvents /\ events' = events + 1

\* Enqueued outside of a publication: releases, private media, refreshes.
Prefetch(u) ==
  /\ Event /\ u \notin Pubs /\ job[u].state = "none"
  /\ job' = [job EXCEPT ![u] = NewJob]
  /\ UNCHANGED <<cached, gate, video, worker>>

\* The commands that put a row back: --resubmit, --retry-failed, and refresh,
\* which always forces.
Resubmit(u) ==
  /\ Event
  /\ \E force \in BOOLEAN :
       /\ u \in Refreshes => force
       /\ job[u].state # "none"
       /\ Enqueued(job[u], force, TRUE) # job[u]
       /\ job' = [job EXCEPT ![u] = Enqueued(@, force, TRUE)]
  /\ UNCHANGED <<cached, gate, video, worker>>

(***************************************************************************)
(* The worker: process_once.                                               *)
(***************************************************************************)
Idle == [pc |-> "idle", rows |-> None, polls |-> {}, sends |-> {},
         group |-> {}, reply |-> "none"]

Replies == {"none", "pending", "complete", "failed", "lost", "accepted",
            "error", "quota"}

Busy == [pc : {"claimed", "tick", "submit", "answer"},
         rows : [Urls -> JobRow] \cup {None}, polls : SUBSET SUBSET Urls,
         sends : SUBSET Urls, group : SUBSET Urls, reply : Replies]

ClaimableAlways(u) == job[u].state \in {"pending", "running"}

ClaimableBelowMax(u) ==
  job[u].state \in {"pending", "running"} /\ job[u].attempts < MaxAttempts

Claimable(u) ==
  /\ job[u].state \in {"pending", "running"}
  /\ job[u].task # {} \/ job[u].attempts < MaxAttempts

Due == {u \in Urls : Claimable(u)}

\* _claim_jobs; the batch of 50 is never full here.
Claim(w) ==
  /\ worker[w].pc = "idle" /\ Due # {}
  /\ job' = [u \in Urls |->
       IF u \notin Due THEN job[u]
       ELSE [job[u] EXCEPT !.state = "running", !.today = TRUE,
               !.attempts = IF job[u].task = {} THEN @ + 1 ELSE @]]
  /\ worker' = [worker EXCEPT ![w] = [Idle EXCEPT !.pc = "claimed",
                                                  !.group = Due]]
  /\ UNCHANGED <<cached, gate, video, events>>

\* The rows as read after the claim, grouped by provider task.
Load(w) ==
  LET mine == worker[w].group
      known == {u \in mine : job[u].task # {}}
  IN  /\ worker[w].pc = "claimed"
      /\ worker' = [worker EXCEPT ![w] =
           [pc |-> "tick", rows |-> job, sends |-> mine \ known,
            polls |-> {{t \in known : job[t].task = job[u].task} : u \in known},
            group |-> {}, reply |-> "none"]]
      /\ UNCHANGED <<job, cached, gate, video, events>>

\* The provider answers a call about the URLs of S.
Answers(w, S, reply) ==
  /\ worker' = [worker EXCEPT ![w].pc = "answer", ![w].group = S,
                              ![w].reply = reply]
  /\ cached' = IF reply = "complete" THEN cached \cup S ELSE cached
  /\ UNCHANGED <<job, gate, video, events>>

Poll(w, S, reply) ==
  /\ worker[w].pc = "tick"
  /\ Answers(w, S, reply)

\* _warm_private_media_url.
WarmPrivate(w, u, reply) ==
  /\ worker[w].pc = "tick" /\ worker[w].polls = {}
  /\ u \in worker[w].sends \cap Privates
  /\ Answers(w, {u}, reply)

\* The prefetches beyond today's budget fill on demand.
Budget(w) ==
  LET group == worker[w].sends \cap (Pubs \cup Apks)
  IN  /\ worker[w].pc = "tick" /\ worker[w].polls = {}
      /\ worker[w].sends \cap Privates = {} /\ group # {}
      /\ \E selected \in Budgeted(group) :
           LET fallback == group \ selected
           IN  /\ Store(fallback, worker[w].rows, OnDemand)
               /\ cached' = cached \cup fallback
               /\ worker' = [worker EXCEPT
                    ![w].pc = IF selected = {} THEN "tick" ELSE "submit",
                    ![w].sends = @ \ fallback, ![w].group = selected,
                    ![w].rows = job']
      /\ UNCHANGED <<gate, video, events>>

\* The group is sent as one task; an accepted one whose answer is lost counts
\* as an error.
Submit(w) ==
  /\ worker[w].pc = "submit"
  /\ \E reply \in {"accepted", "error", "quota"} :
       Answers(w, worker[w].group, reply)

SubmitRefresh(w) ==
  /\ worker[w].pc = "tick" /\ worker[w].polls = {}
  /\ worker[w].sends # {} /\ worker[w].sends \subseteq Refreshes
  /\ \E reply \in {"accepted", "error"} : Answers(w, worker[w].sends, reply)

\* The commit after a call; an exception rolls back first, so that the rows
\* are read again.
Record(w) ==
  LET S == worker[w].group
      reply == worker[w].reply
      read == IF reply \in {"lost", "error", "quota"} THEN job ELSE worker[w].rows
      Written(row) == CASE reply = "accepted" -> Submitted(row, S)
                        [] reply = "error" -> Retried(row)
                        [] reply = "quota" -> OnDemand(row)
                        [] OTHER -> Polled(row, reply)
  IN  /\ worker[w].pc = "answer"
      /\ Store(S, read, Written)
      /\ cached' = IF reply = "quota" THEN cached \cup S ELSE cached
      /\ worker' = [worker EXCEPT
           ![w] = [pc |-> "tick", rows |-> job', polls |-> @.polls \ {S},
                   sends |-> @.sends \ S, group |-> {}, reply |-> "none"]]
      /\ UNCHANGED <<gate, video, events>>

\* The tick ends, or there was nothing to claim: gates open.
Finish(w) ==
  /\ \/ worker[w].pc = "tick" /\ worker[w].polls = {} /\ worker[w].sends = {}
     \/ worker[w].pc = "idle" /\ Due = {}
  /\ Activate(Pubs, gate, job, video)
  /\ worker' = [worker EXCEPT ![w] = Idle]
  /\ UNCHANGED <<job, cached, events>>

\* The process dies, or an error leaves process_once.
Crash(w) ==
  /\ Event /\ worker[w].pc # "idle"
  /\ worker' = [worker EXCEPT ![w] = Idle]
  /\ UNCHANGED <<job, cached, gate, video>>

\* Midnight in Shanghai.
NewDay ==
  /\ Event
  /\ job' = [u \in Urls |-> [job[u] EXCEPT !.today = FALSE]]
  /\ UNCHANGED <<cached, gate, video, worker>>

Init ==
  /\ job = [u \in Urls |-> NoJob]
  /\ cached = {}
  /\ gate = [p \in Pubs |-> "none"]
  /\ video = [v \in Videos |-> NoVideo]
  /\ worker = [w \in Workers |-> Idle]
  /\ events = 0

Calls(w) ==
  \/ \E S \in worker[w].polls,
        reply \in {"pending", "complete", "failed", "lost"} : Poll(w, S, reply)
  \/ \E u \in Privates, reply \in {"complete", "failed"} : WarmPrivate(w, u, reply)
  \/ Submit(w) \/ SubmitRefresh(w)

Step(w) ==
  \/ Claim(w) \/ Load(w) \/ Calls(w) \/ Budget(w) \/ Record(w) \/ Finish(w)

Next ==
  \/ \E p \in Pubs : CreatorPublish(p) \/ AdminPublish(p) \/ AdminPublishAgain(p)
  \/ \E v \in Videos : Delete(v) \/ Restore(v) \/ Unpublish(v)
  \/ \E u \in Urls : Prefetch(u) \/ Resubmit(u)
  \/ \E w \in Workers : Step(w) \/ Crash(w)
  \/ NewDay

Spec == Init /\ [][Next]_vars

\* The worker loops forever, and a provider task that is asked about again and
\* again is decided some day.
Decided(w, u) ==
  \E S \in worker[w].polls, reply \in {"complete", "failed"} :
    u \in S /\ Poll(w, S, reply)

Fairness ==
  \A w \in Workers : WF_vars(Step(w)) /\ \A u \in Urls : SF_vars(Decided(w, u))

LiveSpec == Spec /\ Fairness

(***************************************************************************)
(* Properties.                                                             *)
(***************************************************************************)
\* Every row and every tick holds values of its columns.
TypeOK ==
  /\ job \in [Urls -> JobRow]
  /\ cached \subseteq Urls
  /\ gate \in [Pubs -> GateState]
  /\ video \in [Videos -> VideoRow]
  /\ worker \in [Workers -> Busy \cup {Idle}]
  /\ events \in 0..MaxEvents

\* A video is released only with a publication whose entry point the CDN has,
\* whatever is published, superseded, deleted and restored around the worker.
ReleasedIsWarm ==
  \A v \in Videos : video[v].ready => video[v].shown \in cached

\* A newer publication supersedes the one that waits.
OneWarmingGate ==
  \A p, q \in Pubs : (/\ gate[p] = "warming" /\ gate[q] = "warming"
                      /\ VideoOf[p] = VideoOf[q]) => p = q

\* The gates of app/cdn_publication.py are the gates viewers are promised.
Gates == INSTANCE PublicationGate WITH
  warm <- cached \cap Pubs,
  released <- [v \in Videos |-> IF video[v].exists /\ video[v].ready
                                THEN video[v].shown ELSE None]

GateRefinement == Gates!Spec

\* A row left running at its last attempt by a worker that died.
Abandoned(u) ==
  job[u].state = "running" /\ job[u].attempts = MaxAttempts /\ job[u].task = {}

\* Every gate is decided although the provider answers late, fails and
\* refuses, unless a worker died at the last attempt of its job.
GateResolves ==
  \A p \in Pubs : gate[p] = "warming" ~> gate[p] # "warming" \/ Abandoned(p)

\* A job a worker took up is not left running when that worker dies.
JobsEnd ==
  \A u \in Urls : job[u].state = "running" ~> job[u].state # "running"

\* A video that is listed and warm is shown to viewers, also after it was
\* deleted and restored.
RestoredIsReleased ==
  \A v \in Videos :
    video[v].exists /\ ~ video[v].deleted /\ video[v].shown \in cached
      ~> video[v].deleted \/ video[v].ready \/ ~ video[v].exists
=============================================================================
