------------------------ MODULE CdnPublicationProofs ------------------------
(***************************************************************************)
(* Theorems of CdnPublication: type correctness, what its gates guarantee, *)
(* and that they implement PublicationGate.                                *)
(***************************************************************************)
EXTENDS CdnPublication, TLAPS

(***************************************************************************)
(* Type correctness.                                                       *)
(***************************************************************************)
\* A tick works on rows it has read.
RowsLoaded ==
  \A w \in Workers :
    worker[w].pc \in {"tick", "submit", "answer"} => worker[w].rows \in [Urls -> JobRow]

Typed == TypeOK /\ RowsLoaded

\* The outbox operations keep a row well-typed.
LEMMA RowType ==
  ASSUME NEW row \in JobRow
  PROVE  /\ NewJob \in JobRow
         /\ \A force, retry \in BOOLEAN : Enqueued(row, force, retry) \in JobRow
         /\ OnDemand(row) \in JobRow
         /\ Retried(row) \in JobRow
         /\ \A S \in SUBSET Urls : Submitted(row, S) \in JobRow
         /\ \A reply \in Replies : Polled(row, reply) \in JobRow
<1>0. 0 \in 0..MaxAttempts
  BY ConstantsAssumption
<1>1. NewJob \in JobRow
  BY <1>0 DEF NewJob, NoJob, JobRow
<1>2. Retried(row) \in JobRow
  BY DEF Retried, JobRow
<1>3. \A reply \in Replies : Polled(row, reply) \in JobRow
  BY <1>2 DEF Polled, JobRow
<1>4. OnDemand(row) \in JobRow /\ \A S \in SUBSET Urls : Submitted(row, S) \in JobRow
  BY DEF OnDemand, Submitted, JobRow
<1> QED BY <1>1, <1>2, <1>3, <1>4 DEF Enqueued

\* A merge takes every column from one of the rows.
LEMMA MergeType ==
  ASSUME NEW read \in JobRow, NEW written \in JobRow, NEW current \in JobRow
  PROVE  Merge(read, written, current) \in JobRow
  BY DEF Merge, JobRow

\* A publication keeps a video row well-typed.
LEMMA AppliedType ==
  ASSUME NEW row \in VideoRow, NEW p \in Pubs
  PROVE  Applied(row, p) \in VideoRow
  BY DEF Applied, VideoRow

\* Gates and videos after the gates of S are evaluated.
LEMMA ActivateType ==
  ASSUME NEW S \in SUBSET Pubs, NEW G \in [Pubs -> GateState],
         NEW J, NEW V \in [Videos -> VideoRow], Activate(S, G, J, V)
  PROVE  /\ gate' \in [Pubs -> GateState]
         /\ video' \in [Videos -> VideoRow]
<1>1. \A p \in Pubs : Outcome(p, J, V) \in GateState
  BY DEF Outcome, GateState
<1>2. gate' \in [Pubs -> GateState]
  BY <1>1 DEF Activate
<1> DEFINE open == {p \in S : G[p] = "warming" /\ Outcome(p, J, V) = "active"}
<1>3. ASSUME NEW v \in Videos, \E p \in open : VideoOf[p] = v
      PROVE  Applied(V[v], CHOOSE p \in open : VideoOf[p] = v) \in VideoRow
  BY <1>3, AppliedType
<1>4. video' \in [Videos -> VideoRow]
  BY <1>3 DEF Activate
<1> QED BY <1>2, <1>4

\* A tick with new values of its fields.
LEMMA WorkerType ==
  ASSUME Typed, NEW w \in Workers, NEW t \in Busy \cup {Idle},
         t.pc \in {"tick", "submit", "answer"} => t.rows \in [Urls -> JobRow],
         worker' = [worker EXCEPT ![w] = t]
  PROVE  worker' \in [Workers -> Busy \cup {Idle}] /\ RowsLoaded'
  BY DEF Typed, TypeOK, RowsLoaded

\* What a step of a worker reads is well-typed.
LEMMA TickType ==
  ASSUME Typed, NEW w \in Workers, worker[w].pc \in {"tick", "submit", "answer"}
  PROVE  /\ worker[w] \in Busy
         /\ worker[w].rows \in [Urls -> JobRow]
         /\ worker[w].polls \in SUBSET SUBSET Urls
         /\ worker[w].sends \in SUBSET Urls
         /\ worker[w].group \in SUBSET Urls
         /\ worker[w].reply \in Replies
  BY DEF Typed, TypeOK, RowsLoaded, Busy, Idle

\* The steps of a worker keep every row and tick well-typed.
LEMMA WorkerStepType ==
  ASSUME Typed, NEW w \in Workers, Step(w)
  PROVE  Typed'
<1>1. CASE Claim(w)
  <2>1. job' \in [Urls -> JobRow]
    <3>1. ASSUME NEW u \in Due, job[u].task = {}
          PROVE  job[u].attempts + 1 \in 0..MaxAttempts
      BY <3>1, ConstantsAssumption DEF Due, Claimable, Typed, TypeOK, JobRow
    <3>2. ASSUME NEW u \in Due
          PROVE  [job[u] EXCEPT !.state = "running", !.today = TRUE,
                     !.attempts = IF job[u].task = {} THEN @ + 1 ELSE @] \in JobRow
      <4>1. job[u] \in JobRow
        BY <3>2 DEF Typed, TypeOK, Due
      <4>2. (IF job[u].task = {} THEN job[u].attempts + 1 ELSE job[u].attempts) \in 0..MaxAttempts
        BY <3>1, <3>2, <4>1 DEF JobRow
      <4> QED BY <4>1, <4>2 DEF JobRow
    <3>3. \A u \in Urls \ Due : job[u] \in JobRow
      BY DEF Typed, TypeOK
    <3> QED BY <1>1, <3>2, <3>3 DEF Claim
  <2>2. [Idle EXCEPT !.pc = "claimed", !.group = Due] \in Busy
    BY DEF Idle, Busy, Due, Replies
  <2>3. worker' \in [Workers -> Busy \cup {Idle}] /\ RowsLoaded'
    BY <1>1, <2>2, WorkerType DEF Claim, Idle
  <2> QED BY <1>1, <2>1, <2>3 DEF Claim, Typed, TypeOK
<1>2. CASE Load(w)
  <2> DEFINE mine == worker[w].group
             known == {u \in mine : job[u].task # {}}
             t == [pc |-> "tick", rows |-> job, sends |-> mine \ known,
                   polls |-> {{q \in known : job[q].task = job[u].task} : u \in known},
                   group |-> {}, reply |-> "none"]
  <2>1. mine \in SUBSET Urls
    BY DEF Typed, TypeOK, Busy, Idle
  <2>2. t \in Busy /\ t.rows \in [Urls -> JobRow]
    BY <2>1 DEF Busy, Replies, Typed, TypeOK
  <2>3. worker' \in [Workers -> Busy \cup {Idle}] /\ RowsLoaded'
    BY <1>2, <2>2, WorkerType DEF Load
  <2> QED BY <1>2, <2>3 DEF Load, Typed, TypeOK
<1>3. CASE Calls(w)
  <2>1. PICK S \in SUBSET Urls, reply \in Replies :
          Answers(w, S, reply) /\ worker[w].pc \in {"tick", "submit"}
    <3>1. CASE Submit(w)
      BY <3>1, TickType DEF Submit, Replies
    <3>2. CASE SubmitRefresh(w)
      BY <3>2, TickType DEF SubmitRefresh, Replies
    <3>3. CASE \E u \in Privates, reply \in {"complete", "failed"} :
                 WarmPrivate(w, u, reply)
      <4>1. PICK u \in Privates, reply \in {"complete", "failed"} :
              WarmPrivate(w, u, reply)
        BY <3>3
      <4>2. {u} \in SUBSET Urls /\ reply \in Replies
        BY DEF Urls, Replies
      <4> QED BY <4>1, <4>2 DEF WarmPrivate
    <3>4. CASE \E S \in worker[w].polls,
                  reply \in {"pending", "complete", "failed", "lost"} :
                 Poll(w, S, reply)
      BY <3>4, TickType DEF Poll, Replies
    <3> QED BY <1>3, <3>1, <3>2, <3>3, <3>4 DEF Calls
  <2> DEFINE t == [worker[w] EXCEPT !.pc = "answer", !.group = S, !.reply = reply]
  <2>2. t \in Busy /\ t.rows \in [Urls -> JobRow]
    BY <2>1, TickType DEF Busy
  <2>3. worker' = [worker EXCEPT ![w] = t]
    BY <2>1 DEF Answers, Typed, TypeOK
  <2>4. worker' \in [Workers -> Busy \cup {Idle}] /\ RowsLoaded'
    BY <2>2, <2>3, WorkerType
  <2> QED BY <2>1, <2>4 DEF Answers, Typed, TypeOK
<1>4. CASE Budget(w)
  <2> DEFINE group == worker[w].sends \cap (Pubs \cup Apks)
  <2>1. PICK selected \in SUBSET group :
          /\ Store(group \ selected, worker[w].rows, OnDemand)
          /\ cached' = cached \cup (group \ selected)
          /\ worker' = [worker EXCEPT
               ![w].pc = IF selected = {} THEN "tick" ELSE "submit",
               ![w].sends = @ \ (group \ selected), ![w].group = selected,
               ![w].rows = job']
    BY <1>4 DEF Budget, Budgeted
  <2>2. job' \in [Urls -> JobRow]
    <3> DEFINE rows == worker[w].rows
    <3>1. rows \in [Urls -> JobRow]
      BY <1>4, TickType DEF Budget
    <3>2. job' = [u \in Urls |-> IF u \in group \ selected
                                THEN Merge(rows[u], OnDemand(rows[u]), job[u])
                                ELSE job[u]]
      BY <2>1 DEF Store
    <3> HIDE DEF rows, group
    <3> QED BY <3>1, <3>2, MergeType, RowType DEF Typed, TypeOK
  <2> DEFINE t == [worker[w] EXCEPT
                     !.pc = IF selected = {} THEN "tick" ELSE "submit",
                     !.sends = @ \ (group \ selected), !.group = selected,
                     !.rows = job']
  <2>3. t \in Busy /\ t.rows \in [Urls -> JobRow]
    <3>1. worker[w] \in Busy /\ group \in SUBSET Urls
      BY <1>4, TickType DEF Budget
    <3>2. /\ worker[w].sends \ (group \ selected) \in SUBSET Urls
          /\ selected \in SUBSET Urls
      BY <2>1, <3>1 DEF Busy
    <3> HIDE DEF group
    <3> QED BY <2>2, <3>1, <3>2 DEF Busy
  <2>4. worker' = [worker EXCEPT ![w] = t]
    BY <2>1 DEF Typed, TypeOK
  <2>5. worker' \in [Workers -> Busy \cup {Idle}] /\ RowsLoaded'
    BY <2>3, <2>4, WorkerType
  <2>6. cached' \subseteq Urls
    BY <1>4, <2>1, TickType DEF Budget, Typed, TypeOK
  <2> QED BY <1>4, <2>2, <2>5, <2>6 DEF Budget, Typed, TypeOK
<1>5. CASE Record(w)
  <2> DEFINE S == worker[w].group
             reply == worker[w].reply
             read == IF reply \in {"lost", "error", "quota"} THEN job ELSE worker[w].rows
             Written(row) == CASE reply = "accepted" -> Submitted(row, S)
                               [] reply = "error" -> Retried(row)
                               [] reply = "quota" -> OnDemand(row)
                               [] OTHER -> Polled(row, reply)
  <2>1. /\ worker[w] \in Busy /\ S \in SUBSET Urls /\ reply \in Replies
        /\ read \in [Urls -> JobRow]
    BY <1>5, TickType DEF Record, Typed, TypeOK
  <2>2. \A row \in JobRow : Written(row) \in JobRow
    BY <2>1, RowType
  <2>3. job' \in [Urls -> JobRow]
    <3>1. job' = [u \in Urls |-> IF u \in S
                                THEN Merge(read[u], Written(read[u]), job[u])
                                ELSE job[u]]
      BY <1>5 DEF Record, Store
    <3> HIDE DEF S, read, Written
    <3> QED BY <2>1, <2>2, <3>1, MergeType DEF Typed, TypeOK
  <2> DEFINE t == [pc |-> "tick", rows |-> job', polls |-> worker[w].polls \ {S},
                   sends |-> worker[w].sends \ S, group |-> {}, reply |-> "none"]
  <2>4. t \in Busy /\ t.rows \in [Urls -> JobRow]
    BY <1>5, <2>3, TickType DEF Record, Busy, Replies
  <2>5. worker' = [worker EXCEPT ![w] = t]
    BY <1>5 DEF Record, Typed, TypeOK
  <2>6. worker' \in [Workers -> Busy \cup {Idle}] /\ RowsLoaded'
    BY <2>4, <2>5, WorkerType
  <2>7. cached' \subseteq Urls
    BY <1>5, <2>1 DEF Record, Typed, TypeOK
  <2> QED BY <1>5, <2>3, <2>6, <2>7 DEF Record, Typed, TypeOK
<1>6. CASE Finish(w)
  <2>1. gate' \in [Pubs -> GateState] /\ video' \in [Videos -> VideoRow]
    BY <1>6, ActivateType DEF Finish, Typed, TypeOK
  <2>2. worker' \in [Workers -> Busy \cup {Idle}] /\ RowsLoaded'
    BY <1>6, WorkerType DEF Finish, Idle
  <2> QED BY <1>6, <2>1, <2>2 DEF Finish, Typed, TypeOK
<1> QED BY <1>1, <1>2, <1>3, <1>4, <1>5, <1>6 DEF Step

\* A publication leaves every row well-typed.
LEMMA PublishType ==
  ASSUME Typed, NEW p \in Pubs, NEW G \in [Pubs -> GateState], NEW row \in VideoRow,
         NEW J, J = [job EXCEPT ![p] = Enqueued(@, FALSE, FALSE)], job' = J,
         Activate({p}, G, J, [video EXCEPT ![VideoOf[p]] = row])
  PROVE  /\ job' \in [Urls -> JobRow]
         /\ gate' \in [Pubs -> GateState]
         /\ video' \in [Videos -> VideoRow]
<1>1. job' \in [Urls -> JobRow]
  BY RowType DEF Typed, TypeOK, Urls
<1>2. [video EXCEPT ![VideoOf[p]] = row] \in [Videos -> VideoRow]
  BY ConstantsAssumption DEF Typed, TypeOK
<1> QED BY <1>1, <1>2, ActivateType

\* Staging and cancelling change gates to superseded and warming ones.
LEMMA GateType ==
  ASSUME Typed
  PROVE  /\ \A p \in Pubs : Staged(p) \in [Pubs -> GateState]
         /\ \A v \in Videos : Cancelled(v) \in [Pubs -> GateState]
  BY DEF Typed, TypeOK, Staged, Cancelled, Warming, GateState

\* Publications change rows, gates and videos only.
LEMMA HandlerType ==
  ASSUME Typed, NEW p \in Pubs,
         CreatorPublish(p) \/ AdminPublish(p) \/ AdminPublishAgain(p)
  PROVE  Typed'
<1> USE GateType, PublishType
<1>1. /\ VideoOf[p] \in Videos /\ video[VideoOf[p]] \in VideoRow
      /\ NewVideo(p) \in VideoRow /\ gate \in [Pubs -> GateState]
  BY ConstantsAssumption DEF Typed, TypeOK, NewVideo, NoVideo, VideoRow
<1>2. /\ job' \in [Urls -> JobRow]
      /\ gate' \in [Pubs -> GateState]
      /\ video' \in [Videos -> VideoRow]
  <2>1. CASE CreatorPublish(p)
    BY <1>1, <2>1 DEF CreatorPublish, Publish
  <2>2. CASE AdminPublish(p)
    BY <1>1, <2>2 DEF AdminPublish, Publish
  <2>3. CASE AdminPublishAgain(p)
    BY <1>1, <2>3, AppliedType DEF AdminPublishAgain
  <2> QED BY <2>1, <2>2, <2>3
<1>3. UNCHANGED <<cached, worker, events>>
  BY DEF CreatorPublish, AdminPublish, AdminPublishAgain, Publish
<1> QED BY <1>2, <1>3 DEF Typed, TypeOK, RowsLoaded

\* The bound on events holds.
LEMMA EventType ==
  ASSUME Typed, Event
  PROVE  events' \in 0..MaxEvents
  BY ConstantsAssumption DEF Event, Typed, TypeOK

\* Every step keeps every row and tick well-typed.
LEMMA TypeStep ==
  ASSUME Typed, [Next]_vars
  PROVE  Typed'
<1>1. CASE \E p \in Pubs : CreatorPublish(p) \/ AdminPublish(p) \/ AdminPublishAgain(p)
  BY <1>1, HandlerType
<1>2. CASE \E v \in Videos : Delete(v) \/ Restore(v) \/ Unpublish(v)
  <2>1. PICK v \in Videos : Delete(v) \/ Restore(v) \/ Unpublish(v)
    BY <1>2
  <2>2. gate' \in [Pubs -> GateState]
    BY <2>1, GateType DEF Delete, Restore, Unpublish, Typed, TypeOK
  <2>3. video' \in [Videos -> VideoRow]
    <3>1. /\ NoVideo \in VideoRow
          /\ \A b \in BOOLEAN : [video[v] EXCEPT !.deleted = b] \in VideoRow
      BY DEF Typed, TypeOK, NoVideo, VideoRow
    <3>2. \E row \in VideoRow : video' = [video EXCEPT ![v] = row]
      BY <2>1, <3>1 DEF Delete, Restore, Unpublish, Typed, TypeOK
    <3> QED BY <3>2 DEF Typed, TypeOK
  <2> QED BY <2>1, <2>2, <2>3
          DEF Delete, Restore, Unpublish, Typed, TypeOK, RowsLoaded
<1>3. CASE \E u \in Urls : Prefetch(u) \/ Resubmit(u)
  <2>1. PICK u \in Urls : Prefetch(u) \/ Resubmit(u)
    BY <1>3
  <2>2. job' \in [Urls -> JobRow]
    <3>1. \E row \in JobRow : job' = [job EXCEPT ![u] = row]
      BY <2>1, RowType DEF Prefetch, Resubmit, Typed, TypeOK
    <3> QED BY <3>1 DEF Typed, TypeOK
  <2>3. events' \in 0..MaxEvents
    BY <2>1, EventType DEF Prefetch, Resubmit
  <2> QED BY <2>1, <2>2, <2>3 DEF Prefetch, Resubmit, Typed, TypeOK, RowsLoaded
<1>4. CASE \E w \in Workers : Crash(w)
  <2>1. PICK w \in Workers : Crash(w)
    BY <1>4
  <2>2. worker' \in [Workers -> Busy \cup {Idle}] /\ RowsLoaded'
    BY <2>1, WorkerType DEF Crash, Idle
  <2>3. events' \in 0..MaxEvents
    BY <2>1, EventType DEF Crash
  <2> QED BY <2>1, <2>2, <2>3 DEF Crash, Typed, TypeOK
<1>5. CASE NewDay
  <2>1. job' \in [Urls -> JobRow]
    BY <1>5 DEF NewDay, Typed, TypeOK, JobRow
  <2>2. events' \in 0..MaxEvents
    BY <1>5, EventType DEF NewDay
  <2> QED BY <1>5, <2>1, <2>2 DEF NewDay, Typed, TypeOK, RowsLoaded
<1>6. CASE UNCHANGED vars
  BY <1>6 DEF vars, Typed, TypeOK, RowsLoaded
<1> QED BY <1>1, <1>2, <1>3, <1>4, <1>5, <1>6, WorkerStepType DEF Next

\* The rows and ticks of a system without publications.
LEMMA TypeInit == Init => Typed
<1> SUFFICES ASSUME Init PROVE Typed
  OBVIOUS
<1>1. job \in [Urls -> JobRow]
  BY ConstantsAssumption DEF Init, NoJob, JobRow
<1>2. video \in [Videos -> VideoRow] /\ gate \in [Pubs -> GateState]
  BY DEF Init, NoVideo, VideoRow, GateState
<1>3. worker \in [Workers -> Busy \cup {Idle}] /\ RowsLoaded
  BY DEF Init, Idle, RowsLoaded
<1>4. cached \subseteq Urls /\ events \in 0..MaxEvents
  BY ConstantsAssumption DEF Init
<1> QED BY <1>1, <1>2, <1>3, <1>4 DEF Typed, TypeOK

\* Every outbox row, gate, video and worker tick holds values of its columns,
\* for any number of publications, URLs and workers (models.py CdnCacheJob,
\* CdnPublicationGate); with it attempts never exceed the limit.
THEOREM TypeCorrect == Spec => []TypeOK
<1>1. Spec => []Typed
  BY TypeInit, TypeStep, PTL DEF Spec
<1> QED BY <1>1, PTL DEF Typed

(***************************************************************************)
(* What the gates guarantee.                                               *)
(***************************************************************************)
\* Only what the CDN has counts as completed, in the outbox and in the answer
\* of a call.
WarmJobs ==
  /\ \A u \in Urls : job[u].state = "succeeded" => u \in cached
  /\ \A w \in Workers : worker[w].pc = "answer" /\ worker[w].reply = "complete"
                       => worker[w].group \subseteq cached

\* Of gates G and videos V: what waits has a row, the row of a creator's
\* publication that waits shows it unless the video is released already, what
\* is active or released is warm, and one publication of a video waits.
Sound(G, V) ==
  /\ \A p \in Pubs : G[p] = "warming" =>
       /\ V[VideoOf[p]].exists
       /\ p \in CreatorPubs /\ ~ V[VideoOf[p]].ready => V[VideoOf[p]].shown = p
  /\ \A p \in Pubs : G[p] = "active" => p \in cached
  /\ \A v \in Videos : V[v].ready => V[v].shown \in cached
  /\ \A p, q \in Pubs : (/\ G[p] = "warming" /\ G[q] = "warming"
                         /\ VideoOf[p] = VideoOf[q]) => p = q

Guarded == Typed /\ WarmJobs /\ Sound(gate, video)

\* Gates and videos stay sound when the CDN has more.
LEMMA SoundStays ==
  ASSUME Sound(gate, video), UNCHANGED <<gate, video>>, cached \subseteq cached'
  PROVE  Sound(gate, video)'
  BY DEF Sound

\* Evaluating gates keeps them sound.
LEMMA ActivateSound ==
  ASSUME NEW S \in SUBSET Pubs, NEW G \in [Pubs -> GateState], NEW J,
         NEW V \in [Videos -> VideoRow], Sound(G, V), Activate(S, G, J, V),
         \A p \in Pubs : J[p].state = "succeeded" => p \in cached,
         UNCHANGED cached
  PROVE  Sound(gate, video)'
<1> DEFINE open == {p \in S : G[p] = "warming" /\ Outcome(p, J, V) = "active"}
<1>1. \A p \in Pubs : /\ gate'[p] = "warming" => G[p] = "warming"
                      /\ gate'[p] = "active" => G[p] = "active" \/ p \in open
  BY DEF Activate
<1>2. \A p \in open : p \in cached /\ p \in Pubs /\ G[p] = "warming"
  BY DEF Outcome
<1>3. ASSUME NEW v \in Videos
      PROVE  \/ video'[v] = V[v]
             \/ \E p \in open : VideoOf[p] = v /\ video'[v] = Applied(V[v], p)
  BY DEF Activate
<1>4. ASSUME NEW v \in Videos
      PROVE  /\ video'[v].exists = V[v].exists
             /\ ~ video'[v].ready => video'[v] = V[v]
             /\ video'[v].ready => video'[v].shown \in cached
  <2>1. CASE video'[v] = V[v]
    BY <2>1 DEF Sound
  <2>2. CASE \E p \in open : VideoOf[p] = v /\ video'[v] = Applied(V[v], p)
    <3>1. PICK p \in open : VideoOf[p] = v /\ video'[v] = Applied(V[v], p)
      BY <2>2
    <3>2. V[v] \in VideoRow
      OBVIOUS
    <3>3. /\ video'[v].exists = V[v].exists /\ video'[v].ready
          /\ video'[v].shown = IF p \in CreatorPubs THEN V[v].shown ELSE p
      BY <3>1, <3>2 DEF Applied, VideoRow
    <3> QED BY <1>2, <3>1, <3>3 DEF Sound
  <2> QED BY <1>3, <2>1, <2>2
<1>5. \A p \in Pubs : VideoOf[p] \in Videos
  BY ConstantsAssumption
<1> HIDE DEF open
<1> QED BY <1>1, <1>2, <1>4, <1>5 DEF Sound

\* Enqueuing completes nothing.
LEMMA EnqueuedPending ==
  ASSUME NEW row, NEW force, NEW retry, Enqueued(row, force, retry).state = "succeeded"
  PROVE  row.state = "succeeded"
  BY DEF Enqueued, NewJob, NoJob

\* A new publication is staged soundly.
LEMMA StagedSound ==
  ASSUME Guarded, NEW p \in Pubs, NEW row \in VideoRow,
         IF video[VideoOf[p]].exists
           THEN row = video[VideoOf[p]] /\ p \notin CreatorPubs
           ELSE row = NewVideo(p)
  PROVE  Sound(Staged(p), [video EXCEPT ![VideoOf[p]] = row])
<1> DEFINE V == [video EXCEPT ![VideoOf[p]] = row]
<1>1. \A q \in Pubs : /\ Staged(p)[q] = "warming" =>
                           q = p \/ (gate[q] = "warming" /\ VideoOf[q] # VideoOf[p])
                      /\ Staged(p)[q] = "active" => gate[q] = "active"
  BY DEF Staged, Warming
<1>2. /\ NewVideo(p).exists /\ NewVideo(p).shown = p /\ ~ NewVideo(p).ready
  BY DEF NewVideo, NoVideo
<1>3. \A v \in Videos : V[v] = IF v = VideoOf[p] THEN row ELSE video[v]
  BY DEF Guarded, Typed, TypeOK
<1>4. \A q \in Pubs : VideoOf[q] \in Videos
  BY ConstantsAssumption
<1> HIDE DEF V
<1>5. Sound(Staged(p), V)
  BY <1>1, <1>2, <1>3, <1>4 DEF Sound, Guarded
<1> QED BY <1>5 DEF V

\* Publications keep gates sound, and complete nothing.
LEMMA HandlerGuards ==
  ASSUME Guarded, NEW p \in Pubs,
         CreatorPublish(p) \/ AdminPublish(p) \/ AdminPublishAgain(p)
  PROVE  WarmJobs' /\ Sound(gate, video)'
<1> DEFINE v == VideoOf[p]
           J == [job EXCEPT ![p] = Enqueued(@, FALSE, FALSE)]
<1>1. /\ v \in Videos /\ video[v] \in VideoRow /\ NewVideo(p) \in VideoRow
      /\ gate \in [Pubs -> GateState] /\ video \in [Videos -> VideoRow]
  BY ConstantsAssumption DEF Guarded, Typed, TypeOK, NewVideo, NoVideo, VideoRow
<1>2. job' = J /\ UNCHANGED <<cached, worker>>
  BY DEF CreatorPublish, AdminPublish, AdminPublishAgain, Publish
<1>3. \A u \in Urls : J[u].state = "succeeded" => job[u].state = "succeeded"
  BY EnqueuedPending DEF Guarded, Typed, TypeOK
<1>4. WarmJobs'
  BY <1>2, <1>3 DEF Guarded, WarmJobs
<1>5. \A q \in Pubs : J[q].state = "succeeded" => q \in cached
  BY <1>3 DEF Guarded, WarmJobs, Urls
<1>6. ASSUME NEW row \in VideoRow
      PROVE  [video EXCEPT ![v] = row] \in [Videos -> VideoRow]
  BY <1>1
<1>7. Staged(p) \in [Pubs -> GateState]
  BY GateType DEF Guarded
<1>8. CASE CreatorPublish(p) \/ AdminPublish(p)
  <2> DEFINE row == IF video[v].exists THEN video[v] ELSE NewVideo(p)
  <2>1. Activate({p}, Staged(p), J, [video EXCEPT ![v] = row])
    BY <1>8 DEF CreatorPublish, AdminPublish, Publish
  <2>2. Sound(Staged(p), [video EXCEPT ![v] = row])
    BY <1>1, <1>8, StagedSound DEF CreatorPublish, AdminPublish
  <2>3. row \in VideoRow
    BY <1>1
  <2> HIDE DEF row, J, v
  <2> QED BY <1>2, <1>4, <1>5, <1>6, <1>7, <2>1, <2>2, <2>3, ActivateSound
<1>9. CASE AdminPublishAgain(p)
  <2> DEFINE row == CASE ~ video[v].exists -> NewVideo(p)
                      [] gate[p] = "active" -> Applied(video[v], p)
                      [] OTHER -> video[v]
             V == [video EXCEPT ![v] = row]
  <2>1. /\ Activate({p}, gate, J, V)
        /\ p \notin CreatorPubs
        /\ gate[p] = "active" => video[v].exists
    BY <1>9 DEF AdminPublishAgain
  <2>2. row \in VideoRow
    BY <1>1, AppliedType
  <2>3. Sound(gate, V)
    <3>1. \A x \in Videos : V[x] = IF x = v THEN row ELSE video[x]
      BY <1>1
    <3>2. CASE ~ video[v].exists
      <4>1. row = NewVideo(p)
        BY <2>1, <3>2
      <4>2. ~ row.ready
        BY <4>1 DEF NewVideo, NoVideo
      <4>3. \A q \in Pubs : gate[q] = "warming" => VideoOf[q] # v
        BY <3>2 DEF Guarded, Sound
      <4>4. \A q \in Pubs : VideoOf[q] \in Videos
        BY ConstantsAssumption
      <4> HIDE DEF V, row, v
      <4> QED BY <3>1, <4>2, <4>3, <4>4 DEF Guarded, Sound
    <3>3. CASE video[v].exists /\ gate[p] = "active"
      <4>1. row = Applied(video[v], p)
        BY <3>3
      <4>2. row.ready /\ row.shown = p /\ row.exists
        BY <1>1, <2>1, <3>3, <4>1 DEF Applied, VideoRow
      <4>3. p \in cached
        BY <3>3 DEF Guarded, Sound
      <4>4. \A q \in Pubs : VideoOf[q] \in Videos
        BY ConstantsAssumption
      <4> HIDE DEF V, row, v
      <4> QED BY <3>1, <4>2, <4>3, <4>4 DEF Guarded, Sound
    <3>4. CASE video[v].exists /\ gate[p] # "active"
      <4>1. row = video[v]
        BY <3>4
      <4>2. V = video
        BY <1>1, <4>1
      <4> QED BY <4>2 DEF Guarded
    <3> QED BY <3>2, <3>3, <3>4
  <2> HIDE DEF row, J, v
  <2> QED BY <1>1, <1>2, <1>4, <1>5, <1>6, <2>1, <2>2, <2>3, ActivateSound
<1> QED BY <1>8, <1>9

\* Deleting, restoring and unpublishing keep gates sound.
LEMMA VideoGuards ==
  ASSUME Guarded, NEW v \in Videos, Delete(v) \/ Restore(v) \/ Unpublish(v)
  PROVE  WarmJobs' /\ Sound(gate, video)'
<1>1. WarmJobs'
  BY DEF Delete, Restore, Unpublish, Guarded, WarmJobs
<1>2. \A q \in Pubs : VideoOf[q] \in Videos
  BY ConstantsAssumption
<1>3. \A q \in Pubs : /\ Cancelled(v)[q] = "warming" =>
                           gate[q] = "warming" /\ VideoOf[q] # v
                      /\ Cancelled(v)[q] = "active" => gate[q] = "active"
  BY DEF Cancelled, Warming
<1>4. CASE Delete(v) \/ Restore(v)
  <2>1. \A x \in Videos : /\ video'[x].exists = video[x].exists
                          /\ video'[x].ready = video[x].ready
                          /\ video'[x].shown = video[x].shown
    BY <1>4 DEF Delete, Restore, Guarded, Typed, TypeOK, VideoRow
  <2>2. \A q \in Pubs : /\ gate'[q] = "warming" => gate[q] = "warming"
                        /\ gate'[q] = "active" => gate[q] = "active"
    BY <1>3, <1>4 DEF Delete, Restore
  <2>3. UNCHANGED cached
    BY <1>4 DEF Delete, Restore
  <2>4. Sound(gate, video)
    BY DEF Guarded
  <2>5. \A p \in Pubs : gate'[p] = "warming" =>
          /\ video'[VideoOf[p]].exists
          /\ p \in CreatorPubs /\ ~ video'[VideoOf[p]].ready
               => video'[VideoOf[p]].shown = p
    BY <1>2, <2>1, <2>2, <2>4 DEF Sound
  <2> QED BY <1>1, <2>1, <2>2, <2>3, <2>4, <2>5 DEF Sound
<1>5. CASE Unpublish(v)
  <2>1. /\ \A x \in Videos \ {v} : video'[x] = video[x]
        /\ ~ video'[v].ready
    BY <1>5 DEF Unpublish, NoVideo, Guarded, Typed, TypeOK
  <2>2. \A q \in Pubs : /\ gate'[q] = "warming" =>
                             gate[q] = "warming" /\ VideoOf[q] # v
                        /\ gate'[q] = "active" => gate[q] = "active"
    BY <1>3, <1>5 DEF Unpublish
  <2>3. UNCHANGED cached
    BY <1>5 DEF Unpublish
  <2>4. Sound(gate, video)
    BY DEF Guarded
  <2>5. \A p \in Pubs : gate'[p] = "warming" =>
          /\ video'[VideoOf[p]].exists
          /\ p \in CreatorPubs /\ ~ video'[VideoOf[p]].ready
               => video'[VideoOf[p]].shown = p
    BY <1>2, <2>1, <2>2, <2>4 DEF Sound
  <2> QED BY <1>1, <2>1, <2>2, <2>3, <2>4, <2>5 DEF Sound
<1> QED BY <1>1, <1>4, <1>5

\* A column of a merged row is the current one or one that was written.
LEMMA MergedState ==
  ASSUME NEW read \in JobRow, NEW written \in JobRow, NEW current \in JobRow
  PROVE  Merge(read, written, current).state \in {written.state, current.state}
  BY DEF Merge, JobRow

\* Only completed calls and on-demand URLs complete a job.
LEMMA CompletedState ==
  ASSUME NEW row \in JobRow
  PROVE  /\ Retried(row).state # "succeeded"
         /\ \A S : Submitted(row, S).state # "succeeded"
         /\ \A reply : Polled(row, reply).state = "succeeded" => reply = "complete"
<1>1. Retried(row).state # "succeeded"
  BY DEF Retried, JobRow
<1> QED BY <1>1 DEF Submitted, Polled, JobRow

\* The steps of a worker keep gates sound and complete only what is warm.
LEMMA WorkerGuards ==
  ASSUME Guarded, NEW w \in Workers, Step(w)
  PROVE  WarmJobs' /\ Sound(gate, video)'
<1> USE DEF Guarded
<1>1. CASE Claim(w) \/ Load(w)
  <2>1. UNCHANGED <<cached, gate, video>>
    BY <1>1 DEF Claim, Load
  <2>2. \A u \in Urls : job'[u].state = "succeeded" => job[u].state = "succeeded"
    <3>1. CASE Claim(w)
      <4>1. ASSUME NEW u \in Urls
            PROVE  job'[u] = job[u] \/ job'[u].state = "running"
        <5>1. CASE u \in Due
          <6>1. job[u] \in JobRow
            BY DEF Typed, TypeOK
          <6> QED BY <3>1, <5>1, <6>1 DEF Claim, JobRow
        <5>2. CASE u \notin Due
          BY <3>1, <5>2 DEF Claim
        <5> QED BY <5>1, <5>2
      <4> QED BY <4>1
    <3>2. CASE Load(w)
      BY <3>2 DEF Load
    <3> QED BY <1>1, <3>1, <3>2
  <2>3. \A x \in Workers : worker'[x].pc = "answer" => worker'[x] = worker[x]
    <3>1. CASE Claim(w)
      BY <3>1 DEF Claim, Idle, Typed, TypeOK
    <3>2. CASE Load(w)
      BY <3>2 DEF Load, Typed, TypeOK
    <3> QED BY <1>1, <3>1, <3>2
  <2>4. WarmJobs'
    BY <2>1, <2>2, <2>3 DEF WarmJobs
  <2> QED BY <2>1, <2>4, SoundStays
<1>2. CASE Calls(w)
  <2>1. \E S, reply : Answers(w, S, reply)
    BY <1>2 DEF Calls, Submit, SubmitRefresh, WarmPrivate, Poll
  <2>2. PICK S, reply : Answers(w, S, reply)
    BY <2>1
  <2>3. UNCHANGED <<job, gate, video>> /\ cached \subseteq cached'
    BY <2>2 DEF Answers
  <2>4. ASSUME NEW x \in Workers, worker'[x].pc = "answer", worker'[x].reply = "complete"
        PROVE  worker'[x].group \subseteq cached'
    <3>1. CASE x # w
      BY <2>2, <2>3, <2>4, <3>1 DEF Answers, WarmJobs, Typed, TypeOK
    <3>2. CASE x = w
      <4>1. worker[w] \in Busy \cup {Idle}
        BY DEF Typed, TypeOK
      <4>2. worker'[w] = [worker[w] EXCEPT !.pc = "answer", !.group = S, !.reply = reply]
        BY <2>2 DEF Answers, Typed, TypeOK
      <4>3. worker'[w].group = S /\ worker'[w].reply = reply
        BY <4>1, <4>2 DEF Busy, Idle
      <4> QED BY <2>2, <2>4, <3>2, <4>3 DEF Answers
    <3> QED BY <3>1, <3>2
  <2>5. WarmJobs'
    BY <2>3, <2>4 DEF WarmJobs
  <2> QED BY <2>3, <2>5, SoundStays
<1>3. CASE Budget(w)
  <2> DEFINE group == worker[w].sends \cap (Pubs \cup Apks)
             rows == worker[w].rows
  <2>1. PICK selected \in SUBSET group :
          /\ Store(group \ selected, rows, OnDemand)
          /\ cached' = cached \cup (group \ selected)
          /\ worker' = [worker EXCEPT
               ![w].pc = IF selected = {} THEN "tick" ELSE "submit",
               ![w].sends = @ \ (group \ selected), ![w].group = selected,
               ![w].rows = job']
    BY <1>3 DEF Budget, Budgeted
  <2>2. UNCHANGED <<gate, video>> /\ cached \subseteq cached'
    BY <1>3, <2>1 DEF Budget
  <2>3. ASSUME NEW u \in Urls, job'[u].state = "succeeded"
        PROVE  u \in cached'
    BY <2>1, <2>3 DEF Store, WarmJobs
  <2>4. ASSUME NEW x \in Workers, worker'[x].pc = "answer"
        PROVE  worker'[x] = worker[x]
    <3>1. worker[w] \in Busy
      BY <1>3, TickType DEF Budget
    <3>2. worker'[w].pc # "answer"
      BY <2>1, <3>1 DEF Typed, TypeOK, Busy
    <3> QED BY <2>1, <2>4, <3>2 DEF Typed, TypeOK
  <2>5. WarmJobs'
    BY <2>2, <2>3, <2>4 DEF WarmJobs
  <2> QED BY <2>2, <2>5, SoundStays
<1>4. CASE Record(w)
  <2> DEFINE S == worker[w].group
             reply == worker[w].reply
             read == IF reply \in {"lost", "error", "quota"} THEN job ELSE worker[w].rows
             Written(row) == CASE reply = "accepted" -> Submitted(row, S)
                               [] reply = "error" -> Retried(row)
                               [] reply = "quota" -> OnDemand(row)
                               [] OTHER -> Polled(row, reply)
  <2>1. /\ S \in SUBSET Urls /\ reply \in Replies /\ read \in [Urls -> JobRow]
        /\ worker[w].pc = "answer"
    BY <1>4, TickType DEF Record, Typed, TypeOK
  <2>2. \A row \in JobRow : Written(row) \in JobRow
    BY <2>1, RowType
  <2>3. \A row \in JobRow : Written(row).state = "succeeded" =>
                              reply \in {"quota", "complete"}
    BY CompletedState
  <2>4. job' = [u \in Urls |-> IF u \in S
                              THEN Merge(read[u], Written(read[u]), job[u])
                              ELSE job[u]]
    BY <1>4 DEF Record, Store
  <2>5. UNCHANGED <<gate, video>> /\ cached \subseteq cached'
    BY <1>4 DEF Record
  <2>6. reply \in {"quota", "complete"} => S \subseteq cached'
    BY <1>4, <2>1 DEF Record, WarmJobs
  <2>7. ASSUME NEW u \in Urls, job'[u].state = "succeeded"
        PROVE  u \in cached'
    <3>1. CASE u \in S
      <4>1. job'[u].state \in {Written(read[u]).state, job[u].state}
        <5>1. job[u] \in JobRow /\ read[u] \in JobRow /\ Written(read[u]) \in JobRow
          BY <2>1, <2>2 DEF Typed, TypeOK
        <5>2. job'[u] = Merge(read[u], Written(read[u]), job[u])
          BY <2>4, <3>1
        <5> HIDE DEF read, Written
        <5> QED BY <5>1, <5>2, MergedState
      <4> HIDE DEF read, Written
      <4> QED BY <2>1, <2>3, <2>5, <2>6, <2>7, <3>1, <4>1 DEF WarmJobs
    <3>2. CASE u \notin S
      BY <2>4, <2>5, <2>7, <3>2 DEF WarmJobs
    <3> QED BY <3>1, <3>2
  <2>8. ASSUME NEW x \in Workers, worker'[x].pc = "answer"
        PROVE  worker'[x] = worker[x]
    BY <1>4, <2>8 DEF Record, Typed, TypeOK
  <2>9. WarmJobs'
    BY <2>5, <2>7, <2>8 DEF WarmJobs
  <2> QED BY <2>5, <2>9, SoundStays
<1>5. CASE Finish(w)
  <2>1. Activate(Pubs, gate, job, video) /\ UNCHANGED <<job, cached>>
    BY <1>5 DEF Finish
  <2>2. Sound(gate, video)'
    BY <2>1, ActivateSound DEF WarmJobs, Typed, TypeOK, Urls
  <2>3. \A x \in Workers : worker'[x].pc = "answer" => worker'[x] = worker[x]
    BY <1>5 DEF Finish, Idle, Typed, TypeOK
  <2>4. WarmJobs'
    BY <2>1, <2>3 DEF WarmJobs
  <2> QED BY <2>2, <2>4
<1> QED BY <1>1, <1>2, <1>3, <1>4, <1>5 DEF Step

\* Every step keeps the gates sound.
LEMMA GuardStep ==
  ASSUME Guarded, [Next]_vars
  PROVE  Guarded'
<1>1. Typed'
  BY TypeStep DEF Guarded
<1>2. WarmJobs' /\ Sound(gate, video)'
  <2>1. CASE \E u \in Urls : Prefetch(u) \/ Resubmit(u)
    <3>1. PICK u \in Urls : Prefetch(u) \/ Resubmit(u)
      BY <2>1
    <3>2. UNCHANGED <<cached, gate, video, worker>>
      BY <3>1 DEF Prefetch, Resubmit
    <3>3. \A x \in Urls : job'[x].state = "succeeded" => job[x].state = "succeeded"
      <4>1. NewJob.state # "succeeded"
        BY DEF NewJob, NoJob
      <4>2. \E row : job' = [job EXCEPT ![u] = row] /\ row.state # "succeeded"
        BY <3>1, <4>1 DEF Prefetch, Resubmit, Enqueued
      <4> QED BY <4>2 DEF Guarded, Typed, TypeOK
    <3>4. WarmJobs'
      BY <3>2, <3>3 DEF Guarded, WarmJobs
    <3> QED BY <3>2, <3>4, SoundStays DEF Guarded
  <2>2. CASE \E w \in Workers : Crash(w)
    <3>1. PICK w \in Workers : Crash(w)
      BY <2>2
    <3>2. \A x \in Workers : worker'[x].pc = "answer" => worker'[x] = worker[x]
      BY <3>1 DEF Crash, Idle, Guarded, Typed, TypeOK
    <3>3. UNCHANGED <<job, cached, gate, video>>
      BY <3>1 DEF Crash
    <3> QED BY <3>2, <3>3, SoundStays DEF Guarded, WarmJobs
  <2>3. CASE NewDay
    <3>1. \A x \in Urls : job'[x].state = job[x].state
      BY <2>3 DEF NewDay, Guarded, Typed, TypeOK, JobRow
    <3>2. UNCHANGED <<cached, gate, video, worker>>
      BY <2>3 DEF NewDay
    <3> QED BY <3>1, <3>2, SoundStays DEF Guarded, WarmJobs
  <2>4. CASE UNCHANGED vars
    BY <2>4, SoundStays DEF vars, Guarded, WarmJobs
  <2> QED BY <2>1, <2>2, <2>3, <2>4, HandlerGuards, VideoGuards, WorkerGuards DEF Next
<1> QED BY <1>1, <1>2 DEF Guarded

\* The inductive invariant of the gates.
LEMMA GuardInvariant == Spec => []Guarded
<1>1. Init => Guarded
  <2> SUFFICES ASSUME Init PROVE Guarded
    OBVIOUS
  <2>1. Typed
    BY TypeInit
  <2>2. WarmJobs
    BY DEF Init, NoJob, Idle, WarmJobs
  <2>3. Sound(gate, video)
    BY DEF Init, NoVideo, Sound
  <2> QED BY <2>1, <2>2, <2>3 DEF Guarded
<1> QED BY <1>1, GuardStep, PTL DEF Spec

\* A video is released only with a publication the CDN has, for any number of
\* workers, retries and operator commands (activate_ready_publications).
THEOREM ReleasedAreWarm == Spec => []ReleasedIsWarm
<1>1. Guarded => ReleasedIsWarm
  BY DEF Guarded, Sound, ReleasedIsWarm
<1> QED BY <1>1, GuardInvariant, PTL

\* At most one publication of a video waits for the CDN
\* (stage_publication_gate supersedes, deletion cancels).
THEOREM OneGateWarms == Spec => []OneWarmingGate
<1>1. Guarded => OneWarmingGate
  BY DEF Guarded, Sound, OneWarmingGate
<1> QED BY <1>1, GuardInvariant, PTL

(***************************************************************************)
(* The gates implement PublicationGate.                                    *)
(***************************************************************************)
\* The mapped variables.
warm == cached \cap Pubs
released == [v \in Videos |-> IF video[v].exists /\ video[v].ready
                             THEN video[v].shown ELSE None]

\* Steps that leave gates and videos alone at most warm more.
LEMMA WarmStep ==
  ASSUME UNCHANGED <<gate, video>>, cached \subseteq cached'
  PROVE  Gates!Warm
<1>1. UNCHANGED released
  BY DEF released
<1> DEFINE S == warm'
<1>2. S \in SUBSET Pubs /\ warm' = warm \cup S
  BY DEF warm
<1> QED BY <1>1, <1>2 DEF Gates!Warm, warm, released

\* Evaluating waiting gates resolves them.
LEMMA ResolveStep ==
  ASSUME Guarded, NEW S \in SUBSET Pubs, NEW J, Activate(S, gate, J, video),
         \A p \in Pubs : J[p].state = "succeeded" => p \in cached,
         UNCHANGED cached
  PROVE  Gates!Resolve
<1> DEFINE good == {p \in S : gate[p] = "warming" /\ Outcome(p, J, video) = "active"}
           bad == {p \in S : gate[p] = "warming" /\ Outcome(p, J, video) = "failed"}
<1>1. /\ good \in SUBSET {p \in Pubs : gate[p] = "warming"}
      /\ bad \in SUBSET {p \in Pubs : gate[p] = "warming"}
      /\ good \cap bad = {}
  OBVIOUS
<1>2. good \subseteq warm
  BY DEF Outcome, warm
<1>3. gate' = [p \in Pubs |-> CASE p \in good -> "active"
                               [] p \in bad -> "failed"
                               [] OTHER -> gate[p]]
  <2>1. \A p \in Pubs : Outcome(p, J, video) \in {"warming", "active", "failed"}
    BY DEF Outcome
  <2>2. gate' = [p \in Pubs |-> IF p \in S /\ gate[p] = "warming"
                               THEN Outcome(p, J, video) ELSE gate[p]]
    BY DEF Activate
  <2>3. gate \in [Pubs -> GateState]
    BY DEF Guarded, Typed, TypeOK
  <2>4. ASSUME NEW p \in Pubs
        PROVE  gate'[p] = CASE p \in good -> "active"
                            [] p \in bad -> "failed"
                            [] OTHER -> gate[p]
    <3> DEFINE out == Outcome(p, J, video)
    <3>1. out \in {"warming", "active", "failed"}
      BY <2>1
    <3>2. /\ p \in good <=> p \in S /\ gate[p] = "warming" /\ out = "active"
          /\ p \in bad <=> p \in S /\ gate[p] = "warming" /\ out = "failed"
      OBVIOUS
    <3>3. gate'[p] = IF p \in S /\ gate[p] = "warming" THEN out ELSE gate[p]
      BY <2>2
    <3> HIDE DEF out, good, bad
    <3> QED BY <3>1, <3>2, <3>3
  <2> HIDE DEF good, bad
  <2> QED BY <2>2, <2>4
<1>4. ASSUME NEW v \in Videos
      PROVE  \/ released'[v] = released[v]
             \/ /\ released'[v] \in good
                /\ VideoOf[released'[v]] = v
  <2>1. /\ released'[v] = IF video'[v].exists /\ video'[v].ready
                          THEN video'[v].shown ELSE None
        /\ released[v] = IF video[v].exists /\ video[v].ready
                         THEN video[v].shown ELSE None
    BY DEF released
  <2>2. video'[v] = IF \E p \in good : VideoOf[p] = v
                    THEN Applied(video[v], CHOOSE p \in good : VideoOf[p] = v)
                    ELSE video[v]
    BY DEF Activate
  <2>3. CASE \E p \in good : VideoOf[p] = v
    <3>1. PICK p \in good : VideoOf[p] = v /\ video'[v] = Applied(video[v], p)
      BY <2>2, <2>3
    <3>2. video[v] \in VideoRow
      BY DEF Guarded, Typed, TypeOK
    <3>3. /\ video'[v].exists = video[v].exists /\ video'[v].ready
          /\ video'[v].shown = IF p \in CreatorPubs THEN video[v].shown ELSE p
      BY <3>1, <3>2 DEF Applied, VideoRow
    <3>4. /\ video[v].exists
          /\ p \in CreatorPubs /\ ~ video[v].ready => video[v].shown = p
      BY <3>1 DEF Guarded, Sound
    <3> QED BY <2>1, <3>1, <3>3, <3>4
  <2>4. CASE ~ \E p \in good : VideoOf[p] = v
    BY <2>1, <2>2, <2>4
  <2> QED BY <2>3, <2>4
<1>5. released' \in [Videos -> good \cup {released[v] : v \in Videos}]
  <2>1. released' = [v \in Videos |-> released'[v]]
    BY DEF released
  <2> HIDE DEF good
  <2> QED BY <1>4, <2>1
<1>6. warm' = warm
  BY DEF warm
<1>7. /\ \A v \in Videos : released'[v] # released[v] =>
           released'[v] \in good /\ VideoOf[released'[v]] = v
  BY <1>4
<1> HIDE DEF good, bad
<1> QED BY <1>1, <1>2, <1>3, <1>5, <1>6, <1>7 DEF Gates!Resolve, warm, released

\* A new publication waits, or is decided at once.
LEMMA PublishStep ==
  ASSUME Guarded, NEW p \in Pubs, NEW row, gate[p] = "none", Publish(p, row),
         IF video[VideoOf[p]].exists
           THEN row = video[VideoOf[p]] /\ p \notin CreatorPubs
           ELSE row = NewVideo(p)
  PROVE  Gates!Publish(p)
<1> DEFINE v == VideoOf[p]
           J == [job EXCEPT ![p] = Enqueued(@, FALSE, FALSE)]
           V == [video EXCEPT ![v] = row]
           outcome == Outcome(p, J, V)
<1>1. /\ v \in Videos /\ video \in [Videos -> VideoRow] /\ gate \in [Pubs -> GateState]
      /\ row \in VideoRow /\ row.exists
      /\ p \in CreatorPubs => row.shown = p
  BY ConstantsAssumption DEF Guarded, Typed, TypeOK, NewVideo, NoVideo, VideoRow
<1>2. Activate({p}, Staged(p), J, V) /\ UNCHANGED cached
  BY DEF Publish
<1>3. /\ outcome \in {"warming", "active", "failed"}
      /\ outcome = "active" => J[p].state = "succeeded"
  BY DEF Outcome
<1>4. outcome = "active" => p \in warm
  BY <1>3, EnqueuedPending DEF Guarded, Typed, TypeOK, WarmJobs, warm, Urls
<1>5. gate' = [q \in Pubs |-> CASE q = p -> outcome
                               [] q \in Gates!Waiting(VideoOf[p]) -> "superseded"
                               [] OTHER -> gate[q]]
  <2>1. gate' = [q \in Pubs |-> IF q \in {p} /\ Staged(p)[q] = "warming"
                               THEN Outcome(q, J, V) ELSE Staged(p)[q]]
    BY <1>2 DEF Activate
  <2>2. Gates!Waiting(VideoOf[p]) = Warming(v)
    BY DEF Gates!Waiting, Warming
  <2>3. \A q \in Pubs : Staged(p)[q] = CASE q = p -> "warming"
                                         [] q \in Warming(v) -> "superseded"
                                         [] OTHER -> gate[q]
    BY DEF Staged
  <2>4. p \notin Warming(v)
    BY DEF Warming
  <2> HIDE DEF J, V, v
  <2>5. ASSUME NEW q \in Pubs
        PROVE  gate'[q] = CASE q = p -> Outcome(p, J, V)
                            [] q \in Warming(v) -> "superseded"
                            [] OTHER -> gate[q]
    BY <2>1, <2>3, <2>4
  <2> QED BY <2>1, <2>2, <2>5
<1>6. \A x \in Videos : x # v => video'[x] = video[x]
  BY <1>1, <1>2 DEF Activate
<1>7. \A x \in Videos : x # v => released'[x] = released[x]
  BY <1>6 DEF released
<1>8. V[v] = row
  BY <1>1
<1>9. CASE outcome = "active"
  <2>1. video'[v] = Applied(row, p)
    <3>1. Staged(p)[p] = "warming"
      BY DEF Staged, Warming
    <3> DEFINE open == {q \in {p} : Staged(p)[q] = "warming" /\ Outcome(q, J, V) = "active"}
    <3>2. open = {p}
      BY <1>9, <3>1
    <3>3. video'[v] = IF \E q \in open : VideoOf[q] = v
                      THEN Applied(V[v], CHOOSE q \in open : VideoOf[q] = v)
                      ELSE V[v]
      BY <1>1, <1>2 DEF Activate
    <3> HIDE DEF open, V
    <3>4. (CHOOSE q \in open : VideoOf[q] = v) = p
      BY <3>2
    <3> QED BY <1>8, <3>2, <3>3, <3>4
  <2>2. released'[v] = p
    BY <1>1, <2>1 DEF released, Applied, VideoRow
  <2>3. released' = [released EXCEPT ![v] = p]
    BY <1>1, <1>7, <2>2 DEF released
  <2> HIDE DEF outcome
  <2> QED BY <1>2, <1>3, <1>4, <1>5, <1>9, <2>3 DEF Gates!Publish, warm, released
<1>10. CASE outcome # "active"
  <2>1. video'[v] = row
    <3>1. ~ \E q \in {p} : Staged(p)[q] = "warming" /\ Outcome(q, J, V) = "active"
      BY <1>10
    <3> QED BY <1>1, <1>2, <1>8, <3>1 DEF Activate
  <2>2. released'[v] = released[v]
    BY <1>1, <2>1 DEF released, NewVideo, NoVideo
  <2>3. UNCHANGED released
    BY <1>7, <2>2 DEF released
  <2> HIDE DEF outcome
  <2> QED BY <1>2, <1>3, <1>4, <1>5, <2>3 DEF Gates!Publish, warm, released
<1> QED BY <1>9, <1>10

\* The same content published again resolves its gate, releases an active
\* publication or changes nothing viewers see.
LEMMA PublishAgainStep ==
  ASSUME Guarded, NEW p \in Pubs, AdminPublishAgain(p)
  PROVE  [Gates!Next]_Gates!vars
<1> DEFINE v == VideoOf[p]
           row == CASE ~ video[v].exists -> NewVideo(p)
                    [] gate[p] = "active" -> Applied(video[v], p)
                    [] OTHER -> video[v]
           J == [job EXCEPT ![p] = Enqueued(@, FALSE, FALSE)]
           V == [video EXCEPT ![v] = row]
<1>1. /\ v \in Videos /\ video \in [Videos -> VideoRow] /\ gate \in [Pubs -> GateState]
  BY ConstantsAssumption DEF Guarded, Typed, TypeOK
<1>2. /\ Activate({p}, gate, J, V) /\ UNCHANGED cached /\ p \notin CreatorPubs
      /\ gate[p] \in {"warming", "failed", "active"}
      /\ gate[p] = "active" => video[v].exists
  BY DEF AdminPublishAgain
<1>3. \A q \in Pubs : J[q].state = "succeeded" => q \in cached
  BY EnqueuedPending DEF Guarded, Typed, TypeOK, WarmJobs, Urls
<1>4. CASE gate[p] = "warming"
  <2>1. video[v].exists
    BY <1>4 DEF Guarded, Sound
  <2>2. row = video[v]
    BY <1>4, <2>1
  <2>3. V = video
    BY <1>1, <2>2
  <2>4. Gates!Resolve
    BY <1>2, <1>3, <2>3, ResolveStep
  <2> QED BY <2>4 DEF Gates!Next
<1>5. CASE gate[p] # "warming"
  <2>1. gate' = gate /\ video' = V
    <3>1. ~ \E q \in {p} : gate[q] = "warming"
      BY <1>5
    <3>2. V \in [Videos -> VideoRow]
      BY <1>1, AppliedType DEF NewVideo, NoVideo, VideoRow
    <3> HIDE DEF V, J
    <3> QED BY <1>1, <1>2, <3>1, <3>2 DEF Activate
  <2>2. \A x \in Videos : x # v => released'[x] = released[x]
    BY <1>1, <2>1 DEF released
  <2>3. warm' = warm
    BY <1>2 DEF warm
  <2>4. CASE gate[p] = "active"
    <3>1. video'[v] = Applied(video[v], p)
      BY <1>1, <1>2, <2>1, <2>4
    <3>2. video'[v].exists /\ video'[v].ready /\ video'[v].shown = p
      BY <1>1, <1>2, <2>4, <3>1 DEF Applied, VideoRow
    <3>3. released' = [released EXCEPT ![v] = p]
      BY <1>1, <2>2, <3>2 DEF released
    <3>4. Gates!Republish(p)
      BY <2>1, <2>3, <2>4, <3>3 DEF Gates!Republish, warm, released
    <3> QED BY <3>4 DEF Gates!Next
  <2>5. CASE gate[p] # "active"
    <3>1. video'[v] = IF video[v].exists THEN video[v] ELSE NewVideo(p)
      BY <1>1, <2>1, <2>5
    <3>2. released'[v] = released[v]
      BY <1>1, <3>1 DEF released, NewVideo, NoVideo
    <3>3. UNCHANGED released
      BY <2>2, <3>2 DEF released
    <3> QED BY <2>1, <2>3, <3>3 DEF Gates!vars, warm, released
  <2> QED BY <2>4, <2>5
<1> QED BY <1>4, <1>5

\* Deletions withdraw what waits.
LEMMA WithdrawStep ==
  ASSUME Guarded, NEW v \in Videos, Delete(v) \/ Restore(v) \/ Unpublish(v)
  PROVE  [Gates!Next]_Gates!vars
<1>1. Gates!Waiting(v) = Warming(v)
  BY DEF Gates!Waiting, Warming
<1>2. warm' = warm
  BY DEF Delete, Restore, Unpublish, warm
<1>3. video \in [Videos -> VideoRow]
  BY DEF Guarded, Typed, TypeOK
<1>4. CASE Delete(v) \/ Restore(v)
  <2>1. \A x \in Videos : /\ video'[x].exists = video[x].exists
                          /\ video'[x].ready = video[x].ready
                          /\ video'[x].shown = video[x].shown
    BY <1>3, <1>4 DEF Delete, Restore, VideoRow
  <2>2. UNCHANGED released
    BY <2>1 DEF released
  <2>3. CASE Restore(v)
    BY <1>2, <2>2, <2>3 DEF Restore, Gates!vars, warm, released
  <2>4. CASE Delete(v)
    <3>1. Gates!Withdraw(v)
      BY <1>1, <1>2, <2>2, <2>4 DEF Delete, Cancelled, Gates!Withdraw, warm, released
    <3> QED BY <3>1 DEF Gates!Next
  <2> QED BY <1>4, <2>3, <2>4
<1>5. CASE Unpublish(v)
  <2>1. video' = [video EXCEPT ![v] = NoVideo]
    BY <1>5 DEF Unpublish
  <2>2. released' = [released EXCEPT ![v] = None]
    BY <1>3, <2>1 DEF released, NoVideo
  <2>3. Gates!Withdraw(v)
    BY <1>1, <1>2, <1>5, <2>2 DEF Unpublish, Cancelled, Gates!Withdraw, warm, released
  <2> QED BY <2>3 DEF Gates!Next
<1> QED BY <1>4, <1>5

\* Every step is a step of the abstract gates or changes nothing they promise.
LEMMA RefinementStep ==
  ASSUME Guarded, [Next]_vars
  PROVE  [Gates!Next]_Gates!vars
<1>1. ASSUME NEW p \in Pubs, CreatorPublish(p) \/ AdminPublish(p)
      PROVE  [Gates!Next]_Gates!vars
  <2>1. Gates!Publish(p)
    BY <1>1, PublishStep DEF CreatorPublish, AdminPublish
  <2> QED BY <2>1 DEF Gates!Next
<1>2. ASSUME UNCHANGED <<gate, video>>, cached \subseteq cached'
      PROVE  [Gates!Next]_Gates!vars
  BY <1>2, WarmStep DEF Gates!Next
<1>3. ASSUME NEW w \in Workers, Step(w)
      PROVE  [Gates!Next]_Gates!vars
  <2>1. CASE Finish(w)
    <3>1. Gates!Resolve
      BY <2>1, ResolveStep DEF Finish, Guarded, WarmJobs, Urls
    <3> QED BY <3>1 DEF Gates!Next
  <2>2. CASE ~ Finish(w)
    <3>1. UNCHANGED <<gate, video>> /\ cached \subseteq cached'
      BY <1>3, <2>2 DEF Step, Claim, Load, Calls, Poll, WarmPrivate, Submit,
                        SubmitRefresh, Answers, Budget, Record
    <3> QED BY <1>2, <3>1
  <2> QED BY <2>1, <2>2
<1>4. CASE \E u \in Urls : Prefetch(u) \/ Resubmit(u)
  BY <1>2, <1>4 DEF Prefetch, Resubmit
<1>5. CASE (\E w \in Workers : Crash(w)) \/ NewDay \/ UNCHANGED vars
  BY <1>2, <1>5 DEF Crash, NewDay, vars
<1> QED BY <1>1, <1>3, <1>4, <1>5, PublishAgainStep, WithdrawStep DEF Next

\* The outbox, its workers and the handlers of app/cdn_publication.py implement
\* the gates viewers are promised: nothing is released that the CDN has not,
\* newer publications supersede waiting ones, and outcomes are final.
THEOREM GatesImplemented == Spec => GateRefinement
<1>1. Init => Gates!Init
  BY DEF Init, Gates!Init, NoVideo
<1>2. Spec => []Guarded
  BY GuardInvariant
<1> QED BY <1>1, <1>2, RefinementStep, PTL DEF Spec, GateRefinement, Gates!Spec
=============================================================================
