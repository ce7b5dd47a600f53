------------------------ MODULE SourceGenerationProofs ------------------------
(***************************************************************************)
(* Theorems of SourceGeneration: its type correctness, the bound on what   *)
(* overlapping requests can overdraw a creator's Credits by, and what      *)
(* becomes of a generation and its reservation: no race leaves Credits on  *)
(* hold for one that ended, an outcome is never taken back, and a draft    *)
(* has one reservation at a time.  The last theorem is about the other     *)
(* loop that waits for a remote job, the normalization of the uploads.     *)
(***************************************************************************)
EXTENDS SourceGeneration, NormalizationParameters, TLAPS, FiniteSetTheorems

\* The state of the normalization, under the names MCProgress gives it.
VARIABLES norm, job, backup, nRemote

Norm == INSTANCE UploadNormalization WITH remote <- nRemote

(***************************************************************************)
(* Sessions stay well-typed.                                               *)
(***************************************************************************)
\* A consistent read of well-typed rows is well-typed.
LEMMA SnapshotType ==
  ASSUME TypeOK
  PROVE  Snapshot \in Database
  BY DEF TypeOK, Snapshot, Database

\* The three credit operations keep a session well-typed.
LEMMA CreditType ==
  ASSUME NEW S \in Database, NEW g \in Gens
  PROVE  /\ Reserve(S, g) \in Database
         /\ Settle(S, g) \in Database
         /\ Release(S, g) \in Database
<1>1. /\ {<<"hold", g>>} \subseteq {"hold", "settle", "release"} \X Gens
      /\ {<<"settle", g>>} \subseteq {"hold", "settle", "release"} \X Gens
      /\ {<<"release", g>>} \subseteq {"hold", "settle", "release"} \X Gens
  OBVIOUS
<1>2. Reserve(S, g) \in Database
  BY <1>1 DEF Reserve, Database, HoldStatus
<1>3. Settle(S, g) \in Database
  BY <1>1 DEF Settle, Database, HoldStatus
<1>4. Release(S, g) \in Database
  BY <1>1 DEF Release, Database, HoldStatus
<1> QED BY <1>2, <1>3, <1>4

\* Merging the changed columns of a row into the current row.
LEMMA FlushType ==
  /\ \A r, w, q \in GenRow : FlushRow(r, w, q) \in GenRow
  /\ \A r, w, q \in DraftRow : FlushRow(r, w, q) \in DraftRow
<1>1. ASSUME NEW r \in GenRow, NEW w \in GenRow, NEW q \in GenRow
      PROVE  FlushRow(r, w, q) \in GenRow
  BY <1>1 DEF FlushRow, Flush, GenRow
<1>2. ASSUME NEW r \in DraftRow, NEW w \in DraftRow, NEW q \in DraftRow
      PROVE  FlushRow(r, w, q) \in DraftRow
  BY <1>2 DEF FlushRow, Flush, DraftRow
<1> QED BY <1>1, <1>2

\* A commit of a well-typed session leaves well-typed rows.
LEMMA CommitType ==
  ASSUME TypeOK, NEW S \in Database, NEW T \in Database, Commit(S, T)
  PROVE  /\ gen' \in [Gens -> GenRow]
         /\ draft' \in [Drafts -> DraftRow]
         /\ hold' \in [Gens -> HoldStatus]
         /\ ledger' \subseteq {"hold", "settle", "release"} \X Gens
         /\ upload' \in [Gens -> UploadStatus]
<1>1. gen' \in [Gens -> GenRow]
  BY FlushType DEF Commit, TypeOK, Database
<1>2. draft' \in [Drafts -> DraftRow]
  BY FlushType DEF Commit, TypeOK, Database
<1>3. hold' \in [Gens -> HoldStatus]
  BY DEF Commit, TypeOK, Database, Flush
<1>4. ledger' \subseteq {"hold", "settle", "release"} \X Gens
  BY DEF Commit, TypeOK, Database
<1>5. upload' \in [Gens -> UploadStatus]
  BY DEF Commit, TypeOK, Database, Flush
<1> QED BY <1>1, <1>2, <1>3, <1>4, <1>5

\* Writing one column of a row.
LEMMA ColumnType ==
  /\ \A r \in GenRow : /\ \A x \in GenStatus : [r EXCEPT !.status = x] \in GenRow
                       /\ [r EXCEPT !.cancel = TRUE] \in GenRow
                       /\ [r EXCEPT !.job = TRUE] \in GenRow
                       /\ [r EXCEPT !.upload = TRUE] \in GenRow
                       /\ [r EXCEPT !.accepted = TRUE] \in GenRow
  /\ \A d \in DraftRow : /\ \A x \in DraftStatus : [d EXCEPT !.status = x] \in DraftRow
                         /\ \A x \in DraftStatus, u \in Gens \cup {None} :
                              [d EXCEPT !.status = x, !.upload = u] \in DraftRow
                         /\ [d EXCEPT !.versions = "busy"] \in DraftRow
  BY DEF GenRow, DraftRow

\* Writing one row of a session.
LEMMA RowType ==
  ASSUME NEW S \in Database
  PROVE  /\ \A g \in Gens, r \in GenRow : [S EXCEPT !.gen[g] = r] \in Database
         /\ \A k \in Drafts, d \in DraftRow : [S EXCEPT !.draft[k] = d] \in Database
         /\ \A g \in Gens, u \in UploadStatus : [S EXCEPT !.upload[g] = u] \in Database
         /\ \A g \in Gens : S.gen[g] \in GenRow
         /\ \A k \in Drafts : S.draft[k] \in DraftRow
  BY DEF Database

\* Writing a status or a flag of a generation in a session.
LEMMA WriteType ==
  ASSUME NEW S \in Database, NEW g \in Gens
  PROVE  /\ \A x \in GenStatus : [S EXCEPT !.gen[g].status = x] \in Database
         /\ [S EXCEPT !.gen[g].cancel = TRUE] \in Database
         /\ [S EXCEPT !.gen[g].job = TRUE] \in Database
         /\ [S EXCEPT !.gen[g].upload = TRUE] \in Database
         /\ [S EXCEPT !.gen[g].accepted = TRUE] \in Database
  BY RowType, ColumnType

\* A session in which a queued generation is cancelled, or asked to stop.
LEMMA StopType ==
  ASSUME NEW S \in Database, NEW g \in Gens
  PROVE  CancelQueued(S, g) \in Database /\ Stop(S, g) \in Database
<1>1. CancelQueued(S, g) \in Database
  BY WriteType, CreditType DEF CancelQueued, GenStatus
<1> QED BY <1>1, WriteType DEF Stop

\* The draft follows its generation.
LEMMA SyncType ==
  ASSUME NEW S \in Database, NEW g \in Gens
  PROVE  Sync(S, g) \in Database
<1> DEFINE r == S.gen[g]
           d == S.draft[r.creation]
           row(x) == [d EXCEPT !.status = x, !.upload = IF r.upload THEN g ELSE @]
<1>1. CASE r.creation \in Drafts
  <2>1. \A x \in DraftStatus : row(x) \in DraftRow
    <3>1. (IF r.upload THEN g ELSE d.upload) \in Gens \cup {None}
      BY <1>1, RowType DEF DraftRow
    <3>2. d \in DraftRow
      BY <1>1, RowType
    <3> QED BY <3>1, <3>2, ColumnType
  <2> HIDE DEF row
  <2>2. \A x \in DraftStatus : [S EXCEPT !.draft[r.creation] = row(x)] \in Database
    BY <1>1, <2>1, RowType
  <2> DEFINE shown == CASE r.status = "ready" -> "source_ready"
                        [] r.status \in {"failed", "cancelled"} -> r.status
                        [] OTHER -> "running"
  <2>3. shown \in DraftStatus
    BY DEF DraftStatus
  <2>4. Sync(S, g) = IF d.source # g \/ d.status = "abandoned" THEN S
                     ELSE [S EXCEPT !.draft[r.creation] = row(shown)]
    BY DEF Sync, row
  <2> QED BY <2>2, <2>3, <2>4
<1>2. CASE r.creation \notin Drafts
  <2>1. \/ Sync(S, g) = S
        \/ \E x : Sync(S, g) = [S EXCEPT !.draft[r.creation] = x]
    BY DEF Sync
  <2>2. \A x : [S EXCEPT !.draft[r.creation] = x] = S
    BY <1>2 DEF Database
  <2> QED BY <2>1, <2>2
<1> QED BY <1>1, <1>2

\* What the coordinator writes keeps its session well-typed.
LEMMA CoordinatorType ==
  ASSUME NEW S \in Database, NEW g \in Gens
  PROVE  /\ FinishSourceFromUpload(S, g) \in Database
         /\ Cancelled(S, g) \in Database
         /\ Failed(S, g) \in Database
         /\ \A reply \in {"running", "ready", "failed", "cancelled"} :
              ApplySourceJob(S, g, reply) \in Database
<1>1. \A U \in Database : FinishSourceFromUpload(U, g) \in Database
  BY WriteType, CreditType DEF FinishSourceFromUpload, GenStatus, Active
<1>2. \A U \in Database : GeneratedUpload(U, g) \in Database
  <2> SUFFICES ASSUME NEW U \in Database PROVE GeneratedUpload(U, g) \in Database
    OBVIOUS
  <2>1. [U EXCEPT !.upload[g] = "pending"] \in Database
    BY RowType DEF UploadStatus
  <2> QED BY <2>1, WriteType DEF GeneratedUpload
<1>3. Cancelled(S, g) \in Database
  BY StopType, SyncType DEF Cancelled
<1>4. Failed(S, g) \in Database
  BY WriteType, CreditType, SyncType DEF Failed, GenStatus
<1>5. ASSUME NEW reply \in {"running", "ready", "failed", "cancelled"}
      PROVE  ApplySourceJob(S, g, reply) \in Database
  <2> DEFINE J == [S EXCEPT !.gen[g].job = TRUE]
  <2>1. J \in Database
    BY WriteType
  <2> HIDE DEF J
  <2>2. [J EXCEPT !.gen[g].status = "running"] \in Database
    BY <2>1, WriteType DEF GenStatus, Active
  <2>3. reply \in {"failed", "cancelled"} =>
          Release([J EXCEPT !.gen[g].status = reply], g) \in Database
    BY <2>1, WriteType, CreditType DEF GenStatus
  <2>4. FinishSourceFromUpload(GeneratedUpload(J, g), g) \in Database
    BY <1>1, <1>2, <2>1
  <2> QED BY <2>2, <2>3, <2>4, SyncType DEF ApplySourceJob, J
<1> QED BY <1>1, <1>3, <1>4, <1>5

\* A new generation's row: its attempt number counts the draft's generations.
LEMMA EnqueueType ==
  ASSUME NEW S \in Database, NEW g \in Gens, NEW k \in Drafts, NEW d \in DraftRow
  PROVE  Enqueue(S, g, k, d) \in Database
<1>1. Cardinality({h \in Gens : S.gen[h].creation = k}) \in Nat
  BY ConstantsAssumption, FS_CardinalityType, FS_Subset
<1>2. NewGen(S, k) \in GenRow
  <2>1. NoGen \in GenRow
    BY DEF NoGen, GenRow, GenStatus
  <2>2. \A r \in GenRow, n \in Nat :
          [r EXCEPT !.status = "queued", !.creation = k, !.attempt = n] \in GenRow
    BY DEF GenRow, GenStatus, Active
  <2>3. \A n \in Nat : 1 + n \in Nat
    OBVIOUS
  <2> QED BY <1>1, <2>1, <2>2, <2>3 DEF NewGen
<1> DEFINE U == [S EXCEPT !.gen[g] = NewGen(S, k)]
<1>3. U \in Database
  BY <1>2, RowType
<1> HIDE DEF U
<1>4. [U EXCEPT !.draft[k] = d] \in Database
  BY <1>3, RowType
<1> QED BY <1>4, CreditType DEF Enqueue, U

(***************************************************************************)
(* What a session reserves.                                                *)
(***************************************************************************)
\* A session that reserves nothing new.
NoNewHold(S, T) == Entries(T.ledger, "hold") \subseteq Entries(S.ledger, "hold")

\* What the coordinator and the cancelling requests write reserves nothing.
LEMMA NothingReserved ==
  ASSUME NEW S \in Database, NEW g \in Gens
  PROVE  /\ NoNewHold(S, Settle(S, g)) /\ NoNewHold(S, Release(S, g))
         /\ NoNewHold(S, CancelQueued(S, g)) /\ NoNewHold(S, Stop(S, g))
         /\ Sync(S, g).ledger = S.ledger
         /\ NoNewHold(S, FinishSourceFromUpload(S, g))
         /\ NoNewHold(S, Cancelled(S, g)) /\ NoNewHold(S, Failed(S, g))
         /\ \A reply \in {"running", "ready", "failed", "cancelled"} :
              NoNewHold(S, ApplySourceJob(S, g, reply))
<1>1. ASSUME NEW U \in Database
      PROVE  /\ NoNewHold(U, Settle(U, g)) /\ NoNewHold(U, Release(U, g))
             /\ Sync(U, g).ledger = U.ledger
  BY DEF NoNewHold, Entries, Settle, Release, Sync, Database
<1>2. ASSUME NEW U \in Database, NEW x \in GenStatus
      PROVE  LET V == [U EXCEPT !.gen[g].status = x]
             IN  /\ V \in Database /\ NoNewHold(U, V)
                 /\ Settle(V, g) \in Database /\ NoNewHold(U, Settle(V, g))
                 /\ Release(V, g) \in Database /\ NoNewHold(U, Release(V, g))
  <2> DEFINE V == [U EXCEPT !.gen[g].status = x]
  <2>1. V \in Database /\ V.ledger = U.ledger
    BY WriteType DEF Database
  <2> HIDE DEF V
  <2>2. NoNewHold(V, Settle(V, g)) /\ NoNewHold(V, Release(V, g))
    BY <1>1, <2>1
  <2>3. /\ NoNewHold(U, V) /\ NoNewHold(U, Settle(V, g)) /\ NoNewHold(U, Release(V, g))
    BY <2>1, <2>2 DEF NoNewHold
  <2>4. Settle(V, g) \in Database /\ Release(V, g) \in Database
    BY <2>1, CreditType
  <2> QED BY <2>1, <2>3, <2>4 DEF V
<1>3. \A U \in Database : NoNewHold(U, CancelQueued(U, g))
  BY <1>2 DEF CancelQueued, GenStatus
<1>4. ASSUME NEW U \in Database
      PROVE  NoNewHold(U, Stop(U, g))
  <2>1. NoNewHold(U, [U EXCEPT !.gen[g].cancel = TRUE])
    BY DEF Database, NoNewHold
  <2> QED BY <1>3, <2>1 DEF Stop
<1>5. ASSUME NEW U \in Database
      PROVE  NoNewHold(U, FinishSourceFromUpload(U, g))
  BY <1>2 DEF FinishSourceFromUpload, GenStatus, Active
<1>6. ASSUME NEW U \in Database, NEW V \in Database, NoNewHold(U, V)
      PROVE  NoNewHold(U, Sync(V, g))
  BY <1>1, <1>6 DEF NoNewHold
<1>7. NoNewHold(S, Cancelled(S, g))
  BY <1>3, <1>6, StopType DEF Cancelled
<1>8. NoNewHold(S, Failed(S, g))
  <2> DEFINE V == Release([S EXCEPT !.gen[g].status = "failed"], g)
  <2>1. V \in Database /\ NoNewHold(S, V)
    BY <1>2 DEF GenStatus
  <2> HIDE DEF V
  <2>2. NoNewHold(S, Sync(V, g))
    BY <1>6, <2>1
  <2> QED BY <2>2 DEF Failed, V
<1>9. ASSUME NEW U \in Database
      PROVE  /\ GeneratedUpload(U, g) \in Database
             /\ GeneratedUpload(U, g).ledger = U.ledger
  <2> DEFINE V == [U EXCEPT !.upload[g] = "pending"]
  <2>1. V \in Database /\ V.ledger = U.ledger
    BY RowType DEF UploadStatus, Database
  <2> HIDE DEF V
  <2>2. /\ [V EXCEPT !.gen[g].upload = TRUE] \in Database
        /\ [V EXCEPT !.gen[g].upload = TRUE].ledger = V.ledger
    BY <2>1, WriteType DEF Database
  <2> QED BY <2>1, <2>2 DEF GeneratedUpload, V
<1>10. ASSUME NEW reply \in {"running", "ready", "failed", "cancelled"}
       PROVE  NoNewHold(S, ApplySourceJob(S, g, reply))
  <2> DEFINE J == [S EXCEPT !.gen[g].job = TRUE]
  <2>1. J \in Database /\ J.ledger = S.ledger
    BY WriteType DEF Database
  <2> HIDE DEF J
  <2>2. ASSUME NEW V \in Database, NoNewHold(J, V)
        PROVE  NoNewHold(S, Sync(V, g))
    <3>1. NoNewHold(S, V)
      BY <2>1, <2>2 DEF NoNewHold
    <3> QED BY <1>6, <3>1
  <2>3. CASE reply = "running"
    <3> DEFINE V == [J EXCEPT !.gen[g].status = "running"]
    <3>1. V \in Database /\ NoNewHold(J, V)
      BY <1>2, <2>1 DEF GenStatus, Active
    <3>2. ApplySourceJob(S, g, reply) = Sync(V, g)
      BY <2>3 DEF ApplySourceJob, J
    <3> HIDE DEF V
    <3> QED BY <2>2, <3>1, <3>2
  <2>4. CASE reply \in {"failed", "cancelled"}
    <3> DEFINE V == Release([J EXCEPT !.gen[g].status = reply], g)
    <3>1. V \in Database /\ NoNewHold(J, V)
      BY <1>2, <2>1, <2>4 DEF GenStatus
    <3>2. ApplySourceJob(S, g, reply) = Sync(V, g)
      BY <2>4 DEF ApplySourceJob, J
    <3> HIDE DEF V
    <3> QED BY <2>2, <3>1, <3>2
  <2>5. CASE reply = "ready"
    <3> DEFINE U == GeneratedUpload(J, g)
               V == FinishSourceFromUpload(U, g)
    <3>1. U \in Database /\ U.ledger = J.ledger
      BY <1>9, <2>1
    <3>2. ApplySourceJob(S, g, reply) = Sync(V, g)
      BY <2>5 DEF ApplySourceJob, J
    <3> HIDE DEF U
    <3>3. V \in Database /\ NoNewHold(U, V)
      BY <1>5, <3>1, CoordinatorType
    <3>4. NoNewHold(J, V)
      BY <3>1, <3>3 DEF NoNewHold
    <3> HIDE DEF V
    <3> QED BY <2>2, <3>2, <3>3, <3>4
  <2> QED BY <2>3, <2>4, <2>5
<1> QED BY <1>1, <1>3, <1>4, <1>5, <1>7, <1>8, <1>10

\* A session that reserves at most the Credits of one generation, and only if
\* its snapshot can pay for it.
AtMostOneHold(S, T) ==
  \/ NoNewHold(S, T)
  \/ /\ Balance(S.ledger) >= Cost
     /\ \E g \in Gens : Entries(T.ledger, "hold") \subseteq Entries(S.ledger, "hold") \cup {g}

\* Enqueueing a generation reserves the Credits of that generation.
LEMMA EnqueueHold ==
  ASSUME NEW S \in Database, NEW g \in Gens, NEW k \in Drafts, NEW d \in DraftRow
  PROVE  Entries(Enqueue(S, g, k, d).ledger, "hold") \subseteq Entries(S.ledger, "hold") \cup {g}
<1> DEFINE U == [S EXCEPT !.gen[g] = NewGen(S, k), !.draft[k] = d]
<1>1. DOMAIN U = DOMAIN S /\ U.ledger = S.ledger
  BY DEF Database
<1> HIDE DEF U
<1>2. Reserve(U, g).ledger = U.ledger \cup {<<"hold", g>>}
  BY <1>1 DEF Reserve, Database
<1>3. Enqueue(S, g, k, d) = Reserve(U, g)
  BY DEF Enqueue, U
<1> QED BY <1>1, <1>2, <1>3 DEF Entries

(***************************************************************************)
(* Type correctness.                                                       *)
(***************************************************************************)
\* The commit of a request.
LEMMA RespondType ==
  ASSUME TypeOK, NEW c \in Clients, session[c] # None, NEW T \in Database,
         Respond(c, T)
  PROVE  TypeOK'
<1>1. session[c] \in Database
  BY DEF TypeOK
<1>2. Commit(session[c], T)
  BY DEF Respond
<1>3. session' \in [Clients -> Database \cup {None}]
  BY DEF Respond, TypeOK
<1>4. UNCHANGED <<remote, age, worker, crashes>>
  BY DEF Respond
<1>5. /\ gen' \in [Gens -> GenRow]
      /\ draft' \in [Drafts -> DraftRow]
      /\ hold' \in [Gens -> HoldStatus]
      /\ ledger' \subseteq {"hold", "settle", "release"} \X Gens
      /\ upload' \in [Gens -> UploadStatus]
  BY <1>1, <1>2, CommitType
<1> QED BY <1>3, <1>4, <1>5 DEF TypeOK

\* What a request in flight may commit.
LEMMA HandlerType ==
  ASSUME TypeOK, NEW c \in Clients, Handler(c)
  PROVE  \E T \in Database : /\ session[c] # None /\ Respond(c, T)
                            /\ AtMostOneHold(session[c], T)
<1> DEFINE S == session[c]
<1>1. S # None => S \in Database
  BY DEF TypeOK
<1> PICK g \in Gens, k \in Drafts :
      \/ CreateInteractiveVideo(c, g, k)
      \/ RegenerateCreationSource(c, g, k)
      \/ AcceptCreationSource(c, g, k)
      \/ AcceptDeferred(c, g, k)
      \/ CancelCreation(c, g, k)
      \/ AbandonCreation(c, g, k)
  BY DEF Handler
<1>2. CASE CreateInteractiveVideo(c, g, k)
  <2> DEFINE d == [NoDraft EXCEPT !.status = "queued", !.source = g]
  <2>1. d \in DraftRow
    BY DEF NoDraft, DraftRow, DraftStatus
  <2> HIDE DEF d
  <2>2. /\ S # None /\ Respond(c, Enqueue(S, g, k, d))
        /\ Balance(S.ledger) >= Cost
    BY <1>2 DEF CreateInteractiveVideo, Admitted, d
  <2>3. Enqueue(S, g, k, d) \in Database /\ AtMostOneHold(S, Enqueue(S, g, k, d))
    BY <1>1, <2>1, <2>2, EnqueueType, EnqueueHold DEF AtMostOneHold
  <2> QED BY <2>2, <2>3
<1>3. CASE RegenerateCreationSource(c, g, k)
  <2> DEFINE d == [S.draft[k] EXCEPT !.status = "queued", !.source = g]
  <2>1. /\ S # None /\ Respond(c, Enqueue(S, g, k, d))
        /\ Balance(S.ledger) >= Cost
    BY <1>3 DEF RegenerateCreationSource, Admitted, Open
  <2>2. S.draft[k] \in DraftRow
    BY <1>1, <2>1, RowType
  <2>3. d \in DraftRow
    BY <2>2 DEF DraftRow, DraftStatus
  <2> HIDE DEF d
  <2>4. Enqueue(S, g, k, d) \in Database /\ AtMostOneHold(S, Enqueue(S, g, k, d))
    BY <1>1, <2>1, <2>3, EnqueueType, EnqueueHold DEF AtMostOneHold
  <2> QED BY <2>1, <2>4
<1>4. S \in Database =>
        Accepted(S, g, k) \in Database /\ NoNewHold(S, Accepted(S, g, k))
  <2> SUFFICES ASSUME S \in Database
               PROVE  Accepted(S, g, k) \in Database /\ NoNewHold(S, Accepted(S, g, k))
    OBVIOUS
  <2> DEFINE U == [S EXCEPT !.gen[g].accepted = TRUE]
  <2>1. U \in Database /\ U.ledger = S.ledger
    BY WriteType DEF Database
  <2> HIDE DEF U
  <2>2. [U.draft[k] EXCEPT !.upload = g] \in DraftRow
    BY <2>1, RowType DEF DraftRow
  <2> DEFINE V == [U EXCEPT !.draft[k] = [U.draft[k] EXCEPT !.upload = g]]
  <2>3. V \in Database
    BY <2>1, <2>2, RowType
  <2>4. V.ledger = S.ledger
    BY <2>1 DEF Database
  <2> QED BY <2>3, <2>4 DEF Accepted, NoNewHold, U
<1>5. ASSUME NEW U \in Database, NEW x \in DraftStatus, NoNewHold(S, U)
      PROVE  LET V == [U EXCEPT !.draft[k].status = x]
                 W == [U EXCEPT !.draft[k].status = x, !.draft[k].versions = "busy"]
             IN  /\ V \in Database /\ AtMostOneHold(S, V)
                 /\ W \in Database /\ AtMostOneHold(S, W)
  <2> DEFINE V == [U EXCEPT !.draft[k].status = x]
             W == [V EXCEPT !.draft[k].versions = "busy"]
  <2>1. V \in Database /\ V.ledger = U.ledger
    BY RowType, ColumnType DEF Database
  <2> HIDE DEF V
  <2>2. W \in Database /\ W.ledger = V.ledger
    BY <2>1, RowType, ColumnType DEF Database
  <2>3. AtMostOneHold(S, V) /\ AtMostOneHold(S, W)
    BY <1>5, <2>1, <2>2 DEF AtMostOneHold, NoNewHold
  <2> QED BY <2>1, <2>2, <2>3 DEF V
<1>6. CASE AcceptCreationSource(c, g, k)
  <2> DEFINE T == [Accepted(S, g, k) EXCEPT !.draft[k].status = "queued",
                                            !.draft[k].versions = "busy"]
  <2>1. S # None /\ Respond(c, T)
    BY <1>6 DEF AcceptCreationSource, Open
  <2>2. T \in Database /\ AtMostOneHold(S, T)
    BY <1>1, <1>4, <1>5, <2>1 DEF DraftStatus
  <2> HIDE DEF T
  <2> QED BY <2>1, <2>2
<1>7. CASE AcceptDeferred(c, g, k)
  <2> DEFINE T == [Accepted(S, g, k) EXCEPT !.draft[k].status = "source_ready"]
  <2>1. S # None /\ Respond(c, T)
    BY <1>7 DEF AcceptDeferred, Open
  <2>2. T \in Database /\ AtMostOneHold(S, T)
    BY <1>1, <1>4, <1>5, <2>1 DEF DraftStatus
  <2> HIDE DEF T
  <2> QED BY <2>1, <2>2
<1>8. S \in Database => NoNewHold(S, S) /\ NoNewHold(S, Stop(S, g)) /\ Stop(S, g) \in Database
  BY StopType, NothingReserved DEF NoNewHold
<1>9. CASE CancelCreation(c, g, k)
  <2> DEFINE T == IF S.gen[g].status = "ready"
                  THEN [S EXCEPT !.gen[g].status = "cancelled"] ELSE Stop(S, g)
             x == IF T.gen[g].status = "cancelled" THEN "cancelled" ELSE "running"
  <2>1. S # None /\ Respond(c, [T EXCEPT !.draft[k].status = x])
    BY <1>9 DEF CancelCreation
  <2>2. [S EXCEPT !.gen[g].status = "cancelled"].ledger = S.ledger
    BY <1>1, <2>1 DEF Database
  <2>3. T \in Database /\ NoNewHold(S, T)
    BY <1>1, <1>8, <2>1, <2>2, WriteType DEF GenStatus, NoNewHold
  <2>4. x \in DraftStatus
    BY DEF DraftStatus
  <2> HIDE DEF T, x
  <2> QED BY <1>5, <2>1, <2>3, <2>4
<1>10. CASE AbandonCreation(c, g, k)
  <2> DEFINE T == IF ~ S.gen[g].accepted /\ S.gen[g].status \in Active
                  THEN Stop(S, g) ELSE S
  <2>1. S # None /\ Respond(c, [T EXCEPT !.draft[k].status = "abandoned"])
    BY <1>10 DEF AbandonCreation
  <2>2. T \in Database /\ NoNewHold(S, T)
    BY <1>1, <1>8, <2>1
  <2> HIDE DEF T
  <2> QED BY <1>5, <2>1, <2>2 DEF DraftStatus
<1> QED BY <1>2, <1>3, <1>6, <1>7, <1>9, <1>10

\* What a coordinator at work may leave: one of its commits, or another state
\* of the worker with the rows as they are.
LEMMA DoneType ==
  ASSUME TypeOK, worker.g \in Gens, worker.snap \in Database,
         NEW T \in Database, Done(T), UNCHANGED <<remote, age, session, crashes>>
  PROVE  TypeOK'
<1>1. CASE Commit(worker.snap, T) /\ worker' = NoWork
  <2>1. /\ gen' \in [Gens -> GenRow]
        /\ draft' \in [Drafts -> DraftRow]
        /\ hold' \in [Gens -> HoldStatus]
        /\ ledger' \subseteq {"hold", "settle", "release"} \X Gens
        /\ upload' \in [Gens -> UploadStatus]
    BY <1>1, CommitType
  <2> QED BY <1>1, <2>1 DEF TypeOK
<1>2. CASE UNCHANGED db /\ Goto("fail", FALSE, None, "none")
  <2>1. worker' \in Work
    BY <1>2 DEF Goto, Work, Replies, RemoteStatus
  <2> QED BY <1>2, <2>1 DEF TypeOK, db
<1> QED BY <1>1, <1>2 DEF Done

\* A coordinator that has a transaction open holds its snapshot.
LEMMA WorkerType ==
  ASSUME TypeOK
  PROVE  /\ worker.pc # "idle" => worker \in Work /\ worker.g \in Gens
         /\ worker.pc \in {"work", "replied", "failing"} => worker.snap \in Database
  BY DEF TypeOK, Work, NoWork

\* A change of the worker alone.
LEMMA GotoType ==
  ASSUME TypeOK, UNCHANGED <<db, remote, age, session, crashes>>,
         worker' \in Work \cup {NoWork}
  PROVE  TypeOK'
  BY DEF TypeOK, db

\* Every tick of the coordinator keeps the state well-typed.
LEMMA TickType ==
  ASSUME TypeOK, Tick
  PROVE  TypeOK'
<1>1. CASE Refresh
  <2>1. worker' \in Work
    BY <1>1, WorkerType, SnapshotType DEF Refresh, Goto, Work, Replies, RemoteStatus
  <2> QED BY <1>1, <2>1, GotoType DEF Refresh
<1>2. CASE TimeOut
  <2>1. worker' \in Work
    BY <1>2, WorkerType DEF TimeOut, Goto, Work, Replies, RemoteStatus
  <2> QED BY <1>2, <2>1, GotoType DEF TimeOut
<1>3. CASE CancelLocally
  BY <1>3, WorkerType, CoordinatorType, DoneType DEF CancelLocally
<1>4. CASE FinishUpload
  BY <1>4, WorkerType, CoordinatorType, SyncType, DoneType DEF FinishUpload
<1>5. CASE CallIvadmin
  <2> DEFINE g == worker.g
  <2>1. worker \in Work /\ g \in Gens /\ worker.snap \in Database
    BY <1>5, WorkerType DEF CallIvadmin
  <2>2. remote' \in [Gens -> RemoteStatus]
    <3>1. remote[g] \in RemoteStatus /\ remote \in [Gens -> RemoteStatus]
      BY <2>1 DEF TypeOK
    <3>2. \/ \E x \in RemoteStatus : remote' = [remote EXCEPT ![g] = x]
          \/ remote' = remote
      BY <1>5, <3>1 DEF CallIvadmin, RemoteStatus
    <3> QED BY <3>1, <3>2
  <2>3. worker' \in Work
    <3>1. \A x \in Replies : [worker EXCEPT !.pc = "replied", !.reply = x] \in Work
      BY <1>5, <2>1 DEF CallIvadmin, Work
    <3>2. remote[g] \in RemoteStatus
      BY <2>1 DEF TypeOK
    <3>3. \E x \in Replies : worker' = [worker EXCEPT !.pc = "replied", !.reply = x]
      BY <1>5, <3>2 DEF CallIvadmin, Replies, RemoteStatus
    <3> QED BY <3>1, <3>3
  <2> QED BY <1>5, <2>2, <2>3 DEF CallIvadmin, TypeOK, db
<1>6. CASE ApplyReply
  <2>1. worker.snap \in Database /\ worker.g \in Gens
    BY <1>6, WorkerType DEF ApplyReply
  <2>2. \A S \in Database, g \in Gens, reply \in Replies :
          reply \notin {"lost", "rejected"} => ApplySourceJob(S, g, reply) \in Database
    <3> SUFFICES ASSUME NEW S \in Database, NEW g \in Gens, NEW reply \in Replies,
                        reply \notin {"lost", "rejected"}
                 PROVE  ApplySourceJob(S, g, reply) \in Database
      OBVIOUS
    <3>1. reply = "none" => ApplySourceJob(S, g, reply) = ApplySourceJob(S, g, "ready")
      BY DEF ApplySourceJob
    <3> QED BY <3>1, CoordinatorType DEF Replies, RemoteStatus
  <2>3. worker.reply \in Replies
    BY <1>6, WorkerType DEF ApplyReply, Work
  <2> QED BY <1>6, <2>1, <2>2, <2>3, DoneType DEF ApplyReply
<1>7. CASE CallLost
  BY <1>7, GotoType DEF CallLost
<1>8. CASE CallRejected
  <2>1. worker' \in Work
    BY <1>8, WorkerType DEF CallRejected, Goto, Work, Replies, RemoteStatus
  <2> QED BY <1>8, <2>1, GotoType DEF CallRejected
<1>9. CASE FailRead
  <2>1. worker' \in Work
    BY <1>9, WorkerType, SnapshotType DEF FailRead, Goto, Work, Replies, RemoteStatus
  <2> QED BY <1>9, <2>1, GotoType DEF FailRead
<1>10. CASE FailCommit
  <2> DEFINE T == Failed(worker.snap, worker.g)
  <2>1. worker.snap \in Database /\ T \in Database
    BY <1>10, WorkerType, CoordinatorType DEF FailCommit
  <2> HIDE DEF T
  <2>2. CASE Commit(worker.snap, T)
    <3>1. /\ gen' \in [Gens -> GenRow]
          /\ draft' \in [Drafts -> DraftRow]
          /\ hold' \in [Gens -> HoldStatus]
          /\ ledger' \subseteq {"hold", "settle", "release"} \X Gens
          /\ upload' \in [Gens -> UploadStatus]
      BY <2>1, <2>2, CommitType
    <3> QED BY <1>10, <3>1 DEF FailCommit, TypeOK
  <2>3. CASE UNCHANGED db
    BY <1>10, <2>3, GotoType DEF FailCommit
  <2> QED BY <1>10, <2>2, <2>3 DEF FailCommit, T
<1> QED
  BY <1>1, <1>2, <1>3, <1>4, <1>5, <1>6, <1>7, <1>8, <1>9, <1>10 DEF Tick

\* The type invariant is inductive.
LEMMA TypeStep ==
  ASSUME TypeOK, [Next]_vars
  PROVE  TypeOK'
<1>1. CASE UNCHANGED vars
  BY <1>1 DEF TypeOK, vars
<1>2. CASE \E c \in Clients : Begin(c)
  BY <1>2, SnapshotType DEF Begin, TypeOK, db
<1>3. CASE \E c \in Clients : RequestEnds(c)
  BY <1>3 DEF RequestEnds, TypeOK, db
<1>4. CASE \E c \in Clients : Handler(c)
  BY <1>4, HandlerType, RespondType
<1>5. ASSUME NEW g \in Gens, ClaimQueued(g)
      PROVE  TypeOK'
  <2> DEFINE T == Sync([Snapshot EXCEPT !.gen[g].status = "running"], g)
  <2>1. Snapshot \in Database /\ T \in Database
    BY SnapshotType, WriteType, SyncType DEF GenStatus, Active
  <2>2. Commit(Snapshot, T)
    BY <1>5 DEF ClaimQueued
  <2> HIDE DEF T
  <2>3. /\ gen' \in [Gens -> GenRow]
        /\ draft' \in [Drafts -> DraftRow]
        /\ hold' \in [Gens -> HoldStatus]
        /\ ledger' \subseteq {"hold", "settle", "release"} \X Gens
        /\ upload' \in [Gens -> UploadStatus]
    BY <2>1, <2>2, CommitType
  <2>4. worker' \in Work
    BY <1>5 DEF ClaimQueued, NoWork, Work, Replies, RemoteStatus
  <2> QED BY <1>5, <2>3, <2>4 DEF ClaimQueued, TypeOK
<1>6. ASSUME NEW g \in Gens, ClaimRunning(g)
      PROVE  TypeOK'
  <2>1. worker' \in Work
    BY <1>6, SnapshotType DEF ClaimRunning, Work, Replies, RemoteStatus
  <2> QED BY <1>6, <2>1, GotoType DEF ClaimRunning
<1>7. ASSUME NEW g \in Gens, NormalizeUpload(g)
      PROVE  TypeOK'
  BY <1>7 DEF NormalizeUpload, TypeOK, UploadStatus
<1>8. ASSUME NEW g \in Gens, ExpireClaim(g)
      PROVE  TypeOK'
  <2>1. worker' \in Work
    BY <1>8 DEF ExpireClaim, NoWork, Work, Replies, RemoteStatus
  <2> QED BY <1>8, <2>1, GotoType DEF ExpireClaim
<1>9. CASE Tick
  BY <1>9, TickType
<1>10. CASE DeadlockVictim
  <2>1. worker' \in Work
    BY <1>10, WorkerType DEF DeadlockVictim, Goto, Work, Replies, RemoteStatus
  <2> QED BY <1>10, <2>1, GotoType DEF DeadlockVictim
<1>11. CASE ExpireCommit
  <2> DEFINE g == worker.g
             k == gen[g].creation
  <2>1. g \in Gens
    BY <1>11, WorkerType DEF ExpireCommit
  <2>2. gen' \in [Gens -> GenRow]
    <3>1. \A r \in GenRow : [r EXCEPT !.status = "expired", !.upload = FALSE] \in GenRow
      BY DEF GenRow, GenStatus
    <3>2. gen' = [gen EXCEPT ![g] = [gen[g] EXCEPT !.status = "expired", !.upload = FALSE]]
      BY <1>11, <2>1 DEF ExpireCommit, TypeOK
    <3> QED BY <2>1, <3>1, <3>2 DEF TypeOK
  <2>3. upload' \in [Gens -> UploadStatus]
    BY <1>11, <2>1 DEF ExpireCommit, TypeOK, UploadStatus
  <2>4. draft' \in [Drafts -> DraftRow]
    <3>1. draft \in [Drafts -> DraftRow]
      BY DEF TypeOK
    <3>2. CASE k \in Drafts
      <4> DEFINE u == IF draft[k].upload = g THEN None ELSE draft[k].upload
                 x == IF draft[k].source = g /\ draft[k].versions = "none"
                      THEN "abandoned" ELSE draft[k].status
      <4>1. u \in Gens \cup {None} /\ x \in DraftStatus
        BY <3>1, <3>2 DEF DraftRow, DraftStatus
      <4> HIDE DEF u, x
      <4>2. [draft[k] EXCEPT !.upload = u, !.status = x] \in DraftRow
        BY <3>1, <3>2, <4>1 DEF DraftRow
      <4>3. draft' = [draft EXCEPT ![k] = [draft[k] EXCEPT !.upload = u, !.status = x]]
        BY <1>11, <3>1, <3>2 DEF ExpireCommit, u, x
      <4> QED BY <3>1, <4>2, <4>3
    <3>3. CASE k \notin Drafts
      BY <1>11, <3>1, <3>3 DEF ExpireCommit
    <3> QED BY <3>2, <3>3
  <2> QED BY <1>11, <2>2, <2>3, <2>4 DEF ExpireCommit, TypeOK
<1>12. CASE ExpireDeferred
  BY <1>12, GotoType DEF ExpireDeferred
<1>13. CASE Crash
  BY <1>13, ConstantsAssumption DEF Crash, TypeOK, db
<1>14. ASSUME NEW k \in Drafts, VersionSettles(k)
      PROVE  TypeOK'
  <2> DEFINE x == IF draft[k].status = "abandoned" THEN "abandoned" ELSE "analysed"
  <2>1. \A d \in DraftRow, y \in DraftStatus :
          [d EXCEPT !.versions = "done", !.status = y] \in DraftRow
    BY DEF DraftRow
  <2>2. draft \in [Drafts -> DraftRow] /\ x \in DraftStatus
    BY DEF TypeOK, DraftStatus
  <2>3. draft' = [draft EXCEPT ![k] = [draft[k] EXCEPT !.versions = "done", !.status = x]]
    BY <1>14, <2>2 DEF VersionSettles
  <2> HIDE DEF x
  <2>4. draft' \in [Drafts -> DraftRow]
    BY <2>1, <2>2, <2>3
  <2> QED BY <1>14, <2>4 DEF VersionSettles, TypeOK
<1>15. ASSUME NEW g \in Gens, TimePasses(g)
      PROVE  TypeOK'
  BY <1>15 DEF TimePasses, TypeOK, db
<1> QED
  BY <1>1, <1>2, <1>3, <1>4, <1>5, <1>6, <1>7, <1>8, <1>9, <1>10, <1>11,
     <1>12, <1>13, <1>14, <1>15 DEF Next, Claim

\* The initial rows are well-typed.
LEMMA TypeCorrectInit ==
  ASSUME Init
  PROVE  TypeOK
  BY ConstantsAssumption DEF Init, TypeOK, NoGen, GenRow, GenStatus, NoDraft,
     DraftRow, DraftStatus, HoldStatus, UploadStatus, RemoteStatus

\* Every reachable state is well-typed, and so is what every request and the
\* coordinator hold of the rows they read.
THEOREM TypeCorrect == Spec => []TypeOK
<1>1. Init => TypeOK
  BY TypeCorrectInit
<1>2. TypeOK /\ [Next]_vars => TypeOK'
  BY TypeStep
<1> QED BY <1>1, <1>2, PTL DEF Spec

(***************************************************************************)
(* The overdraft.  A request whose snapshot could pay is approved; every   *)
(* approved request may still take Cost from the balance, so the balance   *)
(* covers all of them but Cardinality(Clients) - 1.  A new snapshot can    *)
(* approve one more only while the balance itself is at least Cost, and a  *)
(* reservation takes Cost and ends an approved request.                    *)
(***************************************************************************)
Ledgers == SUBSET ({"hold", "settle", "release"} \X Gens)

Approved == {c \in Clients : session[c] # None /\ Balance(session[c].ledger) >= Cost}

Covered ==
  Balance(ledger) >= Cost * (Cardinality(Approved) - (Cardinality(Clients) - 1))

\* Entries are finite, so that balances are integers.
LEMMA BalanceType ==
  ASSUME NEW L \in Ledgers
  PROVE  /\ Balance(L) \in Int
         /\ \A kind : /\ IsFiniteSet(Entries(L, kind))
                      /\ Cardinality(Entries(L, kind)) \in Nat
<1>1. \A kind : IsFiniteSet(Entries(L, kind))
  BY ConstantsAssumption, FS_Subset DEF Entries
<1>2. \A kind : Cardinality(Entries(L, kind)) \in Nat
  BY <1>1, FS_CardinalityType
<1> QED BY <1>1, <1>2, ConstantsAssumption DEF Balance

\* Multiplication by Cost is monotonic.
LEMMA CostMonotone ==
  ASSUME NEW m \in Int, NEW n \in Int
  PROVE  /\ m <= n => Cost * m <= Cost * n
         /\ Cost * (m + 1) = Cost * m + Cost
         /\ Cost * (m - 1) = Cost * m - Cost
         /\ Cost * m \in Int
  BY ConstantsAssumption

\* Entries that are no holds never lower the balance.
LEMMA BalanceGrows ==
  ASSUME NEW L \in Ledgers, NEW M \in Ledgers, L \subseteq M,
         Entries(M, "hold") \subseteq Entries(L, "hold")
  PROVE  Balance(M) >= Balance(L)
<1>1. Cardinality(Entries(M, "hold")) <= Cardinality(Entries(L, "hold"))
  BY BalanceType, FS_Subset
<1>2. Cardinality(Entries(L, "release")) <= Cardinality(Entries(M, "release"))
  <2>1. Entries(L, "release") \subseteq Entries(M, "release")
    BY DEF Entries
  <2> QED BY <2>1, BalanceType, FS_Subset
<1> QED BY <1>1, <1>2, BalanceType, CostMonotone, ConstantsAssumption DEF Balance

\* One more hold lowers the balance by Cost.
LEMMA BalanceFalls ==
  ASSUME NEW L \in Ledgers, NEW M \in Ledgers, L \subseteq M, NEW g \in Gens,
         Entries(M, "hold") \subseteq Entries(L, "hold") \cup {g}
  PROVE  Balance(M) >= Balance(L) - Cost
<1>1. Cardinality(Entries(M, "hold")) <= Cardinality(Entries(L, "hold")) + 1
  <2>1. /\ IsFiniteSet(Entries(L, "hold") \cup {g})
        /\ Cardinality(Entries(L, "hold") \cup {g}) <= Cardinality(Entries(L, "hold")) + 1
    <3> DEFINE E == Entries(L, "hold")
    <3>1. IsFiniteSet(E) /\ Cardinality(E) \in Nat
      BY BalanceType
    <3> HIDE DEF E
    <3>2. /\ IsFiniteSet(E \cup {g})
          /\ Cardinality(E \cup {g}) = IF g \in E THEN Cardinality(E)
                                       ELSE Cardinality(E) + 1
      BY <3>1, FS_AddElement
    <3> QED BY <3>1, <3>2 DEF E
  <2>2. Cardinality(Entries(M, "hold")) <= Cardinality(Entries(L, "hold") \cup {g})
    BY <2>1, FS_Subset
  <2> QED BY <2>1, <2>2, BalanceType, FS_CardinalityType
<1>2. Cardinality(Entries(L, "release")) <= Cardinality(Entries(M, "release"))
  <2>1. Entries(L, "release") \subseteq Entries(M, "release")
    BY DEF Entries
  <2> QED BY <2>1, BalanceType, FS_Subset
<1> QED BY <1>1, <1>2, BalanceType, CostMonotone, ConstantsAssumption DEF Balance

\* Fewer approved requests and no smaller balance.
LEMMA CoveredStays ==
  ASSUME Covered, ledger \in Ledgers, ledger' \in Ledgers,
         Balance(ledger') >= Balance(ledger), Approved' \subseteq Approved
  PROVE  Covered'
<1>1. /\ IsFiniteSet(Approved) /\ Cardinality(Approved) \in Nat
      /\ Cardinality(Approved') \in Nat /\ Cardinality(Clients) \in Nat
      /\ Cardinality(Approved') <= Cardinality(Approved)
  <2>1. IsFiniteSet(Approved) /\ IsFiniteSet(Clients)
    BY ConstantsAssumption, FS_Subset DEF Approved
  <2> QED BY <2>1, FS_Subset, FS_CardinalityType
<1> DEFINE n == Cardinality(Clients)
           a == Cardinality(Approved)
           b == Cardinality(Approved')
<1>2. Balance(ledger) >= Cost * (a - (n - 1))
  BY DEF Covered
<1> HIDE DEF n, a, b
<1>3. Cost * (b - (n - 1)) <= Cost * (a - (n - 1))
  BY <1>1, CostMonotone DEF n, a, b
<1>4. Balance(ledger') >= Cost * (b - (n - 1))
  <2>1. Balance(ledger) \in Int /\ Balance(ledger') \in Int
    BY BalanceType
  <2>2. Cost * (a - (n - 1)) \in Int /\ Cost * (b - (n - 1)) \in Int
    BY <1>1, ConstantsAssumption DEF n, a, b
  <2> QED BY <1>2, <1>3, <2>1, <2>2
<1> QED BY <1>4 DEF Covered, n, b

\* A commit adds the session's new entries.
LEMMA CommitLedger ==
  ASSUME NEW S, NEW T, Commit(S, T)
  PROVE  /\ ledger \subseteq ledger'
         /\ \A E : Entries(T.ledger, "hold") \subseteq Entries(S.ledger, "hold") \cup E
              => Entries(ledger', "hold") \subseteq Entries(ledger, "hold") \cup E
  BY DEF Commit, Entries

\* A coordinator's commit leaves the requests covered.
LEMMA QuietCommit ==
  ASSUME TypeOK, TypeOK', Covered, NEW S, NEW T, Commit(S, T), NoNewHold(S, T),
         UNCHANGED session
  PROVE  Covered'
<1>1. ledger \in Ledgers /\ ledger' \in Ledgers
  BY DEF TypeOK, Ledgers
<1>2. Entries(ledger', "hold") \subseteq Entries(ledger, "hold")
  <2>1. Entries(T.ledger, "hold") \subseteq Entries(S.ledger, "hold") \cup {}
    BY DEF NoNewHold
  <2> QED BY <2>1, CommitLedger
<1>3. Balance(ledger') >= Balance(ledger)
  BY <1>1, <1>2, CommitLedger, BalanceGrows
<1> QED BY <1>1, <1>3, CoveredStays DEF Approved

\* A step that writes no ledger entry and starts no request.
LEMMA QuietStep ==
  ASSUME TypeOK, TypeOK', Covered, UNCHANGED ledger, Approved' \subseteq Approved
  PROVE  Covered'
<1>1. ledger \in Ledgers /\ ledger' \in Ledgers /\ ledger' = ledger
  BY DEF TypeOK, Ledgers
<1>2. Balance(ledger') >= Balance(ledger)
  BY <1>1, BalanceType
<1> QED BY <1>1, <1>2, CoveredStays

\* A new snapshot approves its request only while the balance can pay.
LEMMA BeginCovered ==
  ASSUME TypeOK, Covered, NEW c \in Clients, Begin(c)
  PROVE  Covered'
<1>1. session' = [session EXCEPT ![c] = Snapshot] /\ ledger' = ledger
  BY DEF Begin, db
<1>2. c \notin Approved
  BY DEF Begin, Approved
<1>3. ledger \in Ledgers /\ Balance(ledger) \in Int
  BY BalanceType DEF TypeOK, Ledgers
<1>4. CASE Balance(ledger) >= Cost
  <2>1. Approved \subseteq Clients \ {c} /\ Approved' \subseteq Clients
    BY <1>2 DEF Approved
  <2>2. /\ Cardinality(Approved') \in Nat /\ Cardinality(Clients) \in Nat
        /\ Cardinality(Approved') <= Cardinality(Clients)
    BY <2>1, ConstantsAssumption, FS_Subset, FS_CardinalityType
  <2> DEFINE n == Cardinality(Clients)
             b == Cardinality(Approved')
  <2>3. b - (n - 1) <= 1 /\ b - (n - 1) \in Int
    BY <2>2
  <2> HIDE DEF n, b
  <2>4. Cost * (b - (n - 1)) <= Cost * 1 /\ Cost * (b - (n - 1)) \in Int
    BY <2>3, CostMonotone
  <2>5. Balance(ledger') >= Cost * (b - (n - 1))
    BY <1>1, <1>3, <1>4, <2>4, ConstantsAssumption
  <2> QED BY <2>5 DEF Covered, n, b
<1>5. CASE ~ (Balance(ledger) >= Cost)
  <2>1. Snapshot.ledger = ledger
    BY DEF Snapshot
  <2>2. Approved' \subseteq Approved
    BY <1>1, <1>5, <2>1 DEF Approved, TypeOK
  <2>3. Balance(ledger') >= Balance(ledger)
    BY <1>1, <1>3
  <2> QED BY <1>1, <1>3, <2>2, <2>3, CoveredStays
<1> QED BY <1>4, <1>5

\* A reservation takes Cost and ends an approved request.
LEMMA RespondCovered ==
  ASSUME TypeOK, TypeOK', Covered, NEW c \in Clients, session[c] # None,
         NEW T \in Database, Respond(c, T), AtMostOneHold(session[c], T)
  PROVE  Covered'
<1> DEFINE S == session[c]
<1>1. Commit(S, T) /\ session' = [session EXCEPT ![c] = None]
  BY DEF Respond
<1>2. ledger \in Ledgers /\ ledger' \in Ledgers /\ ledger \subseteq ledger'
  BY <1>1, CommitLedger DEF TypeOK, Ledgers
<1>3. Approved' = Approved \ {c}
  BY <1>1 DEF Approved, TypeOK
<1>4. CASE NoNewHold(S, T)
  <2>1. Entries(T.ledger, "hold") \subseteq Entries(S.ledger, "hold") \cup {}
    BY <1>4 DEF NoNewHold
  <2>2. Entries(ledger', "hold") \subseteq Entries(ledger, "hold") \cup {}
    BY <1>1, <2>1, CommitLedger
  <2>3. Balance(ledger') >= Balance(ledger)
    BY <1>2, <2>2, BalanceGrows
  <2> QED BY <1>2, <1>3, <2>3, CoveredStays
<1>5. ASSUME Balance(S.ledger) >= Cost, NEW g \in Gens,
             Entries(T.ledger, "hold") \subseteq Entries(S.ledger, "hold") \cup {g}
      PROVE  Covered'
  <2>1. Entries(ledger', "hold") \subseteq Entries(ledger, "hold") \cup {g}
    BY <1>1, <1>5, CommitLedger
  <2>2. Balance(ledger') >= Balance(ledger) - Cost
    BY <1>2, <2>1, BalanceFalls
  <2>3. c \in Approved /\ IsFiniteSet(Approved)
    BY <1>5, ConstantsAssumption, FS_Subset DEF Approved
  <2> DEFINE n == Cardinality(Clients)
             a == Cardinality(Approved)
  <2>4. Cardinality(Approved') = a - 1 /\ a \in Nat /\ n \in Nat
    BY <1>3, <2>3, ConstantsAssumption, FS_RemoveElement, FS_CardinalityType
  <2>5. Balance(ledger) >= Cost * (a - (n - 1))
    BY DEF Covered
  <2> HIDE DEF n, a
  <2>6. /\ Cost * ((a - 1) - (n - 1)) = Cost * (a - (n - 1)) - Cost
        /\ Cost * (a - (n - 1)) \in Int
    <3>1. /\ a - (n - 1) \in Int
          /\ (a - 1) - (n - 1) = (a - (n - 1)) - 1
      BY <2>4
    <3> QED BY <3>1, CostMonotone
  <2>7. Balance(ledger') >= Cost * ((a - 1) - (n - 1))
    BY <1>2, <2>2, <2>5, <2>6, BalanceType, ConstantsAssumption
  <2> QED BY <2>4, <2>7 DEF Covered, n
<1> QED BY <1>4, <1>5 DEF AtMostOneHold

\* The coordinator's tick reserves nothing.
LEMMA TickCovered ==
  ASSUME TypeOK, TypeOK', Covered, Tick
  PROVE  Covered'
<1>1. UNCHANGED session
  BY DEF Tick, Refresh, TimeOut, CancelLocally, FinishUpload, CallIvadmin,
     ApplyReply, CallLost, CallRejected, FailRead, FailCommit
<1>2. Approved' \subseteq Approved
  BY <1>1 DEF Approved
<1>3. CASE UNCHANGED ledger
  BY <1>2, <1>3, QuietStep
<1>4. ASSUME NEW T, Done(T), NoNewHold(worker.snap, T)
      PROVE  Covered'
  BY <1>1, <1>3, <1>4, QuietCommit DEF Done, db
<1>5. worker.pc \in {"work", "replied", "failing"} =>
        worker.snap \in Database /\ worker.g \in Gens
  BY WorkerType
<1>6. CASE CancelLocally
  BY <1>4, <1>5, <1>6, NothingReserved DEF CancelLocally
<1>7. CASE FinishUpload
  <2> DEFINE T == FinishSourceFromUpload(worker.snap, worker.g)
  <2>1. Done(Sync(T, worker.g)) /\ worker.snap \in Database /\ worker.g \in Gens
    BY <1>5, <1>7 DEF FinishUpload
  <2>2. T \in Database /\ NoNewHold(worker.snap, T)
    BY <2>1, CoordinatorType, NothingReserved
  <2> HIDE DEF T
  <2>3. NoNewHold(worker.snap, Sync(T, worker.g))
    BY <2>1, <2>2, NothingReserved DEF NoNewHold
  <2> QED BY <1>4, <2>1, <2>3
<1>8. CASE ApplyReply
  <2>1. /\ Done(ApplySourceJob(worker.snap, worker.g, worker.reply))
        /\ worker.snap \in Database /\ worker.g \in Gens
        /\ worker.reply \in Replies \ {"lost", "rejected"}
    BY <1>5, <1>8, WorkerType DEF ApplyReply, Work
  <2>2. ApplySourceJob(worker.snap, worker.g, "none")
          = ApplySourceJob(worker.snap, worker.g, "ready")
    BY DEF ApplySourceJob
  <2>3. NoNewHold(worker.snap, ApplySourceJob(worker.snap, worker.g, worker.reply))
    BY <2>1, <2>2, NothingReserved DEF Replies, RemoteStatus
  <2> QED BY <1>4, <2>1, <2>3
<1>9. CASE FailCommit
  <2> DEFINE T == Failed(worker.snap, worker.g)
  <2>1. NoNewHold(worker.snap, T)
    BY <1>5, <1>9, NothingReserved DEF FailCommit
  <2>2. Commit(worker.snap, T) \/ UNCHANGED ledger
    BY <1>9 DEF FailCommit, db
  <2> HIDE DEF T
  <2> QED BY <1>1, <1>3, <2>1, <2>2, QuietCommit
<1>10. \/ CancelLocally \/ FinishUpload \/ ApplyReply \/ FailCommit
       \/ UNCHANGED ledger
  BY DEF Tick, Refresh, TimeOut, CallIvadmin, CallLost, CallRejected, FailRead, db
<1> QED BY <1>3, <1>6, <1>7, <1>8, <1>9, <1>10

\* Every step leaves the approved requests covered.
LEMMA CoveredStep ==
  ASSUME TypeOK, TypeOK', Covered, [Next]_vars
  PROVE  Covered'
<1>1. ASSUME UNCHANGED <<ledger, session>>
      PROVE  Covered'
  BY <1>1, QuietStep DEF Approved
<1>2. CASE UNCHANGED vars
  BY <1>1, <1>2 DEF vars
<1>3. CASE \E c \in Clients : Begin(c)
  BY <1>3, BeginCovered
<1>4. ASSUME NEW c \in Clients, RequestEnds(c)
      PROVE  Covered'
  <2>1. UNCHANGED ledger /\ Approved' \subseteq Approved
    BY <1>4 DEF RequestEnds, Approved, TypeOK, db
  <2> QED BY <2>1, QuietStep
<1>5. CASE \E c \in Clients : Handler(c)
  BY <1>5, HandlerType, RespondCovered
<1>6. ASSUME NEW g \in Gens, ClaimQueued(g)
      PROVE  Covered'
  <2> DEFINE U == [Snapshot EXCEPT !.gen[g].status = "running"]
  <2>1. Snapshot \in Database /\ U \in Database /\ U.ledger = Snapshot.ledger
    BY SnapshotType, WriteType DEF GenStatus, Active, Database
  <2>2. Commit(Snapshot, Sync(U, g)) /\ UNCHANGED session
    BY <1>6 DEF ClaimQueued
  <2> HIDE DEF U
  <2>3. NoNewHold(Snapshot, Sync(U, g))
    BY <2>1, NothingReserved DEF NoNewHold
  <2> QED BY <2>2, <2>3, QuietCommit
<1>7. CASE \E g \in Gens : ClaimRunning(g) \/ NormalizeUpload(g) \/ ExpireClaim(g)
  BY <1>1, <1>7 DEF ClaimRunning, NormalizeUpload, ExpireClaim, db
<1>8. CASE Tick
  BY <1>8, TickCovered
<1>9. CASE DeadlockVictim \/ ExpireCommit \/ ExpireDeferred \/ Crash
  BY <1>1, <1>9 DEF DeadlockVictim, ExpireCommit, ExpireDeferred, Crash, db
<1>10. CASE \/ \E k \in Drafts : VersionSettles(k)
            \/ \E g \in Gens : TimePasses(g)
  BY <1>1, <1>10 DEF VersionSettles, TimePasses, db
<1> QED
  BY <1>2, <1>3, <1>4, <1>5, <1>6, <1>7, <1>8, <1>9, <1>10 DEF Next, Claim

\* However many requests of a creator overlap, they overdraw the Credits by at
\* most one reservation for each request but one.
THEOREM OverdraftIsBounded == Spec => []OverdraftBounded
<1>1. Init => TypeOK /\ Covered
  <2> SUFFICES ASSUME Init PROVE TypeOK /\ Covered
    OBVIOUS
  <2>1. TypeOK
    BY TypeCorrectInit
  <2>2. Approved = {} /\ Balance(ledger) = InitialCredits
    <3>1. Entries({}, "hold") = {} /\ Entries({}, "release") = {}
      BY DEF Entries
    <3>2. Balance({}) = InitialCredits
      <4>1. /\ Cardinality(Entries({}, "hold")) = 0
            /\ Cardinality(Entries({}, "release")) = 0
        BY <3>1, FS_EmptySet, Zenon
      <4> QED BY <4>1, ConstantsAssumption DEF Balance
    <3>3. Approved = {}
      BY DEF Init, Approved
    <3> QED BY <3>2, <3>3 DEF Init
  <2>3. Cardinality(Approved) = 0 /\ Cardinality(Clients) \in Nat \ {0}
    BY <2>2, ConstantsAssumption, FS_EmptySet, FS_CardinalityType
  <2> DEFINE n == Cardinality(Clients)
  <2>4. 0 - (n - 1) <= 0 /\ 0 - (n - 1) \in Int
    BY <2>3
  <2> HIDE DEF n
  <2>5. Cost * (0 - (n - 1)) <= Cost * 0 /\ Cost * (0 - (n - 1)) \in Int
    BY <2>4, CostMonotone
  <2>6. Cost * (0 - (n - 1)) <= InitialCredits
    BY <2>5, ConstantsAssumption
  <2> QED BY <2>1, <2>2, <2>3, <2>6 DEF Covered, n
<1>2. TypeOK /\ Covered /\ [Next]_vars => (TypeOK /\ Covered)'
  BY TypeStep, CoveredStep
<1>3. TypeOK /\ Covered => OverdraftBounded
  <2> SUFFICES ASSUME TypeOK, Covered PROVE OverdraftBounded
    OBVIOUS
  <2>1. Cardinality(Approved) \in Nat /\ Cardinality(Clients) \in Nat
    BY ConstantsAssumption, FS_Subset, FS_CardinalityType DEF Approved
  <2> DEFINE n == Cardinality(Clients)
             a == Cardinality(Approved)
  <2>2. Balance(ledger) >= Cost * (a - (n - 1))
    BY DEF Covered
  <2>3. 0 - (n - 1) <= a - (n - 1) /\ 0 - (n - 1) \in Int /\ a - (n - 1) \in Int
    BY <2>1
  <2> HIDE DEF n, a
  <2>4. /\ Cost * (0 - (n - 1)) <= Cost * (a - (n - 1))
        /\ Cost * (0 - (n - 1)) \in Int /\ Cost * (a - (n - 1)) \in Int
    BY <2>3, CostMonotone
  <2>5. Balance(ledger) \in Int
    BY BalanceType DEF TypeOK, Ledgers
  <2>6. - Cost * (n - 1) = Cost * (0 - (n - 1))
    BY <2>1, ConstantsAssumption DEF n
  <2> QED BY <2>2, <2>4, <2>5, <2>6 DEF OverdraftBounded, n
<1> QED BY <1>1, <1>2, <1>3, PTL DEF Spec

-----------------------------------------------------------------------------
(***************************************************************************)
(* What becomes of a generation and its reservation.                       *)
(*                                                                         *)
(* What goes together in the rows goes together in every snapshot of them. *)
(* While the coordinator works on a generation, a request can change it    *)
(* only by cancelling what it read as queued, which releases the           *)
(* reservation; the ledger's entry of that release then refuses a second   *)
(* one.  A request that overlaps another regeneration of its draft counts  *)
(* one generation too few, and the key (creation, attempt) refuses it.     *)
(***************************************************************************)

\* What a reservation is after it was released.
Rel(h) == IF h = "reserved" THEN "released" ELSE h

\* How a generation and its reservation go together, in the rows and in every snapshot.
Fits(g, s, h, entries) ==
  /\ s = "none" <=> h = "none"
  /\ h = "reserved" => s \in Active
  /\ s = "queued" => h = "reserved"
  /\ s = "running" => h \in {"reserved", "released"}
  /\ s = "failed" => h = "released"
  /\ h \in {"none", "reserved"} => <<"release", g>> \notin entries
  /\ h = "released" => <<"release", g>> \in entries

Sound(D) == \A g \in Gens : Fits(g, D.gen[g].status, D.hold[g], D.ledger)

AtWorkOn(g) == worker.pc \in {"claimed", "work", "replied", "fail", "failing"} /\ worker.g = g

\* What the generation the coordinator works on is.
InWork(s, h) == \/ s = "running" /\ h \in {"reserved", "released"}
                \/ s = "cancelled" /\ h = "released"

\* While the coordinator works on a generation, only the cancellation of a request that read
\* it queued can change it.
WorkHolds ==
  \A g \in Gens :
    /\ AtWorkOn(g) => InWork(gen[g].status, hold[g])
    /\ AtWorkOn(g) /\ worker.pc \in {"work", "replied", "failing"} =>
         LET s == worker.snap.gen[g].status
             h == worker.snap.hold[g]
         IN  /\ Sound(worker.snap) /\ InWork(s, h)
             /\ \/ gen[g].status = s /\ hold[g] = h
                \/ h = "reserved" /\ gen[g].status = "cancelled" /\ hold[g] = "released"
    /\ worker.pc = "expire" /\ worker.g = g => gen[g].status \in {"ready", "failed", "cancelled"}

\* What a request read as ready is never worked on again.
ReadyStays(S) ==
  \A g \in Gens : S.gen[g].status = "ready" =>
    /\ gen[g].status \in {"ready", "cancelled", "expired"}
    /\ ~ AtWorkOn(g)

SessionsHold ==
  \A c \in Clients : session[c] # None => Sound(session[c]) /\ ReadyStays(session[c])

Outcomes == Sound(Snapshot) /\ WorkHolds /\ SessionsHold

-----------------------------------------------------------------------------
(* What a session writes                                                   *)

\* T differs from S in the status of g and its reservation alone, by s and h.
Writes(S, T, g, s, h) ==
  /\ \A j \in Gens : T.gen[j].status = IF j = g THEN s ELSE S.gen[j].status
  /\ \A j \in Gens : T.hold[j] = IF j = g THEN h ELSE S.hold[j]
  /\ \A j \in Gens : <<"release", j>> \in T.ledger <=>
       \/ <<"release", j>> \in S.ledger
       \/ j = g /\ h = "released" /\ S.hold[g] = "reserved"

\* Only the generations, the reservations and the ledger matter.
LEMMA SameWrites ==
  ASSUME NEW S, NEW T, NEW U, NEW g, NEW s, NEW h, Writes(S, T, g, s, h),
         U.gen = T.gen, U.hold = T.hold, U.ledger = T.ledger
  PROVE  Writes(S, U, g, s, h)
  BY DEF Writes

\* A session that writes neither.
LEMMA NothingWritten ==
  ASSUME NEW S \in Database, NEW g \in Gens
  PROVE  Writes(S, S, g, S.gen[g].status, S.hold[g])
  BY DEF Writes, Database, HoldStatus

\* The status of a generation, then its reservation.
LEMMA StatusWritten ==
  ASSUME NEW S \in Database, NEW g \in Gens, NEW x \in GenStatus
  PROVE  LET T == [S EXCEPT !.gen[g].status = x]
         IN  /\ Writes(S, T, g, x, S.hold[g])
             /\ Writes(S, Release(T, g), g, x, Rel(S.hold[g]))
             /\ Writes(S, Settle(T, g), g, x, IF S.hold[g] = "reserved" THEN "settled" ELSE S.hold[g])
<1> DEFINE T == [S EXCEPT !.gen[g].status = x]
<1>1. T \in Database
  BY WriteType
<1>2. /\ T.hold = S.hold /\ T.ledger = S.ledger
      /\ \A j \in Gens : T.gen[j].status = IF j = g THEN x ELSE S.gen[j].status
  BY DEF Database, GenRow
<1> HIDE DEF T
<1>3. Writes(S, T, g, x, S.hold[g])
  BY <1>2 DEF Writes
<1>4. /\ Release(T, g).gen = T.gen
      /\ Release(T, g).hold = [T.hold EXCEPT ![g] = Rel(T.hold[g])]
      /\ Release(T, g).ledger = IF T.hold[g] = "reserved" THEN T.ledger \cup {<<"release", g>>} ELSE T.ledger
  BY <1>1 DEF Release, Rel, Database
<1>5. /\ Settle(T, g).gen = T.gen
      /\ Settle(T, g).hold = [T.hold EXCEPT ![g] = IF @ = "reserved" THEN "settled" ELSE @]
      /\ Settle(T, g).ledger = IF T.hold[g] = "reserved" THEN T.ledger \cup {<<"settle", g>>} ELSE T.ledger
  BY <1>1 DEF Settle, Database
<1>6. T.hold \in [Gens -> HoldStatus]
  BY <1>1 DEF Database
<1>7. Writes(S, Release(T, g), g, x, Rel(S.hold[g]))
  BY <1>2, <1>4, <1>6 DEF Writes, Rel
<1>8. Writes(S, Settle(T, g), g, x, IF S.hold[g] = "reserved" THEN "settled" ELSE S.hold[g])
  BY <1>2, <1>5, <1>6 DEF Writes
<1> QED BY <1>3, <1>7, <1>8 DEF T

\* What the requests write.
Cancelling(S, g, T) ==
  \/ S.gen[g].status = "queued" /\ Writes(S, T, g, "cancelled", Rel(S.hold[g]))
  \/ S.gen[g].status = "ready" /\ Writes(S, T, g, "cancelled", S.hold[g])

Requested(S, T) ==
  \E g \in Gens :
    \/ Writes(S, T, g, S.gen[g].status, S.hold[g])
    \/ S.gen[g].status = "none" /\ Writes(S, T, g, "queued", "reserved")
    \/ Cancelling(S, g, T)

\* A new generation is queued with its reservation.
LEMMA EnqueueWrites ==
  ASSUME NEW S \in Database, NEW g \in Gens, NEW k \in Drafts, NEW d \in DraftRow
  PROVE  Writes(S, Enqueue(S, g, k, d), g, "queued", "reserved")
<1> DEFINE U == [S EXCEPT !.gen[g] = NewGen(S, k), !.draft[k] = d]
<1>1. U.hold = S.hold /\ U.ledger = S.ledger /\ U.gen = [S.gen EXCEPT ![g] = NewGen(S, k)]
  BY DEF Database
<1>2. DOMAIN U = {"gen", "draft", "hold", "ledger", "upload"}
  BY DEF Database
<1> HIDE DEF U
<1>3. /\ Reserve(U, g).gen = U.gen
      /\ Reserve(U, g).hold = [U.hold EXCEPT ![g] = "reserved"]
      /\ Reserve(U, g).ledger = U.ledger \cup {<<"hold", g>>}
  BY <1>2 DEF Reserve
<1>4. NewGen(S, k).status = "queued"
  BY DEF NewGen, NoGen
<1>5. Enqueue(S, g, k, d) = Reserve(U, g)
  BY DEF Enqueue, U
<1>6. S.gen \in [Gens -> GenRow] /\ S.hold \in [Gens -> HoldStatus]
  BY DEF Database
<1> QED BY <1>1, <1>3, <1>4, <1>5, <1>6 DEF Writes

\* Stopping an active generation.
LEMMA StopWrites ==
  ASSUME NEW S \in Database, NEW g \in Gens
  PROVE  \/ Writes(S, Stop(S, g), g, S.gen[g].status, S.hold[g])
         \/ Cancelling(S, g, Stop(S, g))
<1>1. Writes(S, CancelQueued(S, g), g, "cancelled", Rel(S.hold[g]))
  BY StatusWritten DEF CancelQueued, GenStatus
<1> DEFINE U == [S EXCEPT !.gen[g].cancel = TRUE]
<1>2. /\ U.hold = S.hold /\ U.ledger = S.ledger
      /\ \A j \in Gens : U.gen[j].status = S.gen[j].status
  BY DEF Database, GenRow
<1> HIDE DEF U
<1>3. Writes(S, U, g, S.gen[g].status, S.hold[g])
  BY <1>2, NothingWritten DEF Writes
<1> QED BY <1>1, <1>3 DEF Stop, Cancelling, U

\* Every request writes one of these.
LEMMA HandlerWrites ==
  ASSUME TypeOK, NEW c \in Clients, Handler(c)
  PROVE  \E T : session[c] # None /\ Respond(c, T) /\ Requested(session[c], T)
<1> DEFINE S == session[c]
<1>1. S # None => S \in Database
  BY DEF TypeOK
<1> PICK g \in Gens, k \in Drafts :
      \/ CreateInteractiveVideo(c, g, k)
      \/ RegenerateCreationSource(c, g, k)
      \/ AcceptCreationSource(c, g, k)
      \/ AcceptDeferred(c, g, k)
      \/ CancelCreation(c, g, k)
      \/ AbandonCreation(c, g, k)
  BY DEF Handler
<1>2. CASE CreateInteractiveVideo(c, g, k)
  <2> DEFINE d == [NoDraft EXCEPT !.status = "queued", !.source = g]
  <2>1. d \in DraftRow
    BY DEF NoDraft, DraftRow, DraftStatus
  <2> HIDE DEF d
  <2>2. /\ S # None /\ Respond(c, Enqueue(S, g, k, d)) /\ S.gen[g].status = "none"
    BY <1>2 DEF CreateInteractiveVideo, Admitted, d
  <2>3. Writes(S, Enqueue(S, g, k, d), g, "queued", "reserved")
    BY <1>1, <2>1, <2>2, EnqueueWrites
  <2> QED BY <2>2, <2>3 DEF Requested
<1>3. CASE RegenerateCreationSource(c, g, k)
  <2> DEFINE d == [S.draft[k] EXCEPT !.status = "queued", !.source = g]
  <2>1. /\ S # None /\ Respond(c, Enqueue(S, g, k, d)) /\ S.gen[g].status = "none"
    BY <1>3 DEF RegenerateCreationSource, Admitted, Open
  <2>2. S.draft[k] \in DraftRow
    BY <1>1, <2>1, RowType
  <2>3. d \in DraftRow
    BY <2>2 DEF DraftRow, DraftStatus
  <2> HIDE DEF d
  <2>4. Writes(S, Enqueue(S, g, k, d), g, "queued", "reserved")
    BY <1>1, <2>1, <2>3, EnqueueWrites
  <2> QED BY <2>1, <2>4 DEF Requested
<1>4. ASSUME NEW U, NEW V, U.gen = V.gen, U.hold = V.hold, U.ledger = V.ledger, Requested(S, V)
      PROVE  Requested(S, U)
  BY <1>4, SameWrites DEF Requested, Cancelling
<1>5. ASSUME S \in Database
      PROVE  LET A == Accepted(S, g, k)
             IN  /\ Requested(S, A)
                 /\ DOMAIN A = {"gen", "draft", "hold", "ledger", "upload"}
  <2> DEFINE A == Accepted(S, g, k)
  <2>1. /\ DOMAIN A = {"gen", "draft", "hold", "ledger", "upload"}
        /\ A.hold = S.hold /\ A.ledger = S.ledger
        /\ \A j \in Gens : A.gen[j].status = S.gen[j].status
    BY <1>5 DEF Accepted, Database, GenRow
  <2>2. Writes(S, A, g, S.gen[g].status, S.hold[g])
    BY <1>5, <2>1, NothingWritten DEF Writes
  <2> QED BY <2>1, <2>2 DEF Requested
<1>6. CASE AcceptCreationSource(c, g, k) \/ AcceptDeferred(c, g, k)
  <2>1. S # None /\ S \in Database
    BY <1>1, <1>6 DEF AcceptCreationSource, AcceptDeferred, Open
  <2> DEFINE A == Accepted(S, g, k)
             T1 == [A EXCEPT !.draft[k].status = "queued", !.draft[k].versions = "busy"]
             T2 == [A EXCEPT !.draft[k].status = "source_ready"]
  <2>2. Respond(c, T1) \/ Respond(c, T2)
    BY <1>6 DEF AcceptCreationSource, AcceptDeferred
  <2>3. Requested(S, A) /\ DOMAIN A = {"gen", "draft", "hold", "ledger", "upload"}
    BY <1>5, <2>1
  <2> HIDE DEF A
  <2>4. /\ T1.gen = A.gen /\ T1.hold = A.hold /\ T1.ledger = A.ledger
        /\ T2.gen = A.gen /\ T2.hold = A.hold /\ T2.ledger = A.ledger
    BY <2>3
  <2>5. Requested(S, T1) /\ Requested(S, T2)
    BY <1>4, <2>3, <2>4
  <2> QED BY <2>1, <2>2, <2>5
<1>7. ASSUME NEW T \in Database, NEW x, Requested(S, T), S # None,
             Respond(c, [T EXCEPT !.draft[k].status = x])
      PROVE  \E U : S # None /\ Respond(c, U) /\ Requested(S, U)
  <2> DEFINE U == [T EXCEPT !.draft[k].status = x]
  <2>1. U.gen = T.gen /\ U.hold = T.hold /\ U.ledger = T.ledger
    BY DEF Database
  <2>2. Requested(S, U)
    BY <1>4, <1>7, <2>1
  <2> QED BY <1>7, <2>2
<1>8. S \in Database => Requested(S, S) /\ Requested(S, Stop(S, g)) /\ Stop(S, g) \in Database
  BY StopType, StopWrites, NothingWritten DEF Requested
<1>9. CASE CancelCreation(c, g, k)
  <2> DEFINE R == [S EXCEPT !.gen[g].status = "cancelled"]
             T == IF S.gen[g].status = "ready" THEN R ELSE Stop(S, g)
             x == IF T.gen[g].status = "cancelled" THEN "cancelled" ELSE "running"
  <2>1. S # None /\ Respond(c, [T EXCEPT !.draft[k].status = x])
    BY <1>9 DEF CancelCreation
  <2>2. R \in Database /\ Writes(S, R, g, "cancelled", S.hold[g])
    BY <1>1, <2>1, WriteType, StatusWritten DEF GenStatus
  <2> HIDE DEF R
  <2>3. T \in Database /\ Requested(S, T)
    BY <1>1, <1>8, <2>1, <2>2 DEF Requested, Cancelling
  <2> HIDE DEF T, x
  <2> QED BY <1>7, <2>1, <2>3
<1>10. CASE AbandonCreation(c, g, k)
  <2> DEFINE T == IF ~ S.gen[g].accepted /\ S.gen[g].status \in Active
                  THEN Stop(S, g) ELSE S
  <2>1. S # None /\ Respond(c, [T EXCEPT !.draft[k].status = "abandoned"])
    BY <1>10 DEF AbandonCreation
  <2>2. T \in Database /\ Requested(S, T)
    BY <1>1, <1>8, <2>1
  <2> HIDE DEF T
  <2> QED BY <1>7, <2>1, <2>2
<1> QED BY <1>2, <1>3, <1>6, <1>9, <1>10

\* What the coordinator writes about the generation it works on.
Worked(S, g, T) ==
  LET h == S.hold[g]
  IN  \/ \E x \in {"cancelled", "failed"} : Writes(S, T, g, x, Rel(h))
      \/ Writes(S, T, g, "running", h)
      \/ Writes(S, T, g, "ready", IF h = "reserved" THEN "settled" ELSE h)

\* The branches of a tick.
LEMMA WorkerWrites ==
  ASSUME NEW S \in Database, NEW g \in Gens
  PROVE  /\ Worked(S, g, Cancelled(S, g)) /\ Worked(S, g, Failed(S, g))
         /\ Worked(S, g, Sync(FinishSourceFromUpload(S, g), g))
         /\ \A reply \in Replies \ {"lost", "rejected"} : Worked(S, g, ApplySourceJob(S, g, reply))
<1>1. ASSUME NEW T \in Database, Worked(S, g, T)
      PROVE  Worked(S, g, Sync(T, g))
  <2>1. /\ Sync(T, g).gen = T.gen /\ Sync(T, g).hold = T.hold
        /\ Sync(T, g).ledger = T.ledger
    BY DEF Sync, Database
  <2> QED BY <1>1, <2>1, SameWrites DEF Worked
<1>2. ASSUME NEW U \in Database
      PROVE  /\ Worked(U, g, FinishSourceFromUpload(U, g))
             /\ Worked(U, g, CancelQueued(U, g))
             /\ Worked(U, g, [U EXCEPT !.gen[g].status = "running"])
             /\ \A x \in {"cancelled", "failed"} :
                  Worked(U, g, Release([U EXCEPT !.gen[g].status = x], g))
  BY StatusWritten DEF FinishSourceFromUpload, CancelQueued, Worked, GenStatus, Active
<1>3. ASSUME NEW U \in Database, NEW T, U.hold = S.hold, U.ledger = S.ledger,
             \A j \in Gens : U.gen[j].status = S.gen[j].status, Worked(U, g, T)
      PROVE  Worked(S, g, T)
  BY <1>3 DEF Worked, Writes
<1>4. Worked(S, g, Cancelled(S, g))
  <2>1. CancelQueued(S, g) \in Database /\ Worked(S, g, CancelQueued(S, g))
    BY <1>2, StopType
  <2>2. Worked(S, g, Sync(CancelQueued(S, g), g))
    BY <1>1, <2>1
  <2> QED BY <2>2 DEF Cancelled
<1>5. \A x \in {"cancelled", "failed"}, U \in Database :
        Release([U EXCEPT !.gen[g].status = x], g) \in Database
  BY WriteType, CreditType DEF GenStatus
<1>6. Worked(S, g, Failed(S, g))
  <2> DEFINE T == Release([S EXCEPT !.gen[g].status = "failed"], g)
  <2>1. T \in Database /\ Worked(S, g, T)
    BY <1>2, <1>5
  <2> HIDE DEF T
  <2>2. Worked(S, g, Sync(T, g))
    BY <1>1, <2>1
  <2> QED BY <2>2 DEF Failed, T
<1>7. \A U \in Database : FinishSourceFromUpload(U, g) \in Database
  BY CoordinatorType
<1>8. Worked(S, g, Sync(FinishSourceFromUpload(S, g), g))
  BY <1>1, <1>2, <1>7
<1>9. ASSUME NEW reply \in Replies \ {"lost", "rejected"}
      PROVE  Worked(S, g, ApplySourceJob(S, g, reply))
  <2> DEFINE J == [S EXCEPT !.gen[g].job = TRUE]
             K == GeneratedUpload(J, g)
  <2>1. /\ J \in Database /\ J.hold = S.hold /\ J.ledger = S.ledger
        /\ \A j \in Gens : J.gen[j].status = S.gen[j].status
    <3>1. J \in Database
      BY WriteType
    <3>2. /\ J.hold = S.hold /\ J.ledger = S.ledger
          /\ \A j \in Gens : J.gen[j].status = S.gen[j].status
      BY DEF Database, GenRow
    <3> QED BY <3>1, <3>2
  <2> HIDE DEF J
  <2>2. /\ K \in Database /\ K.hold = S.hold /\ K.ledger = S.ledger
        /\ \A j \in Gens : K.gen[j].status = S.gen[j].status
    <3> DEFINE P == [J EXCEPT !.upload[g] = "pending"]
               Q == [P EXCEPT !.gen[g].upload = TRUE]
    <3>1. P \in Database /\ P.hold = J.hold /\ P.ledger = J.ledger /\ P.gen = J.gen
      BY <2>1, RowType DEF UploadStatus, Database
    <3> HIDE DEF P
    <3>2. /\ Q \in Database /\ Q.hold = P.hold /\ Q.ledger = P.ledger
          /\ \A j \in Gens : Q.gen[j].status = P.gen[j].status
      <4>1. Q \in Database
        BY <3>1, WriteType
      <4>2. /\ Q.hold = P.hold /\ Q.ledger = P.ledger
            /\ \A j \in Gens : Q.gen[j].status = P.gen[j].status
        BY <3>1 DEF Database, GenRow
      <4> QED BY <4>1, <4>2
    <3>3. K = IF J.gen[g].upload THEN J ELSE Q
      BY DEF GeneratedUpload, P
    <3> HIDE DEF Q
    <3> QED BY <2>1, <3>1, <3>2, <3>3
  <2> HIDE DEF K
  <2> DEFINE R == [J EXCEPT !.gen[g].status = "running"]
             F == Release([J EXCEPT !.gen[g].status = reply], g)
             U == FinishSourceFromUpload(K, g)
  <2>3. R \in Database /\ Worked(S, g, R)
    BY <1>2, <1>3, <2>1, WriteType DEF GenStatus, Active
  <2>4. reply \in {"failed", "cancelled"} => F \in Database /\ Worked(S, g, F)
    BY <1>2, <1>3, <1>5, <2>1
  <2>5. U \in Database /\ Worked(S, g, U)
    BY <1>2, <1>3, <1>7, <2>2
  <2>6. ApplySourceJob(S, g, reply) = Sync(CASE reply = "running" -> R
                                             [] reply \in {"failed", "cancelled"} -> F
                                             [] OTHER -> U, g)
    BY DEF ApplySourceJob, J, K
  <2> HIDE DEF R, F, U
  <2>7. CASE reply = "running"
    BY <1>1, <2>3, <2>6, <2>7
  <2>8. CASE reply \in {"failed", "cancelled"}
    BY <1>1, <2>4, <2>6, <2>8
  <2>9. CASE reply \notin {"running", "failed", "cancelled"}
    BY <1>1, <2>5, <2>6, <2>9
  <2> QED BY <2>7, <2>8, <2>9
<1> QED BY <1>4, <1>6, <1>8, <1>9

-----------------------------------------------------------------------------
(* What a commit leaves                                                    *)

\* The rows after the commit of a session that writes s and h, which read s0 and h0.
Lands(g, s0, h0, s, h) ==
  /\ \A j \in Gens \ {g} : gen'[j].status = gen[j].status /\ hold'[j] = hold[j]
  /\ gen'[g].status = IF s = s0 THEN gen[g].status ELSE s
  /\ hold'[g] = IF h = h0 THEN hold[g] ELSE h
  /\ \A j \in Gens : <<"release", j>> \in ledger' <=>
       <<"release", j>> \in ledger \/ (j = g /\ h = "released" /\ h0 = "reserved")
  /\ h = "released" /\ h0 = "reserved" => <<"release", g>> \notin ledger
  /\ s0 = "none" /\ s # "none" => gen[g].status = "none"

LEMMA CommitLands ==
  ASSUME TypeOK, NEW S \in Database, Sound(S), NEW T, NEW g \in Gens, NEW s, NEW h,
         Writes(S, T, g, s, h), Commit(S, T)
  PROVE  Lands(g, S.gen[g].status, S.hold[g], s, h)
<1>1. ASSUME NEW j \in Gens
      PROVE  /\ gen'[j].status = IF T.gen[j].status = S.gen[j].status
                                 THEN gen[j].status ELSE T.gen[j].status
             /\ hold'[j] = IF T.hold[j] = S.hold[j] THEN hold[j] ELSE T.hold[j]
  <2>1. gen'[j] = FlushRow(S.gen[j], T.gen[j], gen[j]) /\ gen[j] \in GenRow
    BY DEF Commit, TypeOK
  <2>2. "status" \in DOMAIN gen[j]
    BY <2>1 DEF GenRow
  <2> QED BY <2>1, <2>2 DEF Commit, FlushRow, Flush
<1>2. ledger' = ledger \cup (T.ledger \ S.ledger)
  BY DEF Commit
<1>3. h = "released" /\ S.hold[g] = "reserved" =>
        /\ <<"release", g>> \in T.ledger /\ <<"release", g>> \notin S.ledger
        /\ <<"release", g>> \notin ledger
  BY DEF Writes, Sound, Fits, Commit, Conflict
<1>4. S.gen[g].status = "none" /\ s # "none" => gen[g].status = "none"
  BY DEF Writes, Commit, Conflict
<1>5. \A j \in Gens : <<"release", j>> \in ledger' <=>
        <<"release", j>> \in ledger \/ (j = g /\ h = "released" /\ S.hold[g] = "reserved")
  BY <1>2, <1>3 DEF Writes
<1>6. \A j \in Gens \ {g} : gen'[j].status = gen[j].status /\ hold'[j] = hold[j]
  BY <1>1 DEF Writes
<1>7. /\ gen'[g].status = IF s = S.gen[g].status THEN gen[g].status ELSE s
      /\ hold'[g] = IF h = S.hold[g] THEN hold[g] ELSE h
  BY <1>1 DEF Writes
<1> QED BY <1>3, <1>4, <1>5, <1>6, <1>7 DEF Lands

-----------------------------------------------------------------------------
(* Every step                                                              *)

\* A generation that is ready, failed or expired is not put back to work.
StaysOut == \A g \in Gens : gen[g].status \in {"ready", "failed", "expired"} =>
              gen'[g].status \notin Active

\* A step that changes neither the generations, their reservations nor the ledger.
LEMMA QuietOutcomes ==
  ASSUME Outcomes, UNCHANGED <<gen, hold, ledger>>,
         \A c \in Clients : session'[c] \in {session[c], None, Snapshot},
         \A g \in Gens : AtWorkOn(g)' => AtWorkOn(g) \/ gen[g].status \in Active,
         WorkHolds'
  PROVE  Outcomes' /\ StaysOut
<1>1. Sound(Snapshot) /\ WorkHolds /\ SessionsHold
  BY DEF Outcomes
<1>2. Sound(Snapshot)'
  BY <1>1 DEF Sound, Snapshot
<1>3. ASSUME NEW c \in Clients, session'[c] # None
      PROVE  Sound(session'[c]) /\ ReadyStays(session[c])'
  <2>1. CASE session'[c] = session[c]
    BY <1>1, <1>3, <2>1 DEF SessionsHold, ReadyStays, Active
  <2>2. CASE session'[c] = Snapshot
    <3>1. \A g \in Gens : Snapshot.gen[g].status = "ready" => ~ AtWorkOn(g)
      BY <1>1 DEF WorkHolds, InWork, Snapshot
    <3> QED BY <1>1, <2>2, <3>1 DEF ReadyStays, Snapshot, Active
  <2> QED BY <1>3, <2>1, <2>2
<1>4. SessionsHold'
  BY <1>3 DEF SessionsHold, Sound
<1>5. StaysOut
  BY DEF StaysOut, Active
<1> QED BY <1>2, <1>4, <1>5 DEF Outcomes

\* The commit of a request.
LEMMA RequestOutcomes ==
  ASSUME TypeOK, Outcomes, NEW c \in Clients, session[c] # None, NEW T,
         Respond(c, T), Requested(session[c], T)
  PROVE  Outcomes' /\ StaysOut
<1> DEFINE S == session[c]
<1>1. S \in Database /\ Sound(S) /\ ReadyStays(S)
  BY DEF TypeOK, Outcomes, SessionsHold
<1>2. Commit(S, T) /\ worker' = worker /\ session' = [session EXCEPT ![c] = None]
  BY DEF Respond
<1>3. Sound(Snapshot) /\ WorkHolds /\ SessionsHold
  BY DEF Outcomes
<1> PICK g \in Gens :
      \/ Writes(S, T, g, S.gen[g].status, S.hold[g])
      \/ S.gen[g].status = "none" /\ Writes(S, T, g, "queued", "reserved")
      \/ Cancelling(S, g, T)
  BY DEF Requested
<1> DEFINE read == S.gen[g].status
           held == S.hold[g]
<1>4. \A s, h : Writes(S, T, g, s, h) => Lands(g, read, held, s, h)
  BY <1>1, <1>2, CommitLands
<1> HIDE DEF S
<1>5. \A j \in Gens : AtWorkOn(j)' <=> AtWorkOn(j)
  BY <1>2 DEF AtWorkOn
<1>6. ASSUME Sound(Snapshot)', WorkHolds',
             \A j \in Gens : gen[j].status \in {"ready", "cancelled", "expired"} /\ ~ AtWorkOn(j)
                               => gen'[j].status \in {"ready", "cancelled", "expired"},
             StaysOut
      PROVE  Outcomes' /\ StaysOut
  <2>1. ASSUME NEW d \in Clients, session'[d] # None
        PROVE  Sound(session'[d]) /\ ReadyStays(session[d])'
    <3>1. session'[d] = session[d]
      BY <1>2, <2>1 DEF TypeOK
    <3> QED BY <1>3, <1>5, <1>6, <2>1, <3>1 DEF SessionsHold, ReadyStays
  <2>2. SessionsHold'
    BY <2>1 DEF SessionsHold, Sound
  <2> QED BY <1>6, <2>2 DEF Outcomes
<1>7. Sound(Snapshot)' <=> \A j \in Gens : Fits(j, gen'[j].status, hold'[j], ledger')
  BY DEF Sound, Snapshot
<1>8. \A j \in Gens : Fits(j, gen[j].status, hold[j], ledger)
  BY <1>3 DEF Sound, Snapshot
<1>9. Fits(g, read, held, S.ledger)
  BY <1>1 DEF Sound
<1> HIDE DEF read, held
<1>10. ASSUME NEW j \in Gens, gen'[j].status = gen[j].status, hold'[j] = hold[j],
              <<"release", j>> \in ledger' <=> <<"release", j>> \in ledger
       PROVE  Fits(j, gen'[j].status, hold'[j], ledger')
  BY <1>8, <1>10 DEF Fits
<1>11. \A s, h : Lands(g, read, held, s, h) =>
         \A j \in Gens \ {g} :
           /\ gen'[j].status = gen[j].status /\ hold'[j] = hold[j]
           /\ (<<"release", j>> \in ledger' <=> <<"release", j>> \in ledger)
  BY DEF Lands
<1>12. CASE Lands(g, read, held, read, held)
  <2>1. gen'[g].status = gen[g].status /\ hold'[g] = hold[g]
    BY <1>12 DEF Lands
  <2>2. <<"release", g>> \in ledger' <=> <<"release", g>> \in ledger
    BY <1>12 DEF Lands
  <2>3. \A j \in Gens : gen'[j].status = gen[j].status /\ hold'[j] = hold[j]
    BY <1>11, <1>12, <2>1
  <2>4. Sound(Snapshot)'
    BY <1>7, <1>10, <1>11, <1>12, <2>1, <2>2
  <2>5. WorkHolds'
    BY <1>2, <1>3, <1>5, <2>3 DEF WorkHolds
  <2> QED BY <1>6, <2>3, <2>4, <2>5 DEF StaysOut, Active
<1>13. CASE read = "none" /\ Lands(g, read, held, "queued", "reserved")
  <2>1. held = "none" /\ gen[g].status = "none" /\ hold[g] = "none" /\ <<"release", g>> \notin ledger
    BY <1>8, <1>9, <1>13 DEF Fits, Lands
  <2>2. gen'[g].status = "queued" /\ hold'[g] = "reserved" /\ <<"release", g>> \notin ledger'
    BY <1>13, <2>1 DEF Lands
  <2>3. Fits(g, gen'[g].status, hold'[g], ledger')
    BY <2>2 DEF Fits, Active
  <2>4. Sound(Snapshot)'
    BY <1>7, <1>10, <1>11, <1>13, <2>3
  <2>5. ~ AtWorkOn(g) /\ ~ (worker.pc = "expire" /\ worker.g = g)
    BY <1>3, <2>1 DEF WorkHolds, InWork
  <2>6. \A j \in Gens \ {g} : gen'[j].status = gen[j].status /\ hold'[j] = hold[j]
    BY <1>11, <1>13
  <2>7. WorkHolds'
    BY <1>2, <1>3, <1>5, <2>5, <2>6 DEF WorkHolds
  <2> QED BY <1>6, <2>1, <2>4, <2>6, <2>7 DEF StaysOut, Active
<1>14. CASE read = "queued" /\ Lands(g, read, held, "cancelled", Rel(held))
  <2>1. held = "reserved" /\ Rel(held) = "released"
    BY <1>9, <1>14 DEF Fits, Rel
  <2>2. /\ gen'[g].status = "cancelled" /\ hold'[g] = "released"
        /\ <<"release", g>> \in ledger' /\ <<"release", g>> \notin ledger
    BY <1>14, <2>1 DEF Lands
  <2>3. Fits(g, gen'[g].status, hold'[g], ledger')
    BY <2>2 DEF Fits, Active
  <2>4. Sound(Snapshot)'
    BY <1>7, <1>10, <1>11, <1>14, <2>3
  <2>5. hold[g] # "released"
    BY <1>8, <2>2 DEF Fits
  <2>6. AtWorkOn(g) /\ worker.pc \in {"work", "replied", "failing"} =>
          /\ worker.snap.hold[g] = "reserved" /\ Sound(worker.snap)
          /\ InWork(worker.snap.gen[g].status, worker.snap.hold[g])
    BY <1>3, <2>5 DEF WorkHolds, InWork
  <2>7. \A j \in Gens \ {g} : gen'[j].status = gen[j].status /\ hold'[j] = hold[j]
    BY <1>11, <1>14
  <2>8. WorkHolds'
    <3>1. ASSUME NEW j \in Gens \ {g}
          PROVE  /\ AtWorkOn(j)' => InWork(gen'[j].status, hold'[j])
                 /\ AtWorkOn(j)' /\ worker'.pc \in {"work", "replied", "failing"} =>
                      LET s == worker'.snap.gen[j].status
                          h == worker'.snap.hold[j]
                      IN  /\ Sound(worker'.snap) /\ InWork(s, h)
                          /\ \/ gen'[j].status = s /\ hold'[j] = h
                             \/ h = "reserved" /\ gen'[j].status = "cancelled" /\ hold'[j] = "released"
                 /\ worker'.pc = "expire" /\ worker'.g = j =>
                      gen'[j].status \in {"ready", "failed", "cancelled"}
      BY <1>2, <1>3, <1>5, <2>7 DEF WorkHolds
    <3>2. InWork("cancelled", "released")
      BY DEF InWork
    <3> QED BY <1>2, <1>5, <2>2, <2>6, <3>1, <3>2 DEF WorkHolds
  <2> QED BY <1>6, <2>2, <2>4, <2>7, <2>8 DEF StaysOut, Active
<1>15. CASE read = "ready" /\ Lands(g, read, held, "cancelled", held)
  <2>1. gen[g].status \in {"ready", "cancelled", "expired"} /\ ~ AtWorkOn(g)
    BY <1>1, <1>15 DEF ReadyStays, read
  <2>2. /\ gen'[g].status = "cancelled" /\ hold'[g] = hold[g]
    BY <1>15 DEF Lands
  <2>3. <<"release", g>> \in ledger' <=> <<"release", g>> \in ledger
    BY <1>15 DEF Lands
  <2>4. Fits(g, gen'[g].status, hold'[g], ledger')
    BY <1>8, <2>1, <2>2, <2>3 DEF Fits, Active
  <2>5. Sound(Snapshot)'
    BY <1>7, <1>10, <1>11, <1>15, <2>4
  <2>6. \A j \in Gens \ {g} : gen'[j].status = gen[j].status /\ hold'[j] = hold[j]
    BY <1>11, <1>15
  <2>7. WorkHolds'
    BY <1>2, <1>3, <1>5, <2>1, <2>2, <2>6 DEF WorkHolds
  <2> QED BY <1>6, <2>1, <2>2, <2>5, <2>6, <2>7 DEF StaysOut, Active
<1> QED BY <1>4, <1>12, <1>13, <1>14, <1>15 DEF Cancelling, read, held

\* A commit about g leaves the others as they are.
LEMMA LeftSound ==
  ASSUME Outcomes, NEW g \in Gens, NEW s0, NEW h0, NEW s, NEW h, Lands(g, s0, h0, s, h),
         Fits(g, gen'[g].status, hold'[g], ledger')
  PROVE  /\ Sound(Snapshot)'
         /\ \A j \in Gens \ {g} : gen'[j].status = gen[j].status /\ hold'[j] = hold[j]
<1>1. \A j \in Gens : Fits(j, gen[j].status, hold[j], ledger)
  BY DEF Outcomes, Sound, Snapshot
<1>2. ASSUME NEW j \in Gens \ {g}
      PROVE  /\ gen'[j].status = gen[j].status /\ hold'[j] = hold[j]
             /\ Fits(j, gen'[j].status, hold'[j], ledger')
  <2>1. /\ gen'[j].status = gen[j].status /\ hold'[j] = hold[j]
        /\ (<<"release", j>> \in ledger' <=> <<"release", j>> \in ledger)
    BY DEF Lands
  <2> QED BY <1>1, <2>1 DEF Fits
<1> QED BY <1>2 DEF Sound, Snapshot

\* What the requests in flight have read as ready stays out of work.
LEMMA SessionsKept ==
  ASSUME Outcomes, UNCHANGED session,
         \A j \in Gens : gen[j].status \in {"ready", "cancelled", "expired"} /\ ~ AtWorkOn(j)
                           => gen'[j].status \in {"ready", "cancelled", "expired"},
         \A j \in Gens : AtWorkOn(j)' => AtWorkOn(j) \/ gen[j].status \in Active
  PROVE  SessionsHold'
<1>1. ASSUME NEW c \in Clients, session[c] # None
      PROVE  Sound(session[c]) /\ ReadyStays(session[c])'
  BY <1>1 DEF Outcomes, SessionsHold, ReadyStays, Active
<1> QED BY <1>1 DEF SessionsHold, Sound

\* The commit of a tick.
LEMMA WorkOutcomes ==
  ASSUME TypeOK, Outcomes, worker.pc \in {"work", "replied", "failing"},
         NEW T, Commit(worker.snap, T), Worked(worker.snap, worker.g, T),
         worker' = NoWork, UNCHANGED session
  PROVE  Outcomes' /\ StaysOut
<1> DEFINE g == worker.g
           S == worker.snap
           read == S.gen[g].status
           held == S.hold[g]
<1>1. g \in Gens /\ S \in Database /\ AtWorkOn(g)
  BY WorkerType DEF AtWorkOn
<1>2. /\ Sound(S) /\ InWork(read, held) /\ InWork(gen[g].status, hold[g])
      /\ \/ gen[g].status = read /\ hold[g] = held
         \/ held = "reserved" /\ gen[g].status = "cancelled" /\ hold[g] = "released"
  BY <1>1 DEF Outcomes, WorkHolds
<1>3. \A s, h : Writes(S, T, g, s, h) => Lands(g, read, held, s, h)
  BY <1>1, <1>2, CommitLands
<1>4. \/ \E x \in {"cancelled", "failed"} : Writes(S, T, g, x, Rel(held))
      \/ Writes(S, T, g, "running", held)
      \/ Writes(S, T, g, "ready", IF held = "reserved" THEN "settled" ELSE held)
  BY DEF Worked
<1>5. Fits(g, gen[g].status, hold[g], ledger)
  BY <1>1 DEF Outcomes, Sound, Snapshot
<1>6. \A j \in Gens : ~ AtWorkOn(j)'
  BY DEF AtWorkOn, NoWork
<1>7. WorkHolds'
  BY <1>6 DEF WorkHolds, NoWork
<1> HIDE DEF g, S, read, held
<1>8. ASSUME NEW s, NEW h, Lands(g, read, held, s, h), Fits(g, gen'[g].status, hold'[g], ledger')
      PROVE  Outcomes' /\ StaysOut
  <2>1. /\ Sound(Snapshot)'
        /\ \A j \in Gens \ {g} : gen'[j].status = gen[j].status /\ hold'[j] = hold[j]
    BY <1>1, <1>8, LeftSound
  <2>2. gen[g].status \in {"running", "cancelled"}
    BY <1>2 DEF InWork
  <2>3. SessionsHold'
    BY <1>1, <1>6, <2>1, <2>2, SessionsKept
  <2>4. StaysOut
    BY <2>1, <2>2 DEF StaysOut, Active
  <2> QED BY <1>7, <2>1, <2>3, <2>4 DEF Outcomes
<1>9. ASSUME NEW x \in {"cancelled", "failed"}, Lands(g, read, held, x, Rel(held))
      PROVE  Outcomes' /\ StaysOut
  <2>1. CASE held = "reserved"
    <3>1. read = "running" /\ Rel(held) = "released"
      BY <1>2, <2>1 DEF InWork, Rel
    <3>2. /\ gen'[g].status = x /\ hold'[g] = "released"
          /\ <<"release", g>> \in ledger'
      BY <1>1, <1>9, <2>1, <3>1 DEF Lands
    <3> QED BY <1>8, <1>9, <3>2 DEF Fits, Active
  <2>2. CASE held = "released"
    <3>1. gen[g].status = read /\ hold[g] = "released" /\ Rel(held) = held
      BY <1>2, <2>2 DEF Rel
    <3>2. /\ gen'[g].status = x /\ hold'[g] = "released"
          /\ <<"release", g>> \in ledger'
      BY <1>1, <1>5, <1>9, <2>2, <3>1 DEF Lands, Fits
    <3> QED BY <1>8, <1>9, <3>2 DEF Fits, Active
  <2> QED BY <1>2, <2>1, <2>2 DEF InWork
<1>10. CASE Lands(g, read, held, "running", held)
  <2>1. hold'[g] = hold[g]
    BY <1>10 DEF Lands
  <2>2. <<"release", g>> \in ledger' <=> <<"release", g>> \in ledger
    BY <1>1, <1>10 DEF Lands
  <2>3. InWork(gen'[g].status, hold[g])
    BY <1>2, <1>10 DEF Lands, InWork
  <2>4. Fits(g, gen'[g].status, hold'[g], ledger')
    BY <1>5, <2>1, <2>2, <2>3 DEF Fits, InWork, Active
  <2> QED BY <1>8, <1>10, <2>4
<1>11. CASE Lands(g, read, held, "ready", IF held = "reserved" THEN "settled" ELSE held)
  <2>1. gen'[g].status = "ready"
    BY <1>2, <1>11 DEF Lands, InWork
  <2>2. CASE held = "reserved"
    <3>1. hold'[g] = "settled"
      BY <1>11, <2>2 DEF Lands
    <3> QED BY <1>8, <1>11, <2>1, <3>1 DEF Fits, Active
  <2>3. CASE held = "released"
    <3>1. hold[g] = "released" /\ hold'[g] = "released" /\ <<"release", g>> \in ledger'
      BY <1>1, <1>2, <1>5, <1>11, <2>3 DEF Lands, Fits
    <3> QED BY <1>8, <1>11, <2>1, <3>1 DEF Fits, Active
  <2> QED BY <1>2, <2>2, <2>3 DEF InWork
<1> QED BY <1>3, <1>4, <1>9, <1>10, <1>11

\* A queued generation is claimed.
LEMMA ClaimOutcomes ==
  ASSUME TypeOK, Outcomes, NEW g \in Gens, ClaimQueued(g)
  PROVE  Outcomes' /\ StaysOut
<1> DEFINE U == [Snapshot EXCEPT !.gen[g].status = "running"]
<1>1. /\ Snapshot \in Database /\ Sound(Snapshot) /\ U \in Database
      /\ Writes(Snapshot, U, g, "running", hold[g])
  BY SnapshotType, WriteType, StatusWritten DEF Outcomes, GenStatus, Active, Snapshot
<1> HIDE DEF U
<1>2. /\ Sync(U, g).gen = U.gen /\ Sync(U, g).hold = U.hold /\ Sync(U, g).ledger = U.ledger
  BY <1>1 DEF Sync, Database
<1>3. Commit(Snapshot, Sync(U, g)) /\ gen[g].status = "queued" /\ worker.pc = "idle"
      /\ worker' = [NoWork EXCEPT !.pc = "claimed", !.g = g] /\ UNCHANGED session
  BY DEF ClaimQueued, U
<1>4. Writes(Snapshot, Sync(U, g), g, "running", hold[g])
  BY <1>1, <1>2, SameWrites
<1>5. Lands(g, "queued", hold[g], "running", hold[g])
  <2>1. Snapshot.gen[g].status = "queued" /\ Snapshot.hold[g] = hold[g]
    BY <1>3 DEF Snapshot
  <2> QED BY <1>1, <1>3, <1>4, <2>1, CommitLands
<1>6. Fits(g, "queued", hold[g], ledger)
  BY <1>3 DEF Outcomes, Sound, Snapshot
<1>7. gen'[g].status = "running" /\ hold'[g] = "reserved" /\ <<"release", g>> \notin ledger'
  BY <1>5, <1>6 DEF Lands, Fits
<1>8. Fits(g, gen'[g].status, hold'[g], ledger')
  BY <1>7 DEF Fits, Active
<1>9. /\ Sound(Snapshot)'
      /\ \A j \in Gens \ {g} : gen'[j].status = gen[j].status /\ hold'[j] = hold[j]
  BY <1>5, <1>8, LeftSound
<1>10. worker'.pc = "claimed" /\ worker'.g = g
  BY <1>3 DEF NoWork
<1>11. WorkHolds'
  BY <1>7, <1>10 DEF WorkHolds, AtWorkOn, InWork
<1>12. \A j \in Gens : AtWorkOn(j)' => j = g
  BY <1>10 DEF AtWorkOn
<1>13. SessionsHold'
  BY <1>3, <1>9, <1>12, SessionsKept DEF Active
<1>14. StaysOut
  BY <1>3, <1>9 DEF StaysOut, Active
<1> QED BY <1>9, <1>11, <1>13, <1>14 DEF Outcomes

\* An expired source.
LEMMA ExpireOutcomes ==
  ASSUME TypeOK, Outcomes, ExpireCommit
  PROVE  Outcomes' /\ StaysOut
<1> DEFINE g == worker.g
<1>1. g \in Gens /\ gen[g].status \in {"ready", "failed", "cancelled"}
  BY WorkerType DEF ExpireCommit, Outcomes, WorkHolds
<1>2. /\ gen'[g].status = "expired" /\ \A j \in Gens \ {g} : gen'[j].status = gen[j].status
      /\ UNCHANGED <<hold, ledger, session>> /\ worker' = NoWork
  BY <1>1 DEF ExpireCommit, TypeOK, GenRow
<1>3. \A j \in Gens : Fits(j, gen[j].status, hold[j], ledger)
  BY DEF Outcomes, Sound, Snapshot
<1>4. Fits(g, "expired", hold[g], ledger)
  BY <1>1, <1>3 DEF Fits, Active
<1> HIDE DEF g
<1>5. Sound(Snapshot)'
  BY <1>2, <1>3, <1>4 DEF Sound, Snapshot
<1>6. \A j \in Gens : ~ AtWorkOn(j)'
  BY <1>2 DEF AtWorkOn, NoWork
<1>7. WorkHolds'
  BY <1>2, <1>6 DEF WorkHolds, NoWork
<1>8. SessionsHold'
  BY <1>2, <1>6, SessionsKept
<1>9. StaysOut
  BY <1>2 DEF StaysOut, Active
<1> QED BY <1>5, <1>7, <1>8, <1>9 DEF Outcomes

\* A step of the coordinator that changes nothing but where it is, or that puts it to rest.
LEMMA GoesOn ==
  ASSUME Outcomes, UNCHANGED <<gen, hold, ledger, session>>,
         \/ worker' = NoWork
         \/ /\ worker'.pc \in {"work", "failing"} /\ worker'.snap = Snapshot
            /\ worker'.g \in Gens /\ (AtWorkOn(worker'.g) \/ gen[worker'.g].status = "running")
         \/ worker'.pc = "fail" /\ worker.pc \in {"work", "replied"} /\ worker'.g = worker.g
         \/ /\ worker'.pc = "replied" /\ worker.pc = "work"
            /\ worker'.g = worker.g /\ worker'.snap = worker.snap
         \/ worker'.pc = "expire" /\ gen[worker'.g].status \in {"ready", "failed", "cancelled"}
  PROVE  Outcomes' /\ StaysOut
<1>1. \A g \in Gens : AtWorkOn(g)' => AtWorkOn(g) \/ gen[g].status \in Active
  BY DEF AtWorkOn, NoWork, Active
<1>2. /\ Sound(Snapshot) /\ WorkHolds
      /\ \A g \in Gens : Fits(g, gen[g].status, hold[g], ledger)
  BY DEF Outcomes, Sound, Snapshot
<1>3. \A g \in Gens : gen[g].status = "running" => InWork(gen[g].status, hold[g])
  BY <1>2 DEF Fits, InWork
<1>4. CASE worker' = NoWork
  <2>1. WorkHolds'
    BY <1>4 DEF WorkHolds, AtWorkOn, NoWork
  <2> QED BY <1>1, <2>1, QuietOutcomes
<1>5. CASE /\ worker'.pc \in {"work", "failing"} /\ worker'.snap = Snapshot
           /\ worker'.g \in Gens /\ (AtWorkOn(worker'.g) \/ gen[worker'.g].status = "running")
  <2>1. InWork(gen[worker'.g].status, hold[worker'.g])
    BY <1>2, <1>3, <1>5 DEF WorkHolds
  <2>2. Snapshot.gen = gen /\ Snapshot.hold = hold
    BY DEF Snapshot
  <2>3. Sound(worker'.snap)
    BY <1>2, <1>5
  <2>4. WorkHolds'
    BY <1>5, <2>1, <2>2, <2>3 DEF WorkHolds, AtWorkOn
  <2> QED BY <1>1, <2>4, QuietOutcomes
<1>6. CASE \/ worker'.pc = "fail" /\ worker.pc \in {"work", "replied"} /\ worker'.g = worker.g
           \/ /\ worker'.pc = "replied" /\ worker.pc = "work"
              /\ worker'.g = worker.g /\ worker'.snap = worker.snap
  <2>1. WorkHolds'
    BY <1>2, <1>6 DEF WorkHolds, AtWorkOn
  <2> QED BY <1>1, <2>1, QuietOutcomes
<1>7. CASE worker'.pc = "expire" /\ gen[worker'.g].status \in {"ready", "failed", "cancelled"}
  <2>1. WorkHolds'
    BY <1>7 DEF WorkHolds, AtWorkOn
  <2> QED BY <1>1, <2>1, QuietOutcomes
<1> QED BY <1>4, <1>5, <1>6, <1>7

\* A tick.
LEMMA TickOutcomes ==
  ASSUME TypeOK, Outcomes, Tick
  PROVE  Outcomes' /\ StaysOut
<1>1. worker.pc \in {"work", "replied", "failing"} => worker.snap \in Database /\ worker.g \in Gens
  BY WorkerType
<1>2. ASSUME NEW T, worker.pc \in {"work", "replied"}, Done(T), Worked(worker.snap, worker.g, T),
             UNCHANGED session
      PROVE  Outcomes' /\ StaysOut
  BY <1>2, WorkOutcomes, GoesOn DEF Done, Goto, db
<1>3. CASE Refresh \/ FailRead
  <2>1. worker.g \in Gens /\ worker.pc \in {"claimed", "fail"}
    BY <1>3, WorkerType DEF Refresh, FailRead
  <2>2. AtWorkOn(worker.g)
    BY <2>1 DEF AtWorkOn
  <2> QED BY <1>3, <2>1, <2>2, GoesOn DEF Refresh, FailRead, Goto, db
<1>4. CASE TimeOut \/ CallRejected
  BY <1>4, GoesOn DEF TimeOut, CallRejected, Goto, db
<1>5. CASE CallLost
  BY <1>5, GoesOn DEF CallLost, db
<1>6. CASE CallIvadmin
  <2>1. worker \in Work /\ worker.pc = "work"
    BY <1>6, WorkerType DEF CallIvadmin
  <2>2. worker'.pc = "replied" /\ worker'.g = worker.g /\ worker'.snap = worker.snap
    BY <1>6, <2>1 DEF CallIvadmin, Work
  <2> QED BY <1>6, <2>1, <2>2, GoesOn DEF CallIvadmin, db
<1>7. CASE CancelLocally
  BY <1>1, <1>2, <1>7, WorkerWrites DEF CancelLocally
<1>8. CASE FinishUpload
  BY <1>1, <1>2, <1>8, WorkerWrites DEF FinishUpload
<1>9. CASE ApplyReply
  <2>1. worker.reply \in Replies \ {"lost", "rejected"}
    BY <1>9, WorkerType DEF ApplyReply, Work
  <2> QED BY <1>1, <1>2, <1>9, <2>1, WorkerWrites DEF ApplyReply
<1>10. CASE FailCommit
  <2>1. Worked(worker.snap, worker.g, Failed(worker.snap, worker.g))
    BY <1>1, <1>10, WorkerWrites DEF FailCommit
  <2> QED BY <1>10, <2>1, WorkOutcomes, GoesOn DEF FailCommit, db
<1> QED BY <1>3, <1>4, <1>5, <1>6, <1>7, <1>8, <1>9, <1>10 DEF Tick

\* Every step keeps the invariant and takes no outcome back.
LEMMA OutcomesStep ==
  ASSUME TypeOK, Outcomes, [Next]_vars
  PROVE  Outcomes' /\ StaysOut
<1>1. ASSUME UNCHANGED <<gen, hold, ledger, worker>>,
             \A c \in Clients : session'[c] \in {session[c], None, Snapshot}
      PROVE  Outcomes' /\ StaysOut
  <2>1. WorkHolds'
    BY <1>1 DEF Outcomes, WorkHolds, AtWorkOn
  <2>2. \A g \in Gens : AtWorkOn(g)' => AtWorkOn(g)
    BY <1>1 DEF AtWorkOn
  <2> QED BY <1>1, <2>1, <2>2, QuietOutcomes
<1>2. CASE UNCHANGED vars
  BY <1>1, <1>2 DEF vars
<1>3. CASE \E c \in Clients : Begin(c) \/ RequestEnds(c)
  <2>1. \A c \in Clients : session'[c] \in {session[c], None, Snapshot}
    BY <1>3 DEF Begin, RequestEnds, TypeOK
  <2> QED BY <1>1, <1>3, <2>1 DEF Begin, RequestEnds, db
<1>4. CASE \E c \in Clients : Handler(c)
  BY <1>4, HandlerWrites, RequestOutcomes
<1>5. CASE \E g \in Gens : ClaimQueued(g)
  BY <1>5, ClaimOutcomes
<1>6. ASSUME NEW g \in Gens, ClaimRunning(g)
      PROVE  Outcomes' /\ StaysOut
  BY <1>6, GoesOn DEF ClaimRunning, db
<1>7. CASE \/ \E g \in Gens : NormalizeUpload(g) \/ TimePasses(g)
           \/ \E k \in Drafts : VersionSettles(k)
  BY <1>1, <1>7 DEF NormalizeUpload, TimePasses, VersionSettles, db
<1>8. ASSUME NEW g \in Gens, ExpireClaim(g)
      PROVE  Outcomes' /\ StaysOut
  <2>1. worker'.pc = "expire" /\ worker'.g = g
    BY <1>8 DEF ExpireClaim, NoWork
  <2> QED BY <1>8, <2>1, GoesOn DEF ExpireClaim, Expirable, db
<1>9. CASE Tick
  BY <1>9, TickOutcomes
<1>10. CASE DeadlockVictim
  BY <1>10, GoesOn DEF DeadlockVictim, Goto, db
<1>11. CASE ExpireCommit
  BY <1>11, ExpireOutcomes
<1>12. CASE ExpireDeferred \/ Crash
  BY <1>12, GoesOn DEF ExpireDeferred, Crash, db
<1> QED
  BY <1>2, <1>3, <1>4, <1>5, <1>6, <1>7, <1>8, <1>9, <1>10, <1>11, <1>12 DEF Next, Claim

\* It holds in every reachable state.
LEMMA OutcomesHold == Spec => []Outcomes
<1>1. Init => Outcomes
  <2> SUFFICES ASSUME Init PROVE Outcomes
    OBVIOUS
  <2>1. Sound(Snapshot)
    BY DEF Init, Sound, Fits, Snapshot, NoGen
  <2>2. WorkHolds
    BY DEF Init, WorkHolds, AtWorkOn, NoWork
  <2>3. SessionsHold
    BY DEF Init, SessionsHold
  <2> QED BY <2>1, <2>2, <2>3 DEF Outcomes
<1>2. TypeOK /\ Outcomes /\ [Next]_vars => Outcomes'
  BY OutcomesStep
<1> QED BY <1>1, <1>2, TypeCorrect, PTL DEF Spec

\* However requests, cancellations and the coordinator race, crash or conflict, no Credits stay
\* on hold for a generation that has ended, and one that failed has given them back.
THEOREM NoHoldLeaks == Spec => []NoLeakedHold
<1>1. Outcomes => NoLeakedHold
  BY DEF Outcomes, Sound, Fits, Snapshot, NoLeakedHold
<1> QED BY <1>1, OutcomesHold, PTL

\* A stale session or a late answer never puts a generation that is ready, failed or expired
\* back to work.
THEOREM OutcomesAreFinal == Spec => OutcomeIsFinal
<1>1. TypeOK /\ Outcomes /\ [Next]_vars =>
        [\A g \in Gens : gen[g].status \in {"ready", "failed", "expired"} =>
           gen'[g].status \notin Active]_vars
  BY OutcomesStep DEF StaysOut
<1> QED BY <1>1, TypeCorrect, OutcomesHold, PTL DEF Spec, OutcomeIsFinal

-----------------------------------------------------------------------------
(* One reservation of a draft                                              *)

\* The generations of a draft in what a session read.
Of(D, k) == {h \in Gens : D.gen[h].creation = k}

\* A generation has a draft once it exists and a draft its generations once it does; a draft's
\* source exists, and a reservation is that of a draft's source.
Placed(D) ==
  /\ \A j \in Gens : D.gen[j].status = "none" =>
       D.gen[j].creation = None /\ D.gen[j].attempt = 0
  /\ \A k \in Drafts : D.draft[k].status = "none" => Of(D, k) = {}
  /\ \A k \in Drafts : D.draft[k].source # None => D.gen[D.draft[k].source].status # "none"
  /\ \A j \in Gens : D.hold[j] = "reserved" =>
       \E k \in Drafts : D.gen[j].creation = k /\ D.draft[k].source = j

\* What the rows D still are for a session that read S: what it read is there and no reservation
\* it saw ended is open again; a draft got no generation since, or one that has the attempt the
\* session would give the next.
Known(S, D) ==
  /\ \A j \in Gens : S.gen[j].status # "none" =>
       D.gen[j].status # "none" /\ (S.hold[j] # "reserved" => D.hold[j] # "reserved")
  /\ \A k \in Drafts :
       /\ S.draft[k].status # "none" => D.draft[k].status # "none"
       /\ \/ Of(S, k) = Of(D, k)
          \/ \E h \in Gens : /\ D.gen[h].creation = k
                            /\ D.gen[h].attempt = 1 + Cardinality(Of(S, k))

Places ==
  /\ Placed(Snapshot)
  /\ \A c \in Clients :
       session[c] # None => Placed(session[c]) /\ Known(session[c], Snapshot)

\* What every write but that of a new generation leaves alone.
Plain(S, T) ==
  /\ \A j \in Gens : /\ T.gen[j].creation = S.gen[j].creation
                     /\ T.gen[j].attempt = S.gen[j].attempt
                     /\ T.gen[j].status = "none" => S.gen[j].status = "none"
                     /\ T.hold[j] = "reserved" => S.hold[j] = "reserved"
  /\ \A k \in Drafts : /\ T.draft[k].source = S.draft[k].source
                       /\ T.draft[k].status = "none" => S.draft[k].status = "none"

LEMMA PlainTrans ==
  ASSUME NEW S, NEW T, NEW U, Plain(S, T), Plain(T, U)
  PROVE  Plain(S, U)
  BY DEF Plain

\* The columns of a generation, its reservation and its upload.
LEMMA GenPlain ==
  ASSUME NEW S \in Database, NEW g \in Gens
  PROVE  /\ Plain(S, S)
         /\ \A x \in GenStatus \ {"none"} : Plain(S, [S EXCEPT !.gen[g].status = x])
         /\ Plain(S, [S EXCEPT !.gen[g].cancel = TRUE])
         /\ Plain(S, [S EXCEPT !.gen[g].job = TRUE])
         /\ Plain(S, [S EXCEPT !.gen[g].upload = TRUE])
         /\ Plain(S, [S EXCEPT !.gen[g].accepted = TRUE])
         /\ \A u : Plain(S, [S EXCEPT !.upload[g] = u])
         /\ Plain(S, Settle(S, g)) /\ Plain(S, Release(S, g))
<1>1. Plain(S, S)
  BY DEF Plain
<1>2. ASSUME NEW x \in GenStatus \ {"none"}
      PROVE  Plain(S, [S EXCEPT !.gen[g].status = x])
  BY DEF Plain, Database, GenRow
<1>3. Plain(S, [S EXCEPT !.gen[g].cancel = TRUE])
  BY DEF Plain, Database, GenRow
<1>4. Plain(S, [S EXCEPT !.gen[g].job = TRUE])
  BY DEF Plain, Database, GenRow
<1>5. Plain(S, [S EXCEPT !.gen[g].upload = TRUE])
  BY DEF Plain, Database, GenRow
<1>6. Plain(S, [S EXCEPT !.gen[g].accepted = TRUE])
  BY DEF Plain, Database, GenRow
<1>7. \A u : Plain(S, [S EXCEPT !.upload[g] = u])
  BY DEF Plain, Database
<1>8. Plain(S, Settle(S, g)) /\ Plain(S, Release(S, g))
  BY DEF Plain, Settle, Release, Database
<1> QED BY <1>1, <1>2, <1>3, <1>4, <1>5, <1>6, <1>7, <1>8

\* The columns of a draft.
LEMMA DraftPlain ==
  ASSUME NEW S \in Database, NEW k \in Drafts
  PROVE  /\ \A x : x # "none" => Plain(S, [S EXCEPT !.draft[k].status = x])
         /\ \A v : Plain(S, [S EXCEPT !.draft[k].versions = v])
         /\ \A u : Plain(S, [S EXCEPT !.draft[k].upload = u])
<1>1. \A x : x # "none" => Plain(S, [S EXCEPT !.draft[k].status = x])
  BY DEF Plain, Database, DraftRow
<1>2. \A v : Plain(S, [S EXCEPT !.draft[k].versions = v])
  BY DEF Plain, Database, DraftRow
<1>3. \A u : Plain(S, [S EXCEPT !.draft[k].upload = u])
  BY DEF Plain, Database, DraftRow
<1> QED BY <1>1, <1>2, <1>3

LEMMA SyncPlain ==
  ASSUME NEW S \in Database, NEW g \in Gens
  PROVE  Plain(S, Sync(S, g))
<1> DEFINE k == S.gen[g].creation
           shown == CASE S.gen[g].status = "ready" -> "source_ready"
                      [] S.gen[g].status \in {"failed", "cancelled"} -> S.gen[g].status
                      [] OTHER -> "running"
           u == IF S.gen[g].upload THEN g ELSE S.draft[k].upload
           d == [S.draft[k] EXCEPT !.status = shown, !.upload = u]
           T == [S EXCEPT !.draft[k] = d]
<1>1. Sync(S, g) = S \/ Sync(S, g) = T
  BY DEF Sync
<1>2. shown # "none"
  OBVIOUS
<1> HIDE DEF shown, u
<1>3. k \in Drafts => d.source = S.draft[k].source /\ d.status = shown
  BY DEF Database, DraftRow
<1> HIDE DEF d
<1>4. /\ T.gen = S.gen /\ T.hold = S.hold
      /\ \A j \in Drafts : T.draft[j] = IF j = k THEN d ELSE S.draft[j]
  BY DEF Database
<1> HIDE DEF T, k
<1>5. Plain(S, T)
  BY <1>2, <1>3, <1>4 DEF Plain
<1> QED BY <1>1, <1>5, GenPlain

\* Stopping an active generation.
LEMMA StopPlain ==
  ASSUME NEW S \in Database, NEW g \in Gens
  PROVE  Plain(S, CancelQueued(S, g)) /\ Plain(S, Stop(S, g))
<1> DEFINE U == [S EXCEPT !.gen[g].status = "cancelled"]
<1>1. U \in Database /\ Plain(S, U)
  BY WriteType, GenPlain DEF GenStatus
<1> HIDE DEF U
<1>2. Plain(U, Release(U, g))
  BY <1>1, GenPlain
<1>3. Plain(S, CancelQueued(S, g))
  BY <1>1, <1>2, PlainTrans DEF CancelQueued, U
<1> QED BY <1>3, GenPlain DEF Stop
\* The branches of a tick.
LEMMA WorkerPlain ==
  ASSUME NEW S \in Database, NEW g \in Gens
  PROVE  /\ Plain(S, Cancelled(S, g)) /\ Plain(S, Failed(S, g))
         /\ Plain(S, Sync(FinishSourceFromUpload(S, g), g))
         /\ \A reply \in Replies \ {"lost", "rejected"} : Plain(S, ApplySourceJob(S, g, reply))
<1>1. ASSUME NEW T \in Database, Plain(S, T)
      PROVE  Plain(S, Sync(T, g))
  BY <1>1, SyncPlain, PlainTrans
<1>2. ASSUME NEW U \in Database, NEW x \in GenStatus \ {"none"}
      PROVE  LET T == [U EXCEPT !.gen[g].status = x]
             IN  /\ T \in Database /\ Plain(U, T)
                 /\ Release(T, g) \in Database /\ Plain(U, Release(T, g)) /\ Plain(U, Settle(T, g))
  <2> DEFINE T == [U EXCEPT !.gen[g].status = x]
  <2>1. T \in Database /\ Plain(U, T)
    BY WriteType, GenPlain
  <2> HIDE DEF T
  <2>2. Release(T, g) \in Database /\ Plain(U, Release(T, g)) /\ Plain(U, Settle(T, g))
    BY <2>1, CreditType, GenPlain, PlainTrans
  <2> QED BY <2>1, <2>2 DEF T
<1>3. ASSUME NEW U \in Database
      PROVE  FinishSourceFromUpload(U, g) \in Database /\ Plain(U, FinishSourceFromUpload(U, g))
  BY <1>2, CoordinatorType DEF FinishSourceFromUpload, GenStatus, Active
<1>4. Plain(S, Cancelled(S, g))
  <2>1. CancelQueued(S, g) \in Database /\ Plain(S, CancelQueued(S, g))
    BY StopType, StopPlain
  <2> QED BY <1>1, <2>1 DEF Cancelled
<1>5. Plain(S, Failed(S, g))
  BY <1>1, <1>2 DEF Failed, GenStatus
<1>6. Plain(S, Sync(FinishSourceFromUpload(S, g), g))
  BY <1>1, <1>3
<1>7. ASSUME NEW reply \in Replies \ {"lost", "rejected"}
      PROVE  Plain(S, ApplySourceJob(S, g, reply))
  <2> DEFINE J == [S EXCEPT !.gen[g].job = TRUE]
             P == [J EXCEPT !.upload[g] = "pending"]
             Q == [P EXCEPT !.gen[g].upload = TRUE]
             K == GeneratedUpload(J, g)
  <2>1. J \in Database /\ Plain(S, J)
    BY WriteType, GenPlain
  <2> HIDE DEF J
  <2>2. P \in Database /\ Plain(J, P)
    BY <2>1, RowType, GenPlain DEF UploadStatus
  <2>3. K = IF J.gen[g].upload THEN J ELSE Q
    BY DEF GeneratedUpload
  <2> HIDE DEF P
  <2>4. Q \in Database /\ Plain(P, Q)
    BY <2>2, WriteType, GenPlain
  <2> HIDE DEF Q, K
  <2>5. K \in Database /\ Plain(S, K)
    BY <2>1, <2>2, <2>3, <2>4, PlainTrans
  <2> DEFINE R == [J EXCEPT !.gen[g].status = "running"]
             F == Release([J EXCEPT !.gen[g].status = reply], g)
             U == FinishSourceFromUpload(K, g)
  <2>6. R \in Database /\ Plain(S, R)
    BY <1>2, <2>1, PlainTrans DEF GenStatus, Active
  <2>7. reply \in {"failed", "cancelled"} => F \in Database /\ Plain(S, F)
    BY <1>2, <2>1, PlainTrans DEF GenStatus
  <2>8. U \in Database /\ Plain(S, U)
    BY <1>3, <2>5, PlainTrans
  <2>9. ApplySourceJob(S, g, reply) = Sync(CASE reply = "running" -> R
                                             [] reply \in {"failed", "cancelled"} -> F
                                             [] OTHER -> U, g)
    BY DEF ApplySourceJob, J, K
  <2> HIDE DEF R, F, U
  <2>10. CASE reply = "running"
    BY <1>1, <2>6, <2>9, <2>10
  <2>11. CASE reply \in {"failed", "cancelled"}
    BY <1>1, <2>7, <2>9, <2>11
  <2>12. CASE reply \notin {"running", "failed", "cancelled"}
    BY <1>1, <2>8, <2>9, <2>12
  <2> QED BY <2>10, <2>11, <2>12
<1> QED BY <1>4, <1>5, <1>6, <1>7

\* What a request that is admitted writes for a new generation g of draft k.
Started(S, T, g, k) ==
  /\ S.gen[g].status = "none"
  /\ \/ draft[k].status = "none"
     \/ S.draft[k].status # "none" /\ S.gen[S.draft[k].source].status \notin Active
  /\ \E d \in DraftRow : /\ d.status = "queued" /\ d.source = g
                         /\ T = Enqueue(S, g, k, d)

\* Every request starts a generation or writes plainly.
LEMMA HandlerPlain ==
  ASSUME TypeOK, NEW c \in Clients, Handler(c)
  PROVE  \E T : /\ session[c] # None /\ Respond(c, T)
                /\ \/ Plain(session[c], T)
                   \/ \E g \in Gens, k \in Drafts : Started(session[c], T, g, k)
<1> DEFINE S == session[c]
<1>1. S # None => S \in Database
  BY DEF TypeOK
<1> PICK g \in Gens, k \in Drafts :
      \/ CreateInteractiveVideo(c, g, k)
      \/ RegenerateCreationSource(c, g, k)
      \/ AcceptCreationSource(c, g, k)
      \/ AcceptDeferred(c, g, k)
      \/ CancelCreation(c, g, k)
      \/ AbandonCreation(c, g, k)
  BY DEF Handler
<1>2. CASE CreateInteractiveVideo(c, g, k)
  <2> DEFINE d == [NoDraft EXCEPT !.status = "queued", !.source = g]
  <2>1. d \in DraftRow /\ d.status = "queued" /\ d.source = g
    BY DEF NoDraft, DraftRow, DraftStatus
  <2> HIDE DEF d
  <2>2. /\ S # None /\ Respond(c, Enqueue(S, g, k, d)) /\ S.gen[g].status = "none"
        /\ draft[k].status = "none"
    BY <1>2 DEF CreateInteractiveVideo, Admitted, d
  <2> QED BY <2>1, <2>2 DEF Started
<1>3. CASE RegenerateCreationSource(c, g, k)
  <2> DEFINE d == [S.draft[k] EXCEPT !.status = "queued", !.source = g]
  <2>1. /\ S # None /\ Respond(c, Enqueue(S, g, k, d)) /\ S.gen[g].status = "none"
        /\ S.draft[k].status # "none" /\ S.gen[S.draft[k].source].status \notin Active
    BY <1>3 DEF RegenerateCreationSource, Admitted, Open
  <2>2. S.draft[k] \in DraftRow
    BY <1>1, <2>1, RowType
  <2>3. d \in DraftRow /\ d.status = "queued" /\ d.source = g
    BY <2>2 DEF DraftRow, DraftStatus
  <2> HIDE DEF d
  <2> QED BY <2>1, <2>3 DEF Started
<1>4. CASE AcceptCreationSource(c, g, k) \/ AcceptDeferred(c, g, k)
  <2>1. S # None /\ S \in Database
    BY <1>1, <1>4 DEF AcceptCreationSource, AcceptDeferred, Open
  <2> DEFINE A == Accepted(S, g, k)
             T1 == [A EXCEPT !.draft[k].status = "queued", !.draft[k].versions = "busy"]
             T2 == [A EXCEPT !.draft[k].status = "source_ready"]
  <2>2. Respond(c, T1) \/ Respond(c, T2)
    BY <1>4 DEF AcceptCreationSource, AcceptDeferred
  <2>3. A \in Database /\ Plain(S, A)
    <3> DEFINE B == [S EXCEPT !.gen[g].accepted = TRUE]
               V == [B EXCEPT !.draft[k].upload = g]
    <3>1. B \in Database /\ Plain(S, B)
      BY <2>1, WriteType, GenPlain
    <3> HIDE DEF B
    <3>2. V \in Database /\ Plain(B, V)
      <4>1. B.draft[k] \in DraftRow
        BY <3>1, RowType
      <4>2. [B.draft[k] EXCEPT !.upload = g] \in DraftRow
        BY <4>1 DEF DraftRow
      <4>3. V \in Database
        BY <3>1, <4>2, RowType
      <4> QED BY <3>1, <4>3, DraftPlain
    <3> QED BY <3>1, <3>2, PlainTrans DEF Accepted, B
  <2> HIDE DEF A
  <2>4. Plain(A, T1) /\ Plain(A, T2)
    BY <2>3 DEF Plain, Database, DraftRow
  <2> QED BY <2>1, <2>2, <2>3, <2>4, PlainTrans
<1>5. ASSUME NEW T \in Database, Plain(S, T), NEW x, x # "none", S # None,
             Respond(c, [T EXCEPT !.draft[k].status = x])
      PROVE  \E U : S # None /\ Respond(c, U) /\ Plain(S, U)
  <2> DEFINE U == [T EXCEPT !.draft[k].status = x]
  <2>1. Plain(S, U)
    BY <1>5, DraftPlain, PlainTrans
  <2> QED BY <1>5, <2>1
<1>6. CASE CancelCreation(c, g, k)
  <2> DEFINE R == [S EXCEPT !.gen[g].status = "cancelled"]
             T == IF S.gen[g].status = "ready" THEN R ELSE Stop(S, g)
             x == IF T.gen[g].status = "cancelled" THEN "cancelled" ELSE "running"
  <2>1. S # None /\ Respond(c, [T EXCEPT !.draft[k].status = x])
    BY <1>6 DEF CancelCreation
  <2>2. R \in Database /\ Plain(S, R)
    BY <1>1, <2>1, WriteType, GenPlain DEF GenStatus
  <2> HIDE DEF R
  <2>3. T \in Database /\ Plain(S, T)
    BY <1>1, <2>1, <2>2, StopType, StopPlain
  <2>4. x # "none"
    OBVIOUS
  <2> HIDE DEF T, x
  <2> QED BY <1>5, <2>1, <2>3, <2>4
<1>7. CASE AbandonCreation(c, g, k)
  <2> DEFINE T == IF ~ S.gen[g].accepted /\ S.gen[g].status \in Active
                  THEN Stop(S, g) ELSE S
  <2>1. S # None /\ Respond(c, [T EXCEPT !.draft[k].status = "abandoned"])
    BY <1>7 DEF AbandonCreation
  <2>2. T \in Database /\ Plain(S, T)
    BY <1>1, <2>1, StopType, StopPlain, GenPlain
  <2> HIDE DEF T
  <2> QED BY <1>5, <2>1, <2>2
<1> QED BY <1>2, <1>3, <1>4, <1>6, <1>7
\* What a plain write keeps.
LEMMA PlainPlaced ==
  ASSUME NEW D \in Database, NEW E, Plain(D, E)
  PROVE  /\ Placed(D) => Placed(E)
         /\ \A S : Known(S, D) => Known(S, E)
<1>1. \A k \in Drafts : Of(E, k) = Of(D, k)
  BY DEF Plain, Of
<1>2. \A k \in Drafts : D.draft[k].source \in Gens \cup {None}
  BY DEF Database, DraftRow
<1>3. Placed(D) => Placed(E)
  BY <1>1, <1>2 DEF Plain, Placed
<1>4. ASSUME NEW S, Known(S, D)
      PROVE  Known(S, E)
  BY <1>1, <1>4 DEF Plain, Known
<1> QED BY <1>3, <1>4

\* The commit of a plain write is one.
LEMMA CommitPlain ==
  ASSUME TypeOK, NEW S, NEW T, Plain(S, T), Commit(S, T)
  PROVE  Plain(Snapshot, Snapshot')
<1>1. ASSUME NEW j \in Gens
      PROVE  /\ gen'[j].creation = gen[j].creation /\ gen'[j].attempt = gen[j].attempt
             /\ gen'[j].status = "none" => gen[j].status = "none"
             /\ hold'[j] = "reserved" => hold[j] = "reserved"
  <2>1. gen'[j] = FlushRow(S.gen[j], T.gen[j], gen[j]) /\ gen[j] \in GenRow
    BY DEF Commit, TypeOK
  <2>2. {"status", "creation", "attempt"} \subseteq DOMAIN gen[j]
    BY <2>1 DEF GenRow
  <2>3. hold'[j] = Flush(S.hold[j], T.hold[j], hold[j])
    BY DEF Commit
  <2> QED BY <2>1, <2>2, <2>3 DEF Plain, FlushRow, Flush
<1>2. ASSUME NEW k \in Drafts
      PROVE  /\ draft'[k].source = draft[k].source
             /\ draft'[k].status = "none" => draft[k].status = "none"
  <2>1. draft'[k] = FlushRow(S.draft[k], T.draft[k], draft[k]) /\ draft[k] \in DraftRow
    BY DEF Commit, TypeOK
  <2>2. {"status", "source"} \subseteq DOMAIN draft[k]
    BY <2>1 DEF DraftRow
  <2> QED BY <2>1, <2>2 DEF Plain, FlushRow, Flush
<1> QED BY <1>1, <1>2 DEF Plain, Snapshot

\* E is D with a new generation g, the source of draft k, which has no other reservation.
Began(D, E, g, k) ==
  /\ D.gen[g].status = "none"
  /\ E.gen[g].status = "queued" /\ E.gen[g].creation = k
  /\ E.gen[g].attempt = 1 + Cardinality(Of(D, k))
  /\ \A j \in Gens \ {g} : /\ E.gen[j].status = D.gen[j].status
                          /\ E.gen[j].creation = D.gen[j].creation
                          /\ E.gen[j].attempt = D.gen[j].attempt
                          /\ E.hold[j] = D.hold[j]
  /\ E.draft[k].source = g /\ E.draft[k].status # "none"
  /\ \A i \in Drafts \ {k} : /\ E.draft[i].source = D.draft[i].source
                            /\ E.draft[i].status = D.draft[i].status
  /\ \A j \in Of(D, k) : D.hold[j] # "reserved"

LEMMA BeganPlaced ==
  ASSUME NEW D \in Database, NEW E, NEW g \in Gens, NEW k \in Drafts, Placed(D), Began(D, E, g, k)
  PROVE  /\ Placed(E)
         /\ \A S : Known(S, D) => Known(S, E)
<1>1. D.gen[g].creation = None /\ D.gen[g].status = "none"
  BY DEF Began, Placed
<1>2. \A i \in Drafts \ {k} : Of(E, i) = Of(D, i)
  BY <1>1, ConstantsAssumption DEF Began, Of
<1>3. Placed(E)
  <2>1. \A j \in Gens : E.gen[j].status = "none" => E.gen[j].creation = None /\ E.gen[j].attempt = 0
    BY DEF Began, Placed
  <2>2. \A i \in Drafts : E.draft[i].status = "none" => Of(E, i) = {}
    BY <1>2 DEF Began, Placed
  <2>3. ASSUME NEW i \in Drafts, E.draft[i].source # None
        PROVE  E.gen[E.draft[i].source].status # "none"
    <3>1. D.draft[i].source \in Gens \cup {None}
      BY DEF Database, DraftRow
    <3> QED BY <2>3, <3>1 DEF Began, Placed
  <2>4. ASSUME NEW j \in Gens, E.hold[j] = "reserved"
        PROVE  \E i \in Drafts : E.gen[j].creation = i /\ E.draft[i].source = j
    <3>1. CASE j = g
      BY <3>1 DEF Began
    <3>2. CASE j # g
      <4>1. D.hold[j] = "reserved"
        BY <2>4, <3>2 DEF Began
      <4>2. PICK i \in Drafts : D.gen[j].creation = i /\ D.draft[i].source = j
        BY <4>1 DEF Placed
      <4>3. i # k
        BY <4>1, <4>2 DEF Began, Of
      <4> QED BY <3>2, <4>2, <4>3 DEF Began
    <3> QED BY <3>1, <3>2
  <2> QED BY <2>1, <2>2, <2>3, <2>4 DEF Placed
<1>4. ASSUME NEW S, Known(S, D)
      PROVE  Known(S, E)
  <2>1. ASSUME NEW j \in Gens, S.gen[j].status # "none"
        PROVE  E.gen[j].status # "none" /\ (S.hold[j] # "reserved" => E.hold[j] # "reserved")
    <3>1. D.gen[j].status # "none" /\ (S.hold[j] # "reserved" => D.hold[j] # "reserved")
      BY <1>4, <2>1 DEF Known
    <3> QED BY <1>1, <3>1 DEF Began
  <2>2. ASSUME NEW i \in Drafts
        PROVE  /\ S.draft[i].status # "none" => E.draft[i].status # "none"
               /\ \/ Of(S, i) = Of(E, i)
                  \/ \E h \in Gens : /\ E.gen[h].creation = i
                                    /\ E.gen[h].attempt = 1 + Cardinality(Of(S, i))
    <3>1. S.draft[i].status # "none" => E.draft[i].status # "none"
      BY <1>4 DEF Known, Began
    <3>2. CASE Of(S, i) = Of(D, i)
      BY <1>2, <3>1, <3>2 DEF Began
    <3>3. CASE \E h \in Gens : /\ D.gen[h].creation = i
                              /\ D.gen[h].attempt = 1 + Cardinality(Of(S, i))
      <4>1. PICK h \in Gens : /\ D.gen[h].creation = i
                              /\ D.gen[h].attempt = 1 + Cardinality(Of(S, i))
        BY <3>3
      <4>2. h # g
        BY <1>1, <4>1, ConstantsAssumption
      <4> QED BY <3>1, <4>1, <4>2 DEF Began
    <3> QED BY <1>4, <3>2, <3>3 DEF Known
  <2> QED BY <2>1, <2>2 DEF Known
<1> QED BY <1>3, <1>4
\* The commit of a request that was admitted.
LEMMA StartBegan ==
  ASSUME TypeOK, NEW S \in Database, Sound(S), Placed(S), Known(S, Snapshot), Placed(Snapshot),
         NEW T, NEW g \in Gens, NEW k \in Drafts, Started(S, T, g, k), Commit(S, T)
  PROVE  Began(Snapshot, Snapshot', g, k)
<1> PICK d \in DraftRow : d.status = "queued" /\ d.source = g /\ T = Enqueue(S, g, k, d)
  BY DEF Started
<1> DEFINE n == 1 + Cardinality(Of(S, k))
<1>1. /\ T.gen = [S.gen EXCEPT ![g] = NewGen(S, k)]
      /\ T.draft = [S.draft EXCEPT ![k] = d]
      /\ T.hold = [S.hold EXCEPT ![g] = "reserved"]
  <2> DEFINE U == [S EXCEPT !.gen[g] = NewGen(S, k), !.draft[k] = d]
  <2>1. /\ U.hold = S.hold /\ U.gen = [S.gen EXCEPT ![g] = NewGen(S, k)]
        /\ U.draft = [S.draft EXCEPT ![k] = d]
        /\ DOMAIN U = {"gen", "draft", "hold", "ledger", "upload"}
    BY DEF Database
  <2> HIDE DEF U
  <2>2. /\ Reserve(U, g).gen = U.gen /\ Reserve(U, g).draft = U.draft
        /\ Reserve(U, g).hold = [U.hold EXCEPT ![g] = "reserved"]
    BY <2>1 DEF Reserve
  <2> QED BY <2>1, <2>2 DEF Enqueue, U
<1>2. /\ S.gen \in [Gens -> GenRow] /\ S.draft \in [Drafts -> DraftRow]
      /\ S.hold \in [Gens -> HoldStatus]
  BY DEF Database
<1>3. /\ NewGen(S, k).status = "queued" /\ NewGen(S, k).creation = k
      /\ NewGen(S, k).attempt = n
  BY DEF NewGen, NoGen, Of
<1>4. /\ S.gen[g].status = "none" /\ S.gen[g].creation = None /\ S.gen[g].attempt = 0
      /\ S.hold[g] = "none" /\ S.draft[k].source # g
  <2>1. S.gen[g].status = "none"
    BY DEF Started
  <2>2. S.gen[g].creation = None /\ S.gen[g].attempt = 0
    BY <2>1 DEF Placed
  <2>3. S.hold[g] = "none"
    BY <2>1 DEF Sound, Fits
  <2>4. S.draft[k].source # g
    BY <2>1, ConstantsAssumption DEF Placed
  <2> QED BY <2>1, <2>2, <2>3, <2>4
<1>5. n # 0 /\ k # None
  <2>1. IsFiniteSet(Of(S, k))
    BY ConstantsAssumption, FS_Subset DEF Of
  <2>2. Cardinality(Of(S, k)) \in Nat
    BY <2>1, FS_CardinalityType
  <2> QED BY <2>2, ConstantsAssumption
<1>6. /\ gen[g].status = "none"
      /\ ~ \E h \in Gens : gen[h].creation = k /\ gen[h].attempt = n
  <2>1. T.gen[g].status = "queued" /\ T.gen[g].creation = k /\ T.gen[g].attempt = n
    BY <1>1, <1>2, <1>3
  <2>2. ~ Conflict(S, T)
    BY DEF Commit
  <2> HIDE DEF n
  <2> QED BY <1>4, <2>1, <2>2 DEF Conflict
<1>7. Of(S, k) = Of(Snapshot, k)
  BY <1>6 DEF Known, Snapshot
<1> HIDE DEF n
<1>8. ASSUME NEW j \in Gens
      PROVE  /\ gen'[j].status = Flush(S.gen[j].status, T.gen[j].status, gen[j].status)
             /\ gen'[j].creation = Flush(S.gen[j].creation, T.gen[j].creation, gen[j].creation)
             /\ gen'[j].attempt = Flush(S.gen[j].attempt, T.gen[j].attempt, gen[j].attempt)
             /\ hold'[j] = Flush(S.hold[j], T.hold[j], hold[j])
  <2>1. gen'[j] = FlushRow(S.gen[j], T.gen[j], gen[j]) /\ gen[j] \in GenRow
    BY DEF Commit, TypeOK
  <2>2. {"status", "creation", "attempt"} \subseteq DOMAIN gen[j]
    BY <2>1 DEF GenRow
  <2>3. hold'[j] = Flush(S.hold[j], T.hold[j], hold[j])
    BY DEF Commit
  <2> QED BY <2>1, <2>2, <2>3 DEF FlushRow
<1>9. ASSUME NEW i \in Drafts
      PROVE  /\ draft'[i].status = Flush(S.draft[i].status, T.draft[i].status, draft[i].status)
             /\ draft'[i].source = Flush(S.draft[i].source, T.draft[i].source, draft[i].source)
  <2>1. draft'[i] = FlushRow(S.draft[i], T.draft[i], draft[i]) /\ draft[i] \in DraftRow
    BY DEF Commit, TypeOK
  <2>2. {"status", "source"} \subseteq DOMAIN draft[i]
    BY <2>1 DEF DraftRow
  <2> QED BY <2>1, <2>2 DEF FlushRow
<1>10. /\ gen'[g].status = "queued" /\ gen'[g].creation = k /\ gen'[g].attempt = n
  BY <1>1, <1>2, <1>3, <1>4, <1>5, <1>8 DEF Flush
<1>11. \A j \in Gens \ {g} : /\ gen'[j].status = gen[j].status
                             /\ gen'[j].creation = gen[j].creation
                             /\ gen'[j].attempt = gen[j].attempt
                             /\ hold'[j] = hold[j]
  BY <1>1, <1>2, <1>8 DEF Flush
<1>12. \A i \in Drafts \ {k} : /\ draft'[i].source = draft[i].source
                              /\ draft'[i].status = draft[i].status
  BY <1>1, <1>2, <1>9 DEF Flush
<1>13. draft'[k].source = g
  BY <1>1, <1>2, <1>4, <1>9 DEF Flush
<1>14. S.draft[k].status # "none" => draft[k].status # "none"
  BY DEF Known, Snapshot
<1>15. draft'[k].status # "none"
  BY <1>1, <1>2, <1>9, <1>14 DEF Flush
<1>16. ASSUME NEW j \in Of(Snapshot, k), hold[j] = "reserved"
       PROVE  FALSE
  <2>1. j \in Gens /\ S.gen[j].creation = k
    BY <1>7 DEF Of
  <2>2. draft[k].status # "none"
    BY <1>16 DEF Placed, Snapshot
  <2>3. S.gen[S.draft[k].source].status \notin Active
    BY <2>2 DEF Started
  <2>4. S.gen[j].status # "none"
    BY <1>5, <2>1 DEF Placed
  <2>5. S.hold[j] = "reserved"
    BY <1>16, <2>1, <2>4 DEF Known, Snapshot
  <2>6. S.draft[k].source = j
    BY <2>1, <2>5 DEF Placed
  <2>7. S.gen[j].status \in Active
    BY <2>1, <2>5 DEF Sound, Fits
  <2> QED BY <2>3, <2>6, <2>7
<1>17. n = 1 + Cardinality(Of(Snapshot, k))
  BY <1>7 DEF n
<1> QED
  BY <1>6, <1>10, <1>11, <1>12, <1>13, <1>15, <1>16, <1>17 DEF Began, Snapshot

\* What a step does with the requests in flight.
Served == \A c \in Clients : session'[c] \in {session[c], None, Snapshot}

\* A step that writes plainly.
LEMMA PlainPlaces ==
  ASSUME TypeOK, Places, Plain(Snapshot, Snapshot'), Served
  PROVE  Places'
<1>1. Snapshot \in Database
  BY SnapshotType
<1>2. Placed(Snapshot') /\ \A S : Known(S, Snapshot) => Known(S, Snapshot')
  BY <1>1, PlainPlaced DEF Places
<1>3. Known(Snapshot, Snapshot)
  BY DEF Known
<1>4. ASSUME NEW c \in Clients, session'[c] # None
      PROVE  Placed(session'[c]) /\ Known(session'[c], Snapshot')
  BY <1>2, <1>3, <1>4 DEF Places, Served
<1> QED BY <1>2, <1>4 DEF Places

\* A request.
LEMMA RequestPlaces ==
  ASSUME TypeOK, Outcomes, Places, NEW c \in Clients, Handler(c)
  PROVE  Places'
<1> PICK T : /\ session[c] # None /\ Respond(c, T)
             /\ \/ Plain(session[c], T)
                \/ \E g \in Gens, k \in Drafts : Started(session[c], T, g, k)
  BY HandlerPlain
<1>1. Commit(session[c], T) /\ session' = [session EXCEPT ![c] = None]
  BY DEF Respond
<1>2. \A e \in Clients : session'[e] = IF e = c THEN None ELSE session[e]
  BY <1>1 DEF TypeOK
<1>3. CASE Plain(session[c], T)
  <2>1. Plain(Snapshot, Snapshot')
    BY <1>1, <1>3, CommitPlain
  <2> QED BY <1>2, <2>1, PlainPlaces DEF Served
<1>4. CASE \E g \in Gens, k \in Drafts : Started(session[c], T, g, k)
  <2> PICK g \in Gens, k \in Drafts : Started(session[c], T, g, k)
    BY <1>4
  <2>1. /\ session[c] \in Database /\ Sound(session[c]) /\ Placed(session[c])
        /\ Known(session[c], Snapshot) /\ Placed(Snapshot)
    BY DEF TypeOK, Outcomes, SessionsHold, Places
  <2>2. Began(Snapshot, Snapshot', g, k)
    BY <1>1, <2>1, StartBegan
  <2>3. Placed(Snapshot') /\ \A S : Known(S, Snapshot) => Known(S, Snapshot')
    BY <2>1, <2>2, SnapshotType, BeganPlaced
  <2>4. ASSUME NEW e \in Clients, session'[e] # None
        PROVE  Placed(session'[e]) /\ Known(session'[e], Snapshot')
    BY <1>2, <2>3, <2>4 DEF Places
  <2> QED BY <2>3, <2>4 DEF Places
<1> QED BY <1>3, <1>4
\* A tick.
LEMMA TickPlain ==
  ASSUME TypeOK, Tick
  PROVE  Plain(Snapshot, Snapshot') /\ UNCHANGED session
<1>1. UNCHANGED db => Plain(Snapshot, Snapshot')
  BY DEF db, Snapshot, Plain
<1>2. worker.pc \in {"work", "replied", "failing"} => worker.snap \in Database /\ worker.g \in Gens
  BY WorkerType
<1>3. ASSUME NEW T, Done(T), Plain(worker.snap, T)
      PROVE  Plain(Snapshot, Snapshot')
  BY <1>1, <1>3, CommitPlain DEF Done
<1>4. CASE Refresh \/ TimeOut \/ CallIvadmin \/ CallLost \/ CallRejected \/ FailRead
  BY <1>1, <1>4 DEF Refresh, TimeOut, CallIvadmin, CallLost, CallRejected, FailRead
<1>5. CASE CancelLocally
  BY <1>2, <1>3, <1>5, WorkerPlain DEF CancelLocally
<1>6. CASE FinishUpload
  BY <1>2, <1>3, <1>6, WorkerPlain DEF FinishUpload
<1>7. CASE ApplyReply
  <2>1. worker.reply \in Replies \ {"lost", "rejected"}
    BY <1>7, WorkerType DEF ApplyReply, Work
  <2> QED BY <1>2, <1>3, <1>7, <2>1, WorkerPlain DEF ApplyReply
<1>8. CASE FailCommit
  <2>1. Plain(worker.snap, Failed(worker.snap, worker.g))
    BY <1>2, <1>8, WorkerPlain DEF FailCommit
  <2> QED BY <1>1, <1>8, <2>1, CommitPlain DEF FailCommit
<1> QED BY <1>4, <1>5, <1>6, <1>7, <1>8 DEF Tick

\* A queued generation is claimed.
LEMMA ClaimPlain ==
  ASSUME TypeOK, NEW g \in Gens, ClaimQueued(g)
  PROVE  Plain(Snapshot, Snapshot') /\ UNCHANGED session
<1> DEFINE U == [Snapshot EXCEPT !.gen[g].status = "running"]
<1>1. Snapshot \in Database /\ U \in Database /\ Plain(Snapshot, U)
  BY SnapshotType, WriteType, GenPlain DEF GenStatus, Active
<1> HIDE DEF U
<1>2. Plain(Snapshot, Sync(U, g))
  BY <1>1, SyncPlain, PlainTrans
<1>3. Commit(Snapshot, Sync(U, g)) /\ UNCHANGED session
  BY DEF ClaimQueued, U
<1> QED BY <1>2, <1>3, CommitPlain

\* The steps that write the rows without a session.
LEMMA DirectPlain ==
  ASSUME TypeOK, \/ ExpireCommit
                 \/ \E g \in Gens : NormalizeUpload(g)
                 \/ \E k \in Drafts : VersionSettles(k)
  PROVE  Plain(Snapshot, Snapshot') /\ UNCHANGED session
<1>1. CASE ExpireCommit
  <2>1. /\ \A j \in Gens : /\ gen'[j].creation = gen[j].creation /\ gen'[j].attempt = gen[j].attempt
                           /\ gen'[j].status \in {gen[j].status, "expired"}
        /\ UNCHANGED <<hold, session>>
    BY <1>1 DEF ExpireCommit, TypeOK, GenRow
  <2>2. \A k \in Drafts : /\ draft'[k].source = draft[k].source
                         /\ draft'[k].status \in {draft[k].status, "abandoned"}
    BY <1>1 DEF ExpireCommit, TypeOK, DraftRow
  <2> QED BY <2>1, <2>2 DEF Plain, Snapshot
<1>2. CASE \E g \in Gens : NormalizeUpload(g)
  BY <1>2 DEF NormalizeUpload, Plain, Snapshot
<1>3. CASE \E k \in Drafts : VersionSettles(k)
  <2> PICK k \in Drafts : VersionSettles(k)
    BY <1>3
  <2>1. /\ draft' = [draft EXCEPT ![k].versions = "done",
              ![k].status = IF draft[k].status = "abandoned" THEN draft[k].status ELSE "analysed"]
        /\ draft \in [Drafts -> DraftRow]
    BY DEF VersionSettles, TypeOK, DraftRow
  <2>2. \A i \in Drafts : /\ draft'[i].source = draft[i].source
                         /\ draft'[i].status \in {draft[i].status, "analysed"}
    BY <2>1 DEF DraftRow
  <2>3. UNCHANGED <<gen, hold, session>>
    BY DEF VersionSettles
  <2> QED BY <2>2, <2>3 DEF Plain, Snapshot
<1> QED BY <1>1, <1>2, <1>3

LEMMA PlacesStep ==
  ASSUME TypeOK, Outcomes, Places, [Next]_vars
  PROVE  Places'
<1>1. UNCHANGED session => Served
  BY DEF Served
<1>2. UNCHANGED db /\ Served => Places'
  <2>1. UNCHANGED db => Plain(Snapshot, Snapshot')
    BY DEF db, Snapshot, Plain
  <2> QED BY <2>1, PlainPlaces
<1>3. CASE UNCHANGED vars
  BY <1>1, <1>2, <1>3 DEF vars, db
<1>4. CASE \E c \in Clients : Begin(c) \/ RequestEnds(c)
  <2>1. Served
    BY <1>4 DEF Begin, RequestEnds, TypeOK, Served
  <2> QED BY <1>2, <1>4, <2>1 DEF Begin, RequestEnds
<1>5. CASE \E c \in Clients : Handler(c)
  BY <1>5, RequestPlaces
<1>6. CASE \E g \in Gens : ClaimQueued(g)
  BY <1>1, <1>6, ClaimPlain, PlainPlaces
<1>7. CASE Tick
  BY <1>1, <1>7, TickPlain, PlainPlaces
<1>8. CASE \/ ExpireCommit
           \/ \E g \in Gens : NormalizeUpload(g)
           \/ \E k \in Drafts : VersionSettles(k)
  BY <1>1, <1>8, DirectPlain, PlainPlaces
<1>9. CASE DeadlockVictim
  BY <1>1, <1>2, <1>9 DEF DeadlockVictim
<1>10. CASE ExpireDeferred \/ Crash
  BY <1>1, <1>2, <1>10 DEF ExpireDeferred, Crash
<1>11. ASSUME NEW g \in Gens, ClaimRunning(g) \/ ExpireClaim(g) \/ TimePasses(g)
       PROVE  Places'
  BY <1>1, <1>2, <1>11 DEF ClaimRunning, ExpireClaim, TimePasses
<1> QED
  BY <1>3, <1>4, <1>5, <1>6, <1>7, <1>8, <1>9, <1>10, <1>11 DEF Next, Claim

\* However regenerations of a draft overlap, the key (creation, attempt) leaves the draft with
\* one open reservation, that of its current source.
THEOREM OneHoldOnly == Spec => []OneHoldPerDraft
<1>1. Init => Places
  <2> SUFFICES ASSUME Init PROVE Places
    OBVIOUS
  <2>1. \A c \in Clients : session[c] = None
    BY DEF Init
  <2>2. \A k \in Drafts : Of(Snapshot, k) = {}
    BY ConstantsAssumption DEF Init, Of, Snapshot, NoGen
  <2>3. Placed(Snapshot)
    BY <2>2 DEF Init, Placed, Snapshot, NoGen, NoDraft
  <2> QED BY <2>1, <2>3 DEF Places
<1>2. TypeOK /\ Outcomes /\ Places /\ [Next]_vars => Places'
  BY PlacesStep
<1>3. Places => OneHoldPerDraft
  BY DEF Places, Placed, Snapshot, OneHoldPerDraft
<1> QED BY <1>1, <1>2, <1>3, TypeCorrect, OutcomesHold, PTL DEF Spec

(***************************************************************************)
(* UploadNormalization: what is playable has been made.                    *)
(***************************************************************************)
\* What is playable is ready at ivadmin, whose jobs do not go back.
PlayMade == Norm!TypeOK /\ Norm!PlayableIsMade

\* Before the first upload nothing is playable.
LEMMA InitMade == Norm!Init => PlayMade
  BY NormalizationAssumption DEF Norm!Init, PlayMade, Norm!TypeOK, Norm!PlayableIsMade,
         Norm!Playable

\* A row takes the answer of the job it asked for; no other row changes.
LEMMA AppliedMade ==
  ASSUME PlayMade, NEW p \in Norm!Uploads,
         nRemote' = nRemote \/
         (nRemote[p] = "none" /\ nRemote' = [nRemote EXCEPT ![p] = "running"]),
         nRemote'[p] # "none", Norm!Applied(p, nRemote'[p])
  PROVE  PlayMade'
<1>1. Norm!TypeOK'
  BY DEF PlayMade, Norm!TypeOK, Norm!Applied
<1>2. ASSUME NEW o \in Norm!Uploads, Norm!Playable(o)'
      PROVE  nRemote'[o] \in {"ready", "backed_up"}
  <2>1. CASE o = p
    BY <1>1, <1>2, <2>1 DEF PlayMade, Norm!TypeOK, Norm!Playable, Norm!Applied
  <2>2. CASE o # p
    BY <1>2, <2>2 DEF PlayMade, Norm!TypeOK, Norm!PlayableIsMade, Norm!Playable, Norm!Applied
  <2> QED BY <2>1, <2>2
<1> QED BY <1>1, <1>2 DEF PlayMade, Norm!PlayableIsMade, Norm!Playable

\* Every step of the creator, of the worker and of ivadmin keeps it.
LEMMA NextMade == PlayMade /\ [Norm!Next]_Norm!vars => PlayMade'
<1> SUFFICES ASSUME PlayMade, [Norm!Next]_Norm!vars  PROVE PlayMade'
  OBVIOUS
<1>1. ASSUME NEW p \in Norm!Uploads, Norm!AddUpload(p)  PROVE PlayMade'
  BY <1>1 DEF PlayMade, Norm!TypeOK, Norm!PlayableIsMade, Norm!Playable, Norm!AddUpload
<1>2. ASSUME NEW p \in Norm!Uploads, Norm!RemoteStep(p)  PROVE PlayMade'
  BY <1>2 DEF PlayMade, Norm!TypeOK, Norm!PlayableIsMade, Norm!Playable, Norm!RemoteStep
<1>3. ASSUME NEW p \in Norm!Uploads, Norm!Answered(p)  PROVE PlayMade'
  <2>1. /\ nRemote' = nRemote
           \/ (nRemote[p] = "none" /\ nRemote' = [nRemote EXCEPT ![p] = "running"])
        /\ nRemote'[p] # "none"
    BY <1>3 DEF Norm!Answered, PlayMade, Norm!TypeOK
  <2> QED BY <1>3, <2>1, AppliedMade DEF Norm!Answered
<1>4. ASSUME NEW p \in Norm!Uploads, Norm!Unanswered(p)  PROVE PlayMade'
  BY <1>4 DEF PlayMade, Norm!TypeOK, Norm!PlayableIsMade, Norm!Playable, Norm!Unanswered
<1>5. ASSUME NEW p \in Norm!Uploads, Norm!Rejected(p)  PROVE PlayMade'
  BY <1>5 DEF PlayMade, Norm!TypeOK, Norm!PlayableIsMade, Norm!Playable, Norm!Rejected
<1>6. CASE UNCHANGED Norm!vars
  BY <1>6 DEF Norm!vars, PlayMade, Norm!TypeOK, Norm!PlayableIsMade, Norm!Playable
<1> QED BY <1>1, <1>2, <1>3, <1>4, <1>5, <1>6 DEF Norm!Next

\* However uploads, answers, lost answers and refusals are ordered, a creator previews only
\* what ivadmin has made.
THEOREM PlayableAreMade == Norm!Spec => []Norm!PlayableIsMade
<1>1. Norm!Spec => []PlayMade
  BY InitMade, NextMade, PTL DEF Norm!Spec
<1>2. PlayMade => Norm!PlayableIsMade
  BY DEF PlayMade
<1> QED BY <1>1, <1>2, PTL
=============================================================================
