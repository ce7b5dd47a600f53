------------------------- MODULE LocalUploadsProofs -------------------------
(***************************************************************************)
(* Theorems of LocalUploads: its type correctness, that the staging file   *)
(* is always a beginning of the client's file, and that what a client      *)
(* which waits for each answer uploads is its whole file.                  *)
(***************************************************************************)
EXTENDS LocalUploads, TLAPS

-----------------------------------------------------------------------------
(* Beginnings of the file                                                  *)

Pre(n) == [i \in 1..n |-> i]

\* What is cut from the start of the file.
LEMMA PreIs ==
  ASSUME NEW n \in 0..Size
  PROVE  SubSeq(File, 1, n) = Pre(n) /\ Len(Pre(n)) = n /\ Pre(n) \in Beginnings
<1>1. SubSeq(File, 1, n) = Pre(n) /\ Len(Pre(n)) = n
  BY UploadAssumption DEF UploadAssumption, File, Pre
<1> QED BY <1>1 DEF Beginnings

\* Every beginning is the first positions of the file.
LEMMA BeginningIs ==
  ASSUME NEW b \in Beginnings
  PROVE  Len(b) \in 0..Size /\ b = Pre(Len(b))
<1>1. PICK n \in 0..Size : b = SubSeq(File, 1, n)
  BY DEF Beginnings
<1> QED BY <1>1, PreIs

\* A beginning as long as the file is the file.
LEMMA WholeIsFile ==
  ASSUME NEW b \in Beginnings, Len(b) = Size
  PROVE  b = File
BY BeginningIs DEF Pre, File

\* A beginning cut back is a beginning.
LEMMA CutIs ==
  ASSUME NEW b \in Beginnings, NEW n \in 0..Len(b)
  PROVE  Cut(b, n) = Pre(n) /\ n \in 0..Size
<1>1. Len(b) \in 0..Size /\ b = Pre(Len(b))
  BY BeginningIs
<1>2. SubSeq(Pre(Len(b)), 1, n) = Pre(n)
  BY <1>1, UploadAssumption DEF UploadAssumption, Pre
<1> QED BY <1>1, <1>2, UploadAssumption DEF Cut, UploadAssumption

\* The bytes that follow a beginning make a longer one.
LEMMA AppendIs ==
  ASSUME NEW n \in 0..Size, NEW k \in Nat, n + k <= Size
  PROVE  Pre(n) \o [i \in 1..k |-> n + i] = Pre(n + k) /\ n + k \in 0..Size
BY UploadAssumption DEF UploadAssumption, Pre

\* The empty file is a beginning.
LEMMA EmptyIs == <<>> = Pre(0) /\ 0 \in 0..Size
BY UploadAssumption DEF UploadAssumption, Pre

\* A beginning is a prefix.
LEMMA BeginningIsPrefix ==
  ASSUME NEW b \in Beginnings
  PROVE  IsPrefix(b, File)
<1>1. Len(b) \in 0..Size /\ b = Pre(Len(b))
  BY BeginningIs
<1>2. \A n \in 0..Size : IsPrefix(Pre(n), File)
  BY UploadAssumption DEF UploadAssumption, Pre, IsPrefix, File
<1> QED BY <1>1, <1>2

-----------------------------------------------------------------------------
(* The inductive invariant                                                 *)

Patch == [pc : {"arrived", "blocked", "writing", "written"}, proc : Procs, snap : SessionRow,
          offset : 0..Size, n : 1..ChunkLimit, fd : {"part", "object", "gone"}]

Finalize ==
    [pc : {"locked", "unlink"}] \cup {Idle}
    \cup [pc : {"hashed", "checked"}, of : Beginnings, staged : BOOLEAN]
    \cup [pc : {"stored"}, clip : BOOLEAN, of : Beginnings]

Typed ==
    /\ session \in SessionRow
    /\ expired \in BOOLEAN /\ impatient \in BOOLEAN
    /\ part \in Beginnings \cup {NoFile}
    /\ objects \subseteq Object
    /\ upload \in UploadRow \cup {NoRow}
    /\ req \in [Requests -> Patch \cup {Idle}]
    /\ \A r \in Requests : IsActive(r) => req[r].offset + req[r].n <= Size
    /\ fin \in Finalize
    /\ told \subseteq 0..Size
    /\ count \in [patches : Nat, crashes : Nat]

\* The file lock: one request at a time writes.
OneHolder == \A r, q \in LockHolder : r = q

\* The request that writes stands at the end of the file it has open, and while that is
\* not the staging file there is none.
Writing(r) ==
    /\ req[r].fd = "part" => part = Pre(req[r].offset)
    /\ req[r].fd # "part" => part = NoFile
    /\ req[r].fd = "object" => \A o \in objects : ~o.clip => o.bytes = Pre(req[r].offset)

WritersStandAtTheEnd ==
    /\ \A r \in Requests : req[r].pc \in {"arrived", "blocked"} => req[r].fd = "part"
    /\ \A r \in Requests : req[r].pc = "writing" => Writing(r)

\* What is stored under a digest as it came, and what finalize has checked, is the file.
StoredIsFile ==
    /\ \A o \in objects : ~o.clip => o.of = File
    /\ fin.pc = "checked" => fin.of = File

IInv == Typed /\ OneHolder /\ WritersStandAtTheEnd /\ StoredIsFile

\* The invariant says of the staging file what the property asks.
LEMMA InvImplies == IInv => StagingIsPrefix
BY BeginningIsPrefix DEF IInv, Typed, StagingIsPrefix

\* A request under way is a PATCH.
LEMMA ActiveIs ==
  ASSUME Typed, NEW r \in Requests, req[r].pc # "idle"
  PROVE  req[r] \in Patch /\ req[r].offset + req[r].n <= Size
BY DEF Typed, Idle, IsActive

\* The start of an upload.
LEMMA InvInit == Init => IInv
<1> SUFFICES ASSUME Init PROVE IInv
  OBVIOUS
<1>1. 0 \in 0..Size
  BY EmptyIs
<1>2. session \in SessionRow
  BY <1>1 DEF Init, SessionRow
<1>3. \A r \in Requests : req[r].pc = "idle"
  BY DEF Init, Idle
<1>4. Typed
  BY <1>1, <1>2, <1>3 DEF Init, Typed, IsActive, Finalize
<1>5. OneHolder /\ WritersStandAtTheEnd
  BY <1>3 DEF OneHolder, LockHolder, WritersStandAtTheEnd
<1>6. StoredIsFile
  BY DEF Init, StoredIsFile, Idle
<1> QED BY <1>4, <1>5, <1>6 DEF IInv

\* What a write appends, all of a chunk or the part that a crash lets through.
LEMMA WrittenIs ==
  ASSUME IInv, NEW r \in Requests, req[r].pc = "writing", NEW k \in 0..req[r].n, Written(r, k)
  PROVE  /\ part' \in Beginnings \cup {NoFile}
         /\ objects' \subseteq Object
         /\ \A o \in objects' : ~o.clip => o.of = File
<1> USE DEF IInv
<1>1. req[r] \in Patch /\ req[r].offset + req[r].n <= Size
  BY ActiveIs
<1>2. /\ req[r].offset \in 0..Size /\ k \in Nat /\ Size \in Nat /\ req[r].n \in Nat
      /\ req[r].offset + k <= Size
  BY <1>1, UploadAssumption DEF UploadAssumption, Patch
<1>3. /\ Pre(req[r].offset) \o Chunk(r, k) = Pre(req[r].offset + k)
      /\ Pre(req[r].offset + k) \in Beginnings
  BY <1>2, AppendIs, PreIs DEF Chunk
<1>4. Writing(r)
  BY DEF WritersStandAtTheEnd
<1>5. part' \in Beginnings \cup {NoFile}
  BY <1>3, <1>4 DEF Written, Writing, Typed
<1>6. ASSUME NEW o \in objects'
      PROVE  o \in Object /\ (~o.clip => o.of = File)
  <2>1. PICK p \in objects :
           o = IF req[r].fd = "object" /\ ~p.clip
                  THEN [p EXCEPT !.bytes = @ \o Chunk(r, k)] ELSE p
    BY DEF Written
  <2>2. p \in Object /\ (~p.clip => p.of = File)
    BY DEF Typed, StoredIsFile
  <2>3. CASE req[r].fd = "object" /\ ~p.clip
    <3>1. p.bytes = Pre(req[r].offset)
      BY <1>4, <2>3 DEF Writing
    <3>2. o = [p EXCEPT !.bytes = Pre(req[r].offset + k)]
      BY <1>3, <2>1, <2>3, <3>1
    <3> QED BY <1>3, <2>2, <3>2 DEF Object
  <2>4. CASE ~(req[r].fd = "object" /\ ~p.clip)
    BY <2>1, <2>2, <2>4
  <2> QED BY <2>3, <2>4
<1> QED BY <1>5, <1>6

\* A request that neither writes nor wrote before, changed into one that does not write,
\* or into one that has written while nobody writes, disturbs no other.
LEMMA OthersStay ==
  ASSUME IInv, NEW r \in Requests, NEW q, req' = [req EXCEPT ![r] = q],
         q.pc \in {"idle", "arrived", "blocked"}, q.pc # "idle" => q.fd = "part",
         UNCHANGED <<part, objects>>
  PROVE  OneHolder' /\ WritersStandAtTheEnd'
BY DEF IInv, Typed, OneHolder, LockHolder, WritersStandAtTheEnd, Writing

\* A step of the request that holds the lock, after which it writes no more.
LEMMA WriterLeaves ==
  ASSUME IInv, NEW r \in Requests, NEW q, r \in LockHolder, req' = [req EXCEPT ![r] = q],
         q.pc \in {"idle", "written"}
  PROVE  OneHolder' /\ WritersStandAtTheEnd'
<1>1. \A s \in Requests : s # r => req[s].pc \notin {"writing", "written"} /\ req'[s] = req[s]
  BY DEF IInv, Typed, OneHolder, LockHolder
<1>2. req'[r] = q
  BY DEF IInv, Typed
<1> QED BY <1>1, <1>2 DEF IInv, OneHolder, LockHolder, WritersStandAtTheEnd

-----------------------------------------------------------------------------
(* The steps of a PATCH                                                    *)

\* A PATCH that arrives.
LEMMA PatchBeginInv ==
  ASSUME IInv, NEW r \in Requests, NEW p \in Procs, NEW offset \in 0..Size,
         NEW n \in 1..ChunkLimit, PatchBegin(r, p, offset, n)
  PROVE  IInv'
<1> DEFINE q == [pc |-> "arrived", proc |-> p, snap |-> session, offset |-> offset, n |-> n,
                 fd |-> "part"]
<1>1. q \in Patch /\ q.offset + q.n <= Size
  BY DEF PatchBegin, IInv, Typed, Patch
<1>2. req' = [req EXCEPT ![r] = q]
      /\ UNCHANGED <<session, expired, impatient, part, objects, upload, fin, told>>
  BY DEF PatchBegin
<1>3. count' \in [patches : Nat, crashes : Nat]
  BY DEF PatchBegin, IInv, Typed
<1> QED
  <2>1. q.pc = "arrived" /\ q.fd = "part"
    OBVIOUS
  <2> HIDE DEF q
  <2>2. Typed'
    BY <1>1, <1>2, <1>3 DEF IInv, Typed, IsActive
  <2>3. OneHolder' /\ WritersStandAtTheEnd'
    BY <1>2, <2>1, OthersStay
  <2> QED BY <1>2, <2>2, <2>3 DEF IInv, StoredIsFile

\* A PATCH that waits for the lock.
LEMMA PatchBlockInv ==
  ASSUME IInv, NEW r \in Requests, PatchBlock(r)
  PROVE  IInv'
<1> DEFINE q == [req[r] EXCEPT !.pc = "blocked"]
<1>1. req[r] \in Patch /\ req[r].offset + req[r].n <= Size /\ req[r].fd = "part"
  BY ActiveIs DEF PatchBlock, IInv, WritersStandAtTheEnd
<1>2. q \in Patch /\ q.offset + q.n <= Size /\ q.pc = "blocked" /\ q.fd = "part"
  BY <1>1 DEF Patch
<1>3. req' = [req EXCEPT ![r] = q]
      /\ UNCHANGED <<session, expired, impatient, part, objects, upload, fin, told, count>>
  BY DEF PatchBlock
<1> HIDE DEF q
<1>4. Typed'
  BY <1>2, <1>3 DEF IInv, Typed, IsActive
<1>5. OneHolder' /\ WritersStandAtTheEnd'
  BY <1>2, <1>3, OthersStay
<1> QED BY <1>3, <1>4, <1>5 DEF IInv, StoredIsFile

\* A PATCH that gets the lock.
LEMMA PatchLockInv ==
  ASSUME IInv, NEW r \in Requests, PatchLock(r)
  PROVE  IInv'
<1> DEFINE committed == IF LengthOf(part) > req[r].snap.offset THEN req[r].snap.offset
                                                               ELSE LengthOf(part)
           cut == IF part = NoFile THEN NoFile ELSE Cut(part, committed)
           q == [req[r] EXCEPT !.pc = "writing"]
<1>1. req[r] \in Patch /\ req[r].offset + req[r].n <= Size /\ req[r].fd = "part"
  BY ActiveIs DEF PatchLock, IInv, WritersStandAtTheEnd
<1>2. \A s \in Requests : req[s].pc \notin {"writing", "written"}
  BY DEF PatchLock, LockHolder
<1>3. LengthOf(part) \in 0..Size
  BY BeginningIs, EmptyIs DEF LengthOf, IInv, Typed
<1>4. committed \in 0..LengthOf(part) /\ committed \in 0..Size
  BY <1>1, <1>3 DEF Patch, SessionRow
<1>5. part # NoFile => part \in Beginnings /\ committed \in 0..Len(part)
  BY <1>4 DEF LengthOf, IInv, Typed
<1>6. part = NoFile => committed = 0
  BY <1>4 DEF LengthOf
<1> HIDE DEF committed
<1>7. part # NoFile => cut = Pre(committed) /\ cut \in Beginnings
  BY <1>4, <1>5, CutIs, PreIs
<1>8. cut \in Beginnings \cup {NoFile}
  BY <1>7
<1>9. CASE /\ req[r].offset # committed /\ told' = told \cup {committed}
           /\ part' = cut /\ req' = [req EXCEPT ![r] = Idle]
  <2>1. Typed'
    BY <1>4, <1>8, <1>9 DEF PatchLock, IInv, Typed, IsActive, Idle
  <2>2. \A s \in Requests : req'[s].pc \notin {"writing", "written"}
    BY <1>2, <1>9 DEF IInv, Typed, Idle
  <2>3. \A s \in Requests : req'[s] = req[s] \/ req'[s] = Idle
    BY <1>9 DEF IInv, Typed
  <2> QED BY <2>1, <2>2, <2>3
          DEF PatchLock, IInv, OneHolder, LockHolder, WritersStandAtTheEnd, StoredIsFile, Idle
<1>10. CASE /\ req[r].offset = committed
            /\ part' = IF part = NoFile THEN <<>> ELSE cut
            /\ req' = [req EXCEPT ![r] = q] /\ told' = told
  <2>1. part' = Pre(committed) /\ part' \in Beginnings
    BY <1>4, <1>6, <1>7, <1>10, EmptyIs, PreIs
  <2>2. q \in Patch /\ q.offset = committed /\ q.pc = "writing" /\ q.fd = "part"
        /\ q.offset + q.n <= Size
    BY <1>1, <1>10 DEF Patch
  <2> HIDE DEF q
  <2>3. Typed'
    BY <1>10, <2>1, <2>2 DEF PatchLock, IInv, Typed, IsActive
  <2>4. req'[r] = q /\ \A s \in Requests : s # r => req'[s] = req[s]
    BY <1>10 DEF IInv, Typed
  <2>5. OneHolder'
    BY <1>2, <2>4 DEF OneHolder, LockHolder
  <2>6. WritersStandAtTheEnd'
    BY <1>2, <2>1, <2>2, <2>4 DEF IInv, WritersStandAtTheEnd, Writing
  <2> QED BY <2>3, <2>5, <2>6 DEF PatchLock, IInv, StoredIsFile
<1> QED BY <1>9, <1>10 DEF PatchLock, committed

\* The body of a PATCH is written.
LEMMA PatchBodyInv ==
  ASSUME IInv, NEW r \in Requests, PatchBody(r)
  PROVE  IInv'
<1> DEFINE q == [req[r] EXCEPT !.pc = "written"]
<1>1. req[r] \in Patch /\ req[r].offset + req[r].n <= Size /\ r \in LockHolder
  BY ActiveIs DEF PatchBody, IInv, LockHolder
<1>2. q \in Patch /\ q.pc = "written" /\ q.offset + q.n <= Size
  BY <1>1 DEF Patch
<1>3. req' = [req EXCEPT ![r] = q] /\ Written(r, req[r].n)
      /\ UNCHANGED <<session, expired, impatient, upload, fin, told, count>>
  BY DEF PatchBody
<1>4. req[r].n \in 0..req[r].n
  BY <1>1, UploadAssumption DEF Patch, UploadAssumption
<1>5. /\ part' \in Beginnings \cup {NoFile} /\ objects' \subseteq Object
      /\ \A o \in objects' : ~o.clip => o.of = File
  BY <1>3, <1>4, WrittenIs DEF PatchBody
<1> HIDE DEF q
<1>6. Typed'
  BY <1>2, <1>3, <1>5 DEF IInv, Typed, IsActive
<1>7. OneHolder' /\ WritersStandAtTheEnd'
  BY <1>1, <1>2, <1>3, WriterLeaves
<1> QED BY <1>3, <1>5, <1>6, <1>7 DEF IInv, StoredIsFile

\* A PATCH that fails cuts the staging file back to where it began.
LEMMA PatchFailInv ==
  ASSUME IInv, NEW r \in Requests, PatchFail(r)
  PROVE  IInv'
<1>1. req[r] \in Patch /\ r \in LockHolder /\ Writing(r)
  BY ActiveIs DEF PatchFail, IInv, LockHolder, WritersStandAtTheEnd
<1>2. part' \in Beginnings \cup {NoFile}
  <2>1. CASE part # NoFile
    <3>1. part = Pre(req[r].offset) /\ req[r].offset \in 0..Size
      BY <1>1, <2>1 DEF Writing, Patch
    <3>2. part \in Beginnings /\ req[r].offset \in 0..Len(part)
      BY <3>1, PreIs
    <3>3. Cut(part, req[r].offset) \in Beginnings
      BY <3>1, <3>2, CutIs, PreIs
    <3> QED BY <2>1, <3>3 DEF PatchFail
  <2>2. CASE part = NoFile
    BY <2>2 DEF PatchFail
  <2> QED BY <2>1, <2>2
<1>3. Typed'
  BY <1>2 DEF PatchFail, IInv, Typed, IsActive, Idle
<1>4. Idle.pc = "idle" /\ req' = [req EXCEPT ![r] = Idle]
  BY DEF PatchFail, Idle
<1>5. OneHolder' /\ WritersStandAtTheEnd'
  BY <1>1, <1>4, WriterLeaves
<1> QED BY <1>3, <1>5 DEF PatchFail, IInv, StoredIsFile

\* A PATCH that commits.
LEMMA PatchCommitInv ==
  ASSUME IInv, NEW r \in Requests, PatchCommit(r)
  PROVE  IInv'
<1> DEFINE total == req[r].offset + req[r].n
           state == IF total = Size THEN "uploaded" ELSE "uploading"
           new == [session EXCEPT
                     !.offset = IF total # req[r].snap.offset THEN total ELSE @,
                     !.state = IF state # req[r].snap.state THEN state ELSE @]
<1>1. req[r] \in Patch /\ total <= Size /\ r \in LockHolder
  BY ActiveIs DEF PatchCommit, IInv, LockHolder
<1>2. total \in 0..Size
  BY <1>1, UploadAssumption DEF Patch, UploadAssumption
<1>3. /\ session' = new /\ told' = told \cup {total} /\ req' = [req EXCEPT ![r] = Idle]
      /\ UNCHANGED <<expired, impatient, part, objects, upload, fin, count>>
  BY DEF PatchCommit
<1>4. state \in {"pending", "uploading", "uploaded", "ready"}
  OBVIOUS
<1> HIDE DEF total, state
<1>5. new \in SessionRow
  BY <1>2, <1>4 DEF IInv, Typed, SessionRow
<1> HIDE DEF new
<1>6. Typed'
  BY <1>2, <1>3, <1>5 DEF IInv, Typed, IsActive, Idle
<1>7. Idle.pc = "idle"
  BY DEF Idle
<1>8. OneHolder' /\ WritersStandAtTheEnd'
  BY <1>1, <1>3, <1>7, WriterLeaves
<1> QED BY <1>3, <1>6, <1>8 DEF IInv, StoredIsFile

-----------------------------------------------------------------------------
(* The steps of finalize, and the rest                                     *)

\* The source a finalize reads is a beginning of the file.
LEMMA SourceIs ==
  ASSUME IInv, NEW source \in Source
  PROVE  source \in Beginnings
<1>1. File \in Beginnings
  <2>1. Size \in 0..Size /\ Pre(Size) = File
    BY UploadAssumption DEF UploadAssumption, Pre, File
  <2> QED BY <2>1, PreIs
<1> QED BY <1>1 DEF Source, IInv, Typed

\* A step that leaves the files and the requests alone.
LEMMA FilesStay ==
  ASSUME IInv, UNCHANGED <<part, objects, req>>
  PROVE  OneHolder' /\ WritersStandAtTheEnd' /\ (\A o \in objects' : ~o.clip => o.of = File)
BY DEF IInv, OneHolder, LockHolder, WritersStandAtTheEnd, Writing, StoredIsFile

\* A step that moves the staging file away: who was writing writes elsewhere.
LEMMA StagingMoves ==
  ASSUME IInv, NEW fd \in {"object", "gone"}, part' = NoFile,
         req' = [r \in Requests |-> IF req[r].pc = "writing"
                                       THEN [req[r] EXCEPT !.fd = fd] ELSE req[r]],
         fd = "object" => \A r \in Requests : req[r].pc = "writing" =>
                             \A o \in objects' : ~o.clip => o.bytes = Pre(req[r].offset)
  PROVE  /\ req' \in [Requests -> Patch \cup {Idle}]
         /\ \A r \in Requests : IsActive(r)' => req'[r].offset + req'[r].n <= Size
         /\ OneHolder' /\ WritersStandAtTheEnd'
<1>1. ASSUME NEW r \in Requests
      PROVE  /\ req'[r] \in Patch \cup {Idle} /\ req'[r].pc = req[r].pc
             /\ IsActive(r)' => req'[r].offset + req'[r].n <= Size
             /\ req[r].pc = "writing" => req'[r].fd = fd /\ req'[r].offset = req[r].offset
             /\ req[r].pc # "writing" => req'[r] = req[r]
  <2>1. CASE req[r].pc = "writing"
    <3>1. req[r] \in Patch /\ req[r].offset + req[r].n <= Size
      BY <2>1, ActiveIs DEF IInv
    <3>2. req'[r] = [req[r] EXCEPT !.fd = fd]
      BY <2>1
    <3> QED BY <2>1, <3>1, <3>2 DEF Patch
  <2>2. CASE req[r].pc # "writing"
    BY <2>2 DEF IInv, Typed, IsActive
  <2> QED BY <2>1, <2>2
<1>2. req' \in [Requests -> Patch \cup {Idle}]
  <2>1. req' = [r \in Requests |-> req'[r]]
    OBVIOUS
  <2> QED BY <1>1, <2>1
<1>3. OneHolder'
  BY <1>1 DEF IInv, OneHolder, LockHolder
<1>4. WritersStandAtTheEnd'
  <2> SUFFICES ASSUME NEW r \in Requests
               PROVE  /\ req'[r].pc \in {"arrived", "blocked"} => req'[r].fd = "part"
                      /\ req'[r].pc = "writing" => Writing(r)'
    BY DEF WritersStandAtTheEnd
  <2> QED BY <1>1 DEF IInv, WritersStandAtTheEnd, Writing
<1> QED BY <1>1, <1>2, <1>3, <1>4

\* Finalize keeps the invariant.
LEMMA FinalizeInv ==
  ASSUME IInv,
         \/ FinalizeBegin \/ FinalizeHash \/ PrepareClip \/ UseCached \/ CheckStaged
         \/ StoreStaged \/ FinalizeCommit \/ FinalizeUnlink \/ FinalizeFail
  PROVE  IInv'
<1>1. CASE FinalizeBegin
  BY <1>1, FilesStay DEF FinalizeBegin, IInv, Typed, Finalize, IsActive, StoredIsFile
<1>2. CASE FinalizeHash
  <2>1. PICK source \in Source : fin' = [pc |-> "hashed", of |-> source, staged |-> part # NoFile]
    BY <1>2 DEF FinalizeHash
  <2>2. fin' \in Finalize /\ fin'.pc # "checked"
    BY <2>1, SourceIs DEF Finalize
  <2> QED BY <1>2, <2>2, FilesStay DEF FinalizeHash, IInv, Typed, IsActive, StoredIsFile
<1>3. CASE PrepareClip
  <2>1. PICK source \in Source :
           /\ objects' = objects \cup {[clip |-> TRUE, of |-> source, bytes |-> source]}
           /\ fin' = [pc |-> "stored", clip |-> TRUE, of |-> source]
    BY <1>3 DEF PrepareClip
  <2>2. fin' \in Finalize /\ fin'.pc # "checked" /\ objects' \subseteq Object
    <3>1. source \in Beginnings
      BY SourceIs
    <3>2. [clip |-> TRUE, of |-> source, bytes |-> source] \in Object
      BY <3>1 DEF Object
    <3>3. fin' \in Finalize /\ fin'.pc # "checked"
      BY <2>1, <3>1 DEF Finalize
    <3> QED BY <2>1, <3>2, <3>3 DEF IInv, Typed
  <2>3. \A o \in objects' : ~o.clip => o \in objects
    BY <2>1
  <2>4. Typed'
    BY <1>3, <2>2 DEF PrepareClip, IInv, Typed, IsActive
  <2>5. OneHolder' /\ WritersStandAtTheEnd' /\ StoredIsFile'
    BY <1>3, <2>2, <2>3
       DEF PrepareClip, IInv, OneHolder, LockHolder, WritersStandAtTheEnd, Writing, StoredIsFile
  <2> QED BY <2>4, <2>5 DEF IInv
<1>4. CASE UseCached
  <2>1. fin' \in Finalize /\ fin'.pc # "checked"
    BY <1>4 DEF UseCached, IInv, Typed, Finalize, Idle
  <2> QED BY <1>4, <2>1, FilesStay DEF UseCached, IInv, Typed, IsActive, StoredIsFile
<1>5. CASE CheckStaged
  <2>1. fin \in [pc : {"hashed", "checked"}, of : Beginnings, staged : BOOLEAN]
    BY <1>5 DEF CheckStaged, IInv, Typed, Finalize, Idle
  <2>2. fin.of = File
    BY <1>5, <2>1, WholeIsFile DEF CheckStaged, LengthOf
  <2>3. fin' \in Finalize /\ fin'.of = File
    BY <1>5, <2>1, <2>2 DEF CheckStaged, Finalize
  <2> QED BY <1>5, <2>3, FilesStay DEF CheckStaged, IInv, Typed, IsActive, StoredIsFile
<1>6. CASE StoreStaged
  <2> DEFINE same == {o \in objects : ~o.clip /\ o.of = fin.of}
             intact == {o \in same : Len(o.bytes) = Size}
             new == [clip |-> FALSE, of |-> fin.of, bytes |-> part]
             fd == IF intact # {} THEN "gone" ELSE "object"
  <2>1. /\ part # NoFile /\ part' = NoFile
        /\ objects' = IF intact # {} THEN objects ELSE (objects \ same) \cup {new}
        /\ req' = [r \in Requests |-> IF req[r].pc = "writing"
                                         THEN [req[r] EXCEPT !.fd = fd] ELSE req[r]]
        /\ fin' = [pc |-> "stored", clip |-> FALSE, of |-> fin.of]
        /\ UNCHANGED <<session, expired, impatient, upload, told, count>>
    BY <1>6 DEF StoreStaged
  <2>2. fin.of = File /\ fin.of \in Beginnings /\ part \in Beginnings
    BY <1>6, <2>1 DEF StoreStaged, IInv, StoredIsFile, Typed, Finalize, Idle
  <2>3. new \in Object
    BY <2>2 DEF Object
  <2>4. fd \in {"object", "gone"}
    OBVIOUS
  <2>5. fd = "object" => \A o \in objects' : ~o.clip => o.bytes = part
    BY <2>1, <2>2 DEF IInv, StoredIsFile
  <2>6. \A r \in Requests : req[r].pc = "writing" => part = Pre(req[r].offset)
    BY <2>1 DEF IInv, WritersStandAtTheEnd, Writing, Typed, Patch
  <2>7. objects' \subseteq Object /\ \A o \in objects' : ~o.clip => o.of = File
    <3>1. new.of = File
      BY <2>2
    <3>2. \A o \in objects' : o \in objects \/ o = new
      BY <2>1
    <3> HIDE DEF new
    <3> QED BY <2>3, <3>1, <3>2 DEF IInv, Typed, StoredIsFile
  <2>8. fin' \in Finalize /\ fin'.pc # "checked"
    BY <2>1, <2>2 DEF Finalize
  <2> HIDE DEF fd, new, intact, same
  <2>9. /\ req' \in [Requests -> Patch \cup {Idle}]
        /\ \A r \in Requests : IsActive(r)' => req'[r].offset + req'[r].n <= Size
        /\ OneHolder' /\ WritersStandAtTheEnd'
    BY <2>1, <2>4, <2>5, <2>6, StagingMoves
  <2> QED BY <2>1, <2>7, <2>8, <2>9 DEF IInv, Typed, StoredIsFile
<1>7. CASE FinalizeCommit
  <2>1. fin \in [pc : {"stored"}, clip : BOOLEAN, of : Beginnings]
    BY <1>7 DEF FinalizeCommit, IInv, Typed, Finalize, Idle
  <2>2. upload' \in UploadRow
    BY <1>7, <2>1 DEF FinalizeCommit, UploadRow
  <2>3. session' \in SessionRow
    BY <1>7 DEF FinalizeCommit, IInv, Typed, SessionRow
  <2>4. fin' \in Finalize /\ fin'.pc # "checked"
    BY <1>7 DEF FinalizeCommit, Finalize
  <2> QED BY <1>7, <2>2, <2>3, <2>4, FilesStay
          DEF FinalizeCommit, IInv, Typed, IsActive, StoredIsFile
<1>8. CASE FinalizeUnlink
  <2>1. /\ req' \in [Requests -> Patch \cup {Idle}]
        /\ \A r \in Requests : IsActive(r)' => req'[r].offset + req'[r].n <= Size
        /\ OneHolder' /\ WritersStandAtTheEnd'
    BY <1>8, StagingMoves DEF FinalizeUnlink
  <2>2. fin' = Idle /\ Idle \in Finalize /\ Idle.pc # "checked"
    BY <1>8 DEF FinalizeUnlink, Finalize, Idle
  <2> QED BY <1>8, <2>1, <2>2 DEF FinalizeUnlink, IInv, Typed, StoredIsFile
<1>9. CASE FinalizeFail
  <2>1. fin' = Idle /\ Idle \in Finalize /\ Idle.pc # "checked"
    BY <1>9 DEF FinalizeFail, Finalize, Idle
  <2> QED BY <1>9, <2>1, FilesStay DEF FinalizeFail, IInv, Typed, IsActive, StoredIsFile
<1> QED BY <1>1, <1>2, <1>3, <1>4, <1>5, <1>6, <1>7, <1>8, <1>9

\* A restart of the API keeps the invariant.
LEMMA CrashInv ==
  ASSUME IInv, Crash
  PROVE  IInv'
<1>1. /\ part' \in Beginnings \cup {NoFile} /\ objects' \subseteq Object
      /\ \A o \in objects' : ~o.clip => o.of = File
  <2>1. CASE UNCHANGED <<part, objects>>
    BY <2>1 DEF IInv, Typed, StoredIsFile
  <2>2. ASSUME NEW r \in LockHolder, req[r].pc = "writing", NEW k \in 0..req[r].n, Written(r, k)
        PROVE  /\ part' \in Beginnings \cup {NoFile} /\ objects' \subseteq Object
               /\ \A o \in objects' : ~o.clip => o.of = File
    BY <2>2, WrittenIs DEF LockHolder
  <2> QED BY <2>1, <2>2 DEF Crash
<1>2. \A r \in Requests : req'[r] = Idle /\ Idle.pc = "idle"
  BY DEF Crash, Idle
<1>3. fin' = Idle /\ Idle \in Finalize /\ Idle.pc = "idle"
  BY DEF Crash, Finalize, Idle
<1>4. req' \in [Requests -> Patch \cup {Idle}] /\ count' \in [patches : Nat, crashes : Nat]
  BY DEF Crash, IInv, Typed
<1>5. Typed'
  BY <1>1, <1>2, <1>3, <1>4 DEF Crash, IInv, Typed, IsActive
<1>6. OneHolder' /\ WritersStandAtTheEnd' /\ StoredIsFile'
  BY <1>1, <1>2, <1>3 DEF OneHolder, LockHolder, WritersStandAtTheEnd, StoredIsFile
<1> QED BY <1>5, <1>6 DEF IInv

\* Every step keeps the invariant.
LEMMA InvNext == IInv /\ [Next]_vars => IInv'
<1> SUFFICES ASSUME IInv, [Next]_vars PROVE IInv'
  OBVIOUS
<1>1. CASE Inspect
  BY <1>1, FilesStay DEF Inspect, IInv, Typed, SessionRow, IsActive, StoredIsFile
<1>2. CASE Expire
  BY <1>2, FilesStay DEF Expire, IInv, Typed, IsActive, StoredIsFile
<1>3. CASE UNCHANGED vars
  BY <1>3, FilesStay DEF vars, IInv, Typed, IsActive, StoredIsFile
<1> QED BY <1>1, <1>2, <1>3, PatchBeginInv, PatchBlockInv, PatchLockInv, PatchBodyInv,
           PatchFailInv, PatchCommitInv, FinalizeInv, CrashInv DEF Next

\* The rows, the files and the requests of every instance are what their types say: no
\* offset lies beyond the file, no stored object holds bytes out of order.
THEOREM TypeCorrect == Spec => []TypeOK
<1>1. IInv => TypeOK
  BY DEF IInv, Typed, TypeOK, Patch, Finalize, Idle
<1> QED BY <1>1, InvInit, InvNext, PTL DEF Spec

\* For files of any length, chunks of any size and any number of processes and requests:
\* whatever is repeated, overlaps, fails or is cut off by a crash, the staging file has no
\* gap and nothing twice.
THEOREM StagingHasNoGap == Spec => []StagingIsPrefix
BY InvInit, InvNext, InvImplies, PTL DEF Spec
-----------------------------------------------------------------------------
(* A client that waits for each answer                                     *)

\* The cached object of the client's file.
Original == [clip |-> FALSE, of |-> File, bytes |-> File]

\* The one request under way knows the offset of the row, and the state but for a finalize.
OneAtATime ==
    /\ \A r, q \in Requests : IsActive(r) /\ IsActive(q) => r = q
    /\ \A r \in Requests : IsActive(r) =>
          /\ req[r].snap.offset = session.offset
          /\ session.state \in {req[r].snap.state, "ready"}
          /\ req[r].fd # "object"
    /\ session.state = "uploaded" => session.offset = Size

\* A long video stays in the staging file until its clip is committed.
LongIsStaged ==
    session.long /\ upload = NoRow =>
        /\ \A r \in Requests : req[r].pc \in {"writing", "written"} => req[r].fd = "part"
        /\ \A r \in Requests : req[r].pc = "written" => part = Pre(req[r].offset + req[r].n)
        /\ session.state = "uploaded" => part = File

\* What a finalize has made sure of.
FinalizeKnows ==
    /\ \A o \in objects : o.bytes = o.of
    /\ fin.pc \in {"locked", "hashed", "checked", "stored"} =>
          session.state = "uploaded" /\ upload = NoRow
    /\ fin.pc = "hashed" /\ ~session.long /\ ~fin.staged => fin.of = File /\ Original \in objects
    /\ fin.pc = "checked" => ~session.long /\ part = File
    /\ fin.pc = "stored" => /\ fin.of = File
                            /\ [clip |-> fin.clip, of |-> File, bytes |-> File] \in objects
    /\ fin.pc = "unlink" => upload # NoRow
    /\ upload # NoRow => /\ upload.of = File
                         /\ [clip |-> upload.clip, of |-> File, bytes |-> File] \in objects

\* What strengthens IInv for such a client.
Patient == ~impatient => OneAtATime /\ LongIsStaged /\ FinalizeKnows

\* The file is its own longest beginning.
LEMMA FileIs == Size \in 0..Size /\ File = Pre(Size) /\ File \in Beginnings /\ Len(File) = Size
<1>1. Size \in 0..Size /\ Pre(Size) = File
  BY UploadAssumption DEF UploadAssumption, Pre, File
<1> QED BY <1>1, PreIs

\* A placeholder is no file and no row.
LEMMA NothingIs == NoFile \notin Beginnings /\ NoRow \notin UploadRow
<1>1. \A b \in Beginnings : \E n \in 0..Size : b = [i \in 1..n |-> i]
  BY BeginningIs DEF Pre
<1> QED BY <1>1, PlaceholderAssumption DEF PlaceholderAssumption, UploadRow

\* Nobody writes to a staging file that is complete.
LEMMA NoWriter ==
  ASSUME IInv, part = File, NEW r \in Requests
  PROVE  req[r].pc # "writing"
<1> SUFFICES ASSUME req[r].pc = "writing" PROVE FALSE
  OBVIOUS
<1>1. req[r] \in Patch /\ req[r].offset + req[r].n <= Size /\ Writing(r)
  BY ActiveIs DEF IInv, WritersStandAtTheEnd
<1>2. req[r].offset \in 0..Size /\ req[r].n \in 1..ChunkLimit
  BY <1>1 DEF Patch
<1>3. req[r].offset # Size
  BY <1>1, <1>2, UploadAssumption DEF UploadAssumption
<1>4. part # NoFile
  BY FileIs, NothingIs
<1>5. File = Pre(req[r].offset)
  BY <1>1, <1>4 DEF Writing
<1> QED BY <1>2, <1>3, <1>5, FileIs, PreIs

\* The start of an upload.
LEMMA PatientInit == Init => Patient
<1> SUFFICES ASSUME Init PROVE Patient
  OBVIOUS
<1>1. /\ \A r \in Requests : req[r].pc = "idle"
      /\ fin.pc = "idle" /\ objects = {} /\ upload = NoRow /\ session.state = "pending"
  BY DEF Init, Idle
<1> QED BY <1>1 DEF Patient, OneAtATime, LongIsStaged, FinalizeKnows, IsActive

\* A PATCH that arrives or waits.
LEMMA PatchBeginPatient ==
  ASSUME IInv, Patient, ~impatient, NEW r \in Requests, NEW p \in Procs, NEW offset \in 0..Size,
         NEW n \in 1..ChunkLimit, PatchBegin(r, p, offset, n)
  PROVE  Patient'
<1> DEFINE q == [pc |-> "arrived", proc |-> p, snap |-> session, offset |-> offset, n |-> n,
                 fd |-> "part"]
<1>1. /\ req' = [req EXCEPT ![r] = q] /\ \A s \in Requests : ~IsActive(s)
      /\ UNCHANGED <<session, part, objects, upload, fin>>
  BY DEF PatchBegin
<1>2. q.pc = "arrived" /\ q.snap = session /\ q.fd = "part"
  OBVIOUS
<1> HIDE DEF q
<1>3. req'[r] = q /\ \A s \in Requests \ {r} : req'[s] = req[s] /\ req[s].pc = "idle"
  BY <1>1 DEF IInv, Typed, IsActive
<1>4. OneAtATime'
  BY <1>1, <1>2, <1>3 DEF Patient, OneAtATime, IsActive
<1>5. LongIsStaged'
  BY <1>1, <1>2, <1>3 DEF Patient, LongIsStaged
<1>6. FinalizeKnows'
  BY <1>1 DEF Patient, FinalizeKnows
<1> QED BY <1>4, <1>5, <1>6 DEF Patient

LEMMA PatchBlockPatient ==
  ASSUME IInv, Patient, ~impatient, NEW r \in Requests, PatchBlock(r)
  PROVE  Patient'
<1> DEFINE q == [req[r] EXCEPT !.pc = "blocked"]
<1>1. req[r] \in Patch /\ IsActive(r)
  BY ActiveIs DEF PatchBlock, IInv, IsActive
<1>2. /\ req' = [req EXCEPT ![r] = q] /\ UNCHANGED <<session, part, objects, upload, fin>>
      /\ q.pc = "blocked" /\ q.snap = req[r].snap /\ q.fd = req[r].fd
  BY <1>1 DEF PatchBlock, Patch
<1> HIDE DEF q
<1>3. req'[r] = q /\ \A s \in Requests \ {r} : req'[s] = req[s]
  BY <1>2 DEF IInv, Typed
<1>4. OneAtATime'
  BY <1>1, <1>2, <1>3 DEF Patient, OneAtATime, IsActive
<1>5. LongIsStaged'
  BY <1>2, <1>3 DEF Patient, LongIsStaged
<1>6. FinalizeKnows'
  BY <1>2 DEF Patient, FinalizeKnows
<1> QED BY <1>4, <1>5, <1>6 DEF Patient

\* A PATCH that gets the lock: it leaves a staging file that is complete.
LEMMA PatchLockPatient ==
  ASSUME IInv, Patient, ~impatient, NEW r \in Requests, PatchLock(r)
  PROVE  Patient'
<1> DEFINE committed == IF LengthOf(part) > req[r].snap.offset THEN req[r].snap.offset
                                                               ELSE LengthOf(part)
           q == [req[r] EXCEPT !.pc = "writing"]
<1>1. req[r] \in Patch /\ req[r].offset + req[r].n <= Size /\ IsActive(r) /\ req[r].fd = "part"
  BY ActiveIs DEF PatchLock, IInv, WritersStandAtTheEnd, IsActive
<1>2. /\ \A s \in Requests : req[s].pc \notin {"writing", "written"}
      /\ UNCHANGED <<session, objects, upload, fin>>
  BY DEF PatchLock, LockHolder
<1>3. q.pc = "writing" /\ q.snap = req[r].snap /\ q.fd = req[r].fd
  BY <1>1 DEF Patch
<1>4. \/ req[r].offset # committed /\ req' = [req EXCEPT ![r] = Idle]
         /\ part' = IF part = NoFile THEN NoFile ELSE Cut(part, committed)
      \/ req[r].offset = committed /\ req' = [req EXCEPT ![r] = q]
  BY DEF PatchLock
<1>5. part = File /\ session.state = "uploaded" => part' = File
  <2> SUFFICES ASSUME part = File, session.state = "uploaded" PROVE part' = File
    OBVIOUS
  <2>1. part # NoFile /\ LengthOf(part) = Size
    BY FileIs, NothingIs DEF LengthOf
  <2>2. req[r].snap.offset = Size
    BY <1>1 DEF Patient, OneAtATime
  <2>3. committed = Size
    BY <2>1, <2>2, UploadAssumption DEF UploadAssumption
  <2>4. req[r].offset # Size
    BY <1>1, UploadAssumption DEF Patch, UploadAssumption
  <2>5. part' = Cut(File, Size)
    BY <1>4, <2>1, <2>3, <2>4
  <2>6. Size \in 0..Len(File)
    BY FileIs
  <2> QED BY <2>5, <2>6, CutIs, FileIs
<1> HIDE DEF q, committed
<1>6. /\ req'[r] \in {Idle, q} /\ \A s \in Requests \ {r} : req'[s] = req[s]
  BY <1>4 DEF IInv, Typed
<1>7. OneAtATime'
  BY <1>1, <1>2, <1>3, <1>6 DEF Patient, OneAtATime, IsActive, Idle
<1>8. LongIsStaged'
  BY <1>1, <1>2, <1>3, <1>5, <1>6 DEF Patient, LongIsStaged, Idle
<1>9. FinalizeKnows'
  BY <1>2, <1>5 DEF Patient, FinalizeKnows
<1> QED BY <1>7, <1>8, <1>9 DEF Patient
\* A write goes to the staging file or nowhere: no stored object changes.
LEMMA ObjectsStay ==
  ASSUME Patient, ~impatient, NEW r \in Requests, req[r].pc = "writing", NEW k, Written(r, k)
  PROVE  objects' = objects
<1>1. req[r].fd # "object"
  BY DEF Patient, OneAtATime, IsActive
<1> QED BY <1>1 DEF Written

LEMMA PatchBodyPatient ==
  ASSUME IInv, Patient, ~impatient, NEW r \in Requests, PatchBody(r)
  PROVE  Patient'
<1> DEFINE q == [req[r] EXCEPT !.pc = "written"]
<1>1. /\ req[r] \in Patch /\ req[r].offset + req[r].n <= Size /\ IsActive(r)
      /\ req[r].pc = "writing" /\ Writing(r)
  BY ActiveIs DEF PatchBody, IInv, WritersStandAtTheEnd, IsActive
<1>2. part # File
  BY <1>1, NoWriter
<1>3. /\ q.pc = "written" /\ q.snap = req[r].snap /\ q.fd = req[r].fd
      /\ q.offset = req[r].offset /\ q.n = req[r].n
  BY <1>1 DEF Patch
<1>4. /\ req' = [req EXCEPT ![r] = q] /\ objects' = objects /\ Written(r, req[r].n)
      /\ UNCHANGED <<session, upload, fin>>
  BY <1>1, ObjectsStay DEF PatchBody
<1>5. req[r].fd = "part" => part' = Pre(req[r].offset + req[r].n)
  <2>1. req[r].offset \in 0..Size /\ req[r].n \in Nat
    BY <1>1, UploadAssumption DEF Patch, UploadAssumption
  <2> QED BY <1>1, <1>4, <2>1, AppendIs DEF Written, Writing, Chunk
<1> HIDE DEF q
<1>6. req'[r] = q /\ \A s \in Requests \ {r} : req'[s] = req[s] /\ req[s].pc = "idle"
  BY <1>1, <1>4 DEF IInv, Typed, Patient, OneAtATime, IsActive
<1>7. OneAtATime'
  BY <1>1, <1>3, <1>4, <1>6 DEF Patient, OneAtATime, IsActive
<1>8. LongIsStaged'
  BY <1>1, <1>2, <1>3, <1>4, <1>5, <1>6 DEF Patient, LongIsStaged
<1>9. FinalizeKnows'
  BY <1>2, <1>4 DEF Patient, FinalizeKnows
<1> QED BY <1>4, <1>7, <1>8, <1>9 DEF Patient

\* When the one request ends, none is under way.
LEMMA AllIdle ==
  ASSUME IInv, Patient, ~impatient, NEW r \in Requests, IsActive(r), req' = [req EXCEPT ![r] = Idle]
  PROVE  \A s \in Requests : req'[s] = Idle
<1>1. \A s \in Requests \ {r} : req[s].pc = "idle"
  BY DEF Patient, OneAtATime, IsActive
<1>2. \A s \in Requests \ {r} : req[s] = Idle
  BY <1>1 DEF IInv, Typed, Patch
<1> QED BY <1>2 DEF IInv, Typed

\* A PATCH that fails.
LEMMA PatchFailPatient ==
  ASSUME IInv, Patient, ~impatient, NEW r \in Requests, PatchFail(r)
  PROVE  Patient'
<1>1. part # File /\ IsActive(r)
  BY NoWriter DEF PatchFail, IsActive
<1>2. req' = [req EXCEPT ![r] = Idle] /\ UNCHANGED <<session, objects, upload, fin>>
  BY DEF PatchFail
<1>3. \A s \in Requests : req'[s] = Idle
  BY <1>1, <1>2, AllIdle
<1>4. OneAtATime'
  BY <1>2, <1>3 DEF Patient, OneAtATime, IsActive, Idle
<1>5. LongIsStaged'
  BY <1>1, <1>2, <1>3 DEF Patient, LongIsStaged, Idle
<1>6. FinalizeKnows'
  BY <1>1, <1>2 DEF Patient, FinalizeKnows
<1> QED BY <1>4, <1>5, <1>6 DEF Patient

\* A PATCH that commits: the row says "uploaded" when the staging file is complete.
LEMMA PatchCommitPatient ==
  ASSUME IInv, Patient, ~impatient, NEW r \in Requests, PatchCommit(r)
  PROVE  Patient'
<1> DEFINE total == req[r].offset + req[r].n
           state == IF total = Size THEN "uploaded" ELSE "uploading"
           snap == req[r].snap
<1>1. req[r] \in Patch /\ IsActive(r) /\ req[r].pc = "written"
  BY ActiveIs DEF PatchCommit, IInv, IsActive
<1>2. /\ req' = [req EXCEPT ![r] = Idle] /\ UNCHANGED <<part, objects, upload, fin>>
      /\ fin.pc \in {"idle", "unlink"}
  BY DEF PatchCommit
<1>3. /\ snap.offset = session.offset /\ session.state \in {snap.state, "ready"}
  BY <1>1 DEF Patient, OneAtATime
<1>4. /\ session'.offset = IF total # snap.offset THEN total ELSE session.offset
      /\ session'.state = IF state # snap.state THEN state ELSE session.state
      /\ session'.long = session.long
  <2>1. session \in SessionRow
    BY DEF IInv, Typed
  <2>2. session' = [session EXCEPT
                      !.offset = IF total # snap.offset THEN total ELSE session.offset,
                      !.state = IF state # snap.state THEN state ELSE session.state]
    BY <2>1 DEF PatchCommit, SessionRow
  <2> HIDE DEF total, state, snap
  <2> QED BY <2>1, <2>2 DEF SessionRow
<1>5. session'.offset = total
  BY <1>3, <1>4
<1>6. session'.state = "uploaded" => total = Size
  BY <1>3, <1>4
<1>7. session.long /\ upload = NoRow => part = Pre(total)
  BY <1>1 DEF Patient, LongIsStaged
<1> HIDE DEF total, state, snap
<1>8. \A s \in Requests : req'[s] = Idle
  BY <1>1, <1>2, AllIdle
<1>9. OneAtATime'
  BY <1>5, <1>6, <1>8 DEF OneAtATime, IsActive, Idle
<1>10. LongIsStaged'
  BY <1>2, <1>4, <1>6, <1>7, <1>8, FileIs DEF LongIsStaged, Idle
<1>11. FinalizeKnows'
  BY <1>2 DEF Patient, FinalizeKnows
<1> QED BY <1>9, <1>10, <1>11 DEF Patient

\* A finalize that moves nothing away leaves the requests and the staging of a long video.
LEMMA RequestsStay ==
  ASSUME Patient, ~impatient, UNCHANGED <<session, part, upload, req>>
  PROVE  OneAtATime' /\ LongIsStaged'
  BY DEF Patient, OneAtATime, LongIsStaged, IsActive

\* Finalize looks at the source, makes the clip or takes the cached file.
LEMMA FinalizeReadsPatient ==
  ASSUME IInv, Patient, ~impatient,
         FinalizeBegin \/ FinalizeHash \/ PrepareClip \/ UseCached \/ CheckStaged \/ FinalizeFail
  PROVE  Patient'
<1>1. UNCHANGED <<session, part, upload, req>>
  <2>1. CASE FinalizeHash
    BY <2>1 DEF FinalizeHash
  <2>2. CASE PrepareClip
    BY <2>2 DEF PrepareClip
  <2>3. CASE FinalizeBegin \/ UseCached \/ CheckStaged \/ FinalizeFail
    BY <2>3 DEF FinalizeBegin, UseCached, CheckStaged, FinalizeFail
  <2> QED BY <2>1, <2>2, <2>3
<1>2. OneAtATime' /\ LongIsStaged'
  BY <1>1, RequestsStay
<1>3. FinalizeKnows
  BY DEF Patient
<1>4. CASE FinalizeBegin
  <2>1. fin'.pc = "locked" /\ objects' = objects
    BY <1>4 DEF FinalizeBegin
  <2>2. session.state = "uploaded" /\ upload = NoRow
    BY <1>4 DEF FinalizeBegin
  <2>3. FinalizeKnows'
    BY <1>1, <1>3, <2>1, <2>2 DEF FinalizeKnows
  <2> QED BY <1>2, <2>3 DEF Patient
<1>5. CASE FinalizeHash
  <2> PICK source \in Source : fin' = [pc |-> "hashed", of |-> source, staged |-> part # NoFile]
    BY <1>5 DEF FinalizeHash
  <2>1. /\ fin'.pc = "hashed" /\ fin'.of = source /\ fin'.staged = (part # NoFile)
        /\ fin.pc = "locked" /\ objects' = objects
    BY <1>5 DEF FinalizeHash
  <2>2. part = NoFile => source = File /\ Original \in objects
    <3> SUFFICES ASSUME part = NoFile PROVE source = File /\ Original \in objects
      OBVIOUS
    <3> PICK o \in objects : ~o.clip /\ o.of = File /\ o.bytes = File /\ source = o.bytes
      BY DEF Source
    <3>1. o = Original
      BY DEF IInv, Typed, Object, Original
    <3> QED BY <3>1
  <2>3. FinalizeKnows'
    BY <1>1, <1>3, <2>1, <2>2 DEF FinalizeKnows
  <2> QED BY <1>2, <2>3 DEF Patient
<1>6. CASE PrepareClip
  <2>1. session.long /\ fin.pc = "hashed" /\ session.state = "uploaded" /\ upload = NoRow
    BY <1>3, <1>6 DEF PrepareClip, NeedsPreparation, FinalizeKnows
  <2>2. part = File /\ part # NoFile
    BY <2>1, FileIs, NothingIs DEF Patient, LongIsStaged
  <2>3. Source = {File}
    BY <2>2 DEF Source
  <2> DEFINE clip == [clip |-> TRUE, of |-> File, bytes |-> File]
  <2>4. /\ objects' = objects \cup {clip}
        /\ fin'.pc = "stored" /\ fin'.of = File /\ fin'.clip = TRUE
    BY <1>6, <2>3 DEF PrepareClip
  <2>5. clip.bytes = clip.of
    OBVIOUS
  <2>6. [clip |-> fin'.clip, of |-> File, bytes |-> File] \in objects'
    BY <2>4
  <2> HIDE DEF clip
  <2>7. FinalizeKnows'
    BY <1>1, <1>3, <2>1, <2>4, <2>5, <2>6 DEF FinalizeKnows
  <2> QED BY <1>2, <2>7 DEF Patient
<1>7. CASE UseCached
  <2>1. fin.of = File /\ Original \in objects /\ session.state = "uploaded" /\ upload = NoRow
    BY <1>3, <1>7 DEF UseCached, NeedsPreparation, FinalizeKnows
  <2>2. /\ fin'.pc = "stored" /\ fin'.of = File /\ fin'.clip = FALSE /\ objects' = objects
    BY <1>7, <2>1 DEF UseCached
  <2>3. FinalizeKnows'
    BY <1>1, <1>3, <2>1, <2>2 DEF FinalizeKnows, Original
  <2> QED BY <1>2, <2>3 DEF Patient
<1>8. CASE CheckStaged
  <2>1. part = File
    BY <1>8, WholeIsFile DEF CheckStaged, LengthOf, IInv, Typed
  <2>2. fin.pc = "hashed" /\ ~session.long /\ objects' = objects
    BY <1>8 DEF CheckStaged, NeedsPreparation
  <2>3. fin'.pc = "checked"
    BY <1>8, <2>2 DEF CheckStaged, IInv, Typed, Finalize, Idle
  <2>4. FinalizeKnows'
    BY <1>1, <1>3, <2>1, <2>2, <2>3 DEF FinalizeKnows
  <2> QED BY <1>2, <2>4 DEF Patient
<1>9. CASE FinalizeFail
  <2>1. fin'.pc = "idle" /\ objects' = objects
    BY <1>9 DEF FinalizeFail, Idle
  <2>2. FinalizeKnows'
    BY <1>1, <1>3, <2>1 DEF FinalizeKnows
  <2> QED BY <1>2, <2>2 DEF Patient
<1> QED BY <1>4, <1>5, <1>6, <1>7, <1>8, <1>9
\* The staging file becomes the cached object.
LEMMA StoreStagedPatient ==
  ASSUME IInv, Patient, ~impatient, StoreStaged
  PROVE  Patient'
<1> DEFINE same == {o \in objects : ~o.clip /\ o.of = fin.of}
           intact == {o \in same : Len(o.bytes) = Size}
<1>1. /\ OneAtATime /\ LongIsStaged /\ FinalizeKnows /\ fin.pc = "checked"
      /\ part = File /\ fin.of = File /\ ~session.long
      /\ session.state = "uploaded" /\ upload = NoRow
  BY DEF StoreStaged, Patient, FinalizeKnows, IInv, StoredIsFile
<1>2. \A r \in Requests : req[r].pc # "writing"
  BY <1>1, NoWriter
<1>3. UNCHANGED <<session, upload>> /\ fin' = [pc |-> "stored", clip |-> FALSE, of |-> File]
  BY <1>1 DEF StoreStaged
<1>4. \A r \in Requests : req'[r] = req[r]
  BY <1>2 DEF StoreStaged
<1>5. \A o \in objects : o.bytes = o.of /\ o \in Object
  BY <1>1 DEF FinalizeKnows, IInv, Typed
<1>6. \A o \in same : o = Original /\ o \in intact
  BY <1>1, <1>5, FileIs DEF Object, Original
<1>7. objects' = IF intact # {} THEN objects ELSE (objects \ same) \cup {Original}
  BY <1>1 DEF StoreStaged, Original
<1>8. Original \in objects' /\ \A o \in objects' : o.bytes = o.of
  <2>1. Original.bytes = Original.of
    BY DEF Original
  <2> QED BY <1>5, <1>6, <1>7, <2>1
<1>9. OneAtATime'
  BY <1>1, <1>3, <1>4 DEF OneAtATime, IsActive
<1>10. LongIsStaged'
  BY <1>1, <1>3 DEF LongIsStaged
<1>11. FinalizeKnows'
  BY <1>1, <1>3, <1>8 DEF FinalizeKnows, Original
<1> QED BY <1>9, <1>10, <1>11 DEF Patient

\* The row is committed, then the staging file is removed.
LEMMA FinalizeEndsPatient ==
  ASSUME IInv, Patient, ~impatient, FinalizeCommit \/ FinalizeUnlink
  PROVE  Patient'
<1>1. OneAtATime /\ LongIsStaged /\ FinalizeKnows
  BY DEF Patient
<1>2. CASE FinalizeCommit
  <2>1. fin.of = File /\ [clip |-> fin.clip, of |-> File, bytes |-> File] \in objects
    BY <1>1, <1>2 DEF FinalizeCommit, FinalizeKnows
  <2>2. fin.clip \in BOOLEAN
    BY <1>2 DEF FinalizeCommit, IInv, Typed, Finalize, Idle
  <2>3. upload' = [clip |-> fin.clip, of |-> File] /\ upload' \in UploadRow
    BY <1>2, <2>1, <2>2, FileIs DEF FinalizeCommit, UploadRow
  <2>4. upload' # NoRow
    BY <2>3, NothingIs
  <2>5. /\ session'.state = "ready" /\ session'.offset = session.offset
        /\ fin'.pc = "unlink" /\ UNCHANGED <<objects, req>>
    BY <1>2 DEF FinalizeCommit, IInv, Typed, SessionRow
  <2>6. OneAtATime'
    BY <1>1, <2>5 DEF OneAtATime, IsActive
  <2>7. LongIsStaged'
    BY <2>4 DEF LongIsStaged
  <2>8. FinalizeKnows'
    BY <1>1, <2>1, <2>3, <2>4, <2>5 DEF FinalizeKnows
  <2> QED BY <2>6, <2>7, <2>8 DEF Patient
<1>3. CASE FinalizeUnlink
  <2>1. upload # NoRow /\ UNCHANGED <<session, objects, upload>> /\ fin'.pc = "idle"
    BY <1>1, <1>3 DEF FinalizeUnlink, FinalizeKnows, Idle
  <2>2. ASSUME NEW r \in Requests
        PROVE  /\ req'[r].pc = req[r].pc
               /\ IsActive(r) => req'[r].snap = req[r].snap /\ req'[r].fd \in {req[r].fd, "gone"}
    <3>1. req'[r] = IF req[r].pc = "writing" THEN [req[r] EXCEPT !.fd = "gone"] ELSE req[r]
      BY <1>3 DEF FinalizeUnlink
    <3>2. req[r].pc = "writing" => req[r] \in Patch
      BY ActiveIs DEF IInv
    <3> QED BY <3>1, <3>2 DEF Patch
  <2>3. OneAtATime'
    BY <1>1, <2>1, <2>2 DEF OneAtATime, IsActive
  <2>4. LongIsStaged'
    BY <2>1 DEF LongIsStaged
  <2>5. FinalizeKnows'
    BY <1>1, <2>1 DEF FinalizeKnows
  <2> QED BY <2>3, <2>4, <2>5 DEF Patient
<1> QED BY <1>2, <1>3

\* A restart of the API.
LEMMA CrashPatient ==
  ASSUME IInv, Patient, ~impatient, Crash
  PROVE  Patient'
<1>1. OneAtATime /\ LongIsStaged /\ FinalizeKnows
  BY DEF Patient
<1>2. objects' = objects /\ (part = File => part' = File)
  <2>1. CASE UNCHANGED <<part, objects>>
    BY <2>1
  <2>2. ASSUME NEW r \in Requests, req[r].pc = "writing", NEW k, Written(r, k)
        PROVE  objects' = objects /\ part # File
    BY <2>2, ObjectsStay, NoWriter
  <2> QED BY <2>1, <2>2 DEF Crash, LockHolder
<1>3. /\ \A r \in Requests : req'[r] = Idle
      /\ fin' = Idle /\ UNCHANGED <<session, upload>>
  BY DEF Crash
<1>4. OneAtATime'
  BY <1>1, <1>3 DEF OneAtATime, IsActive, Idle
<1>5. LongIsStaged'
  BY <1>1, <1>2, <1>3 DEF LongIsStaged, Idle
<1>6. FinalizeKnows'
  BY <1>1, <1>2, <1>3 DEF FinalizeKnows, Idle
<1> QED BY <1>4, <1>5, <1>6 DEF Patient

\* Every step keeps what holds for a client that waits.
LEMMA PatientNext == IInv /\ Patient /\ [Next]_vars => Patient'
<1> SUFFICES ASSUME IInv, Patient, [Next]_vars PROVE Patient'
  OBVIOUS
<1>1. impatient' = impatient
  <2>1. CASE \E r \in Requests, p \in Procs, offset \in 0..Size, n \in 1..ChunkLimit :
               PatchBegin(r, p, offset, n)
    BY <2>1 DEF PatchBegin
  <2>2. ASSUME NEW r \in Requests,
               PatchBlock(r) \/ PatchLock(r) \/ PatchBody(r) \/ PatchFail(r) \/ PatchCommit(r)
        PROVE  impatient' = impatient
    BY <2>2 DEF PatchBlock, PatchLock, PatchBody, PatchFail, PatchCommit
  <2>3. CASE \/ FinalizeBegin \/ FinalizeHash \/ PrepareClip \/ UseCached \/ CheckStaged
             \/ StoreStaged \/ FinalizeCommit \/ FinalizeUnlink \/ FinalizeFail
    BY <2>3 DEF FinalizeBegin, FinalizeHash, PrepareClip, UseCached, CheckStaged,
                StoreStaged, FinalizeCommit, FinalizeUnlink, FinalizeFail
  <2>4. CASE Inspect \/ Expire \/ Crash \/ UNCHANGED vars
    BY <2>4 DEF Inspect, Expire, Crash, vars
  <2> QED BY <2>1, <2>2, <2>3, <2>4 DEF Next
<1>2. CASE impatient
  BY <1>1, <1>2 DEF Patient
<1>3. CASE ~impatient
  <2>1. CASE Inspect \/ Expire \/ UNCHANGED vars
    <3>1. UNCHANGED <<session, part, objects, upload, req, fin>>
      BY <2>1 DEF Inspect, Expire, vars
    <3> QED BY <1>3, <3>1, RequestsStay DEF Patient, FinalizeKnows
  <2> QED BY <1>3, <2>1, PatchBeginPatient, PatchBlockPatient, PatchLockPatient,
             PatchBodyPatient, PatchFailPatient, PatchCommitPatient, FinalizeReadsPatient,
             StoreStagedPatient, FinalizeEndsPatient, CrashPatient DEF Next
<1> QED BY <1>2, <1>3

\* For files of any length and any number of processes: a client that waits for the answer of
\* one PATCH before it sends the next gets an upload made of its whole file, whatever fails,
\* expires or crashes between its chunks and its finalize.
THEOREM UploadsAreWhole == Spec => []UploadIsWhole
<1>1. Patient => UploadIsWhole
  BY DEF Patient, FinalizeKnows, UploadIsWhole
<1> QED BY <1>1, InvInit, InvNext, PatientInit, PatientNext, PTL DEF Spec
=============================================================================
