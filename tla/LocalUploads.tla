---------------------------- MODULE LocalUploads ----------------------------
(***************************************************************************)
(* One resumable upload of a creator's video (transport                    *)
(* "local-resumable-v1"): the client sends the file in PATCH requests, the *)
(* API appends them to a staging file under a file lock, and finalize      *)
(* hashes the file and moves it into the content-addressed media cache.    *)
(*                                                                         *)
(* The bytes of the client's file are its positions 1..Size.  Content is   *)
(* its own digest: two files have one digest when they are equal.  A       *)
(* PATCH reads the session row before it waits for the file lock, and the  *)
(* refresh under the lock answers from the same REPEATABLE READ snapshot.  *)
(* The handler is a coroutine, and the file lock blocks its process's      *)
(* event loop while it waits.                                              *)
(***************************************************************************)
EXTENDS Naturals, Sequences, SequencesExt, UploadParameters

VARIABLES
    session,    \* the MediaUploadSession row
    expired,    \* TRUE once expires_at has passed
    impatient,  \* TRUE if the client may repeat a PATCH that is not answered yet
    part,       \* the staging file, NoFile when there is none
    objects,    \* the media cache: set of [clip, of, bytes], bytes stored under a digest
    upload,     \* the CreatorUpload row, NoRow before finalize commits
    req,        \* req[r]: a PATCH under way
    fin,        \* the finalize request under way
    told,       \* offsets the server has given the client
    count       \* patches sent and crashes so far, bounded by Bounds

vars == <<session, expired, impatient, part, objects, upload, req, fin, told, count>>

File == [i \in 1..Size |-> i]
Beginnings == {SubSeq(File, 1, n) : n \in 0..Size}

SessionRow == [state : {"pending", "uploading", "uploaded", "ready"}, offset : 0..Size,
               declared : BOOLEAN, long : BOOLEAN, prepares : BOOLEAN]
UploadRow == [clip : BOOLEAN, of : Beginnings]
Object == [clip : BOOLEAN, of : Beginnings, bytes : Beginnings]
Idle == [pc |-> "idle"]
IsActive(r) == req[r].pc # "idle"

TypeOK ==
    /\ session \in SessionRow
    /\ expired \in BOOLEAN /\ impatient \in BOOLEAN
    /\ part \in Beginnings \cup {NoFile}
    /\ objects \subseteq Object
    /\ upload \in UploadRow \cup {NoRow}
    /\ \A r \in Requests : req[r].pc \in {"idle", "arrived", "blocked", "writing", "written"}
    /\ fin.pc \in {"idle", "locked", "hashed", "checked", "stored", "unlink"}
    /\ told \subseteq 0..Size

\* init_creator_upload has reserved the capacity and written the session row.  The client
\* declares a checksum or not, and asks for the preparation of long videos or not.
Init ==
    /\ \E declared, long, prepares \in BOOLEAN :
          session = [state |-> "pending", offset |-> 0, declared |-> declared,
                     long |-> long, prepares |-> prepares]
    /\ expired = FALSE
    /\ impatient \in BOOLEAN
    /\ part = NoFile
    /\ objects = {}
    /\ upload = NoRow
    /\ req = [r \in Requests |-> Idle]
    /\ fin = Idle
    /\ told = {0}
    /\ count = [patches |-> 0, crashes |-> 0]

-----------------------------------------------------------------------------
(* PATCH /creator/uploads/{session}/source                                 *)

LengthOf(content) == IF content = NoFile THEN 0 ELSE Len(content)
NotCut(content, n) == content

Cut(content, n) == SubSeq(content, 1, n)

\* _creator_local_session: the session can still be used.
Usable == session.state = "ready" \/ ~expired

LockHolder == {r \in Requests : req[r].pc \in {"writing", "written"}}

\* flock is called on the event loop: while one request waits for it, no other coroutine of
\* that process runs.
LoopRuns(p) == \A r \in Requests : req[r].pc = "blocked" => req[r].proc # p

PatchBegin(r, p, offset, n) ==
    /\ ~IsActive(r)
    /\ impatient \/ \A q \in Requests : ~IsActive(q)
    /\ count.patches < MaxPatches
    /\ Usable /\ session.state # "ready"
    /\ offset \in told /\ offset + n <= Size
    /\ LoopRuns(p)
    /\ req' = [req EXCEPT ![r] = [pc |-> "arrived", proc |-> p, snap |-> session,
                                  offset |-> offset, n |-> n, fd |-> "part"]]
    /\ count' = [count EXCEPT !.patches = @ + 1]
    /\ UNCHANGED <<session, expired, impatient, part, objects, upload, fin, told>>

PatchBlock(r) ==
    /\ req[r].pc = "arrived" /\ LoopRuns(req[r].proc)
    /\ LockHolder # {}
    /\ req' = [req EXCEPT ![r].pc = "blocked"]
    /\ UNCHANGED <<session, expired, impatient, part, objects, upload, fin, told, count>>

\* Under the lock the staging file is cut back to the offset of the snapshot, or the offset
\* taken back to the length of the file.  A PATCH for another offset is answered 409 with
\* the right one, otherwise the file is opened for appending.
PatchLock(r) ==
    LET committed == IF LengthOf(part) > req[r].snap.offset THEN req[r].snap.offset
                                                            ELSE LengthOf(part)
        cut == IF part = NoFile THEN NoFile ELSE Cut(part, committed)
    IN  /\ \/ req[r].pc = "arrived" /\ LoopRuns(req[r].proc)
           \/ req[r].pc = "blocked"
        /\ LockHolder = {}
        /\ \/ /\ req[r].offset # committed
              /\ told' = told \cup {committed}
              /\ part' = cut
              /\ req' = [req EXCEPT ![r] = Idle]
           \/ /\ req[r].offset = committed
              /\ part' = IF part = NoFile THEN <<>> ELSE cut
              /\ req' = [req EXCEPT ![r].pc = "writing"]
              /\ UNCHANGED told
        /\ UNCHANGED <<session, expired, impatient, objects, upload, fin, count>>

Chunk(r, k) == [i \in 1..k |-> req[r].offset + i]

\* Bytes go where the open file is: the staging path, the cache object it was renamed to,
\* or an unlinked file.
Written(r, k) ==
    /\ part' = IF req[r].fd = "part" THEN part \o Chunk(r, k) ELSE part
    /\ objects' = {IF req[r].fd = "object" /\ ~o.clip
                      THEN [o EXCEPT !.bytes = @ \o Chunk(r, k)] ELSE o : o \in objects}

PatchBody(r) ==
    /\ req[r].pc = "writing" /\ LoopRuns(req[r].proc)
    /\ Written(r, req[r].n)
    /\ req' = [req EXCEPT ![r].pc = "written"]
    /\ UNCHANGED <<session, expired, impatient, upload, fin, told, count>>

\* The client goes away, the body is short, or the free-space floor is reached: whatever
\* file the staging path names is cut back to the start of the chunk.
PatchFail(r) ==
    /\ req[r].pc = "writing" /\ LoopRuns(req[r].proc)
    /\ part' = IF part = NoFile THEN NoFile ELSE Cut(part, req[r].offset)
    /\ req' = [req EXCEPT ![r] = Idle]
    /\ UNCHANGED <<session, expired, impatient, objects, upload, fin, told, count>>

\* Only attributes that differ from the row as it was read are written.
PatchCommit(r) ==
    LET total == req[r].offset + req[r].n
        state == IF total = Size THEN "uploaded" ELSE "uploading"
        snap == req[r].snap
    IN  /\ req[r].pc = "written" /\ LoopRuns(req[r].proc)
        /\ fin.pc \in {"idle", "unlink"}
        /\ session' = [session EXCEPT
              !.offset = IF total # snap.offset THEN total ELSE @,
              !.state = IF state # snap.state THEN state ELSE @]
        /\ told' = told \cup {total}
        /\ req' = [req EXCEPT ![r] = Idle]
        /\ UNCHANGED <<expired, impatient, part, objects, upload, fin, count>>

\* HEAD: the client asks for the offset.
Inspect ==
    /\ Usable
    /\ session.offset \notin told
    /\ told' = told \cup {session.offset}
    /\ UNCHANGED <<session, expired, impatient, part, objects, upload, req, fin, count>>

-----------------------------------------------------------------------------
(* POST /creator/uploads/{session}/finalize                                *)

FinalizeAtAnyTime ==
    /\ fin.pc = "idle"
    /\ upload = NoRow
    /\ Usable
    /\ fin' = [pc |-> "locked"]
    /\ UNCHANGED <<session, expired, impatient, part, objects, upload, req, told, count>>

\* The session row is read FOR UPDATE and stays locked until the commit.
FinalizeBegin ==
    /\ fin.pc = "idle"
    /\ upload = NoRow
    /\ Usable /\ session.state = "uploaded" /\ session.offset = Size
    /\ fin' = [pc |-> "locked"]
    /\ UNCHANGED <<session, expired, impatient, part, objects, upload, req, told, count>>

\* The content the checksum is taken of: the staging file or, when an earlier finalize has
\* already moved it, the cached object of the declared checksum.
Source ==
    IF part # NoFile THEN {part}
    ELSE {o.bytes : o \in {o \in objects : session.declared /\ ~o.clip /\ o.of = File
                                           /\ o.bytes = File}}

\* probe_video: the video is longer, or larger, than a creation may use.
NeedsPreparation == session.long

FinalizeHash ==
    /\ fin.pc = "locked"
    /\ \E source \in Source :
          /\ session.declared => source = File
          /\ NeedsPreparation => session.prepares
          /\ fin' = [pc |-> "hashed", of |-> source, staged |-> part # NoFile]
    /\ UNCHANGED <<session, expired, impatient, part, objects, upload, req, told, count>>

\* prepared_creator_video reads the source again and commits the clip it makes.
PrepareClip ==
    /\ fin.pc = "hashed" /\ NeedsPreparation
    /\ \E source \in Source :
          /\ objects' = objects \cup {[clip |-> TRUE, of |-> source, bytes |-> source]}
          /\ fin' = [pc |-> "stored", clip |-> TRUE, of |-> source]
    /\ UNCHANGED <<session, expired, impatient, part, upload, req, told, count>>

UseCached ==
    /\ fin.pc = "hashed" /\ ~NeedsPreparation /\ ~fin.staged
    /\ fin' = [pc |-> "stored", clip |-> FALSE, of |-> fin.of]
    /\ UNCHANGED <<session, expired, impatient, part, objects, upload, req, told, count>>

\* commit_staged_upload checks size and checksum once more ...
CheckStaged ==
    /\ fin.pc = "hashed" /\ ~NeedsPreparation /\ fin.staged
    /\ part # NoFile /\ LengthOf(part) = Size /\ part = fin.of
    /\ fin' = [fin EXCEPT !.pc = "checked"]
    /\ UNCHANGED <<session, expired, impatient, part, objects, upload, req, told, count>>

\* ... and renames the staging file into the cache, or drops it when the cache has the
\* object.  An object of another size is replaced.
StoreStaged ==
    LET same == {o \in objects : ~o.clip /\ o.of = fin.of}
        intact == {o \in same : Len(o.bytes) = Size}
    IN  /\ fin.pc = "checked"
        /\ part # NoFile
        /\ \A o \in intact : o.bytes = fin.of
        /\ objects' = IF intact # {} THEN objects
              ELSE (objects \ same) \cup {[clip |-> FALSE, of |-> fin.of, bytes |-> part]}
        /\ req' = [r \in Requests |-> IF req[r].pc = "writing"
              THEN [req[r] EXCEPT !.fd = IF intact # {} THEN "gone" ELSE "object"] ELSE req[r]]
        /\ part' = NoFile
        /\ fin' = [pc |-> "stored", clip |-> FALSE, of |-> fin.of]
        /\ UNCHANGED <<session, expired, impatient, upload, told, count>>

FinalizeCommit ==
    /\ fin.pc = "stored"
    /\ upload' = [clip |-> fin.clip, of |-> fin.of]
    /\ session' = [session EXCEPT !.state = "ready"]
    /\ fin' = [pc |-> "unlink"]
    /\ UNCHANGED <<expired, impatient, part, objects, req, told, count>>

FinalizeUnlink ==
    /\ fin.pc = "unlink"
    /\ part' = NoFile
    /\ req' = [r \in Requests |-> IF req[r].pc = "writing"
                                     THEN [req[r] EXCEPT !.fd = "gone"] ELSE req[r]]
    /\ fin' = Idle
    /\ UNCHANGED <<session, expired, impatient, objects, upload, told, count>>

\* Any check fails: the request is answered 400 and the row is unlocked unchanged.
FinalizeFail ==
    /\ fin.pc \in {"locked", "hashed", "checked"}
    /\ fin' = Idle
    /\ UNCHANGED <<session, expired, impatient, part, objects, upload, req, told, count>>

-----------------------------------------------------------------------------
Expire ==
    /\ ~expired
    /\ expired' = TRUE
    /\ UNCHANGED <<session, impatient, part, objects, upload, req, fin, told, count>>

\* The API restarts: requests are gone, a chunk may be on the disk in part.
Crash ==
    /\ count.crashes < MaxCrashes
    /\ \/ LockHolder = {} /\ UNCHANGED <<part, objects>>
       \/ \E r \in LockHolder :
            \/ req[r].pc = "written" /\ UNCHANGED <<part, objects>>
            \/ req[r].pc = "writing" /\ \E k \in 0..req[r].n : Written(r, k)
    /\ req' = [r \in Requests |-> Idle]
    /\ fin' = Idle
    /\ count' = [count EXCEPT !.crashes = @ + 1]
    /\ UNCHANGED <<session, expired, impatient, upload, told>>

Next ==
    \/ \E r \in Requests, p \in Procs, offset \in 0..Size, n \in 1..ChunkLimit :
          PatchBegin(r, p, offset, n)
    \/ \E r \in Requests : PatchBlock(r) \/ PatchLock(r) \/ PatchBody(r) \/ PatchFail(r)
                           \/ PatchCommit(r)
    \/ Inspect \/ FinalizeBegin \/ FinalizeHash \/ PrepareClip \/ UseCached \/ CheckStaged
    \/ StoreStaged \/ FinalizeCommit \/ FinalizeUnlink \/ FinalizeFail
    \/ Expire \/ Crash

Spec == Init /\ [][Next]_vars

-----------------------------------------------------------------------------
\* However PATCHes are repeated, overlap, fail, run on stale snapshots or are cut off by a
\* crash, the staging file is a prefix of the client's file: no gap, nothing twice.
StagingIsPrefix == part # NoFile => IsPrefix(part, File)

\* A client that waits for the answer of one PATCH before it sends the next gets an upload
\* made of its whole file, and the cache holds under that digest what the row names.
UploadIsWhole ==
    ~impatient /\ upload # NoRow =>
        /\ upload.of = File
        /\ [clip |-> upload.clip, of |-> File, bytes |-> File] \in objects
=============================================================================
