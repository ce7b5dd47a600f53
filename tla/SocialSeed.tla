---------------------------- MODULE SocialSeed ----------------------------
(***************************************************************************)
(* The cron runs that let seed accounts like and comment.                  *)
(*                                                                         *)
(* A run keeps nothing of its own between runs: it reads the switch, loads *)
(* the day's and the hour's seed rows, plans up to what the time-of-day    *)
(* curve says is due, and then sends its plan call by call while the clock *)
(* goes on, other runs work and rows are deleted.                          *)
(***************************************************************************)
EXTENDS Naturals, FiniteSets, SeedParameters

VARIABLES
    hour,      \* hours since the first midnight
    enabled,   \* social_seed_preview_config
    likes,     \* likes[p]: NoRow, or the hour of the like, p a video and an account
    comments,  \* comments[p]: NoRow, or the hour of the comment and whether it is deleted
    run,       \* run[w]: the plan of a run
    begun,     \* runs begun
    solo       \* history: no two runs have overlapped

vars == <<hour, enabled, likes, comments, run, begun, solo>>

Pairs == Videos \X Accounts
Idle == [likes |-> {}, comments |-> {}, busy |-> FALSE]
Busy == {w \in Runs : run[w].busy}

TypeOK ==
    /\ hour \in 0..MaxHour /\ enabled \in BOOLEAN /\ solo \in BOOLEAN /\ begun \in 0..MaxRuns
    /\ likes \in [Pairs -> 0..MaxHour \cup {NoRow}]
    /\ comments \in [Pairs -> [hour : 0..MaxHour, deleted : BOOLEAN] \cup {NoRow}]
    /\ run \in [Runs -> [likes : SUBSET Pairs, comments : SUBSET Pairs, busy : BOOLEAN]]

Init ==
    /\ hour = 0 /\ enabled = FALSE
    /\ likes = [p \in Pairs |-> NoRow] /\ comments = likes
    /\ run = [w \in Runs |-> Idle] /\ begun = 0 /\ solo = TRUE

Day(h) == h \div HoursOfDay
Liked == {p \in Pairs : likes[p] # NoRow}
Commented == {p \in Pairs : comments[p] # NoRow /\ ~comments[p].deleted}

LikesOn(day) == {p \in Liked : Day(likes[p]) = day}
LikesIn(h) == {p \in Liked : likes[p] = h}
CommentsOn(day) == {p \in Commented : Day(comments[p].hour) = day}
CommentsIn(h) == {p \in Commented : comments[p].hour = h}

By(S, a) == Cardinality({p \in S : p[2] = a})
Of(S, v) == Cardinality({p \in S : p[1] = v})

-----------------------------------------------------------------------------
(* A plan                                                                  *)

\* cumulative_target_by_now, at the start of an hour or at its end.
TargetByNow(total, late) ==
    LET now == hour % HoursOfDay
        accrued == Elapsed[IF late THEN now + 1 ELSE now]
    IN  (total * accrued) \div Elapsed[HoursOfDay]

\* What the curve expects by now, less what the day has already seen.
Due(target, done) ==
    LET left == IF target < done THEN 0 ELSE target - done IN
    IF left < PerRun THEN left ELSE PerRun

WithinRun(planned, loaded, ceiling) == \A a \in Accounts : By(planned, a) <= ceiling

\* assign_accounts and plan_comments count on from what they loaded.
Within(planned, loaded, ceiling) ==
    \A a \in Accounts : By(planned, a) # 0 => By(planned, a) + By(loaded, a) <= ceiling

LikePlans(due) ==
    {S \in SUBSET Pairs :
        /\ Cardinality(S) <= due
        /\ Within(S, LikesOn(Day(hour)), LikesPerDay)
        /\ Within(S, LikesIn(hour), LikesPerHour)}

\* A video's target is drawn anew in each run; an account that has commented on it is passed
\* over, unless its comment is deleted.
CommentPlans(due) ==
    {S \in SUBSET (Pairs \ Commented) :
        /\ Cardinality(S) <= due
        /\ Within(S, CommentsOn(Day(hour)), CommentsPerDay)
        /\ Within(S, CommentsIn(hour), CommentsPerHour)
        /\ \A v \in Videos : Of(S, v) # 0 => Of(S, v) + Of(Commented, v) <= CommentsPerVideo}

\* main, run: with --force the curve does not hold back the likes, and the comments are not
\* counted against the day at all.
Start(w, total, force, late) ==
    LET target == IF force THEN total ELSE TargetByNow(total, late) IN
    /\ ~run[w].busy /\ enabled /\ begun < MaxRuns
    /\ \E L \in LikePlans(Due(target, Cardinality(LikesOn(Day(hour))))),
          C \in CommentPlans(IF force THEN PerRun
                             ELSE Due(target, Cardinality(CommentsOn(Day(hour))))) :
          run' = [run EXCEPT ![w] = [likes |-> L, comments |-> C, busy |-> TRUE]]
    /\ begun' = begun + 1
    /\ solo' = (solo /\ Busy = {})
    /\ UNCHANGED <<hour, enabled, likes, comments>>

-----------------------------------------------------------------------------
(* The calls                                                               *)

\* like_as_social_seed: a like that is there already answers as well; a refusal (the switch,
\* an account that left the batch, a block, the rate, a hidden video) is passed over.
LikeAnswers(p) ==
    {likes} \cup (IF enabled /\ p \notin Liked THEN {[likes EXCEPT ![p] = hour]} ELSE {})

\* comment_as_social_seed: the key names the video and the account, so the answer may be an
\* earlier comment, a deleted one included.
CommentAnswers(p) ==
    {comments} \cup
        (IF enabled /\ comments[p] = NoRow
         THEN {[comments EXCEPT ![p] = [hour |-> hour, deleted |-> FALSE]]} ELSE {})

\* The likes come first, then the comments.
Like(w) ==
    \E p \in run[w].likes :
        /\ run' = [run EXCEPT ![w].likes = @ \ {p}]
        /\ likes' \in LikeAnswers(p)
        /\ UNCHANGED <<hour, enabled, comments, begun, solo>>

Comment(w) ==
    \E p \in run[w].comments :
        /\ run[w].likes = {}
        /\ run' = [run EXCEPT ![w].comments = @ \ {p}]
        /\ comments' \in CommentAnswers(p)
        /\ UNCHANGED <<hour, enabled, likes, begun, solo>>

\* The plan is done, or the process ends before.
End(w) ==
    /\ run[w].busy
    /\ run' = [run EXCEPT ![w] = Idle]
    /\ UNCHANGED <<hour, enabled, likes, comments, begun, solo>>

-----------------------------------------------------------------------------
(* Meanwhile                                                               *)

Hour ==
    /\ hour < MaxHour
    /\ hour' = hour + 1
    /\ UNCHANGED <<enabled, likes, comments, run, begun, solo>>

\* put_social_seed_preview
Preview ==
    /\ enabled' = ~enabled
    /\ UNCHANGED <<hour, likes, comments, run, begun, solo>>

\* unlike_as_social_seed
Unlike(p) ==
    /\ p \in Liked
    /\ likes' = [likes EXCEPT ![p] = NoRow]
    /\ UNCHANGED <<hour, enabled, comments, run, begun, solo>>

\* A moderator deletes a comment.
Delete(p) ==
    /\ p \in Commented
    /\ comments' = [comments EXCEPT ![p].deleted = TRUE]
    /\ UNCHANGED <<hour, enabled, likes, run, begun, solo>>

Next ==
    \/ \E w \in Runs : \/ \E total \in 0..DailyTotalMax, force, late \in BOOLEAN :
                              Start(w, total, force, late)
                       \/ Like(w) \/ Comment(w) \/ End(w)
    \/ \E p \in Pairs : Unlike(p) \/ Delete(p)
    \/ Hour \/ Preview

Spec == Init /\ [][Next]_vars

-----------------------------------------------------------------------------
\* However often the task runs, dies and runs again, through the change of the hour and of
\* the day, no account likes or comments more in an hour or a day than the ceilings allow,
\* no video gets more comments than its maximum, and no day sees more likes than the largest
\* daily total, whatever total each run draws, as long as runs do not overlap.
CeilingsHold ==
    solo => \A h \in 0..hour :
        /\ Cardinality(LikesOn(Day(h))) <= DailyTotalMax
        /\ \A a \in Accounts :
              /\ By(LikesOn(Day(h)), a) <= LikesPerDay /\ By(LikesIn(h), a) <= LikesPerHour
              /\ By(CommentsOn(Day(h)), a) <= CommentsPerDay
              /\ By(CommentsIn(h), a) <= CommentsPerHour
        /\ \A v \in Videos : Of(Commented, v) <= CommentsPerVideo
=============================================================================
