-------------------------- MODULE SeedParameters --------------------------
(***************************************************************************)
(* The parameters and bounds of SocialSeed.                                *)
(***************************************************************************)
EXTENDS Naturals, FiniteSets, CommonParameters

CONSTANTS
    Videos,         \* videos of the recommendation pool
    Accounts,       \* accounts of the seed batch
    Runs,           \* cron runs that may be under way at one time
    HoursOfDay,     \* hours of a day
    Elapsed,        \* Elapsed[n]: the weight of the first n hours of a day (_utc_hour_weights)
    MaxHour,        \* bound: hours that pass
    DailyTotalMax,  \* DAILY_TOTAL_MAX
    PerRun,         \* MAX_LIKES_PER_RUN and MAX_COMMENTS_PER_RUN
    LikesPerHour, LikesPerDay,       \* MAX_LIKES_PER_ACCOUNT_HOUR, _DAY
    CommentsPerHour, CommentsPerDay, \* MAX_COMMENTS_PER_ACCOUNT_HOUR, _DAY
    CommentsPerVideo,                \* COMMENT_PER_VIDEO_MAX
    MaxRuns         \* bound: runs begun

ASSUME SeedAssumption ==
    /\ {MaxHour, DailyTotalMax, PerRun, LikesPerHour, LikesPerDay,
        CommentsPerHour, CommentsPerDay, CommentsPerVideo, MaxRuns} \subseteq Nat
    /\ HoursOfDay \in Nat \ {0}
    /\ Elapsed \in [0..HoursOfDay -> Nat]
    \* Every hour has its weight.
    /\ \A m, n \in 0..HoursOfDay : m < n => Elapsed[m] < Elapsed[n]
    /\ IsFiniteSet(Videos) /\ IsFiniteSet(Accounts)
    \* A missing row is no row.
    /\ NoRow \notin 0..MaxHour /\ NoRow \notin [hour : 0..MaxHour, deleted : BOOLEAN]
=============================================================================
