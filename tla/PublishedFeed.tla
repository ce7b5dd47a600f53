--------------------------- MODULE PublishedFeed ---------------------------
(***************************************************************************)
(* A reader scrolls a list whose rows come and go.                         *)
(*                                                                         *)
(* The feeds of published items and the lists of followers continue after  *)
(* the last row shown, by creation time and id; a page of items is cut     *)
(* from a window of rows, of which those that cannot be built are left     *)
(* out.  Works, comments, likes and notifications continue at a number of  *)
(* rows from the start.                                                    *)
(***************************************************************************)
EXTENDS Naturals, FiniteSets, FeedParameters

VARIABLES
    rows,     \* rows[i]: NoRow, or when it was created, whether the query finds it
              \* and whether an item can be built from it
    now,      \* the clock, in seconds
    scroll,   \* the reader's list: how it continues, where, what it has shown, once and again
    kept,     \* history: rows listed all the time since the scroll began
    still,    \* history: nothing has changed since the scroll began
    swamped,  \* history: a window of this scroll was full and held too few items
    changes   \* changes made to the rows

vars == <<rows, now, scroll, kept, still, swamped, changes>>

Ids == 1..MaxItems
Row == [at : 0..MaxTime, listed : BOOLEAN, playable : BOOLEAN]
Stored == {i \in Ids : rows[i] # NoRow}
Listed == {i \in Stored : rows[i].listed}
Playable == {i \in Listed : rows[i].playable}

\* order_by(created_at.desc(), id.desc())
After(a, b) == rows[a].at < rows[b].at \/ (rows[a].at = rows[b].at /\ a < b)

\* The first n rows of S: fewer than n come before each.
First(S, n) == {i \in S : Cardinality({j \in S : After(i, j)}) < n}

TypeOK ==
    /\ rows \in [Ids -> Row \cup {NoRow}] /\ now \in 0..MaxTime /\ changes \in 0..MaxChanges
    /\ scroll.kind \in {"keyset", "offset"}
    /\ scroll.shown \subseteq Ids /\ scroll.again \subseteq Ids
    /\ scroll.more \in BOOLEAN /\ scroll.last \in Ids \cup {0} /\ scroll.offset \in Nat
    /\ kept \subseteq Ids /\ still \in BOOLEAN /\ swamped \in BOOLEAN

Start(kind) ==
    [kind |-> kind, last |-> 0, at |-> 0, offset |-> 0, shown |-> {}, again |-> {}, more |-> TRUE]

Init ==
    /\ rows = [i \in Ids |-> NoRow] /\ now = 0
    /\ scroll = Start("keyset")
    /\ kept = {} /\ still = TRUE /\ swamped = FALSE /\ changes = 0

-----------------------------------------------------------------------------
(* The rows                                                                *)

Change(new) ==
    /\ changes < MaxChanges
    /\ changes' = changes + 1
    /\ rows' = new
    /\ kept' = kept \cap {i \in Listed : new[i] # NoRow /\ new[i].listed /\ new[i].playable}
    /\ still' = FALSE
    /\ UNCHANGED <<scroll, swamped>>

\* A new row waits for review, or is listed at once.
Publish(i, listed, playable) ==
    /\ rows[i] = NoRow
    /\ Change([rows EXCEPT ![i] = [at |-> now, listed |-> listed, playable |-> playable]])
    /\ UNCHANGED now

\* Approved, distributed, shown again; withdrawn, deleted, its author disabled or blocked.
List(i) ==
    /\ rows[i] # NoRow
    /\ Change([rows EXCEPT ![i].listed = ~@])
    /\ UNCHANGED now

Second ==
    /\ now < MaxTime
    /\ now' = now + 1
    /\ UNCHANGED <<rows, scroll, kept, still, swamped, changes>>

-----------------------------------------------------------------------------
(* The reader                                                              *)

Open(kind) ==
    /\ scroll' = Start(kind)
    /\ kept' = Playable /\ still' = TRUE /\ swamped' = FALSE
    /\ UNCHANGED <<rows, now, changes>>

BeforeCursorTime(i) == scroll.last # 0 => rows[i].at < scroll.at

\* The cursor holds the creation time and the id of the last row shown, which may be gone.
BeforeCursor(i) ==
    scroll.last # 0 =>
        rows[i].at < scroll.at \/ (rows[i].at = scroll.at /\ i < scroll.last)

\* What the reader sees of a page, and what of it they have seen before.
Shown(page) == scroll.shown \cup page
Again(page) == scroll.again \cup (scroll.shown \cap page)

\* list_published_items: one item more than the page is looked for in the window.
KeysetPage ==
    LET read == First({i \in Listed : BeforeCursor(i)}, Window)
        accepted == First({i \in read : rows[i].playable}, Limit + 1)
        page == First(accepted, Limit)
        last == CHOOSE i \in page : \A j \in page \ {i} : After(i, j)
    IN  /\ scroll.kind = "keyset" /\ scroll.more
        /\ scroll' = [scroll EXCEPT
              !.more = Cardinality(accepted) > Limit,
              !.shown = Shown(page), !.again = Again(page),
              !.last = IF page = {} THEN @ ELSE last,
              !.at = IF page = {} THEN @ ELSE rows[last].at]
        /\ swamped' = (swamped \/ (Cardinality(read) = Window /\ Cardinality(accepted) <= Limit))
        /\ UNCHANGED <<rows, now, kept, still, changes>>

\* _comments_page and its kind: rows that cannot be built are passed over, the offset counts
\* them.
OffsetPage ==
    LET rest == Listed \ First(Listed, scroll.offset)
        read == First(rest, Limit + 1)
        page == {i \in First(read, Limit) : rows[i].playable}
    IN  /\ scroll.kind = "offset" /\ scroll.more
        /\ scroll' = [scroll EXCEPT
              !.more = Cardinality(read) > Limit,
              !.shown = Shown(page), !.again = Again(page),
              !.offset = @ + Limit]
        /\ UNCHANGED <<rows, now, kept, still, swamped, changes>>

Next ==
    \/ \E i \in Ids : \/ \E listed, playable \in BOOLEAN : Publish(i, listed, playable)
                      \/ List(i)
    \/ \E kind \in {"keyset", "offset"} : Open(kind)
    \/ Second \/ KeysetPage \/ OffsetPage

Spec == Init /\ [][Next]_vars

-----------------------------------------------------------------------------
\* A keyset scroll never shows a row twice, whatever is published, hidden or shown again
\* meanwhile, many rows in a second included; an offset scroll does not while nothing
\* changes.
NothingTwice ==
    scroll.kind = "keyset" \/ still => scroll.again = {}

\* A scroll that says it has reached its end has shown every item that was there all along;
\* the keyset one unless a window was full of rows that cannot be shown, the offset one
\* while nothing changes.
EndMeansAll ==
    ~scroll.more /\ (IF scroll.kind = "keyset" THEN ~swamped ELSE still) =>
        kept \subseteq scroll.shown

\* A reader who scrolls to the end sees every item once.
ScrollIsExact == NothingTwice /\ EndMeansAll
=============================================================================
