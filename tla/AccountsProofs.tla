--------------------------- MODULE AccountsProofs ---------------------------
(***************************************************************************)
(* Theorems of Accounts: its type correctness, that referrals pay what     *)
(* they promised, and that a handoff code is exchanged once.               *)
(***************************************************************************)
EXTENDS Accounts, TLAPS

AccountRow == [id : Ids, enabled : BOOLEAN] \cup {NoRow}
SessionRow == [id : Ids, live : BOOLEAN, via : {"login", "handoff"}]
LedgerEntry == [kind : {"registration", "activation"}, id : Ids, amount : Nat]

Sending == [pc : {"sending"}, unused : SUBSET (1..MaxCodes)]
LoggingIn == [pc : {"login"}, code : 0..MaxCodes, app : BOOLEAN, invited : BOOLEAN,
              account : AccountRow, live : SUBSET Numbers, config : Policies]
Exchanging == [pc : {"exchange"}, id : Ids, live : SUBSET Numbers]
Deleting == [pc : {"deleting"}, id : Ids]

(***************************************************************************)
(* The inductive invariant of the types: TypeOK with the requests spelled  *)
(* out, and that the sessions a request has read are still there.          *)
(***************************************************************************)
Typed ==
    /\ provider \in {"email", "google"}
    /\ account \in AccountRow
    /\ created \in 0..MaxAccounts
    /\ codes \in [1..MaxCodes -> {"none", "fresh", "used", "expired", "gone"}]
    /\ sessions \in [Numbers -> SessionRow \cup {NoRow}]
    /\ handoff \in [id : Ids, used : BOOLEAN] \cup {NoRow}
    /\ binding \in [Ids -> Binding \cup {NoRow}]
    /\ ledger \subseteq LedgerEntry
    /\ config \in Policies
    /\ req \in [Requests -> {Idle} \cup Sending \cup LoggingIn \cup Exchanging \cup Deleting]

ReadSessionsStay ==
    \A r \in Requests : req[r].pc \in {"login", "exchange"} => req[r].live \subseteq Issued

\* One request at a time exchanges the handoff code, and the code stays unused meanwhile.
HandoffHeld ==
    /\ \A r, q \in Requests : req[r].pc = "exchange" /\ req[q].pc = "exchange" => r = q
    /\ \A r \in Requests : req[r].pc = "exchange" => handoff # NoRow /\ ~handoff.used

Sound == Typed /\ ReadSessionsStay /\ HandoffHeld

\* What a request is, by the state it is in.
LEMMA Running ==
  ASSUME Typed, NEW r \in Requests
  PROVE  /\ req[r].pc = "sending" => req[r] \in Sending
         /\ req[r].pc = "login" => req[r] \in LoggingIn
         /\ req[r].pc = "exchange" => req[r] \in Exchanging
         /\ req[r].pc = "deleting" => req[r] \in Deleting
BY DEF Typed, Idle, Sending, LoggingIn, Exchanging, Deleting

\* The entry of an amount is an entry of the ledger.
LEMMA EntryType ==
  ASSUME NEW kind \in {"registration", "activation"}, NEW id \in Ids, NEW amount \in Nat
  PROVE  Entry(kind, id, amount) \subseteq LedgerEntry
BY DEF Entry, LedgerEntry

\* A policy holds amounts.
LEMMA PolicyAmounts ==
  ASSUME NEW p \in Policies
  PROVE  p.inviter \in Nat /\ p.invitee \in Nat
BY AccountAssumption DEF AccountAssumption

\* What an activation makes of a binding.
LEMMA ActivationType ==
  ASSUME NEW b \in Binding \cup {NoRow}, NEW id \in Ids, NEW there
  PROVE  /\ Activation(b, id, there).row \in Binding \cup {NoRow}
         /\ Activation(b, id, there).entries \subseteq LedgerEntry
         /\ Activation(b, id, there).row = NoRow <=> b = NoRow
         /\ b # NoRow => Activation(b, id, there).row.reward = b.reward
<1>1. NoRow \notin Binding
  BY AccountAssumption DEF AccountAssumption, Binding
<1>2. CASE b # NoRow /\ b.status = "pending" /\ there
  <2>1. b \in Binding /\ b.reward \in Policies
    BY <1>2 DEF Binding
  <2>2. /\ Activation(b, id, there).row = [b EXCEPT !.status = "activated"]
        /\ Activation(b, id, there).entries = Entry("activation", id, b.reward.inviter)
    BY <1>2 DEF Activation
  <2>3. [b EXCEPT !.status = "activated"] \in Binding
        /\ [b EXCEPT !.status = "activated"].reward = b.reward
    BY <2>1 DEF Binding
  <2>4. Entry("activation", id, b.reward.inviter) \subseteq LedgerEntry
    BY <2>1, PolicyAmounts, EntryType
  <2> QED BY <1>1, <1>2, <2>2, <2>3, <2>4
<1>3. CASE ~(b # NoRow /\ b.status = "pending" /\ there)
  BY <1>3 DEF Activation
<1> QED BY <1>2, <1>3

\* Issuing a session leaves the sessions that were issued issued, and adds one of its kind.
LEMMA IssueKeeps ==
  ASSUME Typed, NEW id \in Ids, NEW live \in SUBSET Issued, NEW via \in {"login", "handoff"},
         Issue(id, live, via)
  PROVE  /\ sessions' \in [Numbers -> SessionRow \cup {NoRow}]
         /\ Issued \subseteq Issued'
         /\ \A n \in Numbers :
               sessions[n] = NoRow /\ sessions'[n] # NoRow => sessions'[n].via = via
<1>1. PICK n \in Numbers :
         /\ sessions[n] = NoRow
         /\ sessions' = [m \in Numbers |->
              IF m = n THEN [id |-> id, live |-> TRUE, via |-> via]
              ELSE IF m \in Stale(live) THEN [sessions[m] EXCEPT !.live = FALSE]
              ELSE sessions[m]]
  BY DEF Issue
<1>2. NoRow \notin SessionRow
  BY AccountAssumption DEF AccountAssumption, SessionRow, Ids
<1>3. ASSUME NEW m \in Numbers
      PROVE  /\ sessions'[m] \in SessionRow \cup {NoRow}
             /\ m \in Issued => sessions'[m] # NoRow
             /\ sessions[m] = NoRow /\ sessions'[m] # NoRow => sessions'[m].via = via
  <2>1. CASE m = n
    <3>1. [id |-> id, live |-> TRUE, via |-> via] \in SessionRow
      BY DEF SessionRow
    <3> QED BY <1>1, <1>2, <2>1, <3>1
  <2>2. CASE m # n /\ m \in Stale(live)
    <3>1. m \in Issued /\ sessions[m] \in SessionRow
      BY <2>2 DEF Stale, Issued, Typed
    <3>2. [sessions[m] EXCEPT !.live = FALSE] \in SessionRow
      BY <3>1 DEF SessionRow
    <3>3. sessions'[m] = [sessions[m] EXCEPT !.live = FALSE]
      BY <1>1, <2>2
    <3> QED BY <1>2, <3>1, <3>2, <3>3
  <2>3. CASE m # n /\ m \notin Stale(live)
    <3>1. sessions'[m] = sessions[m] /\ sessions[m] \in SessionRow \cup {NoRow}
      BY <1>1, <2>3 DEF Typed
    <3> QED BY <3>1 DEF Issued
  <2> QED BY <2>1, <2>2, <2>3
<1>4. sessions' \in [Numbers -> SessionRow \cup {NoRow}]
  <2>1. sessions' = [m \in Numbers |-> sessions'[m]]
    BY <1>1
  <2> QED BY <1>3, <2>1
<1> QED BY <1>3, <1>4 DEF Issued

\* Signed-out sessions are still issued.
LEMMA SignOutKeeps ==
  ASSUME Typed, NEW out \in SUBSET Issued,
         sessions' = [m \in Numbers |->
            IF m \in out THEN [sessions[m] EXCEPT !.live = FALSE] ELSE sessions[m]]
  PROVE  /\ sessions' \in [Numbers -> SessionRow \cup {NoRow}]
         /\ Issued \subseteq Issued'
         /\ \A n \in Numbers : sessions[n] = NoRow => sessions'[n] = NoRow
<1>1. NoRow \notin SessionRow
  BY AccountAssumption DEF AccountAssumption, SessionRow, Ids
<1>2. ASSUME NEW m \in Numbers
      PROVE  /\ sessions'[m] \in SessionRow \cup {NoRow}
             /\ m \in Issued => sessions'[m] # NoRow
             /\ sessions[m] = NoRow => sessions'[m] = NoRow
  <2>1. CASE m \in out
    <3>1. sessions[m] \in SessionRow
      BY <2>1 DEF Issued, Typed
    <3>2. [sessions[m] EXCEPT !.live = FALSE] \in SessionRow
      BY <3>1 DEF SessionRow
    <3> QED BY <1>1, <2>1, <3>1, <3>2
  <2>2. CASE m \notin out
    BY <2>2 DEF Issued, Typed
  <2> QED BY <2>1, <2>2
<1>3. sessions' \in [Numbers -> SessionRow \cup {NoRow}]
  <2>1. sessions' = [m \in Numbers |-> sessions'[m]]
    OBVIOUS
  <2> QED BY <1>2, <2>1
<1> QED BY <1>2, <1>3 DEF Issued

-----------------------------------------------------------------------------
(* Type correctness                                                        *)

\* Initially the types are right and no request is under way.
LEMMA SoundInit == Init => Sound
<1> SUFFICES ASSUME Init PROVE Sound
  OBVIOUS
<1>1. created \in 0..MaxAccounts
  BY AccountAssumption DEF AccountAssumption, Init
<1>2. /\ provider \in {"email", "google"} /\ account \in AccountRow /\ config \in Policies
      /\ handoff \in [id : Ids, used : BOOLEAN] \cup {NoRow} /\ ledger \subseteq LedgerEntry
  BY DEF Init, AccountRow
<1>3. /\ codes \in [1..MaxCodes -> {"none", "fresh", "used", "expired", "gone"}]
      /\ sessions \in [Numbers -> SessionRow \cup {NoRow}]
      /\ binding \in [Ids -> Binding \cup {NoRow}]
  BY DEF Init
<1>4. req \in [Requests -> {Idle} \cup Sending \cup LoggingIn \cup Exchanging \cup Deleting]
  BY DEF Init
<1>5. ReadSessionsStay /\ HandoffHeld
  BY DEF Init, ReadSessionsStay, HandoffHeld, Idle
<1> QED BY <1>1, <1>2, <1>3, <1>4, <1>5 DEF Sound, Typed

\* A step that ends a request, or begins one that has read issued sessions only, and loses
\* no session, keeps what requests have read.
LEMMA StayNext ==
  ASSUME Typed, ReadSessionsStay, Issued \subseteq Issued',
         \/ req' = req
         \/ \E r \in Requests : \E q : /\ req' = [req EXCEPT ![r] = q]
                                       /\ q.pc \in {"login", "exchange"} => q.live \subseteq Issued
  PROVE  ReadSessionsStay'
BY DEF ReadSessionsStay, Typed

\* The account, the binding and the entries of a login that commits.
LEMMA LoginAccount ==
  ASSUME Typed, NEW r \in Requests, NEW there \in BOOLEAN, LoginCommit(r, there)
  PROVE  LET new == req[r].account = NoRow
             id == IF new THEN created + 1 ELSE req[r].account.id
         IN  /\ req[r] \in LoggingIn
             /\ id \in Ids
             /\ Bound(r, id) \in Binding \cup {NoRow}
             /\ new => created' = id
<1> DEFINE new == req[r].account = NoRow
           id == IF new THEN created + 1 ELSE req[r].account.id
<1>1. req[r] \in LoggingIn
  BY Running DEF LoginCommit
<1>2. id \in Ids
  <2>1. CASE new
    <3>1. created < MaxAccounts /\ created \in 0..MaxAccounts
      BY <2>1 DEF LoginCommit, Typed
    <3> QED BY <2>1, <3>1, AccountAssumption DEF AccountAssumption, Ids
  <2>2. CASE ~new
    <3>1. req[r].account \in [id : Ids, enabled : BOOLEAN]
      BY <1>1, <2>2 DEF LoggingIn, AccountRow
    <3> QED BY <2>2, <3>1
  <2> QED BY <2>1, <2>2
<1>3. new => created' = id
  BY DEF LoginCommit
<1> HIDE DEF id
<1>4. Bound(r, id) \in Binding \cup {NoRow}
  <2>1. req[r].config \in Policies
    BY <1>1 DEF LoggingIn
  <2>2. [status |-> "pending", reward |-> req[r].config] \in Binding
    BY <2>1 DEF Binding
  <2>3. binding[id] \in Binding \cup {NoRow}
    BY <1>2 DEF Typed
  <2> QED BY <2>2, <2>3 DEF Bound
<1> QED BY <1>1, <1>2, <1>3, <1>4 DEF id

\* Every step keeps the types and the sessions requests have read.
LEMMA TypedNext == Sound /\ [Next]_vars => Typed' /\ ReadSessionsStay'
<1> SUFFICES ASSUME Typed, ReadSessionsStay, HandoffHeld, [Next]_vars
             PROVE  Typed' /\ ReadSessionsStay'
  BY DEF Sound
<1> DEFINE Reqs == {Idle} \cup Sending \cup LoggingIn \cup Exchanging \cup Deleting
           CodeStates == {"none", "fresh", "used", "expired", "gone"}
<1>0. Idle \in Reqs /\ Idle.pc \notin {"login", "exchange"}
  BY DEF Idle
<1>1. ASSUME NEW r \in Requests, NEW q \in Reqs, req' = [req EXCEPT ![r] = q]
      PROVE  req' \in [Requests -> Reqs]
  BY <1>1 DEF Typed
<1>2. ASSUME NEW id \in Ids PROVE Live(id) \subseteq Issued /\ Live(id) \subseteq Numbers
  BY DEF Live, Issued
<1>3. ASSUME NEW c \in 0..MaxCodes
      PROVE  Spent(c) \in [1..MaxCodes -> CodeStates]
  BY DEF Spent, Typed
<1> HIDE DEF Reqs, CodeStates
<1>4. ASSUME NEW r \in Requests, SendBegin(r) PROVE Typed' /\ ReadSessionsStay'
  <2> DEFINE q == [pc |-> "sending", unused |-> Fresh]
  <2>1. q \in Sending
    BY DEF Sending, Fresh
  <2>2. req' = [req EXCEPT ![r] = q] /\ req' \in [Requests -> Reqs]
    BY <1>4, <1>1, <2>1 DEF SendBegin, Reqs
  <2>3. q.pc \notin {"login", "exchange"} /\ Issued' = Issued
    BY <1>4 DEF SendBegin, Issued
  <2> HIDE DEF q
  <2> QED BY <1>4, <2>2, <2>3, StayNext DEF SendBegin, Typed, Reqs
<1>5. ASSUME NEW r \in Requests, SendCommit(r) PROVE Typed' /\ ReadSessionsStay'
  <2>1. req' = [req EXCEPT ![r] = Idle] /\ req' \in [Requests -> Reqs] /\ Issued' = Issued
    BY <1>5, <1>0, <1>1 DEF SendCommit, Issued
  <2>2. codes' \in [1..MaxCodes -> CodeStates]
    BY <1>5 DEF SendCommit, Typed, CodeStates
  <2> QED BY <1>5, <1>0, <2>1, <2>2, StayNext DEF SendCommit, Typed, Reqs, CodeStates
<1>6. ASSUME NEW r \in Requests, NEW c \in 0..MaxCodes, NEW app \in BOOLEAN,
             NEW invited \in BOOLEAN, LoginBegin(r, c, app, invited)
      PROVE  Typed' /\ ReadSessionsStay'
  <2> DEFINE q == [pc |-> "login", code |-> c, app |-> app, invited |-> invited,
                   account |-> account,
                   live |-> IF account = NoRow THEN {} ELSE Live(account.id),
                   config |-> config]
  <2>1. q.live \subseteq Issued /\ q.live \subseteq Numbers
    BY DEF Live, Issued
  <2>2. q \in LoggingIn
    BY <2>1 DEF LoggingIn, Typed
  <2>3. req' = [req EXCEPT ![r] = q] /\ req' \in [Requests -> Reqs]
    BY <1>6, <1>1, <2>2 DEF LoginBegin, Reqs
  <2>4. Issued' = Issued
    BY <1>6 DEF LoginBegin, Issued
  <2> HIDE DEF q
  <2> QED BY <1>6, <2>1, <2>3, <2>4, StayNext DEF LoginBegin, Typed, Reqs
<1>7. ASSUME NEW r \in Requests, NEW there \in BOOLEAN, LoginCommit(r, there)
      PROVE  Typed' /\ ReadSessionsStay'
  <2> DEFINE new == req[r].account = NoRow
             id == IF new THEN created + 1 ELSE req[r].account.id
             bound == Bound(r, id)
             result == IF req[r].app THEN Activation(bound, id, there)
                                     ELSE [row |-> bound, entries |-> {}]
             paid == IF req[r].invited THEN Entry("registration", id, req[r].config.invitee)
                                       ELSE {}
  <2>1. req[r] \in LoggingIn /\ id \in Ids /\ bound \in Binding \cup {NoRow}
        /\ (new => created' = id)
    BY <1>7, LoginAccount
  <2>2. /\ account' = IF new THEN [id |-> id, enabled |-> TRUE] ELSE account
        /\ ~new => created' = created
        /\ binding' = [binding EXCEPT ![id] = result.row]
        /\ ledger' = ledger \cup result.entries \cup paid
        /\ Issue(id, req[r].live, "login") /\ codes' = Spent(req[r].code)
        /\ req' = [req EXCEPT ![r] = Idle]
        /\ UNCHANGED <<provider, handoff, config>>
    BY <1>7 DEF LoginCommit
  <2> HIDE DEF id, bound
  <2>3. result.row \in Binding \cup {NoRow} /\ result.entries \subseteq LedgerEntry
    BY <2>1, ActivationType
  <2>4. paid \subseteq LedgerEntry
    <3>1. req[r].config \in Policies
      BY <2>1 DEF LoggingIn
    <3> QED BY <2>1, <3>1, PolicyAmounts, EntryType
  <2> HIDE DEF result, paid, new
  <2>5. req[r].live \subseteq Issued /\ req[r].code \in 0..MaxCodes
    BY <1>7, <2>1 DEF ReadSessionsStay, LoginCommit, LoggingIn
  <2>6. sessions' \in [Numbers -> SessionRow \cup {NoRow}] /\ Issued \subseteq Issued'
    BY <2>1, <2>2, <2>5, IssueKeeps
  <2>7. account' \in AccountRow
    BY <2>1, <2>2 DEF AccountRow, Typed
  <2>8. created' \in 0..MaxAccounts
    BY <2>1, <2>2, AccountAssumption DEF AccountAssumption, Ids, Typed
  <2>9. binding' \in [Ids -> Binding \cup {NoRow}] /\ ledger' \subseteq LedgerEntry
    BY <2>1, <2>2, <2>3, <2>4 DEF Typed
  <2>10. codes' \in [1..MaxCodes -> CodeStates] /\ req' \in [Requests -> Reqs]
    BY <1>0, <1>1, <1>3, <2>2, <2>5
  <2>11. ReadSessionsStay'
    BY <1>0, <2>2, <2>6, StayNext
  <2> QED BY <2>2, <2>6, <2>7, <2>8, <2>9, <2>10, <2>11 DEF Typed, Reqs, CodeStates
<1>8. ASSUME NEW r \in Requests, LoginDisabled(r) PROVE Typed' /\ ReadSessionsStay'
  <2>1. req[r].code \in 0..MaxCodes
    BY <1>8, Running DEF LoginDisabled, LoggingIn
  <2>2. req' = [req EXCEPT ![r] = Idle] /\ req' \in [Requests -> Reqs] /\ Issued' = Issued
    BY <1>8, <1>0, <1>1 DEF LoginDisabled, Issued
  <2>3. codes' \in [1..MaxCodes -> CodeStates]
    BY <1>3, <1>8, <2>1 DEF LoginDisabled
  <2> QED BY <1>8, <1>0, <2>2, <2>3, StayNext DEF LoginDisabled, Typed, Reqs, CodeStates
<1>9. ASSUME NEW r \in Requests, Abandon(r) PROVE Typed' /\ ReadSessionsStay'
  <2>1. req' = [req EXCEPT ![r] = Idle] /\ req' \in [Requests -> Reqs] /\ Issued' = Issued
    BY <1>9, <1>0, <1>1 DEF Abandon, Issued
  <2> QED BY <1>9, <1>0, <2>1, StayNext DEF Abandon, Typed, Reqs
<1>10. ASSUME NEW r \in Requests, ExchangeBegin(r) PROVE Typed' /\ ReadSessionsStay'
  <2> DEFINE q == [pc |-> "exchange", id |-> handoff.id, live |-> Live(handoff.id)]
  <2>1. handoff \in [id : Ids, used : BOOLEAN]
    BY <1>10 DEF ExchangeBegin, Typed
  <2>2. q.live \subseteq Issued /\ q.live \subseteq Numbers
    BY <1>2, <2>1
  <2>3. q \in Exchanging
    BY <2>1, <2>2 DEF Exchanging
  <2>4. req' = [req EXCEPT ![r] = q] /\ req' \in [Requests -> Reqs]
    BY <1>10, <1>1, <2>3 DEF ExchangeBegin, Reqs
  <2>5. Issued' = Issued
    BY <1>10 DEF ExchangeBegin, Issued
  <2> HIDE DEF q
  <2> QED BY <1>10, <2>2, <2>4, <2>5, StayNext DEF ExchangeBegin, Typed, Reqs
<1>11. ASSUME NEW r \in Requests, NEW there \in BOOLEAN, ExchangeCommit(r, there),
              handoff # NoRow
       PROVE  Typed' /\ ReadSessionsStay'
  <2> DEFINE id == req[r].id
             result == Activation(binding[id], id, there)
  <2>1. id \in Ids /\ req[r].live \subseteq Issued
    BY <1>11, Running DEF ExchangeCommit, Exchanging, ReadSessionsStay
  <2>2. /\ binding' = [binding EXCEPT ![id] = result.row]
        /\ ledger' = ledger \cup result.entries
        /\ Issue(id, req[r].live, "handoff")
        /\ req' = [req EXCEPT ![r] = Idle]
        /\ UNCHANGED <<provider, account, created, codes, config>>
    BY <1>11 DEF ExchangeCommit
  <2> HIDE DEF id
  <2>3. result.row \in Binding \cup {NoRow} /\ result.entries \subseteq LedgerEntry
    BY <2>1, ActivationType DEF Typed
  <2> HIDE DEF result
  <2>4. sessions' \in [Numbers -> SessionRow \cup {NoRow}] /\ Issued \subseteq Issued'
    BY <2>1, <2>2, IssueKeeps
  <2>5. binding' \in [Ids -> Binding \cup {NoRow}] /\ ledger' \subseteq LedgerEntry
    BY <2>1, <2>2, <2>3 DEF Typed
  <2>6. handoff' \in [id : Ids, used : BOOLEAN] \cup {NoRow}
    BY <1>11 DEF ExchangeCommit, Typed
  <2>7. req' \in [Requests -> Reqs] /\ ReadSessionsStay'
    BY <1>0, <1>1, <2>2, <2>4, StayNext
  <2> QED BY <2>2, <2>4, <2>5, <2>6, <2>7 DEF Typed, Reqs
<1>12. ASSUME NEW r \in Requests, NEW n \in Numbers, DeleteBegin(r, n)
       PROVE  Typed' /\ ReadSessionsStay'
  <2> DEFINE q == [pc |-> "deleting", id |-> sessions[n].id]
  <2>1. sessions[n] \in SessionRow
    BY <1>12 DEF DeleteBegin, SignedIn, Issued, Typed
  <2>2. q \in Deleting
    BY <2>1 DEF Deleting, SessionRow
  <2>3. req' = [req EXCEPT ![r] = q] /\ req' \in [Requests -> Reqs]
    BY <1>12, <1>1, <2>2 DEF DeleteBegin, Reqs
  <2>4. q.pc \notin {"login", "exchange"} /\ Issued' = Issued
    BY <1>12 DEF DeleteBegin, Issued
  <2> HIDE DEF q
  <2> QED BY <1>12, <2>3, <2>4, StayNext DEF DeleteBegin, Typed, Reqs
<1>13. ASSUME NEW r \in Requests, DeleteCommit(r) PROVE Typed' /\ ReadSessionsStay'
  <2>1. req[r].id \in Ids
    BY <1>13, Running DEF DeleteCommit, Deleting
  <2>2. Live(req[r].id) \subseteq Issued
    BY <1>2, <2>1
  <2>3. sessions' \in [Numbers -> SessionRow \cup {NoRow}] /\ Issued \subseteq Issued'
    BY <1>13, <2>2, SignOutKeeps DEF DeleteCommit
  <2>4. req' = [req EXCEPT ![r] = Idle] /\ req' \in [Requests -> Reqs]
    BY <1>13, <1>0, <1>1 DEF DeleteCommit
  <2>5. codes' \in [1..MaxCodes -> CodeStates]
    BY <1>13 DEF DeleteCommit, Typed, CodeStates
  <2>6. account' \in AccountRow
    BY <1>13 DEF DeleteCommit, Typed, AccountRow
  <2>7. ReadSessionsStay'
    BY <1>0, <2>3, <2>4, StayNext
  <2> QED BY <1>13, <2>3, <2>4, <2>5, <2>6, <2>7 DEF DeleteCommit, Typed, Reqs, CodeStates
<1>14. ASSUME NEW n \in Numbers, CreateHandoff(n) PROVE Typed' /\ ReadSessionsStay'
  <2>1. sessions[n] \in SessionRow
    BY <1>14 DEF CreateHandoff, SignedIn, Issued, Typed
  <2>2. handoff' \in [id : Ids, used : BOOLEAN] \cup {NoRow}
    BY <1>14, <2>1 DEF CreateHandoff, SessionRow
  <2>3. Issued' = Issued
    BY <1>14 DEF CreateHandoff, Issued
  <2> QED BY <1>14, <2>2, <2>3, StayNext DEF CreateHandoff, Typed
<1>15. ASSUME NEW n \in Issued, sessions' = [sessions EXCEPT ![n].live = FALSE]
       PROVE  sessions' \in [Numbers -> SessionRow \cup {NoRow}] /\ Issued \subseteq Issued'
  <2>1. sessions' = [m \in Numbers |->
           IF m \in {n} THEN [sessions[m] EXCEPT !.live = FALSE] ELSE sessions[m]]
    BY <1>15 DEF Typed
  <2> QED BY <2>1, SignOutKeeps
<1>16. ASSUME NEW n \in Numbers, Logout(n) PROVE Typed' /\ ReadSessionsStay'
  <2>1. sessions' \in [Numbers -> SessionRow \cup {NoRow}] /\ Issued \subseteq Issued'
    BY <1>15, <1>16 DEF Logout, SignedIn
  <2> QED BY <1>16, <2>1, StayNext DEF Logout, Typed
<1>17. ASSUME Pass PROVE Typed' /\ ReadSessionsStay'
  <2>1. codes' \in [1..MaxCodes -> CodeStates]
    BY <1>17 DEF Pass, Typed, CodeStates
  <2>2. handoff' \in [id : Ids, used : BOOLEAN] \cup {NoRow}
    BY <1>17 DEF Pass, Typed
  <2>3. sessions' \in [Numbers -> SessionRow \cup {NoRow}] /\ Issued \subseteq Issued'
    <3>1. ASSUME sessions' = sessions PROVE Issued' = Issued
      BY <3>1 DEF Issued
    <3> QED BY <1>15, <1>17, <3>1 DEF Pass, Typed
  <2> QED BY <1>17, <2>1, <2>2, <2>3, StayNext DEF Pass, Typed, CodeStates
<1>18. ASSUME SetEnabled PROVE Typed' /\ ReadSessionsStay'
  <2>1. account' \in AccountRow
    BY <1>18 DEF SetEnabled, Typed, AccountRow
  <2>2. Issued' = Issued
    BY <1>18 DEF SetEnabled, Issued
  <2> QED BY <1>18, <2>1, <2>2, StayNext DEF SetEnabled, Typed
<1>19. ASSUME UpdateConfig PROVE Typed' /\ ReadSessionsStay'
  <2>1. Issued' = Issued
    BY <1>19 DEF UpdateConfig, Issued
  <2> QED BY <1>19, <2>1, StayNext DEF UpdateConfig, Typed
<1>20. ASSUME UNCHANGED vars PROVE Typed' /\ ReadSessionsStay'
  <2>1. Issued' = Issued
    BY <1>20 DEF vars, Issued
  <2> QED BY <1>20, <2>1, StayNext DEF vars, Typed
<1>21. ASSUME NEW r \in Requests, NEW there \in BOOLEAN, ExchangeCommit(r, there)
       PROVE  handoff # NoRow
  BY <1>21 DEF ExchangeCommit, HandoffHeld
<1> QED BY <1>4, <1>5, <1>6, <1>7, <1>8, <1>9, <1>10, <1>11, <1>12, <1>13, <1>14, <1>16, <1>17,
           <1>18, <1>19, <1>20, <1>21 DEF Next

-----------------------------------------------------------------------------
(* The handoff of a session                                                *)

\* Every step keeps the handoff code to one exchange at a time.
LEMMA HandoffHeldNext == Sound /\ [Next]_vars => HandoffHeld'
<1> SUFFICES ASSUME Typed, HandoffHeld, [Next]_vars PROVE HandoffHeld'
  BY DEF Sound
\* A request that does not exchange begins or ends.
<1>1. ASSUME NEW r \in Requests, NEW q, q.pc # "exchange", req' = [req EXCEPT ![r] = q],
             handoff' = handoff
      PROVE  HandoffHeld'
  BY <1>1 DEF HandoffHeld, Typed
<1>2. ASSUME UNCHANGED <<req, handoff>> PROVE HandoffHeld'
  BY <1>2 DEF HandoffHeld
<1>3. Idle.pc # "exchange"
  BY DEF Idle
<1>4. ASSUME NEW r \in Requests, SendBegin(r) PROVE HandoffHeld'
  <2> DEFINE q == [pc |-> "sending", unused |-> Fresh]
  <2>1. q.pc # "exchange" /\ req' = [req EXCEPT ![r] = q] /\ handoff' = handoff
    BY <1>4 DEF SendBegin
  <2> HIDE DEF q
  <2> QED BY <1>1, <2>1
<1>5. ASSUME NEW r \in Requests, NEW c \in 0..MaxCodes, NEW app \in BOOLEAN,
             NEW invited \in BOOLEAN, LoginBegin(r, c, app, invited)
      PROVE  HandoffHeld'
  <2> DEFINE q == [pc |-> "login", code |-> c, app |-> app, invited |-> invited,
                   account |-> account,
                   live |-> IF account = NoRow THEN {} ELSE Live(account.id),
                   config |-> config]
  <2>1. q.pc # "exchange" /\ req' = [req EXCEPT ![r] = q] /\ handoff' = handoff
    BY <1>5 DEF LoginBegin
  <2> HIDE DEF q
  <2> QED BY <1>1, <2>1
<1>6. ASSUME NEW r \in Requests, NEW n \in Numbers, DeleteBegin(r, n) PROVE HandoffHeld'
  <2> DEFINE q == [pc |-> "deleting", id |-> sessions[n].id]
  <2>1. q.pc # "exchange" /\ req' = [req EXCEPT ![r] = q] /\ handoff' = handoff
    BY <1>6 DEF DeleteBegin
  <2> HIDE DEF q
  <2> QED BY <1>1, <2>1
<1>7. ASSUME NEW r \in Requests, ExchangeBegin(r) PROVE HandoffHeld'
  <2> DEFINE q == [pc |-> "exchange", id |-> handoff.id, live |-> Live(handoff.id)]
  <2>1. /\ \A s \in Requests : req[s].pc # "exchange"
        /\ handoff # NoRow /\ ~handoff.used /\ handoff' = handoff
        /\ req' = [req EXCEPT ![r] = q]
    BY <1>7 DEF ExchangeBegin, HandoffLocked
  <2> HIDE DEF q
  <2> QED BY <2>1 DEF HandoffHeld, Typed
<1>8. ASSUME NEW r \in Requests, NEW there \in BOOLEAN, ExchangeCommit(r, there)
      PROVE  HandoffHeld'
  <2>1. req' = [req EXCEPT ![r] = Idle] /\ req[r].pc = "exchange"
    BY <1>8 DEF ExchangeCommit
  <2>2. \A s \in Requests : req'[s].pc # "exchange"
    BY <1>3, <2>1 DEF HandoffHeld, Typed
  <2> QED BY <2>2 DEF HandoffHeld
<1>9. ASSUME NEW n \in Numbers, CreateHandoff(n) PROVE HandoffHeld'
  BY <1>9 DEF CreateHandoff, HandoffHeld
<1>10. ASSUME Pass PROVE HandoffHeld'
  <2>1. CASE handoff' = handoff
    BY <1>2, <1>10, <2>1 DEF Pass
  <2>2. CASE handoff' # handoff
    BY <1>10, <2>2 DEF Pass, HandoffLocked, HandoffHeld
  <2> QED BY <2>1, <2>2
<1>11. ASSUME NEW r \in Requests, NEW there \in BOOLEAN,
              SendCommit(r) \/ LoginCommit(r, there) \/ LoginDisabled(r) \/ Abandon(r)
              \/ DeleteCommit(r)
       PROVE  HandoffHeld'
  <2>1. req' = [req EXCEPT ![r] = Idle] /\ handoff' = handoff
    BY <1>11 DEF SendCommit, LoginCommit, LoginDisabled, Abandon, DeleteCommit
  <2> QED BY <1>1, <1>3, <2>1
<1>12. ASSUME NEW n \in Numbers, Logout(n) PROVE HandoffHeld'
  BY <1>2, <1>12 DEF Logout
<1>13. ASSUME SetEnabled \/ UpdateConfig \/ UNCHANGED vars PROVE HandoffHeld'
  BY <1>2, <1>13 DEF SetEnabled, UpdateConfig, vars
<1> QED BY <1>4, <1>5, <1>6, <1>7, <1>8, <1>9, <1>10, <1>11, <1>12, <1>13 DEF Next

\* The invariant behind the theorems is inductive.
LEMMA SoundAlways == Spec => []Sound
<1>1. Sound /\ [Next]_vars => Sound'
  BY TypedNext, HandoffHeldNext DEF Sound
<1> QED BY <1>1, SoundInit, PTL DEF Spec

\* Every instance keeps its types: no identity gets a number beyond its accounts, and every
\* session, code, binding and entry is one of the kinds its table holds.
THEOREM TypeCorrect == Spec => []TypeOK
<1>1. Sound => TypeOK
  <2> SUFFICES ASSUME Typed, NEW r \in Requests
               PROVE  req[r].pc \in {"idle", "sending", "login", "exchange", "deleting"}
    BY DEF Sound, Typed, TypeOK, AccountRow, SessionRow, LedgerEntry
  <2> QED BY DEF Typed, Idle, Sending, LoggingIn, Exchanging, Deleting
<1> QED BY <1>1, SoundAlways, PTL

\* A step that issues a session for a handoff finds the code unused.
LEMMA HandoffStep ==
  ASSUME Sound, [Next]_vars, NEW n \in Numbers,
         sessions[n] = NoRow, sessions'[n] # NoRow, sessions'[n].via = "handoff"
  PROVE  handoff # NoRow /\ ~handoff.used
<1> USE DEF Sound
<1>1. ASSUME NEW r \in Requests, NEW there \in BOOLEAN, LoginCommit(r, there) PROVE FALSE
  <2> DEFINE id == IF req[r].account = NoRow THEN created + 1 ELSE req[r].account.id
  <2>1. id \in Ids
    BY <1>1, LoginAccount
  <2>2. Issue(id, req[r].live, "login") /\ req[r].live \subseteq Issued
    BY <1>1 DEF LoginCommit, ReadSessionsStay
  <2> HIDE DEF id
  <2> QED BY <2>1, <2>2, IssueKeeps
<1>2. ASSUME NEW r \in Requests, NEW there \in BOOLEAN, ExchangeCommit(r, there)
      PROVE  handoff # NoRow /\ ~handoff.used
  BY <1>2 DEF ExchangeCommit, HandoffHeld
<1>3. ASSUME NEW r \in Requests, DeleteCommit(r) PROVE FALSE
  <2>1. Live(req[r].id) \subseteq Issued
    BY DEF Live, Issued
  <2> QED BY <1>3, <2>1, SignOutKeeps DEF DeleteCommit
<1>4. ASSUME NEW m \in Issued, sessions' = [sessions EXCEPT ![m].live = FALSE] PROVE FALSE
  BY <1>4 DEF Issued, Typed
<1>5. sessions' # sessions
  OBVIOUS
<1>6. CASE UNCHANGED vars
  BY <1>5, <1>6 DEF vars
<1>7. CASE Next
  BY <1>1, <1>2, <1>3, <1>4, <1>5, <1>7
     DEF Next, SendBegin, SendCommit, LoginBegin, LoginDisabled, Abandon, ExchangeBegin,
         DeleteBegin, CreateHandoff, Logout, SignedIn, Pass, SetEnabled, UpdateConfig
<1> QED BY <1>6, <1>7

\* However requests that carry one handoff code overlap, with logins, logouts, deletions and
\* expiries in between, the code buys one session: when one is issued the code is unused.
THEOREM HandoffOnce == Spec => HandoffIsSingleUse
<1>1. Sound /\ [Next]_vars =>
         [\A n \in Numbers : sessions[n] = NoRow /\ sessions'[n] # NoRow
                             /\ sessions'[n].via = "handoff"
             => handoff = NoRow \/ ~handoff.used]_vars
  BY HandoffStep
<1> QED BY <1>1, SoundAlways, PTL DEF Spec, HandoffIsSingleUse

-----------------------------------------------------------------------------
(* Referrals                                                               *)

\* What the ledger owes for the binding of an account.
DueOf(b, id) ==
    IF b = NoRow THEN {}
    ELSE Entry("registration", id, b.reward.invitee) \cup
         (IF b.status = "activated" THEN Entry("activation", id, b.reward.inviter) ELSE {})

Pays == ledger = UNION {DueOf(binding[id], id) : id \in Ids}

\* Accounts to come have no binding.
NoneAhead == \A id \in Ids : id > created => binding[id] = NoRow

\* Pays is the property, said account by account.
LEMMA PaysIsTheProperty == Pays => ReferralPaysWhatItPromised
<1> SUFFICES ASSUME Pays PROVE ReferralPaysWhatItPromised
  OBVIOUS
<1> DEFINE There == {id \in Ids : binding[id] # NoRow}
           Due(id) == Entry("registration", id, binding[id].reward.invitee) \cup
                      (IF binding[id].status = "activated"
                          THEN Entry("activation", id, binding[id].reward.inviter) ELSE {})
<1>1. \A id \in There : DueOf(binding[id], id) = Due(id)
  BY DEF DueOf
<1>2. \A id \in Ids \ There : DueOf(binding[id], id) = {}
  BY DEF DueOf
<1> HIDE DEF Due
<1>3. UNION {DueOf(binding[id], id) : id \in Ids} = UNION {Due(id) : id \in There}
  BY <1>1, <1>2
<1> QED BY <1>3 DEF Pays, Due, ReferralPaysWhatItPromised

\* A step that changes what one account is owed, and adds just that to the ledger.
LEMMA PaysForOne ==
  ASSUME Typed, Pays, NEW id \in Ids, NEW row, NEW more,
         binding' = [binding EXCEPT ![id] = row], ledger' = ledger \cup more,
         DueOf(row, id) = DueOf(binding[id], id) \cup more
  PROVE  Pays'
<1>1. \A j \in Ids : j # id => DueOf(binding'[j], j) = DueOf(binding[j], j)
  BY DEF Typed
<1>2. DueOf(binding'[id], id) = DueOf(binding[id], id) \cup more
  BY DEF Typed
<1>3. UNION {DueOf(binding'[j], j) : j \in Ids}
         = (UNION {DueOf(binding[j], j) : j \in Ids}) \cup more
  BY <1>1, <1>2
<1> QED BY <1>3 DEF Pays

\* An activation pays what it makes the binding owe.
LEMMA ActivationPays ==
  ASSUME NEW b \in Binding \cup {NoRow}, NEW id \in Ids, NEW there
  PROVE  DueOf(Activation(b, id, there).row, id) = DueOf(b, id) \cup Activation(b, id, there).entries
<1>1. NoRow \notin Binding
  BY AccountAssumption DEF AccountAssumption, Binding
<1>2. CASE b # NoRow /\ b.status = "pending" /\ there
  <2> DEFINE row == [b EXCEPT !.status = "activated"]
  <2>1. row \in Binding /\ row.status = "activated" /\ row.reward = b.reward
    BY <1>2 DEF Binding
  <2>2. Activation(b, id, there) =
           [row |-> row, entries |-> Entry("activation", id, b.reward.inviter)]
    BY <1>2 DEF Activation
  <2>3. DueOf(b, id) = Entry("registration", id, b.reward.invitee)
    BY <1>2 DEF DueOf
  <2> HIDE DEF row
  <2>4. DueOf(row, id) = Entry("registration", id, b.reward.invitee)
                         \cup Entry("activation", id, b.reward.inviter)
    BY <1>1, <2>1 DEF DueOf
  <2> QED BY <2>2, <2>3, <2>4
<1>3. CASE ~(b # NoRow /\ b.status = "pending" /\ there)
  BY <1>3 DEF Activation
<1> QED BY <1>2, <1>3

\* Every step keeps the ledger at what the bindings owe.
LEMMA PaysNext == Sound /\ Pays /\ NoneAhead /\ [Next]_vars => Pays' /\ NoneAhead'
<1> SUFFICES ASSUME Sound, Pays, NoneAhead, [Next]_vars PROVE Pays' /\ NoneAhead'
  OBVIOUS
<1> USE DEF Sound
<1>1. NoRow \notin Binding
  BY AccountAssumption DEF AccountAssumption, Binding
<1>2. ASSUME NEW r \in Requests, NEW there \in BOOLEAN, LoginCommit(r, there)
      PROVE  Pays' /\ NoneAhead'
  <2> DEFINE new == req[r].account = NoRow
             id == IF new THEN created + 1 ELSE req[r].account.id
             bound == Bound(r, id)
             result == IF req[r].app THEN Activation(bound, id, there)
                                     ELSE [row |-> bound, entries |-> {}]
             paid == IF req[r].invited THEN Entry("registration", id, req[r].config.invitee)
                                       ELSE {}
  <2>1. /\ req[r] \in LoggingIn /\ id \in Ids /\ bound \in Binding \cup {NoRow}
        /\ new => created' = id /\ id = created + 1
        /\ ~new => created' = created
    BY <1>2, LoginAccount DEF LoginCommit
  <2>2. /\ req[r].invited => new
        /\ binding' = [binding EXCEPT ![id] = result.row]
        /\ ledger' = ledger \cup result.entries \cup paid
    BY <1>2 DEF LoginCommit
  <2>3. new => binding[id] = NoRow
    <3>1. ASSUME new PROVE id > created
      BY <2>1, <3>1 DEF Typed
    <3> QED BY <2>1, <3>1 DEF NoneAhead
  <2>4. DueOf(bound, id) = DueOf(binding[id], id) \cup paid
    <3>1. CASE req[r].invited
      <4>1. bound = [status |-> "pending", reward |-> req[r].config]
        BY <3>1 DEF Bound
      <4>2. bound # NoRow
        BY <1>1, <2>1, <4>1 DEF LoggingIn, Binding
      <4>3. DueOf(bound, id) = Entry("registration", id, req[r].config.invitee)
        BY <4>1, <4>2 DEF DueOf
      <4>4. DueOf(binding[id], id) = {}
        BY <2>2, <2>3, <3>1 DEF DueOf
      <4> QED BY <3>1, <4>3, <4>4
    <3>2. CASE ~req[r].invited
      BY <3>2 DEF Bound
    <3> QED BY <3>1, <3>2
  <2> HIDE DEF id, bound, paid
  <2>5. DueOf(result.row, id) = DueOf(bound, id) \cup result.entries
    BY <2>1, ActivationPays
  <2> HIDE DEF result
  <2>6. Pays'
    <3> DEFINE more == result.entries \cup paid
    <3>1. DueOf(result.row, id) = DueOf(binding[id], id) \cup more /\ ledger' = ledger \cup more
      BY <2>2, <2>4, <2>5
    <3> HIDE DEF more
    <3> QED BY <2>1, <2>2, <3>1, PaysForOne
  <2>7. NoneAhead'
    <3> SUFFICES ASSUME NEW j \in Ids, j > created' PROVE binding'[j] = NoRow
      BY DEF NoneAhead
    <3>1. created \in 0..MaxAccounts /\ j \in Nat
      BY AccountAssumption DEF AccountAssumption, Typed, Ids
    <3>2. CASE j # id
      <4>1. j > created
        BY <2>1, <3>1, <3>2 DEF Ids
      <4> QED BY <2>2, <3>2, <4>1 DEF NoneAhead, Typed
    <3>3. CASE j = id
      <4>1. ~new /\ j > created
        BY <2>1, <3>1, <3>3
      <4>2. bound = NoRow
        BY <2>2, <3>3, <4>1 DEF NoneAhead, Bound, bound
      <4>3. result.row = NoRow
        BY <4>2 DEF result, Activation
      <4> QED BY <2>1, <2>2, <3>3, <4>3 DEF Typed
    <3> QED BY <3>2, <3>3
  <2> QED BY <2>6, <2>7
<1>3. ASSUME NEW r \in Requests, NEW there \in BOOLEAN, ExchangeCommit(r, there)
      PROVE  Pays' /\ NoneAhead'
  <2> DEFINE id == req[r].id
             result == Activation(binding[id], id, there)
  <2>1. id \in Ids /\ binding[id] \in Binding \cup {NoRow}
    BY <1>3, Running DEF ExchangeCommit, Exchanging, Typed
  <2>2. /\ binding' = [binding EXCEPT ![id] = result.row]
        /\ ledger' = ledger \cup result.entries
        /\ created' = created
    BY <1>3 DEF ExchangeCommit
  <2>3. DueOf(result.row, id) = DueOf(binding[id], id) \cup result.entries
        /\ (binding[id] = NoRow => result.row = NoRow)
    BY <2>1, ActivationPays, ActivationType
  <2> HIDE DEF id, result
  <2>4. Pays'
    BY <2>1, <2>2, <2>3, PaysForOne
  <2>5. NoneAhead'
    BY <2>1, <2>2, <2>3 DEF NoneAhead, Typed
  <2> QED BY <2>4, <2>5
<1>4. ASSUME UNCHANGED <<binding, ledger, created>> PROVE Pays' /\ NoneAhead'
  BY <1>4 DEF Pays, NoneAhead
<1>5. CASE UNCHANGED vars
  BY <1>4, <1>5 DEF vars
<1>6. CASE Next
  BY <1>2, <1>3, <1>4, <1>6
     DEF Next, SendBegin, SendCommit, LoginBegin, LoginDisabled, Abandon, ExchangeBegin,
         DeleteBegin, DeleteCommit, CreateHandoff, Logout, Pass, SetEnabled, UpdateConfig
<1> QED BY <1>5, <1>6

\* For any policies and any number of accounts, codes, sessions and requests, the ledger
\* holds what the bindings promised when the accounts were made, and nothing else.
THEOREM ReferralsPay == Spec => []ReferralPaysWhatItPromised
<1>1. Init => Pays /\ NoneAhead
  <2> SUFFICES ASSUME Init PROVE Pays /\ NoneAhead
    OBVIOUS
  <2>1. \A id \in Ids : DueOf(binding[id], id) = {}
    BY DEF Init, DueOf
  <2> QED BY <2>1 DEF Init, Pays, NoneAhead
<1> QED BY <1>1, SoundAlways, PaysNext, PaysIsTheProperty, PTL DEF Spec
=============================================================================
