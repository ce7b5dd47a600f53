------------------------------ MODULE Accounts ------------------------------
(***************************************************************************)
(* One login identity (provider and subject): verification codes, the      *)
(* accounts it has one after the other, their device sessions, the handoff *)
(* of a web session to the app, the referral that brought a new account    *)
(* in, and the deletion of an account.                                     *)
(*                                                                         *)
(* A request reads a snapshot of the database and commits later; rows read *)
(* FOR UPDATE, and the keys of tables, are checked when it commits.        *)
(***************************************************************************)
EXTENDS Naturals, FiniteSets, AccountParameters

VARIABLES
    provider,   \* "email" or "google"
    account,    \* the users row of the identity, NoRow when there is none
    created,    \* accounts the identity has had so far
    codes,      \* codes[c]: the login codes sent to the address
    sessions,   \* sessions[n]: the nth user_tokens row issued
    handoff,    \* the app_handoff_codes row
    binding,    \* binding[id]: referral_bindings, NoRow when there is none
    ledger,     \* the referral entries of credit_ledger_entries
    config,     \* the active referral reward policy
    req         \* req[r]: a request under way

vars == <<provider, account, created, codes, sessions, handoff, binding, ledger, config, req>>

Ids == 1..MaxAccounts
Numbers == 1..MaxIssued
Binding == [status : {"pending", "activated"}, reward : Policies]
Idle == [pc |-> "idle"]

TypeOK ==
    /\ provider \in {"email", "google"}
    /\ account \in [id : Ids, enabled : BOOLEAN] \cup {NoRow}
    /\ created \in 0..MaxAccounts
    /\ codes \in [1..MaxCodes -> {"none", "fresh", "used", "expired", "gone"}]
    /\ sessions \in [Numbers -> [id : Ids, live : BOOLEAN, via : {"login", "handoff"}] \cup {NoRow}]
    /\ handoff \in [id : Ids, used : BOOLEAN] \cup {NoRow}
    /\ binding \in [Ids -> Binding \cup {NoRow}]
    /\ ledger \subseteq [kind : {"registration", "activation"}, id : Ids, amount : Nat]
    /\ config \in Policies
    /\ \A r \in Requests : req[r].pc \in {"idle", "sending", "login", "exchange", "deleting"}

Init ==
    /\ provider \in {"email", "google"}
    /\ account = NoRow /\ created = 0
    /\ codes = [c \in 1..MaxCodes |-> "none"]
    /\ sessions = [n \in Numbers |-> NoRow]
    /\ handoff = NoRow
    /\ binding = [id \in Ids |-> NoRow]
    /\ ledger = {}
    /\ config \in Policies
    /\ req = [r \in Requests |-> Idle]

Issued == {n \in Numbers : sessions[n] # NoRow}
Live(id) == {n \in Issued : sessions[n].live /\ sessions[n].id = id}

\* load_app_user: a session stands for its account while the account exists and is enabled.
SignedIn(n) ==
    n \in Issued /\ sessions[n].live /\ account # NoRow
    /\ account.id = sessions[n].id /\ account.enabled

-----------------------------------------------------------------------------
(* Verification codes                                                      *)

Fresh == {c \in 1..MaxCodes : codes[c] = "fresh"}

\* issue_email_code reads the latest code, which the interval must have passed for, and
\* those that are not used yet ...
SendBegin(r) ==
    /\ provider = "email"
    /\ req[r].pc = "idle"
    /\ req' = [req EXCEPT ![r] = [pc |-> "sending", unused |-> Fresh]]
    /\ UNCHANGED <<provider, account, created, codes, sessions, handoff, binding,
                   ledger, config>>

\* ... and, when the mail was accepted, retires them and adds the new one.
SendCommit(r) ==
    /\ req[r].pc = "sending"
    /\ \A c \in req[r].unused : codes[c] # "gone"
    /\ \E c \in 1..MaxCodes :
          /\ codes[c] = "none" /\ \A d \in 1..(c - 1) : codes[d] # "none"
          /\ codes' = [d \in 1..MaxCodes |-> IF d = c THEN "fresh"
                          ELSE IF d \in req[r].unused THEN "used" ELSE codes[d]]
    /\ req' = [req EXCEPT ![r] = Idle]
    /\ UNCHANGED <<provider, account, created, sessions, handoff, binding, ledger, config>>

\* An exchange holds the row of the handoff code (FOR UPDATE).
HandoffLocked == \E r \in Requests : req[r].pc = "exchange"

\* The life of a code, of a session, of a handoff nobody exchanges ends.
Pass ==
    /\ \/ \E c \in Fresh : codes' = [codes EXCEPT ![c] = "expired"]
                           /\ UNCHANGED <<sessions, handoff>>
       \/ \E n \in Issued : /\ sessions[n].live
                            /\ sessions' = [sessions EXCEPT ![n].live = FALSE]
                            /\ UNCHANGED <<codes, handoff>>
       \/ ~HandoffLocked /\ handoff # NoRow /\ handoff' = NoRow /\ UNCHANGED <<codes, sessions>>
    /\ UNCHANGED <<provider, account, created, binding, ledger, config, req>>

-----------------------------------------------------------------------------
(* Login                                                                   *)

\* find_valid_code, or the verification of the Google token; the rows the request goes on
\* with are those of its snapshot.
LoginBegin(r, c, app, invited) ==
    /\ req[r].pc = "idle"
    /\ IF provider = "email" THEN c \in Fresh ELSE c = 0
    /\ req' = [req EXCEPT ![r] =
          [pc |-> "login", code |-> c, app |-> app, invited |-> invited, account |-> account,
           live |-> IF account = NoRow THEN {} ELSE Live(account.id),
           config |-> config]]
    /\ UNCHANGED <<provider, account, created, codes, sessions, handoff, binding,
                   ledger, config>>

Spent(c) == IF c = 0 THEN codes ELSE [codes EXCEPT ![c] = "used"]

\* issue_user_token keeps the newest sessions it has read and adds one.
Stale(live) == {n \in live : Cardinality({m \in live : m > n}) >= MaxSessions - 1}

Issue(id, live, via) ==
    \E n \in Numbers :
        /\ sessions[n] = NoRow /\ \A m \in 1..(n - 1) : sessions[m] # NoRow
        /\ sessions' = [m \in Numbers |->
              IF m = n THEN [id |-> id, live |-> TRUE, via |-> via]
              ELSE IF m \in Stale(live) THEN [sessions[m] EXCEPT !.live = FALSE]
              ELSE sessions[m]]

Entry(kind, id, amount) ==
    IF amount > 0 THEN {[kind |-> kind, id |-> id, amount |-> amount]} ELSE {}

\* activate_referral_from_android: the binding is read FOR UPDATE; there says whether the
\* request still sees the inviting account.
Activation(b, id, there) ==
    IF b # NoRow /\ b.status = "pending" /\ there
    THEN [row |-> [b EXCEPT !.status = "activated"],
          entries |-> Entry("activation", id, b.reward.inviter)]
    ELSE [row |-> b, entries |-> {}]

BoundNow(r, id) ==
    IF req[r].invited THEN [status |-> "pending", reward |-> config] ELSE binding[id]

\* get_or_create_user and bind_referral_for_new_user: what the account's binding is before
\* an activation.
Bound(r, id) ==
    IF req[r].invited THEN [status |-> "pending", reward |-> req[r].config] ELSE binding[id]

LoginCommit(r, there) ==
    LET new == req[r].account = NoRow
        id == IF new THEN created + 1 ELSE req[r].account.id
        bound == Bound(r, id)
        result == IF req[r].app THEN Activation(bound, id, there)
                                ELSE [row |-> bound, entries |-> {}]
    IN  /\ req[r].pc = "login"
        /\ req[r].invited => new
        /\ IF new THEN account = NoRow /\ created < MaxAccounts ELSE req[r].account.enabled
        /\ req[r].code # 0 => codes[req[r].code] # "gone"
        /\ codes' = Spent(req[r].code)
        /\ account' = IF new THEN [id |-> id, enabled |-> TRUE] ELSE account
        /\ created' = IF new THEN id ELSE created
        /\ binding' = [binding EXCEPT ![id] = result.row]
        /\ ledger' = ledger \cup result.entries \cup
              (IF req[r].invited THEN Entry("registration", id, req[r].config.invitee) ELSE {})
        /\ Issue(id, req[r].live, "login")
        /\ req' = [req EXCEPT ![r] = Idle]
        /\ UNCHANGED <<provider, handoff, config>>

\* A disabled account spends the code and gets no session.
LoginDisabled(r) ==
    /\ req[r].pc = "login"
    /\ req[r].account # NoRow /\ ~req[r].account.enabled /\ ~req[r].invited
    /\ req[r].code # 0 => codes[req[r].code] # "gone"
    /\ codes' = Spent(req[r].code)
    /\ req' = [req EXCEPT ![r] = Idle]
    /\ UNCHANGED <<provider, account, created, sessions, handoff, binding, ledger,
                   config>>

\* The mail server, the unique key of the identity, a row that has gone, the services a
\* deletion needs, or a crash: the transaction is rolled back.
Abandon(r) ==
    /\ req[r].pc # "idle"
    /\ req' = [req EXCEPT ![r] = Idle]
    /\ UNCHANGED <<provider, account, created, codes, sessions, handoff, binding,
                   ledger, config>>

-----------------------------------------------------------------------------
(* Handoff, logout, administration                                         *)

CreateHandoff(n) ==
    /\ SignedIn(n) /\ handoff = NoRow
    /\ handoff' = [id |-> sessions[n].id, used |-> FALSE]
    /\ UNCHANGED <<provider, account, created, codes, sessions, binding, ledger,
                   config, req>>

\* exchange_app_handoff reads the code FOR UPDATE and keeps it locked until it commits.
ExchangeBegin(r) ==
    /\ req[r].pc = "idle" /\ ~HandoffLocked
    /\ handoff # NoRow /\ ~handoff.used
    /\ account # NoRow /\ account.id = handoff.id /\ account.enabled
    /\ req' = [req EXCEPT ![r] = [pc |-> "exchange", id |-> handoff.id,
                                  live |-> Live(handoff.id)]]
    /\ UNCHANGED <<provider, account, created, codes, sessions, handoff, binding,
                   ledger, config>>

ExchangeCommit(r, there) ==
    LET id == req[r].id
        result == Activation(binding[id], id, there)
    IN  /\ req[r].pc = "exchange"
        /\ handoff' = [handoff EXCEPT !.used = TRUE]
        /\ binding' = [binding EXCEPT ![id] = result.row]
        /\ ledger' = ledger \cup result.entries
        /\ Issue(id, req[r].live, "handoff")
        /\ req' = [req EXCEPT ![r] = Idle]
        /\ UNCHANGED <<provider, account, created, codes, config>>

Logout(n) ==
    /\ SignedIn(n)
    /\ sessions' = [sessions EXCEPT ![n].live = FALSE]
    /\ UNCHANGED <<provider, account, created, codes, handoff, binding, ledger,
                   config, req>>

\* apply_user_update, called by the administration.
SetEnabled ==
    /\ account # NoRow
    /\ account' = [account EXCEPT !.enabled = ~@]
    /\ UNCHANGED <<provider, created, codes, sessions, handoff, binding, ledger,
                   config, req>>

UpdateConfig ==
    /\ config' \in Policies \ {config}
    /\ UNCHANGED <<provider, account, created, codes, sessions, handoff, binding,
                   ledger, req>>

-----------------------------------------------------------------------------
(* Account deletion                                                        *)

\* The remote data of the account is deleted first, then the rows: sessions, codes of the
\* address, the account.  Referrals, ledger and handoff codes stay.
DeleteBegin(r, n) ==
    /\ req[r].pc = "idle" /\ SignedIn(n)
    /\ req' = [req EXCEPT ![r] = [pc |-> "deleting", id |-> sessions[n].id]]
    /\ UNCHANGED <<provider, account, created, codes, sessions, handoff, binding,
                   ledger, config>>

DeleteCommit(r) ==
    LET id == req[r].id IN
    /\ req[r].pc = "deleting"
    /\ account' = IF account # NoRow /\ account.id = id THEN NoRow ELSE account
    /\ codes' = [c \in 1..MaxCodes |-> IF codes[c] = "none" THEN "none" ELSE "gone"]
    /\ sessions' = [n \in Numbers |->
          IF n \in Live(id) THEN [sessions[n] EXCEPT !.live = FALSE] ELSE sessions[n]]
    /\ req' = [req EXCEPT ![r] = Idle]
    /\ UNCHANGED <<provider, created, handoff, binding, ledger, config>>

Next ==
    \/ \E r \in Requests :
          \/ SendBegin(r) \/ SendCommit(r)
          \/ \E c \in 0..MaxCodes, app, invited \in BOOLEAN : LoginBegin(r, c, app, invited)
          \/ \E there \in BOOLEAN : LoginCommit(r, there) \/ ExchangeCommit(r, there)
          \/ LoginDisabled(r) \/ Abandon(r) \/ ExchangeBegin(r)
          \/ \E n \in Numbers : DeleteBegin(r, n)
          \/ DeleteCommit(r)
    \/ \E n \in Numbers : CreateHandoff(n) \/ Logout(n)
    \/ Pass \/ SetEnabled \/ UpdateConfig

Spec == Init /\ [][Next]_vars

-----------------------------------------------------------------------------
\* However logins, handoffs, policy changes and deletions overlap, a referral pays what was
\* promised when the account was made: the invitee at once, the inviter exactly when the
\* binding is activated, and nothing else.
ReferralPaysWhatItPromised ==
    ledger = UNION {Entry("registration", id, binding[id].reward.invitee) \cup
                    (IF binding[id].status = "activated"
                        THEN Entry("activation", id, binding[id].reward.inviter) ELSE {})
                      : id \in {id \in Ids : binding[id] # NoRow}}

\* A handoff code is exchanged once.
HandoffIsSingleUse ==
    [][\A n \in Numbers : sessions[n] = NoRow /\ sessions'[n] # NoRow /\ sessions'[n].via = "handoff"
          => handoff = NoRow \/ ~handoff.used]_vars
=============================================================================
