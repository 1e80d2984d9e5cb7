----------------------------- MODULE AccountStore -----------------------------
(***************************************************************************)
(* The players of reachlock-server as auth.rs keeps them in memory         *)
(* (MemoryPlayerStore): the records, the two indexes beside them, the      *)
(* mutexes each call takes, and the handlers that look a player up or make *)
(* one: register, login with its lockout, forgot_password, oauth_token.    *)
(*                                                                         *)
(* A call that holds two mutexes takes two steps, any other one.  A player *)
(* is known by its username, which never changes.  Rate limits, hashing,   *)
(* mails, the sessions and tokens handed out, and bans, which nothing      *)
(* issues, are left out.                                                   *)
(***************************************************************************)
EXTENDS Naturals

CONSTANTS
    Requests,   \* handlers running at a time
    Names,      \* usernames
    Registrable,\* those people register and log in with
    Emails, NoEmail,
    Subs, NoSub,\* accounts at an OAuth provider
    Short, Long,\* the two usernames made from a provider's account
    Nobody,     \* no player
    Free,       \* no request
    Threshold,  \* account_lockout_threshold
    MaxRequests \* bound: requests altogether

ASSUME NamesAssumption == /\ Registrable \subseteq Names /\ Nobody \notin Names
                          /\ Short \in [Subs -> Names] /\ Long \in [Subs -> Names]
ASSUME ValuesAssumption == NoEmail \notin Emails /\ NoSub \notin Subs /\ Free \notin Requests
ASSUME BoundsAssumption == Threshold \in Nat \ {0} /\ MaxRequests \in Nat

VARIABLES
    player,     \* players, by username
    byEmail,    \* by_email
    byProvider, \* by_provider
    playersLock, emailsLock, \* who holds the two mutexes
    req,        \* what each running handler is about
    started

store == <<player, byEmail, byProvider>>
locks == <<playersLock, emailsLock>>
vars == <<store, locks, req, started>>

Absent == [exists |-> FALSE, email |-> NoEmail, password |-> FALSE, verified |-> FALSE,
           fails |-> 0, locked |-> "never"]
Idle == [op |-> "none", at |-> "idle", name |-> Nobody, email |-> NoEmail, sub |-> NoSub]

Init ==
    /\ player = [n \in Names |-> Absent]
    /\ byEmail = [e \in Emails |-> Nobody]
    /\ byProvider = [s \in Subs |-> Nobody]
    /\ playersLock = Free /\ emailsLock = Free
    /\ req = [r \in Requests |-> Idle]
    /\ started = 0

-------------------------------------------------------------------------------
\* A request arrives.

Begin(r, q) ==
    /\ req[r] = Idle
    /\ started < MaxRequests
    /\ started' = started + 1
    /\ req' = [req EXCEPT ![r] = q]
    /\ UNCHANGED <<store, locks>>

Register(r) ==
    \E n \in Registrable, e \in Emails :
        Begin(r, [op |-> "register", at |-> "create", name |-> n, email |-> e, sub |-> NoSub])

\* login takes a username or an e-mail address.
Login(r) ==
    \/ \E n \in Registrable :
        Begin(r, [op |-> "login", at |-> "lookup", name |-> n, email |-> NoEmail, sub |-> NoSub])
    \/ \E e \in Emails :
        Begin(r, [op |-> "login", at |-> "lookup", name |-> Nobody, email |-> e, sub |-> NoSub])

Forgot(r) ==
    \E e \in Emails :
        Begin(r, [op |-> "forgot", at |-> "address", name |-> Nobody, email |-> e, sub |-> NoSub])

\* oauth_token, once the provider has answered who it is, with an address or none.
OAuth(r) ==
    \E s \in Subs, e \in Emails \cup {NoEmail} :
        Begin(r, [op |-> "oauth", at |-> "provider", name |-> Nobody, email |-> e, sub |-> s])

-------------------------------------------------------------------------------
\* Steps of a handler.

At(r, place) == req[r].at = place

Goto(r, place) == req' = [req EXCEPT ![r].at = place]

End(r) == req' = [req EXCEPT ![r] = Idle]

\* create: the players first ...
CreateLock(r) ==
    /\ At(r, "create")
    /\ playersLock = Free
    /\ playersLock' = r
    /\ Goto(r, "creating")
    /\ UNCHANGED <<store, emailsLock, started>>

\* A mutant: only the username has to be new.
TakenName(n, e) == player[n].exists

\* "username or email already taken by another player"
Taken(n, e) == player[n].exists \/ (e # NoEmail /\ byEmail[e] # Nobody)

\* A mutant: whoever signs in by a provider tries until it works.
TriesAlways(op) == op \in {"oauth", "oauth again"}

\* oauth_token makes a second attempt, under a longer name.
TriesAgain(op) == op = "oauth"

\* ... then their addresses.  oauth_token goes on to link and verify the player.
Create(r) ==
    /\ At(r, "creating")
    /\ emailsLock = Free
    /\ playersLock' = Free
    /\ LET n == req[r].name
           e == req[r].email
       IN  IF Taken(n, e)
           THEN /\ IF TriesAgain(req[r].op)
                   THEN req' = [req EXCEPT ![r] = [op |-> "oauth again", at |-> "create",
                                                   name |-> Long[req[r].sub], email |-> e,
                                                   sub |-> req[r].sub]]
                   ELSE End(r)
                /\ UNCHANGED <<player, byEmail>>
           ELSE /\ player' = [player EXCEPT ![n] =
                        [exists |-> TRUE, email |-> e, password |-> req[r].op = "register",
                         verified |-> FALSE, fails |-> 0, locked |-> "never"]]
                /\ byEmail' = IF e = NoEmail THEN byEmail ELSE [byEmail EXCEPT ![e] = n]
                /\ IF req[r].op = "register" THEN End(r) ELSE Goto(r, "link")
    /\ UNCHANGED <<byProvider, emailsLock, started>>

\* link_provider, for a new player or one found by its address.
Link(r) ==
    /\ At(r, "link") \/ At(r, "adopt")
    /\ byProvider' = [byProvider EXCEPT ![req[r].sub] = req[r].name]
    /\ IF At(r, "link") THEN Goto(r, "verify") ELSE End(r)
    /\ UNCHANGED <<player, byEmail, locks, started>>

SetVerified(r) ==
    /\ At(r, "verify")
    /\ playersLock = Free
    /\ player' = [player EXCEPT ![req[r].name].verified = TRUE]
    /\ End(r)
    /\ UNCHANGED <<byEmail, byProvider, locks, started>>

\* oauth_token has found nobody yet: create_oauth_player.
MakeShort(r) ==
    req' = [req EXCEPT ![r] = [op |-> "oauth", at |-> "create", name |-> Short[req[r].sub],
                               email |-> req[r].email, sub |-> req[r].sub]]

\* by_provider, which takes the players only when the account is linked.
FindByProvider(r) ==
    /\ At(r, "provider")
    /\ IF byProvider[req[r].sub] # Nobody THEN playersLock = Free /\ End(r)
       ELSE IF req[r].email # NoEmail THEN Goto(r, "address")
       ELSE MakeShort(r)
    /\ UNCHANGED <<store, locks, started>>

\* by_email: the addresses first ...
FindAddress(r) ==
    /\ At(r, "address")
    /\ emailsLock = Free
    /\ IF byEmail[req[r].email] # Nobody THEN emailsLock' = r /\ Goto(r, "player")
       ELSE /\ emailsLock' = Free
            /\ IF req[r].op = "oauth" THEN MakeShort(r) ELSE End(r)
    /\ UNCHANGED <<store, playersLock, started>>

\* A mutant: the addresses stay locked.
FindByEmailHolding(r) ==
    /\ At(r, "player")
    /\ playersLock = Free
    /\ IF req[r].op = "oauth"
       THEN req' = [req EXCEPT ![r] = [op |-> "oauth", at |-> "adopt", sub |-> req[r].sub,
                                       name |-> byEmail[req[r].email], email |-> req[r].email]]
       ELSE End(r)
    /\ UNCHANGED <<store, locks, started>>

\* ... then the players.
FindByEmail(r) ==
    /\ At(r, "player")
    /\ playersLock = Free
    /\ emailsLock' = Free
    /\ IF req[r].op = "oauth"
       THEN req' = [req EXCEPT ![r] = [op |-> "oauth", at |-> "adopt", sub |-> req[r].sub,
                                       name |-> byEmail[req[r].email], email |-> req[r].email]]
       ELSE End(r)
    /\ UNCHANGED <<store, playersLock, started>>

\* login goes on with the record it found, which may be out of date by then.
Judge(r, n) ==
    \/ player[n].locked = "now" /\ End(r)
    \/ /\ player[n].locked # "now"
       /\ req' = [req EXCEPT ![r] = [op |-> "login", at |-> "wrong", name |-> n,
                                     email |-> NoEmail, sub |-> NoSub]]
    \/ /\ player[n].locked # "now" /\ player[n].password
       /\ IF player[n].verified
          THEN req' = [req EXCEPT ![r] = [op |-> "login", at |-> "right", name |-> n,
                                          email |-> NoEmail, sub |-> NoSub]]
          ELSE End(r)

\* by_login: a username is found among the players; else the addresses are taken too.
FindByLogin(r) ==
    /\ At(r, "lookup")
    /\ playersLock = Free
    /\ IF req[r].name # Nobody /\ player[req[r].name].exists
       THEN Judge(r, req[r].name) /\ UNCHANGED playersLock
       ELSE playersLock' = r /\ Goto(r, "looking")
    /\ UNCHANGED <<store, emailsLock, started>>

FindByLoginAddress(r) ==
    /\ At(r, "looking")
    /\ emailsLock = Free
    /\ playersLock' = Free
    /\ IF req[r].email # NoEmail /\ byEmail[req[r].email] # Nobody
       THEN Judge(r, byEmail[req[r].email])
       ELSE End(r)
    /\ UNCHANGED <<store, emailsLock, started>>

\* inc_fails; counted up to the threshold only.
IncFails(r) ==
    /\ At(r, "wrong")
    /\ playersLock = Free
    /\ LET f == player[req[r].name].fails
       IN  player' = [player EXCEPT ![req[r].name].fails = IF f < Threshold THEN f + 1 ELSE f]
    /\ Goto(r, "count")
    /\ UNCHANGED <<byEmail, byProvider, locks, started>>

\* A mutant: the threshold has to be exceeded.
Many(f) == f > Threshold

TooMany(f) == f >= Threshold

CountFails(r) ==
    /\ At(r, "count")
    /\ playersLock = Free
    /\ IF TooMany(player[req[r].name].fails) THEN Goto(r, "lock") ELSE End(r)
    /\ UNCHANGED <<store, locks, started>>

SetLock(r) ==
    /\ At(r, "lock")
    /\ playersLock = Free
    /\ player' = [player EXCEPT ![req[r].name].locked = "now"]
    /\ End(r)
    /\ UNCHANGED <<byEmail, byProvider, locks, started>>

ClearFails(r) ==
    /\ At(r, "right")
    /\ playersLock = Free
    /\ player' = [player EXCEPT ![req[r].name].fails = 0, ![req[r].name].locked = "never"]
    /\ End(r)
    /\ UNCHANGED <<byEmail, byProvider, locks, started>>

Step(r) ==
    \/ CreateLock(r) \/ Create(r) \/ Link(r) \/ SetVerified(r)
    \/ FindByProvider(r) \/ FindAddress(r) \/ FindByEmail(r)
    \/ FindByLogin(r) \/ FindByLoginAddress(r)
    \/ IncFails(r) \/ CountFails(r) \/ SetLock(r) \/ ClearFails(r)

-------------------------------------------------------------------------------
\* verify_email, with the token a registration was sent.
VerifyEmail(n) ==
    /\ player[n].password /\ ~player[n].verified
    /\ playersLock = Free
    /\ player' = [player EXCEPT ![n].verified = TRUE]
    /\ UNCHANGED <<byEmail, byProvider, locks, req, started>>

\* locked_until goes by; the failures stay counted.
LockPasses(n) ==
    /\ player[n].locked = "now"
    /\ player' = [player EXCEPT ![n].locked = "once"]
    /\ UNCHANGED <<byEmail, byProvider, locks, req, started>>

Next ==
    \/ \E r \in Requests : Register(r) \/ Login(r) \/ Forgot(r) \/ OAuth(r) \/ Step(r)
    \/ \E n \in Names : VerifyEmail(n) \/ LockPasses(n)

\* A handler runs on, unless it waits for a mutex.
Spec == Init /\ [][Next]_vars
FairSpec == Spec /\ \A r \in Requests : WF_vars(Step(r))

-------------------------------------------------------------------------------
Record == [exists : BOOLEAN, email : Emails \cup {NoEmail}, password : BOOLEAN,
           verified : BOOLEAN, fails : 0..Threshold, locked : {"never", "now", "once"}]

Request == [op : {"none", "register", "login", "forgot", "oauth", "oauth again"},
            at : {"idle", "create", "creating", "link", "adopt", "verify", "provider", "address",
                  "player", "lookup", "looking", "wrong", "count", "lock", "right"},
            name : Names \cup {Nobody}, email : Emails \cup {NoEmail}, sub : Subs \cup {NoSub}]

HoldsPlayers(r) == At(r, "creating") \/ At(r, "looking")
HoldsEmails(r) == At(r, "player")

\* Types; and a mutex is held just where the handler is in a call that took it.
TypeOK ==
    /\ player \in [Names -> Record]
    /\ byEmail \in [Emails -> Names \cup {Nobody}]
    /\ byProvider \in [Subs -> Names \cup {Nobody}]
    /\ req \in [Requests -> Request]
    /\ playersLock \in Requests \cup {Free} /\ emailsLock \in Requests \cup {Free}
    /\ \A r \in Requests : /\ playersLock = r <=> HoldsPlayers(r)
                           /\ emailsLock = r <=> HoldsEmails(r)
    /\ started \in Nat

\* The indexes agree with the records, whoever registers, signs in or links at once: an
\* address leads to its one player and to no other, and no link leads to nobody.
IndexesAgree ==
    /\ \A e \in Emails, n \in Names :
        byEmail[e] = n <=> player[n].exists /\ player[n].email = e
    /\ \A s \in Subs : byProvider[s] # Nobody => player[byProvider[s]].exists

\* Once the logins at work on a player are through with counting, a player with too
\* many failures has been locked, also when logins that fail and succeed overlap.
ThresholdLocks ==
    \A n \in Names :
        \/ player[n].fails < Threshold
        \/ player[n].locked # "never"
        \/ \E r \in Requests : req[r].name = n /\ (At(r, "count") \/ At(r, "lock"))

\* The mutexes have been taken crosswise: by_email holds the addresses and wants the
\* players, create or by_login the other way round.
Crossed == playersLock # Free /\ emailsLock # Free

\* Every request is answered; only mutexes taken crosswise can keep it waiting.
RequestsEnd == \A r \in Requests : req[r] # Idle ~> req[r] = Idle \/ Crossed
===============================================================================
