-------------------------- MODULE AccountStoreProofs --------------------------
(***************************************************************************)
(* What AccountStore does for any requests, names and addresses: its types *)
(* and the ownership of the mutexes, that the indexes agree with the       *)
(* records, and that too many failures lock an account.                    *)
(***************************************************************************)
EXTENDS AccountStore, TLAPS

HoldPlayers == {"creating", "looking"}
HoldEmails == {"player"}
Counting == {"count", "lock"}
Acting == {"link", "adopt", "verify", "wrong", "right"} \cup Counting

\* What a handler knows of the player or the address it works on.
Known(q) ==
    /\ q.at \in {"create", "creating"} => /\ q.name \in Names
                                          /\ q.op \in {"register", "oauth", "oauth again"}
                                          /\ q.op # "register" => q.sub \in Subs
    /\ q.at \in {"link", "adopt", "provider"} => q.sub \in Subs
    /\ q.at \in {"address", "player"} => q.email \in Emails /\ (q.op = "oauth" => q.sub \in Subs)
    /\ q.at = "player" => byEmail[q.email] # Nobody
    /\ q.at \in Acting => q.name \in Names /\ player[q.name].exists

AllKnown == \A r \in Requests : Known(req[r])

IInv == TypeOK /\ AllKnown /\ IndexesAgree /\ ThresholdLocks

\* Handler r goes on as q; it holds a mutex just where q says so.
Moves(r, q) ==
    /\ req' = [req EXCEPT ![r] = q]
    /\ playersLock' = IF q.at \in HoldPlayers THEN r
                      ELSE IF playersLock = r THEN Free ELSE playersLock
    /\ q.at \in HoldPlayers => playersLock \in {Free, r}
    /\ emailsLock' = IF q.at \in HoldEmails THEN r
                     ELSE IF emailsLock = r THEN Free ELSE emailsLock
    /\ q.at \in HoldEmails => emailsLock \in {Free, r}

\* The records keep what the indexes are about.
SameRecords ==
    /\ byEmail' = byEmail
    /\ \A n \in Names : player'[n].exists = player[n].exists /\ player'[n].email = player[n].email

-------------------------------------------------------------------------------
\* A handler that moves leaves the requests and the mutexes well typed.
LEMMA MoveType ==
    ASSUME TypeOK, NEW r \in Requests, NEW q \in Request, Moves(r, q)
    PROVE /\ req' \in [Requests -> Request]
          /\ playersLock' \in Requests \cup {Free} /\ emailsLock' \in Requests \cup {Free}
          /\ \A s \in Requests : /\ playersLock' = s <=> HoldsPlayers(s)'
                                 /\ emailsLock' = s <=> HoldsEmails(s)'
  <1>1. req' = [req EXCEPT ![r] = q] /\ req \in [Requests -> Request] /\ Free \notin Requests
    BY ValuesAssumption DEF Moves, TypeOK
  <1>2. req' \in [Requests -> Request] /\ req'[r] = q /\ \A s \in Requests \ {r} : req'[s] = req[s]
    BY <1>1
  <1>3. playersLock' \in Requests \cup {Free} /\ emailsLock' \in Requests \cup {Free}
    BY DEF Moves, TypeOK
  <1>4. ASSUME NEW s \in Requests
        PROVE (playersLock' = s <=> HoldsPlayers(s)') /\ (emailsLock' = s <=> HoldsEmails(s)')
    <2>1. /\ HoldsPlayers(s) <=> req[s].at \in HoldPlayers
          /\ HoldsPlayers(s)' <=> req'[s].at \in HoldPlayers
          /\ HoldsEmails(s) <=> req[s].at \in HoldEmails
          /\ HoldsEmails(s)' <=> req'[s].at \in HoldEmails
      BY DEF HoldsPlayers, HoldsEmails, At, HoldPlayers, HoldEmails
    <2>2. (playersLock = s <=> HoldsPlayers(s)) /\ (emailsLock = s <=> HoldsEmails(s))
      BY DEF TypeOK
    <2>3. CASE s = r
      BY <1>1, <1>2, <2>1, <2>3 DEF Moves
    <2>4. CASE s # r
      BY <1>1, <1>2, <2>1, <2>2, <2>4 DEF Moves
    <2>5. QED
      BY <2>3, <2>4
  <1>5. QED
    BY <1>2, <1>3, <1>4

\* What the handlers know stays true, as long as nobody is forgotten.
LEMMA MoveKnown ==
    ASSUME TypeOK, AllKnown, NEW r \in Requests, NEW q \in Request, Moves(r, q), Known(q)',
           \A n \in Names : player[n].exists => player'[n].exists,
           \A e \in Emails : byEmail[e] # Nobody => byEmail'[e] # Nobody
    PROVE AllKnown'
  <1> SUFFICES ASSUME NEW s \in Requests PROVE Known(req[s])'
    BY DEF AllKnown
  <1>1. req' = [req EXCEPT ![r] = q] /\ req \in [Requests -> Request]
    BY DEF Moves, TypeOK
  <1>2. CASE s = r
    BY <1>1, <1>2 DEF Known
  <1>3. CASE s # r
    BY <1>1, <1>3 DEF Known, AllKnown
  <1>4. QED
    BY <1>2, <1>3

\* The indexes agree as long as the records keep what they are about.
LEMMA MoveIndexes ==
    ASSUME TypeOK, IndexesAgree, SameRecords,
           \A s \in Subs : \/ byProvider'[s] = byProvider[s]
                           \/ byProvider'[s] \in Names /\ player'[byProvider'[s]].exists
    PROVE IndexesAgree'
  <1>1. \A s \in Subs : byProvider[s] \in Names \cup {Nobody}
    BY DEF TypeOK
  <1>2. QED
    BY <1>1 DEF IndexesAgree, SameRecords

\* A handler that is through with counting, or has nothing to do with it, leaves no
\* account unlocked that is due.
LEMMA MoveThreshold ==
    ASSUME TypeOK, ThresholdLocks, NEW r \in Requests, NEW q \in Request, Moves(r, q),
           \A n \in Names : \/ player'[n].fails = player[n].fails /\ player'[n].locked = player[n].locked
                            \/ player'[n].fails < Threshold
                            \/ player'[n].locked # "never"
                            \/ q.name = n /\ q.at \in Counting,
           \/ req[r].at \notin Counting
           \/ q.name = req[r].name /\ q.at \in Counting
           \/ player'[req[r].name].fails < Threshold
           \/ player'[req[r].name].locked # "never"
    PROVE ThresholdLocks'
  <1> SUFFICES ASSUME NEW n \in Names
               PROVE \/ player'[n].fails < Threshold
                     \/ player'[n].locked # "never"
                     \/ \E s \in Requests : req'[s].name = n /\ req'[s].at \in Counting
    BY DEF ThresholdLocks, At, Counting
  <1>1. req' = [req EXCEPT ![r] = q] /\ req \in [Requests -> Request]
    BY DEF Moves, TypeOK
  <1>2. req'[r] = q /\ \A s \in Requests \ {r} : req'[s] = req[s]
    BY <1>1
  <1>3. \/ player[n].fails < Threshold
        \/ player[n].locked # "never"
        \/ \E s \in Requests : req[s].name = n /\ req[s].at \in Counting
    BY DEF ThresholdLocks, At, Counting
  <1>4. QED
    BY <1>2, <1>3

\* A step of handler r that keeps the indexes, whatever else it does to a record.
LEMMA RecordStep ==
    ASSUME IInv, NEW r \in Requests, NEW q \in Request, Moves(r, q), Known(q)',
           started' \in Nat, player' \in [Names -> Record],
           byProvider' \in [Subs -> Names \cup {Nobody}], SameRecords,
           \A s \in Subs : \/ byProvider'[s] = byProvider[s]
                           \/ byProvider'[s] \in Names /\ player'[byProvider'[s]].exists,
           \A n \in Names : \/ player'[n].fails = player[n].fails /\ player'[n].locked = player[n].locked
                            \/ player'[n].fails < Threshold
                            \/ player'[n].locked # "never"
                            \/ q.name = n /\ q.at \in Counting,
           \/ req[r].at \notin Counting
           \/ q.name = req[r].name /\ q.at \in Counting
           \/ player'[req[r].name].fails < Threshold
           \/ player'[req[r].name].locked # "never"
    PROVE IInv'
  <1>1. TypeOK /\ AllKnown /\ IndexesAgree /\ ThresholdLocks
    BY DEF IInv
  <1>2. byEmail' \in [Emails -> Names \cup {Nobody}]
    BY <1>1 DEF TypeOK, SameRecords
  <1>3. TypeOK'
    BY <1>1, <1>2, MoveType DEF TypeOK
  <1>4. AllKnown'
    BY <1>1, MoveKnown DEF SameRecords
  <1>5. IndexesAgree'
    BY <1>1, MoveIndexes
  <1>6. ThresholdLocks'
    BY <1>1, MoveThreshold
  <1>7. QED
    BY <1>3, <1>4, <1>5, <1>6 DEF IInv

\* A step of handler r that leaves the store alone.
LEMMA StoreStep ==
    ASSUME IInv, NEW r \in Requests, NEW q \in Request, Moves(r, q), Known(q),
           started' \in Nat, UNCHANGED store,
           \/ req[r].at \notin Counting
           \/ q.name = req[r].name /\ q.at \in Counting
           \/ player[req[r].name].fails < Threshold
    PROVE IInv'
  <1>1. player' = player /\ byEmail' = byEmail /\ byProvider' = byProvider
    BY DEF store
  <1>2. Known(q)' /\ SameRecords
    BY <1>1 DEF Known, SameRecords
  <1>3. player' \in [Names -> Record] /\ byProvider' \in [Subs -> Names \cup {Nobody}]
    BY <1>1 DEF IInv, TypeOK
  <1>4. QED
    BY <1>1, <1>2, <1>3, RecordStep

\* A request as it is, at another place.
LEMMA GotoMoves ==
    ASSUME IInv, NEW r \in Requests, NEW place, [req[r] EXCEPT !.at = place] \in Request,
           Goto(r, place), UNCHANGED locks,
           ~HoldsPlayers(r), ~HoldsEmails(r), place \notin HoldPlayers, place \notin HoldEmails
    PROVE Moves(r, [req[r] EXCEPT !.at = place])
  <1>1. playersLock # r /\ emailsLock # r
    BY DEF IInv, TypeOK
  <1>2. req[r] \in Request
    BY DEF IInv, TypeOK
  <1>3. [req[r] EXCEPT !.at = place].at = place
    BY <1>2 DEF Request
  <1>4. QED
    BY <1>1, <1>3 DEF Moves, Goto, locks

\* A request that ends, at a place where it holds no mutex.
LEMMA EndMoves ==
    ASSUME IInv, NEW r \in Requests, End(r), UNCHANGED locks, ~HoldsPlayers(r), ~HoldsEmails(r)
    PROVE Moves(r, Idle)
  <1>1. playersLock # r /\ emailsLock # r
    BY DEF IInv, TypeOK
  <1>2. QED
    BY <1>1 DEF Moves, End, locks, Idle, HoldPlayers, HoldEmails

\* What ends knows nothing.
LEMMA IdleKnown == Idle \in Request /\ Known(Idle) /\ Known(Idle)'
  BY ValuesAssumption DEF Idle, Request, Known, Acting, Counting

-------------------------------------------------------------------------------
\* A request arrives.
LEMMA BeginInv ==
    ASSUME IInv, NEW r \in Requests, NEW q \in Request, Begin(r, q), Known(q),
           q.at \notin HoldPlayers, q.at \notin HoldEmails
    PROVE IInv'
  <1>1. /\ req' = [req EXCEPT ![r] = q] /\ UNCHANGED store /\ UNCHANGED locks
        /\ started' \in Nat /\ req[r].at = "idle"
    BY DEF Begin, IInv, TypeOK, Idle
  <1>2. playersLock # r /\ emailsLock # r
    BY <1>1 DEF IInv, TypeOK, HoldsPlayers, HoldsEmails, At
  <1>3. Moves(r, q)
    BY <1>1, <1>2 DEF Moves, locks
  <1>4. req[r].at \notin Counting
    BY <1>1 DEF Counting
  <1>5. QED
    BY <1>1, <1>3, <1>4, StoreStep

LEMMA ArrivalInv ==
    ASSUME IInv, NEW r \in Requests, Register(r) \/ Login(r) \/ Forgot(r) \/ OAuth(r)
    PROVE IInv'
  <1> USE NamesAssumption, ValuesAssumption DEF Request, Known, Acting, Counting, HoldPlayers, HoldEmails
  <1>1. CASE Register(r)
    <2>1. PICK n \in Registrable, e \in Emails :
            Begin(r, [op |-> "register", at |-> "create", name |-> n, email |-> e, sub |-> NoSub])
      BY <1>1 DEF Register
    <2>2. QED
      BY <2>1, BeginInv
  <1>2. CASE Login(r)
    <2>1. PICK q \in Request : q.at = "lookup" /\ Begin(r, q)
      BY <1>2 DEF Login
    <2>2. QED
      BY <2>1, BeginInv
  <1>3. CASE Forgot(r)
    <2>1. PICK e \in Emails :
            Begin(r, [op |-> "forgot", at |-> "address", name |-> Nobody, email |-> e, sub |-> NoSub])
      BY <1>3 DEF Forgot
    <2>2. QED
      BY <2>1, BeginInv
  <1>4. CASE OAuth(r)
    <2>1. PICK s \in Subs, e \in Emails \cup {NoEmail} :
            Begin(r, [op |-> "oauth", at |-> "provider", name |-> Nobody, email |-> e, sub |-> s])
      BY <1>4 DEF OAuth
    <2>2. QED
      BY <2>1, BeginInv
  <1>5. QED
    BY <1>1, <1>2, <1>3, <1>4

-------------------------------------------------------------------------------
\* The store's calls.

LEMMA CreateLockInv ==
    ASSUME IInv, NEW r \in Requests, CreateLock(r)
    PROVE IInv'
  <1> DEFINE q == [req[r] EXCEPT !.at = "creating"]
  <1>1. req[r] \in Request /\ req[r].at = "create" /\ Known(req[r])
    BY DEF IInv, TypeOK, AllKnown, CreateLock, At
  <1>2. q \in Request /\ q.at = "creating" /\ Known(q)
    BY <1>1 DEF Request, Known, Acting, Counting
  <1>3. emailsLock # r
    BY <1>1 DEF IInv, TypeOK, HoldsEmails, At
  <1>4. Moves(r, q)
    BY <1>2, <1>3 DEF CreateLock, Moves, Goto, HoldPlayers, HoldEmails
  <1>5. UNCHANGED store /\ started' \in Nat /\ req[r].at \notin Counting
    BY <1>1 DEF CreateLock, IInv, TypeOK, Counting
  <1> HIDE DEF q
  <1>6. QED
    BY <1>2, <1>4, <1>5, StoreStep

\* create, when the name or the address is taken.
LEMMA CreateTakenInv ==
    ASSUME IInv, NEW r \in Requests, Create(r), Taken(req[r].name, req[r].email)
    PROVE IInv'
  <1>1. /\ req[r] \in Request /\ req[r].at = "creating" /\ Known(req[r])
        /\ emailsLock = Free /\ emailsLock' = Free /\ playersLock' = Free
        /\ playersLock = r /\ Free # r
    BY ValuesAssumption DEF IInv, TypeOK, AllKnown, Create, At, HoldsPlayers
  <1>2. UNCHANGED store /\ started' \in Nat /\ req[r].at \notin Counting
    BY <1>1 DEF Create, store, IInv, TypeOK, Counting
  <1>3. CASE TriesAgain(req[r].op)
    <2> DEFINE q == [op |-> "oauth again", at |-> "create", name |-> Long[req[r].sub],
                     email |-> req[r].email, sub |-> req[r].sub]
    <2>1. req[r].op = "oauth" /\ req[r].sub \in Subs
      BY <1>1, <1>3 DEF TriesAgain, Known
    <2>2. Long[req[r].sub] \in Names
      BY <2>1, NamesAssumption
    <2>3. q \in Request /\ q.at = "create" /\ Known(q)
      BY <1>1, <2>1, <2>2 DEF Request, Known, Acting, Counting
    <2>4. req' = [req EXCEPT ![r] = q]
      BY <1>3 DEF Create
    <2> HIDE DEF q
    <2>5. Moves(r, q)
      BY <1>1, <2>3, <2>4 DEF Moves, HoldPlayers, HoldEmails
    <2>6. QED
      BY <1>2, <2>3, <2>5, StoreStep
  <1>4. CASE ~TriesAgain(req[r].op)
    <2>1. req' = [req EXCEPT ![r] = Idle]
      BY <1>4 DEF Create, End
    <2>2. Moves(r, Idle)
      BY <1>1, <2>1 DEF Moves, HoldPlayers, HoldEmails, Idle
    <2>3. QED
      BY <1>2, <2>2, IdleKnown, StoreStep
  <1>5. QED
    BY <1>3, <1>4

\* create, when both are free.
LEMMA CreateNewInv ==
    ASSUME IInv, NEW r \in Requests, Create(r), ~Taken(req[r].name, req[r].email)
    PROVE IInv'
  <1> DEFINE n == req[r].name
             e == req[r].email
             rec == [exists |-> TRUE, email |-> e, password |-> req[r].op = "register",
                     verified |-> FALSE, fails |-> 0, locked |-> "never"]
             next == IF req[r].op = "register" THEN Idle ELSE [req[r] EXCEPT !.at = "link"]
  <1>1. /\ req[r] \in Request /\ req[r].at = "creating" /\ Known(req[r])
        /\ emailsLock = Free /\ emailsLock' = Free /\ playersLock' = Free
        /\ playersLock = r /\ Free # r
    BY ValuesAssumption DEF IInv, TypeOK, AllKnown, Create, At, HoldsPlayers
  <1>2. /\ n \in Names /\ e \in Emails \cup {NoEmail} /\ n # Nobody
        /\ req[r].op \in {"register", "oauth", "oauth again"}
        /\ req[r].op # "register" => req[r].sub \in Subs
    BY <1>1, NamesAssumption DEF Known, Request
  <1>3. ~player[n].exists /\ (e # NoEmail => byEmail[e] = Nobody)
    BY DEF Taken
  <1>4. /\ player' = [player EXCEPT ![n] = rec]
        /\ byEmail' = IF e = NoEmail THEN byEmail ELSE [byEmail EXCEPT ![e] = n]
        /\ byProvider' = byProvider /\ started' = started
    BY DEF Create
  <1>5. req' = [req EXCEPT ![r] = next]
    BY DEF Create, End, Goto
  <1>6. /\ player \in [Names -> Record] /\ byEmail \in [Emails -> Names \cup {Nobody}]
        /\ byProvider \in [Subs -> Names \cup {Nobody}] /\ started \in Nat
    BY DEF IInv, TypeOK
  <1>7. rec \in Record /\ rec.exists /\ rec.email = e /\ rec.fails = 0
    <2>1. (req[r].op = "register") \in BOOLEAN /\ 0 \in 0..Threshold
      BY BoundsAssumption
    <2>2. QED
      BY <1>2, <2>1 DEF Record
  <1>8. PICK q \in Request : /\ req' = [req EXCEPT ![r] = q] /\ q.at \in {"idle", "link"}
                             /\ q.at = "link" => q.name = n /\ q.sub \in Subs
    <2>1. /\ next \in Request /\ next.at \in {"idle", "link"}
          /\ next.at = "link" => next.name = n /\ next.sub \in Subs
      BY <1>1, <1>2, IdleKnown DEF Request, Idle
    <2>2. QED
      BY <1>5, <2>1
  <1>9. Moves(r, q)
    BY <1>1, <1>8 DEF Moves, HoldPlayers, HoldEmails
  <1> HIDE DEF rec, next, n, e
  <1>10. player' \in [Names -> Record] /\ byEmail' \in [Emails -> Names \cup {Nobody}]
    BY <1>2, <1>4, <1>6, <1>7
  <1>11. player'[n] = rec /\ \A m \in Names \ {n} : player'[m] = player[m]
    BY <1>2, <1>4, <1>6
  <1>12. \A x \in Emails : byEmail'[x] = IF x = e THEN n ELSE byEmail[x]
    BY <1>2, <1>4, <1>6, ValuesAssumption
  <1>13. TypeOK'
    BY <1>4, <1>6, <1>8, <1>9, <1>10, MoveType DEF IInv, TypeOK
  <1>14. Known(q)'
    BY <1>2, <1>7, <1>8, <1>11 DEF Known, Acting, Counting
  <1>15. AllKnown'
    <2>1. \A m \in Names : player[m].exists => player'[m].exists
      BY <1>7, <1>11
    <2>2. \A x \in Emails : byEmail[x] # Nobody => byEmail'[x] # Nobody
      BY <1>2, <1>12
    <2>3. TypeOK /\ AllKnown
      BY DEF IInv
    <2>4. QED
      BY <1>9, <1>14, <2>1, <2>2, <2>3, MoveKnown
  <1>16. ASSUME NEW x \in Emails, NEW m \in Names
         PROVE byEmail'[x] = m <=> player'[m].exists /\ player'[m].email = x
    <2>1. byEmail[x] = m <=> player[m].exists /\ player[m].email = x
      BY DEF IInv, IndexesAgree
    <2>2. CASE x = e
      <3>1. byEmail[x] = Nobody /\ byEmail'[x] = n
        BY <1>3, <1>12, <2>2, ValuesAssumption
      <3>2. CASE m = n
        BY <1>7, <1>11, <2>2, <3>1, <3>2
      <3>3. CASE m # n
        BY <1>2, <1>11, <2>1, <3>1, <3>3, NamesAssumption
      <3>4. QED
        BY <3>2, <3>3
    <2>3. CASE x # e
      <3>1. CASE m = n
        BY <1>3, <1>7, <1>11, <1>12, <2>1, <2>3, <3>1
      <3>2. CASE m # n
        BY <1>11, <1>12, <2>1, <2>3, <3>2
      <3>3. QED
        BY <3>1, <3>2
    <2>4. QED
      BY <2>2, <2>3
  <1>17. \A s \in Subs : byProvider'[s] # Nobody => player'[byProvider'[s]].exists
    <2>1. \A s \in Subs : byProvider[s] # Nobody => player[byProvider[s]].exists
      BY DEF IInv, IndexesAgree
    <2>2. QED
      BY <1>4, <1>6, <1>7, <1>11, <2>1
  <1>18. IndexesAgree'
    BY <1>16, <1>17 DEF IndexesAgree
  <1>19. ThresholdLocks'
    <2>1. \A m \in Names : \/ player'[m].fails = player[m].fails /\ player'[m].locked = player[m].locked
                           \/ player'[m].fails < Threshold
      BY <1>7, <1>11, BoundsAssumption
    <2>2. req[r].at \notin Counting
      BY <1>1 DEF Counting
    <2>3. QED
      BY <1>8, <1>9, <2>1, <2>2, MoveThreshold DEF IInv
  <1>20. QED
    BY <1>13, <1>15, <1>18, <1>19 DEF IInv

LEMMA CreateInv ==
    ASSUME IInv, NEW r \in Requests, Create(r)
    PROVE IInv'
  BY CreateTakenInv, CreateNewInv

LEMMA LinkInv ==
    ASSUME IInv, NEW r \in Requests, Link(r)
    PROVE IInv'
  <1>1. /\ req[r] \in Request /\ req[r].at \in {"link", "adopt"} /\ Known(req[r])
        /\ UNCHANGED locks /\ ~HoldsPlayers(r) /\ ~HoldsEmails(r)
    BY DEF IInv, TypeOK, AllKnown, Link, At, HoldsPlayers, HoldsEmails
  <1>2. req[r].name \in Names /\ player[req[r].name].exists /\ req[r].sub \in Subs
    BY <1>1 DEF Known, Acting
  <1>3. /\ byProvider' = [byProvider EXCEPT ![req[r].sub] = req[r].name]
        /\ player' = player /\ byEmail' = byEmail /\ started' = started
    BY DEF Link
  <1>4. /\ player \in [Names -> Record] /\ byProvider \in [Subs -> Names \cup {Nobody}]
        /\ started \in Nat
    BY DEF IInv, TypeOK
  <1>5. /\ byProvider' \in [Subs -> Names \cup {Nobody}] /\ player' \in [Names -> Record]
        /\ started' \in Nat /\ SameRecords
    BY <1>2, <1>3, <1>4 DEF SameRecords
  <1>6. \A s \in Subs : \/ byProvider'[s] = byProvider[s]
                        \/ byProvider'[s] \in Names /\ player'[byProvider'[s]].exists
    BY <1>2, <1>3, <1>4
  <1>7. PICK q \in Request : Moves(r, q) /\ Known(q)'
    <2>1. CASE At(r, "link")
      <3> DEFINE q == [req[r] EXCEPT !.at = "verify"]
      <3>1. q \in Request /\ q.at = "verify" /\ q.name = req[r].name
        BY <1>1 DEF Request
      <3>2. Goto(r, "verify")
        BY <2>1 DEF Link
      <3>3. Moves(r, q)
        BY <1>1, <3>1, <3>2, GotoMoves DEF HoldPlayers, HoldEmails
      <3>4. PICK c \in Request : c = q
        BY <3>1
      <3> HIDE DEF q
      <3>5. c.at = "verify" /\ c.name \in Names /\ player'[c.name].exists
        BY <1>2, <1>3, <3>1, <3>4
      <3>6. Known(c)'
        BY <3>5 DEF Known
      <3>7. QED
        BY <3>3, <3>4, <3>6
    <2>2. CASE ~At(r, "link")
      BY <1>1, <2>2, IdleKnown, EndMoves DEF Link
    <2>3. QED
      BY <2>1, <2>2
  <1>8. req[r].at \notin Counting
    BY <1>1 DEF Counting
  <1>9. QED
    BY <1>3, <1>5, <1>6, <1>7, <1>8, RecordStep

LEMMA SetVerifiedInv ==
    ASSUME IInv, NEW r \in Requests, SetVerified(r)
    PROVE IInv'
  <1>1. /\ req[r].at = "verify" /\ Known(req[r])
        /\ UNCHANGED locks /\ ~HoldsPlayers(r) /\ ~HoldsEmails(r)
    BY DEF IInv, TypeOK, AllKnown, SetVerified, At, HoldsPlayers, HoldsEmails
  <1>2. /\ player' = [player EXCEPT ![req[r].name].verified = TRUE]
        /\ byEmail' = byEmail /\ byProvider' = byProvider /\ started' = started
    BY DEF SetVerified
  <1>3. /\ player \in [Names -> Record] /\ byProvider \in [Subs -> Names \cup {Nobody}]
        /\ started \in Nat
    BY DEF IInv, TypeOK
  <1>4. player' \in [Names -> Record]
    <2>1. \A p \in Record : [p EXCEPT !.verified = TRUE] \in Record
      BY DEF Record
    <2>2. \A n \in Names : player'[n] = player[n] \/ player'[n] = [player[n] EXCEPT !.verified = TRUE]
      BY <1>2, <1>3
    <2>3. player' = [n \in Names |-> player'[n]]
      BY <1>2, <1>3
    <2>4. QED
      BY <1>3, <2>1, <2>2, <2>3
  <1>5. \A n \in Names : /\ player'[n].exists = player[n].exists /\ player'[n].email = player[n].email
                         /\ player'[n].fails = player[n].fails /\ player'[n].locked = player[n].locked
    BY <1>2, <1>3 DEF Record
  <1>6. Moves(r, Idle)
    BY <1>1, EndMoves DEF SetVerified
  <1>7. req[r].at \notin Counting /\ SameRecords
    BY <1>1, <1>2, <1>5 DEF Counting, SameRecords
  <1>8. QED
    BY <1>2, <1>3, <1>4, <1>5, <1>6, <1>7, IdleKnown, RecordStep

-------------------------------------------------------------------------------
\* The lookups.

\* oauth_token goes on to make a player.
LEMMA MakeShortInv ==
    ASSUME IInv, NEW r \in Requests, MakeShort(r), req[r].sub \in Subs, UNCHANGED store,
           UNCHANGED locks, started' \in Nat, ~HoldsPlayers(r), ~HoldsEmails(r),
           req[r].at \notin Counting
    PROVE IInv'
  <1> DEFINE q == [op |-> "oauth", at |-> "create", name |-> Short[req[r].sub],
                   email |-> req[r].email, sub |-> req[r].sub]
  <1>1. Short[req[r].sub] \in Names /\ req[r] \in Request
    BY NamesAssumption DEF IInv, TypeOK
  <1>2. q \in Request /\ q.at = "create" /\ Known(q)
    BY <1>1 DEF Request, Known, Acting, Counting
  <1>3. playersLock # r /\ emailsLock # r
    BY DEF IInv, TypeOK
  <1>4. req' = [req EXCEPT ![r] = q]
    BY DEF MakeShort
  <1> HIDE DEF q
  <1>5. Moves(r, q)
    BY <1>2, <1>3, <1>4 DEF Moves, HoldPlayers, HoldEmails, locks
  <1>6. QED
    BY <1>2, <1>5, StoreStep

LEMMA FindByProviderInv ==
    ASSUME IInv, NEW r \in Requests, FindByProvider(r)
    PROVE IInv'
  <1>1. /\ req[r] \in Request /\ req[r].at = "provider" /\ Known(req[r])
        /\ UNCHANGED store /\ UNCHANGED locks /\ ~HoldsPlayers(r) /\ ~HoldsEmails(r)
        /\ started' \in Nat
    BY DEF IInv, TypeOK, AllKnown, FindByProvider, At, HoldsPlayers, HoldsEmails
  <1>2. req[r].sub \in Subs /\ req[r].at \notin Counting
    BY <1>1 DEF Known, Counting
  <1>3. CASE End(r)
    BY <1>1, <1>2, <1>3, EndMoves, IdleKnown, StoreStep
  <1>4. CASE req[r].email # NoEmail /\ Goto(r, "address")
    <2> DEFINE q == [req[r] EXCEPT !.at = "address"]
    <2>1. q \in Request /\ q.at = "address" /\ q.email = req[r].email /\ q.sub = req[r].sub
      BY <1>1 DEF Request
    <2>2. Moves(r, q)
      BY <1>1, <1>4, <2>1, GotoMoves DEF HoldPlayers, HoldEmails
    <2>3. req[r].email \in Emails
      BY <1>1, <1>4 DEF Request
    <2> HIDE DEF q
    <2>4. Known(q)
      BY <1>2, <2>1, <2>3 DEF Known, Acting, Counting
    <2>5. QED
      BY <1>1, <1>2, <2>1, <2>2, <2>4, StoreStep
  <1>5. CASE MakeShort(r)
    BY <1>1, <1>2, <1>5, MakeShortInv
  <1>6. QED
    BY <1>3, <1>4, <1>5 DEF FindByProvider

LEMMA FindAddressInv ==
    ASSUME IInv, NEW r \in Requests, FindAddress(r)
    PROVE IInv'
  <1>1. /\ req[r] \in Request /\ req[r].at = "address" /\ Known(req[r])
        /\ UNCHANGED store /\ ~HoldsPlayers(r) /\ ~HoldsEmails(r) /\ started' \in Nat
        /\ emailsLock = Free /\ playersLock' = playersLock /\ playersLock # r
    BY DEF IInv, TypeOK, AllKnown, FindAddress, At, HoldsPlayers, HoldsEmails
  <1>2. req[r].email \in Emails /\ req[r].at \notin Counting
    BY <1>1 DEF Known, Counting
  <1>3. CASE byEmail[req[r].email] # Nobody
    <2> DEFINE q == [req[r] EXCEPT !.at = "player"]
    <2>1. q \in Request /\ q.at = "player" /\ q.email = req[r].email /\ q.op = req[r].op /\ q.sub = req[r].sub
      BY <1>1 DEF Request
    <2>2. req' = [req EXCEPT ![r] = q] /\ emailsLock' = r
      BY <1>3 DEF FindAddress, Goto
    <2> HIDE DEF q
    <2>3. Known(q)
      BY <1>1, <1>2, <1>3, <2>1 DEF Known, Acting, Counting
    <2>4. Moves(r, q)
      BY <1>1, <2>1, <2>2 DEF Moves, HoldPlayers, HoldEmails
    <2>5. QED
      BY <1>1, <1>2, <2>1, <2>3, <2>4, StoreStep
  <1>4. CASE byEmail[req[r].email] = Nobody
    <2>1. UNCHANGED locks
      BY <1>1, <1>4 DEF FindAddress, locks
    <2>2. CASE req[r].op = "oauth"
      <3>1. req[r].sub \in Subs /\ MakeShort(r)
        BY <1>1, <1>4, <2>2 DEF Known, FindAddress
      <3>2. QED
        BY <1>1, <1>2, <2>1, <3>1, MakeShortInv
    <2>3. CASE req[r].op # "oauth"
      <3>1. End(r)
        BY <1>4, <2>3 DEF FindAddress
      <3>2. QED
        BY <1>1, <1>2, <2>1, <3>1, EndMoves, IdleKnown, StoreStep
    <2>4. QED
      BY <2>2, <2>3
  <1>5. QED
    BY <1>3, <1>4

LEMMA FindByEmailInv ==
    ASSUME IInv, NEW r \in Requests, FindByEmail(r)
    PROVE IInv'
  <1>1. /\ req[r] \in Request /\ req[r].at = "player" /\ Known(req[r])
        /\ UNCHANGED store /\ started' \in Nat
        /\ emailsLock = r /\ emailsLock' = Free /\ playersLock' = playersLock /\ playersLock = Free
        /\ Free # r
    BY ValuesAssumption DEF IInv, TypeOK, AllKnown, FindByEmail, At, HoldsPlayers, HoldsEmails
  <1>2. req[r].email \in Emails /\ req[r].at \notin Counting /\ byEmail[req[r].email] # Nobody
    BY <1>1 DEF Known, Counting
  <1>3. byEmail[req[r].email] \in Names /\ player[byEmail[req[r].email]].exists
    BY <1>2 DEF IInv, TypeOK, IndexesAgree
  <1>4. CASE req[r].op = "oauth"
    <2> DEFINE q == [op |-> "oauth", at |-> "adopt", sub |-> req[r].sub,
                     name |-> byEmail[req[r].email], email |-> req[r].email]
    <2>1. req[r].sub \in Subs
      BY <1>1, <1>4 DEF Known
    <2>2. q \in Request /\ q.at = "adopt" /\ Known(q)
      BY <1>2, <1>3, <2>1 DEF Request, Known, Acting, Counting
    <2>3. req' = [req EXCEPT ![r] = q]
      BY <1>4 DEF FindByEmail
    <2> HIDE DEF q
    <2>4. Moves(r, q)
      BY <1>1, <2>2, <2>3 DEF Moves, HoldPlayers, HoldEmails
    <2>5. QED
      BY <1>1, <1>2, <2>2, <2>4, StoreStep
  <1>5. CASE req[r].op # "oauth"
    <2>1. req' = [req EXCEPT ![r] = Idle]
      BY <1>5 DEF FindByEmail, End
    <2>2. Moves(r, Idle)
      BY <1>1, <2>1 DEF Moves, HoldPlayers, HoldEmails, Idle
    <2>3. QED
      BY <1>1, <1>2, <2>2, IdleKnown, StoreStep
  <1>6. QED
    BY <1>4, <1>5

\* login goes on with a player it found; it holds no mutex then.
LEMMA JudgeInv ==
    ASSUME IInv, NEW r \in Requests, NEW n \in Names, player[n].exists, Judge(r, n),
           UNCHANGED store, started' \in Nat, req[r].at \notin Counting,
           playersLock \in {Free, r} \/ playersLock' = playersLock,
           playersLock' # r, playersLock = r => playersLock' = Free,
           playersLock # r => playersLock' = playersLock,
           emailsLock' = emailsLock, emailsLock # r
    PROVE IInv'
  <1>1. req[r] \in Request
    BY DEF IInv, TypeOK
  <1>2. CASE End(r)
    <2>1. Moves(r, Idle)
      BY <1>2 DEF Moves, End, HoldPlayers, HoldEmails, Idle
    <2>2. QED
      BY <2>1, IdleKnown, StoreStep
  <1>3. ASSUME NEW place \in {"wrong", "right"},
               req' = [req EXCEPT ![r] = [op |-> "login", at |-> place, name |-> n,
                                          email |-> NoEmail, sub |-> NoSub]]
        PROVE IInv'
    <2> DEFINE q == [op |-> "login", at |-> place, name |-> n, email |-> NoEmail, sub |-> NoSub]
    <2>1. q \in Request /\ q.at = place /\ Known(q)
      BY DEF Request, Known, Acting, Counting
    <2>2. Moves(r, q)
      BY <1>3, <2>1 DEF Moves, HoldPlayers, HoldEmails
    <2> HIDE DEF q
    <2>3. QED
      BY <2>1, <2>2, StoreStep
  <1>4. QED
    BY <1>2, <1>3 DEF Judge

LEMMA FindByLoginInv ==
    ASSUME IInv, NEW r \in Requests, FindByLogin(r)
    PROVE IInv'
  <1>1. /\ req[r] \in Request /\ req[r].at = "lookup"
        /\ UNCHANGED store /\ started' \in Nat /\ emailsLock' = emailsLock
        /\ playersLock = Free /\ playersLock # r /\ emailsLock # r
    BY ValuesAssumption DEF IInv, TypeOK, FindByLogin, At, HoldsPlayers, HoldsEmails
  <1>2. req[r].at \notin Counting
    BY <1>1 DEF Counting
  <1>3. CASE req[r].name # Nobody /\ player[req[r].name].exists
    <2>1. PICK n \in Names : n = req[r].name
      BY <1>1, <1>3 DEF Request
    <2>2. Judge(r, n) /\ playersLock' = playersLock
      BY <1>3, <2>1 DEF FindByLogin
    <2>3. QED
      BY <1>1, <1>2, <1>3, <2>1, <2>2, JudgeInv
  <1>4. CASE ~(req[r].name # Nobody /\ player[req[r].name].exists)
    <2> DEFINE q == [req[r] EXCEPT !.at = "looking"]
    <2>1. q \in Request /\ q.at = "looking"
      BY <1>1 DEF Request
    <2>2. req' = [req EXCEPT ![r] = q] /\ playersLock' = r
      BY <1>4 DEF FindByLogin, Goto
    <2> HIDE DEF q
    <2>3. Moves(r, q) /\ Known(q)
      BY <1>1, <2>1, <2>2 DEF Moves, HoldPlayers, HoldEmails, Known, Acting, Counting
    <2>4. QED
      BY <1>1, <1>2, <2>1, <2>3, StoreStep
  <1>5. QED
    BY <1>3, <1>4

LEMMA FindByLoginAddressInv ==
    ASSUME IInv, NEW r \in Requests, FindByLoginAddress(r)
    PROVE IInv'
  <1>1. /\ req[r] \in Request /\ req[r].at = "looking"
        /\ UNCHANGED store /\ started' \in Nat /\ emailsLock' = emailsLock /\ emailsLock # r
        /\ playersLock = r /\ playersLock' = Free /\ Free # r
    BY ValuesAssumption DEF IInv, TypeOK, FindByLoginAddress, At, HoldsPlayers, HoldsEmails
  <1>2. req[r].at \notin Counting
    BY <1>1 DEF Counting
  <1>3. CASE req[r].email # NoEmail /\ byEmail[req[r].email] # Nobody
    <2>0. /\ req[r].email \in Emails /\ byEmail[req[r].email] \in Names
          /\ player[byEmail[req[r].email]].exists
      <3>1. req[r].email \in Emails
        BY <1>1, <1>3 DEF Request
      <3>2. byEmail[req[r].email] \in Names
        BY <1>3, <3>1 DEF IInv, TypeOK
      <3>3. QED
        BY <3>1, <3>2 DEF IInv, IndexesAgree
    <2>1. PICK n \in Names : n = byEmail[req[r].email] /\ player[n].exists
      BY <2>0
    <2>2. Judge(r, n)
      BY <1>3, <2>1 DEF FindByLoginAddress
    <2>3. QED
      BY <1>1, <1>2, <2>1, <2>2, JudgeInv
  <1>4. CASE ~(req[r].email # NoEmail /\ byEmail[req[r].email] # Nobody)
    <2>1. End(r)
      BY <1>4 DEF FindByLoginAddress
    <2>2. Moves(r, Idle)
      BY <1>1, <2>1 DEF Moves, End, HoldPlayers, HoldEmails, Idle
    <2>3. QED
      BY <1>1, <1>2, <2>2, IdleKnown, StoreStep
  <1>5. QED
    BY <1>3, <1>4

-------------------------------------------------------------------------------
\* The lockout.

LEMMA IncFailsInv ==
    ASSUME IInv, NEW r \in Requests, IncFails(r)
    PROVE IInv'
  <1> DEFINE n == req[r].name
             f == player[n].fails
             g == IF f < Threshold THEN f + 1 ELSE f
             q == [req[r] EXCEPT !.at = "count"]
  <1>1. /\ req[r] \in Request /\ req[r].at = "wrong" /\ Known(req[r])
        /\ UNCHANGED locks /\ ~HoldsPlayers(r) /\ ~HoldsEmails(r)
    BY DEF IInv, TypeOK, AllKnown, IncFails, At, HoldsPlayers, HoldsEmails
  <1>2. n \in Names /\ player[n].exists
    BY <1>1 DEF Known, Acting
  <1>3. /\ player' = [player EXCEPT ![n].fails = g]
        /\ byEmail' = byEmail /\ byProvider' = byProvider /\ started' = started
    BY DEF IncFails
  <1>4. /\ player \in [Names -> Record] /\ byProvider \in [Subs -> Names \cup {Nobody}]
        /\ started \in Nat
    BY DEF IInv, TypeOK
  <1>5. g \in 0..Threshold
    <2>1. f \in 0..Threshold
      BY <1>2, <1>4 DEF Record
    <2>2. QED
      BY <2>1, BoundsAssumption
  <1>6. q \in Request /\ q.at = "count" /\ q.name = n
    BY <1>1 DEF Request
  <1>7. Goto(r, "count")
    BY DEF IncFails
  <1>8. Moves(r, q)
    BY <1>1, <1>6, <1>7, GotoMoves DEF HoldPlayers, HoldEmails
  <1>9. PICK c \in Request : c = q
    BY <1>6
  <1> HIDE DEF g, q, n
  <1>10. player' \in [Names -> Record]
    BY <1>2, <1>3, <1>4, <1>5 DEF Record
  <1>11. \A m \in Names :
            /\ player'[m].exists = player[m].exists /\ player'[m].email = player[m].email
            /\ player'[m].locked = player[m].locked
            /\ m # n => player'[m].fails = player[m].fails
    BY <1>2, <1>3, <1>4 DEF Record
  <1>12. SameRecords
    BY <1>3, <1>11 DEF SameRecords
  <1>13. c.at = "count" /\ c.name = n /\ req[r].at \notin Counting
    BY <1>1, <1>6, <1>9 DEF Counting
  <1>14. Known(c)'
    BY <1>2, <1>11, <1>13 DEF Known, Acting, Counting
  <1>15. \A m \in Names : \/ player'[m].fails = player[m].fails /\ player'[m].locked = player[m].locked
                          \/ c.name = m /\ c.at \in Counting
    BY <1>11, <1>13 DEF Counting
  <1>16. QED
    BY <1>3, <1>4, <1>8, <1>9, <1>10, <1>12, <1>13, <1>14, <1>15, RecordStep

LEMMA CountFailsInv ==
    ASSUME IInv, NEW r \in Requests, CountFails(r)
    PROVE IInv'
  <1> DEFINE q == [req[r] EXCEPT !.at = "lock"]
  <1>1. /\ req[r] \in Request /\ req[r].at = "count" /\ Known(req[r])
        /\ UNCHANGED store /\ started' \in Nat
        /\ UNCHANGED locks /\ ~HoldsPlayers(r) /\ ~HoldsEmails(r)
    BY DEF IInv, TypeOK, AllKnown, CountFails, At, HoldsPlayers, HoldsEmails
  <1>2. CASE TooMany(player[req[r].name].fails)
    <2>1. q \in Request /\ q.at = "lock" /\ q.name = req[r].name
      BY <1>1 DEF Request
    <2>2. Goto(r, "lock")
      BY <1>2 DEF CountFails
    <2>3. Moves(r, q)
      BY <1>1, <2>1, <2>2, GotoMoves DEF HoldPlayers, HoldEmails
    <2> HIDE DEF q
    <2>4. Known(q) /\ q.at \in Counting
      BY <1>1, <2>1 DEF Known, Acting, Counting
    <2>5. QED
      BY <1>1, <2>1, <2>3, <2>4, StoreStep
  <1>3. CASE ~TooMany(player[req[r].name].fails)
    <2>1. End(r)
      BY <1>3 DEF CountFails
    <2>2. player[req[r].name].fails < Threshold
      <3>1. req[r].name \in Names
        BY <1>1 DEF Known, Acting, Counting
      <3>2. player[req[r].name].fails \in 0..Threshold
        BY <3>1 DEF IInv, TypeOK, Record
      <3>3. QED
        BY <1>3, <3>2, BoundsAssumption DEF TooMany
    <2>3. QED
      BY <1>1, <2>1, <2>2, EndMoves, IdleKnown, StoreStep
  <1>4. QED
    BY <1>2, <1>3

LEMMA SetLockInv ==
    ASSUME IInv, NEW r \in Requests, SetLock(r)
    PROVE IInv'
  <1>1. /\ req[r].at = "lock" /\ Known(req[r])
        /\ UNCHANGED locks /\ ~HoldsPlayers(r) /\ ~HoldsEmails(r)
    BY DEF IInv, TypeOK, AllKnown, SetLock, At, HoldsPlayers, HoldsEmails
  <1>2. /\ player' = [player EXCEPT ![req[r].name].locked = "now"]
        /\ byEmail' = byEmail /\ byProvider' = byProvider /\ started' = started
    BY DEF SetLock
  <1>3. /\ player \in [Names -> Record] /\ byProvider \in [Subs -> Names \cup {Nobody}]
        /\ started \in Nat /\ req[r].name \in Names
    BY <1>1 DEF IInv, TypeOK, Known, Acting, Counting
  <1>4. player' \in [Names -> Record]
    BY <1>2, <1>3 DEF Record
  <1>5. /\ player'[req[r].name].locked = "now"
        /\ \A n \in Names :
            /\ player'[n].exists = player[n].exists /\ player'[n].email = player[n].email
            /\ \/ player'[n].fails = player[n].fails /\ player'[n].locked = player[n].locked
               \/ player'[n].locked # "never"
    BY <1>2, <1>3 DEF Record
  <1>6. Moves(r, Idle) /\ SameRecords
    BY <1>1, <1>2, <1>5, EndMoves DEF SetLock, SameRecords
  <1>7. QED
    BY <1>2, <1>3, <1>4, <1>5, <1>6, IdleKnown, RecordStep

LEMMA ClearFailsInv ==
    ASSUME IInv, NEW r \in Requests, ClearFails(r)
    PROVE IInv'
  <1>1. /\ req[r].at = "right" /\ Known(req[r])
        /\ UNCHANGED locks /\ ~HoldsPlayers(r) /\ ~HoldsEmails(r)
    BY DEF IInv, TypeOK, AllKnown, ClearFails, At, HoldsPlayers, HoldsEmails
  <1>2. /\ player' = [player EXCEPT ![req[r].name].fails = 0, ![req[r].name].locked = "never"]
        /\ byEmail' = byEmail /\ byProvider' = byProvider /\ started' = started
    BY DEF ClearFails
  <1>3. /\ player \in [Names -> Record] /\ byProvider \in [Subs -> Names \cup {Nobody}]
        /\ started \in Nat /\ req[r].name \in Names
    BY <1>1 DEF IInv, TypeOK, Known, Acting, Counting
  <1>4. 0 \in 0..Threshold /\ 0 < Threshold
    BY BoundsAssumption
  <1>5. player' \in [Names -> Record]
    BY <1>2, <1>3, <1>4 DEF Record
  <1>6. \A n \in Names :
            /\ player'[n].exists = player[n].exists /\ player'[n].email = player[n].email
            /\ \/ player'[n].fails = player[n].fails /\ player'[n].locked = player[n].locked
               \/ player'[n].fails < Threshold
    BY <1>2, <1>3, <1>4 DEF Record
  <1>7. Moves(r, Idle) /\ SameRecords
    BY <1>1, <1>2, <1>6, EndMoves DEF ClearFails, SameRecords
  <1>8. req[r].at \notin Counting
    BY <1>1 DEF Counting
  <1>9. QED
    BY <1>2, <1>3, <1>5, <1>6, <1>7, <1>8, IdleKnown, RecordStep

-------------------------------------------------------------------------------
\* What happens outside the handlers.

LEMMA OutsideInv ==
    ASSUME IInv, NEW n \in Names, VerifyEmail(n) \/ LockPasses(n)
    PROVE IInv'
  <1>1. /\ byEmail' = byEmail /\ byProvider' = byProvider /\ started' = started
        /\ UNCHANGED locks /\ req' = req
    BY DEF VerifyEmail, LockPasses
  <1>2. player \in [Names -> Record]
    BY DEF IInv, TypeOK
  <1>3. /\ player' \in [Names -> Record]
        /\ \A m \in Names :
            /\ player'[m].exists = player[m].exists /\ player'[m].email = player[m].email
            /\ player'[m].fails = player[m].fails
            /\ player[m].locked # "never" => player'[m].locked # "never"
    <2>1. CASE VerifyEmail(n)
      BY <1>2, <2>1 DEF VerifyEmail, Record
    <2>2. CASE LockPasses(n)
      BY <1>2, <2>2 DEF LockPasses, Record
    <2>3. QED
      BY <2>1, <2>2
  <1>4. TypeOK'
    BY <1>1, <1>3 DEF IInv, TypeOK, locks, HoldsPlayers, HoldsEmails, At
  <1>5. AllKnown'
    BY <1>1, <1>3 DEF IInv, AllKnown, Known
  <1>6. IndexesAgree'
    BY <1>1, <1>3 DEF IInv, TypeOK, IndexesAgree
  <1>7. ThresholdLocks'
    BY <1>1, <1>3 DEF IInv, ThresholdLocks, At
  <1>8. QED
    BY <1>4, <1>5, <1>6, <1>7 DEF IInv

-------------------------------------------------------------------------------
LEMMA InitInv == Init => IInv
  <1> SUFFICES ASSUME Init PROVE IInv
    OBVIOUS
  <1>1. Absent \in Record /\ Absent.fails < Threshold
    BY BoundsAssumption DEF Absent, Record
  <1>2. TypeOK
    BY <1>1, IdleKnown, ValuesAssumption DEF Init, TypeOK, HoldsPlayers, HoldsEmails, At, Idle
  <1>3. AllKnown
    BY IdleKnown DEF Init, AllKnown
  <1>4. IndexesAgree
    BY NamesAssumption DEF Init, IndexesAgree, Absent
  <1>5. ThresholdLocks
    BY <1>1 DEF Init, ThresholdLocks
  <1>6. QED
    BY <1>2, <1>3, <1>4, <1>5 DEF IInv

LEMMA NextInv == IInv /\ [Next]_vars => IInv'
  <1> SUFFICES ASSUME IInv, [Next]_vars PROVE IInv'
    OBVIOUS
  <1>1. ASSUME NEW r \in Requests, Register(r) \/ Login(r) \/ Forgot(r) \/ OAuth(r)
        PROVE IInv'
    BY <1>1, ArrivalInv
  <1>2. ASSUME NEW r \in Requests, Step(r) PROVE IInv'
    BY <1>2, CreateLockInv, CreateInv, LinkInv, SetVerifiedInv, FindByProviderInv, FindAddressInv,
       FindByEmailInv, FindByLoginInv, FindByLoginAddressInv, IncFailsInv, CountFailsInv,
       SetLockInv, ClearFailsInv DEF Step
  <1>3. ASSUME NEW n \in Names, VerifyEmail(n) \/ LockPasses(n) PROVE IInv'
    BY <1>3, OutsideInv
  <1>4. CASE UNCHANGED vars
    <2>1. UNCHANGED <<player, byEmail, byProvider, playersLock, emailsLock, req, started>>
      BY <1>4 DEF vars, store, locks
    <2>2. TypeOK'
      BY <2>1 DEF IInv, TypeOK, HoldsPlayers, HoldsEmails, At
    <2>3. AllKnown'
      BY <2>1 DEF IInv, AllKnown, Known
    <2>4. IndexesAgree' /\ ThresholdLocks'
      BY <2>1 DEF IInv, IndexesAgree, ThresholdLocks, At
    <2>5. QED
      BY <2>2, <2>3, <2>4 DEF IInv
  <1>5. QED
    BY <1>1, <1>2, <1>3, <1>4 DEF Next

LEMMA Invariance == Spec => []IInv
  BY InitInv, NextInv, PTL DEF Spec

\* The records, the indexes and the requests keep their types, and a mutex is held
\* just by the handler in a call that took it.
THEOREM TypeCorrect == Spec => []TypeOK
  BY Invariance, PTL DEF IInv

\* Whoever registers, signs in and links at once, the indexes of MemoryPlayerStore
\* agree with its records.
THEOREM Indexes == Spec => []IndexesAgree
  BY Invariance, PTL DEF IInv

\* However the logins on an account overlap, too many failures lock it.
THEOREM Lockout == Spec => []ThresholdLocks
  BY Invariance, PTL DEF IInv
===============================================================================
