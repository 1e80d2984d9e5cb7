---------------------------------- MODULE Link ----------------------------------
(***************************************************************************)
(* One client's link to the server: reachlock-client's ConnectionState,    *)
(* transport, NetOutbox and SeedState (systems/network.rs, jump.rs), the   *)
(* two directions of each socket it ever opens, and of the session at the  *)
(* other end its read loop, its heartbeat and the system it is in.  The    *)
(* canonical seeds are the register of CanonicalSeeds, which other players *)
(* write as well.                                                          *)
(***************************************************************************)
EXTENDS Naturals, Sequences, SequencesExt, Filters

CONSTANTS
    Systems,
    Home,        \* the system the client starts in
    Seeds,
    Local,       \* the seed the client generates for each system
    NoSeed,      \* no seed adopted, no canonical entry
    Nowhere,     \* the session has no current system
    MaxSockets,  \* bound: sockets the client opens
    MaxJumps,    \* bound: arrivals in another system
    MaxTimeouts  \* bound: sessions that reach the heartbeat timeout

ASSUME HomeIsSystem == Home \in Systems /\ Nowhere \notin Systems
ASSUME LocalSeeds == Local \in [Systems -> Seeds] /\ NoSeed \notin Seeds
ASSUME Bounds == MaxSockets \in Nat \ {0} /\ MaxJumps \in Nat /\ MaxTimeouts \in Nat

Sockets == 1..MaxSockets
NoSocket == 0

\* What travels: arrivals to the server; the transport's own events and the
\* SeedCanonical answers to the client.
Discover(k) == [system |-> k, seed |-> Local[k]]
Opened == [kind |-> "opened", system |-> Nowhere, seed |-> NoSeed]
Lost == [kind |-> "lost", system |-> Nowhere, seed |-> NoSeed]
Canonical(k, seed) == [kind |-> "canonical", system |-> k, seed |-> seed]

VARIABLES
    location,  \* client: CurrentLocation.system_id
    conn,      \* client: ConnectionState
    transport, \* client: NetworkClient.transport
    outbox,    \* client: NetOutbox
    adopted,   \* client: SeedState.adopted
    jumps,
    task,      \* server: each socket's session task
    at,        \* server: its current_system
    up,        \* messages to the server, not read yet
    down,      \* events and messages to the client, not polled yet
    cut,       \* the sockets the network has broken
    canon,     \* server: the canonical seed of each system
    timeouts

client == <<location, conn, transport, outbox, adopted, jumps>>
server == <<task, at, canon, timeouts>>
net == <<up, down, cut>>
vars == <<client, server, net>>

Init ==
    /\ location = Home
    /\ conn = "connecting"
    /\ transport = 1
    /\ outbox = <<>>
    /\ adopted = NoSeed
    /\ jumps = 0
    /\ task = [s \in Sockets |-> IF s = 1 THEN "dialled" ELSE "unused"]
    /\ at = [s \in Sockets |-> Nowhere]
    /\ up = [s \in Sockets |-> <<>>]
    /\ down = [s \in Sockets |-> <<>>]
    /\ cut = [s \in Sockets |-> FALSE]
    /\ canon = [k \in Systems |-> NoSeed]
    /\ timeouts = 0

-------------------------------------------------------------------------------
\* The client.

\* Arrival in another system, online: the world moves and the discovery is
\* queued, connected or not.
Arrive(k) ==
    /\ jumps < MaxJumps
    /\ k # location
    /\ jumps' = jumps + 1
    /\ location' = k
    /\ outbox' = Append(outbox, Discover(k))
    /\ UNCHANGED <<conn, transport, adopted, server, net>>

Has(events, kind) == \E i \in 1..Len(events) : events[i].kind = kind

Answers == [kind : {"canonical"}, system : Systems, seed : Seeds]

\* SeedState.adopted after the answers among the polled events.
AdoptedAfter(events) ==
    LET answers == Only(events, Answers) IN
    IF answers = <<>> THEN adopted ELSE Last(answers).seed

\* The outbox is flushed at the end of a poll that leaves the link connected.
Flushes(events) == ~Has(events, "lost") /\ (Has(events, "opened") \/ conn = "connected")

\* Mutants: a link that opens does not say where the client is; a lost
\* transport is kept.
SentNoHello(events) == IF Flushes(events) THEN outbox ELSE <<>>
KeptTransport(events) == transport

\* What a poll sends: the current location when the link opens, then the
\* outbox; and the transport it leaves.
Sent(events) ==
    (IF Has(events, "opened") THEN <<Discover(location)>> ELSE <<>>)
    \o (IF Flushes(events) THEN outbox ELSE <<>>)
TransportAfter(events) == IF Has(events, "lost") THEN NoSocket ELSE transport

\* poll_network: everything that has arrived is handled, then the outbox is
\* flushed.  A session that no longer reads, or a broken socket, loses it.
Poll(arrived) ==
    LET events == SubSeq(down[transport], 1, arrived) IN
    /\ transport # NoSocket
    /\ arrived \in 0..Len(down[transport])
    /\ arrived > 0 \/ (conn = "connected" /\ outbox # <<>>)
    /\ conn' = CASE Has(events, "lost") -> "errored"
                 [] Has(events, "opened") /\ ~Has(events, "lost") -> "connected"
                 [] OTHER -> conn
    /\ adopted' = AdoptedAfter(events)
    /\ outbox' = IF Flushes(events) THEN <<>> ELSE outbox
    /\ transport' = TransportAfter(events)
    /\ up' = IF task[transport] = "reading" /\ ~cut[transport]
             THEN [up EXCEPT ![transport] = @ \o Sent(events)] ELSE up
    /\ down' = [down EXCEPT ![transport] =
                    IF Has(events, "lost") THEN <<>> ELSE SubSeq(@, arrived + 1, Len(@))]
    /\ UNCHANGED <<location, jumps, server, cut>>

\* reconnect_backoff: the timer ran out with no transport.
Reconnect(s) ==
    /\ transport = NoSocket
    /\ conn = "errored"
    /\ task[s] = "unused"
    /\ \A r \in Sockets : task[r] = "unused" => s <= r
    /\ transport' = s
    /\ conn' = "connecting"
    /\ task' = [task EXCEPT ![s] = "dialled"]
    /\ UNCHANGED <<location, outbox, adopted, jumps, at, canon, timeouts, net>>

-------------------------------------------------------------------------------
\* The network.

\* The handshake succeeds: a session task starts, and the client will see it.
Establish(s) ==
    /\ task[s] = "dialled"
    /\ task' = [task EXCEPT ![s] = "reading"]
    /\ down' = [down EXCEPT ![s] = <<Opened>>]
    /\ UNCHANGED <<client, at, canon, timeouts, up, cut>>

\* The handshake fails.  The last socket is one that works.
Refuse(s) ==
    /\ task[s] = "dialled"
    /\ s < MaxSockets
    /\ task' = [task EXCEPT ![s] = "ended"]
    /\ down' = [down EXCEPT ![s] = <<Lost>>]
    /\ UNCHANGED <<client, at, canon, timeouts, up, cut>>

\* The socket breaks: each side gets a prefix of what was on its way.
Break(s, read, polled) ==
    /\ task[s] \in {"reading", "deaf"}
    /\ ~cut[s]
    /\ s < MaxSockets
    /\ read \in 0..Len(up[s]) /\ polled \in 0..Len(down[s])
    /\ cut' = [cut EXCEPT ![s] = TRUE]
    /\ up' = [up EXCEPT ![s] = SubSeq(@, 1, read)]
    /\ down' = [down EXCEPT ![s] = Append(SubSeq(@, 1, polled), Lost)]
    /\ UNCHANGED <<client, server>>

-------------------------------------------------------------------------------
\* The server.

\* The canonical seed of a system, once someone has discovered it.
Claimed(k, seed) == IF canon[k] = NoSeed THEN [canon EXCEPT ![k] = seed] ELSE canon

\* A mutant: the answer repeats the seed of the question.
AnswerWithQuestion(d) == d.seed

\* The seed a discovery is answered with.
Answer(d) == Claimed(d.system, d.seed)[d.system]

\* The read loop routes a SeedDiscover.
Serve(s) ==
    LET d == Head(up[s]) IN
    /\ task[s] = "reading"
    /\ up[s] # <<>>
    /\ up' = [up EXCEPT ![s] = Tail(@)]
    /\ at' = [at EXCEPT ![s] = d.system]
    /\ canon' = Claimed(d.system, d.seed)
    /\ down' = IF cut[s] THEN down
               ELSE [down EXCEPT ![s] = Append(@, Canonical(d.system, Answer(d)))]
    /\ UNCHANGED <<client, task, timeouts, cut>>

\* A mutant: the session that ends stays in its system.
StaysPresent(s) == at

\* The clean-up after the read loop.
Departed(s) == [at EXCEPT ![s] = Nowhere]

\* The end of a broken stream: the session is over.
EndSession(s) ==
    /\ task[s] \in {"reading", "deaf"}
    /\ cut[s]
    /\ up[s] = <<>>
    /\ task' = [task EXCEPT ![s] = "ended"]
    /\ at' = Departed(s)
    /\ UNCHANGED <<client, canon, timeouts, net>>

\* 30 seconds without a Ping, which the client never sends: the read loop ends.
\* The writer task lives on, as the broadcast forwarder holds a sender to it,
\* and the socket stays open.
TimeOut(s) ==
    /\ timeouts < MaxTimeouts
    /\ task[s] = "reading"
    /\ timeouts' = timeouts + 1
    /\ task' = [task EXCEPT ![s] = "deaf"]
    /\ at' = Departed(s)
    /\ up' = [up EXCEPT ![s] = <<>>]
    /\ UNCHANGED <<client, canon, down, cut>>

\* Another player discovers a system first.
OtherDiscovers(k, seed) ==
    /\ canon[k] = NoSeed
    /\ canon' = [canon EXCEPT ![k] = seed]
    /\ UNCHANGED <<client, task, at, timeouts, net>>

-------------------------------------------------------------------------------
MaxArrived == MaxJumps + 4

PollSome == \E arrived \in 0..MaxArrived : Poll(arrived)

Next ==
    \/ \E k \in Systems : Arrive(k)
    \/ PollSome
    \/ \E s \in Sockets :
        \/ Reconnect(s)
        \/ Establish(s)
        \/ Refuse(s)
        \/ \E read, polled \in 0..MaxArrived : Break(s, read, polled)
        \/ Serve(s)
        \/ EndSession(s)
        \/ TimeOut(s)
    \/ \E k \in Systems, seed \in Seeds : OtherDiscovers(k, seed)

Spec == Init /\ [][Next]_vars

\* Frames run, the backoff timer runs out, a dialled socket opens or fails, and
\* a session reads what has reached it.
FairSpec ==
    /\ Spec
    /\ WF_vars(PollSome)
    /\ \A s \in Sockets :
        /\ WF_vars(Reconnect(s))
        /\ WF_vars(Establish(s) \/ Refuse(s))
        /\ WF_vars(Serve(s) \/ EndSession(s))

-------------------------------------------------------------------------------
\* Types; a socket's wires are empty before it opens, and a session that does
\* not read has no system.
TypeOK ==
    /\ location \in Systems
    /\ conn \in {"connecting", "connected", "errored"}
    /\ transport \in {NoSocket} \cup Sockets
    /\ adopted \in Seeds \cup {NoSeed}
    /\ jumps \in 0..MaxJumps /\ timeouts \in 0..MaxTimeouts
    /\ task \in [Sockets -> {"unused", "dialled", "reading", "deaf", "ended"}]
    /\ at \in [Sockets -> Systems \cup {Nowhere}]
    /\ cut \in [Sockets -> BOOLEAN]
    /\ canon \in [Systems -> Seeds \cup {NoSeed}]
    /\ \A s \in Sockets :
        /\ task[s] \in {"unused", "dialled"} => up[s] = <<>> /\ down[s] = <<>>
        /\ task[s] # "reading" => up[s] = <<>> /\ at[s] = Nowhere
        /\ Len(up[s]) <= MaxArrived /\ Len(down[s]) <= MaxArrived

\* The link is always on its way to something: without a transport the state is
\* the one reconnect_backoff waits for, and with one it is not.
LinkNeverStuck == (transport = NoSocket) <=> (conn = "errored")

\* When all that was sent over a live link has arrived, the two sides agree:
\* the session is in the client's system, and the client holds its canonical
\* seed, whatever was queued, lost or answered on earlier sockets.
QuiescentAgreement ==
    LET s == transport IN
    /\ conn = "connected" /\ outbox = <<>>
    /\ task[s] = "reading" /\ ~cut[s] /\ up[s] = <<>> /\ down[s] = <<>>
    => at[s] = location /\ adopted = canon[location]

\* No arrival is lost for good: the client learns the canonical seed of the
\* system it is in, through any number of broken sockets, unless it moves on or
\* its session has stopped reading.
Deaf == transport # NoSocket /\ task[transport] = "deaf"

ArrivalIsAnswered ==
    \A k \in Systems :
        location = k ~> (adopted # NoSeed /\ adopted = canon[k]) \/ location # k \/ Deaf

\* A lost link comes back.
ClientReconnects == conn = "errored" ~> conn = "connected"
===============================================================================
