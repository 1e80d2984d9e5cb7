---------------------------- MODULE UniverseTicks -----------------------------
(***************************************************************************)
(* The universe tick: the server's task that advances the universe, tells  *)
(* every session and keeps a snapshot (tick.rs), the forwarder of each     *)
(* session (handler.rs), and the client's ticker, which runs on its own    *)
(* clock offline and replays the server's ticks online.                    *)
(*                                                                         *)
(* A tick is a function of the universe before it, so a universe is its    *)
(* number of ticks.  Trades, saves of the client and the event table of    *)
(* Postgres, which nothing reads back, are left out.                       *)
(***************************************************************************)
EXTENDS Naturals, SequencesExt, Filters

CONSTANTS
    Clients,
    SnapshotEvery, \* SNAPSHOT_EVERY
    Capacity,      \* of the broadcast channel
    Room,          \* bound: events under way to a client (its channel, the socket)
    MaxTicks,      \* bounds: ticks of the server, of a client by itself,
    MaxOwnTicks,
    MaxConnects,   \* connections of a client,
    MaxCrashes,    \* and crashes of the server
    Missing, Torn  \* no snapshot, and one that does not parse

ASSUME PeriodAssumption == SnapshotEvery \in Nat \ {0} /\ Capacity \in Nat \ {0}
ASSUME BoundsAssumption == {Room, MaxTicks, MaxOwnTicks, MaxConnects, MaxCrashes} \subseteq Nat
ASSUME FileAssumption == Missing \notin Nat /\ Torn \notin Nat

VARIABLES
    server,  \* what the tick task is at
    tick,    \* its universe
    sending, \* events of this tick still to be sent
    file,    \* the snapshot
    session, \* of each client, at the server
    backlog, \* of each forwarder in the broadcast channel
    wire,    \* what each client's transport will report
    online,  \* online_mode
    own,     \* each client's universe
    since, from, \* history: the last tick sent before, and own when, they met
    missed,  \* history: the last snapshot that was due failed or was cut short
    connects, crashes

task == <<server, tick, sending, file, missed, crashes>>
link == <<session, backlog, wire, since, connects>>
universes == <<online, own, from>>
ticksVars == <<task, link, universes>>

EconomyTick(n) == [kind |-> "economy tick", tick |-> n]
OtherEvent(n) == [kind |-> "other", tick |-> n]
Opened == [kind |-> "opened", tick |-> 0]
Closed == [kind |-> "closed", tick |-> 0]

TicksInit ==
    /\ server = "waiting" /\ tick = 0 /\ sending = <<>> /\ file = Missing
    /\ session = [c \in Clients |-> "none"]
    /\ backlog = [c \in Clients |-> <<>>]
    /\ wire = [c \in Clients |-> <<>>]
    /\ online = [c \in Clients |-> FALSE]
    /\ own = [c \in Clients |-> 0]
    /\ since = [c \in Clients |-> 0] /\ from = [c \in Clients |-> 0]
    /\ missed = FALSE
    /\ connects = [c \in Clients |-> 0] /\ crashes = 0

-------------------------------------------------------------------------------
\* The tick task (run).

\* The economy's event comes first, the factions' and storylines' follow.
Advance ==
    /\ server = "waiting" /\ tick < MaxTicks
    /\ tick' = tick + 1
    /\ sending' \in {<<EconomyTick(tick + 1)>>, <<EconomyTick(tick + 1), OtherEvent(tick + 1)>>}
    /\ server' = "sending"
    /\ UNCHANGED <<file, missed, crashes, link, universes>>

\* A mutant: one tick too many between two snapshots.
DueRarely(n) == n % (SnapshotEvery + 1) = 0

Due(n) == n % SnapshotEvery = 0

Send ==
    /\ server = "sending"
    /\ backlog' = [c \in Clients |-> IF session[c] = "forwarding"
                                     THEN Append(backlog[c], Head(sending)) ELSE backlog[c]]
    /\ sending' = Tail(sending)
    /\ server' = IF sending' # <<>> THEN "sending" ELSE IF Due(tick) THEN "writing" ELSE "waiting"
    /\ UNCHANGED <<tick, file, missed, crashes, session, wire, since, connects, universes>>

\* write_snapshot empties the file, then fills it, and either may fail.
WriteSnapshot ==
    /\ \/ server = "writing" /\ server' = "emptied" /\ file' = Torn /\ UNCHANGED missed
       \/ server = "emptied" /\ server' = "waiting" /\ file' = tick /\ missed' = FALSE
       \/ server \in {"writing", "emptied"} /\ server' = "waiting" /\ missed' = TRUE /\ UNCHANGED file
    /\ UNCHANGED <<tick, sending, crashes, link, universes>>

Crash ==
    /\ server # "down" /\ crashes < MaxCrashes
    /\ crashes' = crashes + 1
    /\ server' = "down" /\ sending' = <<>>
    /\ missed' = (missed \/ (server # "waiting" /\ Due(tick)))
    /\ session' = [c \in Clients |-> "none"]
    /\ backlog' = [c \in Clients |-> <<>>]
    /\ UNCHANGED <<tick, file, wire, since, connects, universes>>

\* load_snapshot, or the canonical universe.
Loaded == IF file \in {Missing, Torn} THEN 0 ELSE file

Restart ==
    /\ server = "down"
    /\ server' = "waiting"
    /\ tick' = Loaded
    /\ UNCHANGED <<sending, file, missed, crashes, link, universes>>

-------------------------------------------------------------------------------
\* A session.

\* The handshake is done: the client will see Opened, the server runs handle.
Connect(c) ==
    /\ server # "down" /\ session[c] = "none" /\ wire[c] = <<>> /\ ~online[c]
    /\ connects[c] < MaxConnects
    /\ connects' = [connects EXCEPT ![c] = @ + 1]
    /\ session' = [session EXCEPT ![c] = "accepted"]
    /\ wire' = [wire EXCEPT ![c] = <<Opened>>]
    /\ UNCHANGED <<task, backlog, since, universes>>

\* The last tick whose EconomyTick has gone out.
Announced == IF EconomyTick(tick) \in ToSet(sending) THEN tick - 1 ELSE tick

Subscribe(c) ==
    /\ session[c] = "accepted"
    /\ session' = [session EXCEPT ![c] = "forwarding"]
    /\ since' = [since EXCEPT ![c] = Announced]
    /\ UNCHANGED <<task, backlog, wire, connects, universes>>

\* A mutant: a forwarder that lags goes on with the next event.
ForwardLagging(c) ==
    /\ session[c] = "forwarding" /\ backlog[c] # <<>> /\ Len(wire[c]) < Room
    /\ backlog' = [backlog EXCEPT ![c] = Tail(@)]
    /\ wire' = IF Len(backlog[c]) > Capacity THEN wire
               ELSE [wire EXCEPT ![c] = Append(@, Head(backlog[c]))]
    /\ UNCHANGED <<task, session, since, connects, universes>>

\* The forwarder ends for good when it has missed an event.
Forward(c) ==
    /\ session[c] = "forwarding" /\ backlog[c] # <<>>
    /\ IF Len(backlog[c]) > Capacity
       THEN /\ session' = [session EXCEPT ![c] = "silent"]
            /\ backlog' = [backlog EXCEPT ![c] = <<>>]
            /\ UNCHANGED wire
       ELSE /\ Len(wire[c]) < Room
            /\ wire' = [wire EXCEPT ![c] = Append(@, Head(backlog[c]))]
            /\ backlog' = [backlog EXCEPT ![c] = Tail(@)]
            /\ UNCHANGED session
    /\ UNCHANGED <<task, since, connects, universes>>

\* A mutant: the handler does not notice that its socket is gone.
NotEnded(c) == UNCHANGED <<session, backlog>>

\* The handler ends, and with the writer gone its forwarder.
Ended(c) ==
    /\ session' = [session EXCEPT ![c] = "none"]
    /\ backlog' = [backlog EXCEPT ![c] = <<>>]

\* The socket breaks, and what is under way arrives up to some point.
Break(c) ==
    /\ Closed \notin ToSet(wire[c])
    /\ wire[c] # <<>> \/ online[c]
    /\ \E n \in 0..Len(wire[c]) :
        /\ n = 0 => online[c]
        /\ wire' = [wire EXCEPT ![c] = Append(SubSeq(@, 1, n), Closed)]
    /\ Ended(c)
    /\ UNCHANGED <<task, since, connects, universes>>

-------------------------------------------------------------------------------
\* The client.

\* poll_network: replay_server_tick for an EconomyTick, whichever tick it is; the
\* replay makes the other events anew.
Poll(c) ==
    /\ wire[c] # <<>>
    /\ LET event == Head(wire[c])
       IN  /\ online' = [online EXCEPT ![c] = IF event = Opened THEN TRUE
                                              ELSE IF event = Closed THEN FALSE ELSE @]
           /\ from' = IF event = Opened THEN [from EXCEPT ![c] = own[c]] ELSE from
           /\ own' = IF event.kind = "economy tick" THEN [own EXCEPT ![c] = @ + 1] ELSE own
    /\ wire' = [wire EXCEPT ![c] = Tail(@)]
    /\ UNCHANGED <<task, session, backlog, since, connects>>

\* A mutant: the local clock runs on.
TicksAlways(c) == TRUE

TicksItself(c) == ~online[c]

\* tick_frame, every five seconds of play.
OwnTick(c) ==
    /\ TicksItself(c)
    /\ own[c] < MaxOwnTicks
    /\ own' = [own EXCEPT ![c] = @ + 1]
    /\ UNCHANGED <<task, link, online, from>>

TicksNext ==
    \/ Advance \/ Send \/ WriteSnapshot \/ Crash \/ Restart
    \/ \E c \in Clients : \/ Connect(c) \/ Subscribe(c) \/ Forward(c) \/ Break(c)
                          \/ Poll(c) \/ OwnTick(c)

TicksSpec == TicksInit /\ [][TicksNext]_ticksVars

-------------------------------------------------------------------------------
Events == {Opened, Closed} \cup [kind : {"economy tick", "other"}, tick : 1..MaxTicks]

\* Types; and a client is online just as long as it has seen its connection open
\* and not yet close, so that every connection it makes is its only one.
TicksTypeOK ==
    /\ server \in {"waiting", "sending", "writing", "emptied", "down"}
    /\ tick \in 0..MaxTicks /\ file \in 0..MaxTicks \cup {Missing, Torn}
    /\ ToSet(sending) \subseteq Events /\ (server = "sending" <=> sending # <<>>)
    /\ session \in [Clients -> {"none", "accepted", "forwarding", "silent"}]
    /\ \A c \in Clients :
        /\ ToSet(backlog[c]) \cup ToSet(wire[c]) \subseteq Events
        /\ \A i \in 1..Len(wire[c]) : /\ wire[c][i] = Opened => i = 1 /\ ~online[c]
                                      /\ wire[c][i] = Closed => i = Len(wire[c])
        /\ session[c] # "none" => online[c] \/ Opened \in ToSet(wire[c])
    /\ online \in [Clients -> BOOLEAN] /\ missed \in BOOLEAN
    /\ own \in [Clients -> Nat] /\ from \in [Clients -> Nat] /\ since \in [Clients -> 0..MaxTicks]
    /\ connects \in [Clients -> 0..MaxConnects] /\ crashes \in 0..MaxCrashes

EconomyTicks == [kind : {"economy tick"}, tick : Nat]

\* The ticks under way to c, and those it has replayed in this connection.
UnderWay(c) == Only(wire[c] \o backlog[c], EconomyTicks)
Replayed(c) == IF online[c] THEN own[c] - from[c] ELSE 0

\* "One authority per mode, never both" (S12-universe-tick.md): in a session the client
\* replays the ticks sent since it subscribed, once each and in order, and no other;
\* and while the session forwards, all of them, but for those under way.  (It is not
\* said that the two had the same universe to begin with.)
EveryTickReplayedOnce ==
    \A c \in Clients :
        /\ session[c] = "forwarding" => Replayed(c) + Len(UnderWay(c)) = Announced - since[c]
        /\ session[c] # "none" => \A i \in 1..Len(UnderWay(c)) :
                                     UnderWay(c)[i].tick = since[c] + Replayed(c) + i

\* A crash loses less than SNAPSHOT_EVERY ticks that were complete, unless the last
\* snapshot failed or was cut short; nor does a restart ever run ahead.
RewindBounded ==
    /\ Loaded <= tick
    /\ ~missed => IF server = "waiting" THEN tick - Loaded < SnapshotEvery
                  ELSE file = Torn \/ tick - Loaded <= SnapshotEvery
===============================================================================
