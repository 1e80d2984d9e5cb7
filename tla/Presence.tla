-------------------------------- MODULE Presence --------------------------------
(***************************************************************************)
(* The session tasks of reachlock-server (ws/handler.rs) and what they     *)
(* share: PresenceManager's senders per system behind an RwLock, the voice *)
(* rooms, and the registry of player senders behind another.  A broadcast  *)
(* keeps its read lock while it waits for room in each receiver's bounded  *)
(* channel, one after the other; a wait may take any finite time.          *)
(*                                                                         *)
(* Two universes meet in a session: its own, from the token or the query   *)
(* (session.universe), and the one each discovery names, which nothing     *)
(* compares with it.  The message of a send is told apart only by what it  *)
(* says of its sender: joined, left, or nothing (chat, position, voice     *)
(* signal).  PlayerJumped, which every client ignores, is left out.        *)
(***************************************************************************)
EXTENDS Naturals, Sequences, Filters

CONSTANTS
    Sessions,  \* session tasks, each used once
    Players,
    PlayerOf,  \* the player of each session
    Universes,
    UniverseOf,\* session.universe
    Named,     \* the universes that the messages of each session may name
    Systems,
    Nowhere,   \* no current system
    Nobody     \* no session registered for a player

ASSUME EachSessionHasAPlayer == PlayerOf \in [Sessions -> Players]
ASSUME EachSessionHasAUniverse ==
    UniverseOf \in [Sessions -> Universes] /\ Named \in [Sessions -> SUBSET Universes]
ASSUME NoneDistinct == Nowhere \notin Systems /\ Nobody \notin Sessions

VARIABLES
    phase,    \* where each session task is in its handler
    at,       \* its current system; the one it is leaving, while it leaves
    within,   \* the universe of the discovery it handles, or handled last
    goal,     \* the system it goes to when it has left, Nowhere if it closes
    todo,     \* receivers its send or broadcast has still to reach
    members,  \* PresenceManager.by_system, per universe and system
    rooms,    \* VoiceRegistry.rooms: the peers of each system
    senders,  \* AppState.player_senders
    view      \* history: the peers each session was told of, in order

shared == <<members, rooms, senders>>
vars == <<phase, at, within, goal, todo, shared, view>>

Phases == {"unopened", "reading", "leaving", "left", "entering", "entered",
           "telling_left", "telling_joined", "telling_chat", "signalling", "closed"}

Scopes == Universes \X Systems

\* What PresenceManager is asked about while the task handles a discovery.
Here(s) == <<within[s], at[s]>>

\* A broadcast holds the presence lock, a voice signal the registry's.
PresenceLocked == \E s \in Sessions : phase[s] \in {"telling_left", "telling_joined", "telling_chat"}
SendersLocked == \E s \in Sessions : phase[s] = "signalling"

GoTo(s, p) == phase' = [phase EXCEPT ![s] = p]

Init ==
    /\ phase = [s \in Sessions |-> "unopened"]
    /\ at = [s \in Sessions |-> Nowhere]
    /\ within = UniverseOf
    /\ goal = [s \in Sessions |-> Nowhere]
    /\ todo = [s \in Sessions |-> <<>>]
    /\ members = [k \in Scopes |-> <<>>]
    /\ rooms = [k \in Systems |-> {}]
    /\ senders = [p \in Players |-> Nobody]
    /\ view = [s \in Sessions |-> {}]

-------------------------------------------------------------------------------
Open(s) ==
    /\ phase[s] = "unopened"
    /\ ~SendersLocked
    /\ senders' = [senders EXCEPT ![PlayerOf[s]] = s]
    /\ GoTo(s, "reading")
    /\ UNCHANGED <<at, within, goal, todo, members, rooms, view>>

\* A mutant: leaving forgets the room.
StayInVoice(s) == UNCHANGED rooms

\* VoiceRegistry::join and leave, keyed by player.
JoinVoice(s, k) == rooms' = [rooms EXCEPT ![k] = @ \cup {PlayerOf[s]}]
LeaveVoice(s) == rooms' = [rooms EXCEPT ![at[s]] = @ \ {PlayerOf[s]}]

\* SeedDiscover: leave the current system, if there is one, for another; in all
\* this the universe is the message's, also for the system that it leaves.
Discover(s, u, k) ==
    /\ phase[s] = "reading"
    /\ within' = [within EXCEPT ![s] = u]
    /\ goal' = [goal EXCEPT ![s] = k]
    /\ IF at[s] = Nowhere
       THEN JoinVoice(s, k) /\ GoTo(s, "entering")
       ELSE LeaveVoice(s) /\ GoTo(s, "leaving")
    /\ UNCHANGED <<at, todo, members, senders, view>>

\* A mutant: the senders of the player go, not only this session's channel.
WithoutPlayer(k, s) == Only(members[k], {r \in Sessions : PlayerOf[r] # PlayerOf[s]})

\* retain(!same_channel).
Without(k, s) == Only(members[k], Sessions \ {s})

\* PresenceManager::leave.
Leave(s) ==
    /\ phase[s] = "leaving"
    /\ ~PresenceLocked
    /\ members' = [members EXCEPT ![Here(s)] = Without(Here(s), s)]
    /\ view' = [view EXCEPT ![s] = {}]
    /\ GoTo(s, "left")
    /\ UNCHANGED <<at, within, goal, todo, rooms, senders>>

\* PresenceManager::join.
Enter(s) ==
    /\ phase[s] = "entering"
    /\ ~PresenceLocked
    /\ members' = [members EXCEPT ![<<within[s], goal[s]>>] = Append(@, s)]
    /\ at' = [at EXCEPT ![s] = goal[s]]
    /\ goal' = [goal EXCEPT ![s] = Nowhere]
    /\ GoTo(s, "entered")
    /\ UNCHANGED <<within, todo, rooms, senders, view>>

\* A broadcast takes the read lock: its receivers are the members from here on.
StartTelling(s, p, k) ==
    /\ todo' = [todo EXCEPT ![s] = members[k]]
    /\ GoTo(s, p)
    /\ UNCHANGED <<at, within, goal, shared, view>>

\* Mutants: the broadcast of a departure, or of an arrival, is forgotten.
TellNobodyLeft(s) ==
    /\ phase[s] = "left"
    /\ GoTo(s, "telling_left")
    /\ UNCHANGED <<at, within, goal, todo, shared, view>>
TellNobodyJoined(s) ==
    /\ phase[s] = "entered"
    /\ GoTo(s, "telling_joined")
    /\ UNCHANGED <<at, within, goal, todo, shared, view>>

TellLeft(s) == phase[s] = "left" /\ StartTelling(s, "telling_left", Here(s))
TellJoined(s) == phase[s] = "entered" /\ StartTelling(s, "telling_joined", Here(s))

\* ChatSend to the current system, or a PlayerPosition in any the message names: in
\* the session's own universe.
Chat(s, k) == phase[s] = "reading" /\ StartTelling(s, "telling_chat", <<UniverseOf[s], k>>)

\* A mutant: the registry is not asked for the target's sender.
ReachesPeer(target, peers) == target \in peers

\* VoiceRegistry::relay finds the target, and the registry its sender.
Reaches(target, peers) == target \in peers /\ senders[target] # Nobody

\* VoiceSignal: (re)join the room, and relay to a target who is in it and has
\* a registered sender, keeping the registry's read lock.
Signal(s, target) ==
    LET peers == rooms[at[s]] \cup {PlayerOf[s]} IN
    /\ phase[s] = "reading"
    /\ at[s] # Nowhere
    /\ JoinVoice(s, at[s])
    /\ IF Reaches(target, peers)
       THEN todo' = [todo EXCEPT ![s] = <<senders[target]>>] /\ GoTo(s, "signalling")
       ELSE UNCHANGED <<todo, phase>>
    /\ UNCHANGED <<at, within, goal, members, senders, view>>

\* What the receiver r of a message of s knows after it.
ViewAfter(s, r) ==
    CASE phase[s] = "telling_left" -> view[r] \ {PlayerOf[s]}
      [] phase[s] = "telling_joined" /\ r # s -> view[r] \cup {PlayerOf[s]}
      [] OTHER -> view[r]

\* One await of Sender::send, towards the next receiver.
Send(s) ==
    LET r == Head(todo[s]) IN
    /\ todo[s] # <<>>
    /\ todo' = [todo EXCEPT ![s] = Tail(@)]
    /\ view' = [view EXCEPT ![r] = ViewAfter(s, r)]
    /\ UNCHANGED <<phase, at, within, goal, shared>>

\* The last receiver is served: the lock is dropped and the handler goes on.
EndTelling(s) ==
    /\ phase[s] \in {"telling_left", "telling_joined", "telling_chat", "signalling"}
    /\ todo[s] = <<>>
    /\ IF phase[s] # "telling_left"
       THEN GoTo(s, "reading") /\ UNCHANGED <<at, rooms>>
       ELSE /\ at' = [at EXCEPT ![s] = Nowhere]
            /\ IF goal[s] = Nowhere
               THEN GoTo(s, "closed") /\ UNCHANGED rooms
               ELSE GoTo(s, "entering") /\ JoinVoice(s, goal[s])
    /\ UNCHANGED <<within, goal, todo, members, senders, view>>

\* The read loop ends (end of stream, dead writer, heartbeat): unregister the
\* player's sender and leave the voice room, then the system, in the session's own
\* universe, whichever it was entered in.
Close(s) ==
    /\ phase[s] = "reading"
    /\ ~SendersLocked
    /\ senders' = [senders EXCEPT ![PlayerOf[s]] = Nobody]
    /\ goal' = [goal EXCEPT ![s] = Nowhere]
    /\ within' = [within EXCEPT ![s] = UniverseOf[s]]
    /\ IF at[s] = Nowhere THEN GoTo(s, "closed") /\ UNCHANGED rooms
                          ELSE GoTo(s, "leaving") /\ LeaveVoice(s)
    /\ UNCHANGED <<at, todo, members, view>>

Next ==
    \E s \in Sessions :
        \/ Open(s)
        \/ \E u \in Named[s], k \in Systems : Discover(s, u, k)
        \/ Leave(s)
        \/ TellLeft(s)
        \/ Enter(s)
        \/ TellJoined(s)
        \/ \E k \in Systems : Chat(s, k)
        \/ \E p \in Players : Signal(s, p)
        \/ Send(s)
        \/ EndTelling(s)
        \/ Close(s)

Spec == Init /\ [][Next]_vars

-------------------------------------------------------------------------------
InSystem(s, k) == \E i \in 1..Len(members[k]) : members[k][i] = s

\* Types, and where a task may be while it has receivers to serve.
TypeOK ==
    /\ phase \in [Sessions -> Phases]
    /\ at \in [Sessions -> Systems \cup {Nowhere}]
    /\ within \in [Sessions -> Universes]
    /\ goal \in [Sessions -> Systems \cup {Nowhere}]
    /\ todo \in [Sessions -> Seq(Sessions)]
    /\ members \in [Scopes -> Seq(Sessions)]
    /\ rooms \in [Systems -> SUBSET Players]
    /\ senders \in [Players -> Sessions \cup {Nobody}]
    /\ view \in [Sessions -> SUBSET Players]

\* The messages of s name the universe of its session, as this repository's client
\* does, and no other.
Steady(s) == Named[s] \subseteq {UniverseOf[s]}

\* The task is in the system k, and has not begun to close or to move on.
Stays(s, k) ==
    /\ Here(s) = k
    /\ phase[s] \in {"entered", "telling_joined", "reading", "telling_chat", "signalling"}

\* An open session is registered in the system it is in, under the universe it
\* named.  If its messages name its own universe, its sender is registered exactly
\* while the session is there: once, in one place, and never after it closed
\* (PresenceManager: "senders for every session currently in a given (universe,
\* system) pair").
MembersAreCurrent ==
    \A s \in Sessions, k \in Scopes :
        /\ Stays(s, k) => InSystem(s, k)
        /\ Steady(s) =>
            /\ InSystem(s, k) <=>
                Here(s) = k /\ phase[s] \notin {"left", "telling_left", "closed"}
            /\ \A i, j \in 1..Len(members[k]) :
                members[k][i] = s /\ members[k][j] = s => i = j

\* The task of t announces to r that it has left k, or is about to.
Leaving(t, k, r) ==
    /\ Here(t) = k
    /\ \/ phase[t] = "left"
       \/ phase[t] = "telling_left" /\ \E i \in 1..Len(todo[t]) : todo[t][i] = r

\* The session t is in k; of one whose messages name other universes no more can be
\* said than that it is registered there.
Present(t, k) ==
    /\ InSystem(t, k)
    /\ Steady(t) => Here(t) = k /\ phase[t] \notin {"left", "telling_left", "closed"}

\* A peer a session was told has joined is in the same system still, or the session
\* is yet to be told that it left: no ghost survives, whoever moves, closes or
\* reconnects meanwhile, and whatever universes others name.
NoGhostPeer ==
    \A s \in Sessions : \A p \in view[s] :
        \E k \in Scopes, t \in Sessions :
            /\ InSystem(s, k)
            /\ PlayerOf[t] = p
            /\ Present(t, k) \/ Leaving(t, k, s)

\* The player of s has no other session on the server.
Alone(s) ==
    \A t \in Sessions \ {s} :
        PlayerOf[t] = PlayerOf[s] => phase[t] = "unopened"

\* Whoever was in a system when a player came knows of that player once the
\* broadcast is over, if its own messages keep to its universe (newcomers are told
\* of nobody).
LaterArrivalsKnown ==
    \A k \in Scopes : \A i, j \in 1..Len(members[k]) :
        LET s == members[k][i] t == members[k][j] IN
        i < j /\ Steady(s) /\ Alone(t) /\ phase[t] \in {"reading", "telling_chat", "signalling"}
            => PlayerOf[t] \in view[s]

\* A player in a voice room has a session in that system, or on its way in.
NoPhantomVoicePeer ==
    \A k \in Systems : \A p \in rooms[k] :
        \E s \in Sessions :
            /\ PlayerOf[s] = p
            /\ \/ at[s] = k /\ phase[s] \notin {"leaving", "left", "telling_left", "closed"}
               \/ goal[s] = k /\ phase[s] = "entering"

\* Players in the same system share one voice room (voice.rs), also those who
\* reconnected while their old session was still closing.
PlayersShareTheRoom ==
    \A s \in Sessions :
        phase[s] = "reading" /\ at[s] # Nowhere => PlayerOf[s] \in rooms[at[s]]
===============================================================================
