----------------------------- MODULE PresenceProofs -----------------------------
(***************************************************************************)
(* What the sessions of a server know of each other, for any sessions,     *)
(* players, universes and systems, sessions of one player that overlap and *)
(* messages that name another universe than the session's own included:    *)
(* who is in a system is registered there, nobody keeps a peer who is      *)
(* neither registered with it nor being taken leave of, nobody misses an   *)
(* arrival, and voice rooms hold no phantom.                               *)
(***************************************************************************)
EXTENDS Presence, DataLemmas

\* Where a task is while it enters, leaves or broadcasts; one that names its own
\* universe only is never within another.
Settled == {"leaving", "left", "telling_left", "entered", "telling_joined", "signalling"}

Whereabouts ==
    \A s \in Sessions :
        /\ phase[s] \in {"unopened", "entering", "closed"} => at[s] = Nowhere
        /\ phase[s] = "entering" => goal[s] \in Systems
        /\ phase[s] \in Settled => at[s] \in Systems
        /\ Steady(s) => within[s] = UniverseOf[s]

Types == TypeOK /\ Whereabouts

LEMMA InitTypes == Init => Types
  <1> SUFFICES ASSUME Init PROVE Types
    OBVIOUS
  <1>1. <<>> \in Seq(Sessions)
    BY EmptySeq
  <1>2. Whereabouts
    BY DEF Init, Whereabouts, Settled
  <1>3. TypeOK
    BY <1>1, EachSessionHasAUniverse DEF Init, TypeOK, Phases
  <1>4. QED
    BY <1>2, <1>3 DEF Types

\* What a step that moves only the task of s has to show.
LEMMA WhereaboutsOf ==
    ASSUME Whereabouts, NEW s \in Sessions,
           \A r \in Sessions \ {s} : /\ at'[r] = at[r] /\ goal'[r] = goal[r] /\ phase'[r] = phase[r]
                                     /\ within'[r] = within[r],
           phase'[s] \in {"unopened", "entering", "closed"} => at'[s] = Nowhere,
           phase'[s] = "entering" => goal'[s] \in Systems,
           phase'[s] \in Settled => at'[s] \in Systems,
           Steady(s) => within'[s] = UniverseOf[s]
    PROVE Whereabouts'
  BY DEF Whereabouts, Steady

LEMMA OpenTypes == ASSUME Types, NEW s \in Sessions, Open(s) PROVE Types'
  <1>1. /\ phase' = [phase EXCEPT ![s] = "reading"] /\ senders' = [senders EXCEPT ![PlayerOf[s]] = s]
        /\ at' = at /\ within' = within /\ goal' = goal /\ todo' = todo
        /\ members' = members /\ rooms' = rooms /\ view' = view
    BY DEF Open, GoTo
  <1>2. TypeOK'
    BY <1>1, EachSessionHasAPlayer DEF Types, TypeOK, Phases
  <1>3. Whereabouts'
    BY <1>1, WhereaboutsOf DEF Types, TypeOK, Whereabouts, Settled
  <1>4. QED
    BY <1>2, <1>3 DEF Types

\* A player joins or leaves a voice room.
LEMMA RoomTypes ==
    ASSUME Types, NEW s \in Sessions, NEW k \in Systems,
           \/ rooms' = [rooms EXCEPT ![k] = rooms[k] \cup {PlayerOf[s]}]
           \/ rooms' = [rooms EXCEPT ![k] = rooms[k] \ {PlayerOf[s]}]
    PROVE rooms' \in [Systems -> SUBSET Players]
  <1>1. rooms \in [Systems -> SUBSET Players] /\ PlayerOf[s] \in Players
    BY EachSessionHasAPlayer DEF Types, TypeOK
  <1>2. (rooms[k] \cup {PlayerOf[s]}) \in SUBSET Players /\ (rooms[k] \ {PlayerOf[s]}) \in SUBSET Players
    BY <1>1
  <1>3. QED
    BY <1>1, <1>2

LEMMA DiscoverTypes ==
    ASSUME Types, NEW s \in Sessions, NEW u \in Named[s], NEW k \in Systems, Discover(s, u, k)
    PROVE Types'
  <1>1. /\ phase[s] = "reading" /\ goal' = [goal EXCEPT ![s] = k]
        /\ within' = [within EXCEPT ![s] = u] /\ at' = at /\ todo' = todo /\ members' = members /\ senders' = senders /\ view' = view
        /\ \/ at[s] = Nowhere /\ phase' = [phase EXCEPT ![s] = "entering"]
              /\ rooms' = [rooms EXCEPT ![k] = rooms[k] \cup {PlayerOf[s]}]
           \/ at[s] \in Systems /\ phase' = [phase EXCEPT ![s] = "leaving"]
              /\ rooms' = [rooms EXCEPT ![at[s]] = rooms[at[s]] \ {PlayerOf[s]}]
    BY DEF Types, TypeOK, Discover, JoinVoice, LeaveVoice, GoTo
  <1>2. rooms' \in [Systems -> SUBSET Players]
    BY <1>1, RoomTypes
  <1>3. phase' \in [Sessions -> Phases] /\ goal' \in [Sessions -> Systems \cup {Nowhere}]
    BY <1>1 DEF Types, TypeOK, Phases
  <1>4. u \in Universes /\ (Steady(s) => u = UniverseOf[s])
    BY EachSessionHasAUniverse DEF Steady
  <1>5. within' \in [Sessions -> Universes]
    BY <1>1, <1>4 DEF Types, TypeOK
  <1>6. Whereabouts'
    BY <1>1, <1>4, WhereaboutsOf DEF Types, TypeOK, Settled
  <1>7. QED
    BY <1>1, <1>2, <1>3, <1>5, <1>6 DEF Types, TypeOK

\* What is asked of PresenceManager by a task that is in a system.
LEMMA HereIsAScope ==
    ASSUME Types, NEW s \in Sessions
    PROVE Here(s) \in Scopes <=> at[s] \in Systems
  BY DEF Types, TypeOK, Here, Scopes

LEMMA LeaveTypes == ASSUME Types, NEW s \in Sessions, Leave(s) PROVE Types'
  <1>1. /\ phase[s] = "leaving" /\ phase' = [phase EXCEPT ![s] = "left"]
        /\ members' = [members EXCEPT ![Here(s)] = Only(members[Here(s)], Sessions \ {s})]
        /\ view' = [view EXCEPT ![s] = {}]
        /\ at' = at /\ within' = within /\ goal' = goal /\ todo' = todo /\ rooms' = rooms /\ senders' = senders
    BY DEF Leave, GoTo, Without
  <1>2. at[s] \in Systems /\ Here(s) \in Scopes
    BY <1>1, HereIsAScope DEF Types, Whereabouts, Settled
  <1>3. Only(members[Here(s)], Sessions \ {s}) \in Seq(Sessions)
    BY <1>2, OnlyType DEF Types, TypeOK
  <1>4. TypeOK'
    BY <1>1, <1>2, <1>3 DEF Types, TypeOK, Phases
  <1>5. Whereabouts'
    BY <1>1, <1>2, WhereaboutsOf DEF Types, TypeOK, Whereabouts
  <1>6. QED
    BY <1>4, <1>5 DEF Types

LEMMA EnterTypes == ASSUME Types, NEW s \in Sessions, Enter(s) PROVE Types'
  <1>1. /\ phase[s] = "entering" /\ phase' = [phase EXCEPT ![s] = "entered"]
        /\ members' = [members EXCEPT ![<<within[s], goal[s]>>] = Append(members[<<within[s], goal[s]>>], s)]
        /\ at' = [at EXCEPT ![s] = goal[s]] /\ goal' = [goal EXCEPT ![s] = Nowhere]
        /\ within' = within /\ todo' = todo /\ rooms' = rooms /\ senders' = senders /\ view' = view
    BY DEF Enter, GoTo
  <1>2. goal[s] \in Systems /\ <<within[s], goal[s]>> \in Scopes
    BY <1>1 DEF Types, TypeOK, Whereabouts, Scopes
  <1>3. Append(members[<<within[s], goal[s]>>], s) \in Seq(Sessions)
    BY <1>2, AppendProperties DEF Types, TypeOK
  <1>4. TypeOK'
    BY <1>1, <1>2, <1>3 DEF Types, TypeOK, Phases
  <1>5. Whereabouts'
    BY <1>1, <1>2, WhereaboutsOf DEF Types, TypeOK, Whereabouts
  <1>6. QED
    BY <1>4, <1>5 DEF Types

LEMMA StartTellingTypes ==
    ASSUME Types, NEW s \in Sessions, NEW k \in Scopes,
           NEW p \in {"telling_left", "telling_joined", "telling_chat"}, StartTelling(s, p, k),
           p # "telling_chat" => at[s] \in Systems
    PROVE Types'
  <1>1. /\ phase' = [phase EXCEPT ![s] = p] /\ todo' = [todo EXCEPT ![s] = members[k]]
        /\ at' = at /\ within' = within /\ goal' = goal /\ members' = members /\ rooms' = rooms
        /\ senders' = senders /\ view' = view
    BY DEF StartTelling, GoTo, shared
  <1>2. TypeOK'
    BY <1>1 DEF Types, TypeOK, Phases
  <1>3. Whereabouts'
    BY <1>1, WhereaboutsOf DEF Types, TypeOK, Whereabouts, Settled
  <1>4. QED
    BY <1>2, <1>3 DEF Types

LEMMA TellTypes ==
    ASSUME Types, NEW s \in Sessions, TellLeft(s) \/ TellJoined(s)
    PROVE Types'
  <1>1. at[s] \in Systems /\ Here(s) \in Scopes
    BY HereIsAScope DEF Types, TypeOK, Whereabouts, Settled, TellLeft, TellJoined
  <1>2. QED
    BY <1>1, StartTellingTypes DEF TellLeft, TellJoined

\* A chat goes to the session's own universe.
LEMMA ChatScope == \A s \in Sessions, k \in Systems : <<UniverseOf[s], k>> \in Scopes
  BY EachSessionHasAUniverse DEF Scopes

LEMMA ChatTypes == ASSUME Types, NEW s \in Sessions, NEW k \in Systems, Chat(s, k) PROVE Types'
  BY ChatScope, StartTellingTypes DEF Chat

LEMMA SignalTypes == ASSUME Types, NEW s \in Sessions, NEW p \in Players, Signal(s, p) PROVE Types'
  <1>1. /\ at[s] \in Systems /\ phase[s] = "reading" /\ at' = at /\ within' = within /\ goal' = goal
        /\ rooms' = [rooms EXCEPT ![at[s]] = rooms[at[s]] \cup {PlayerOf[s]}]
        /\ members' = members /\ senders' = senders /\ view' = view
        /\ \/ phase' = phase /\ todo' = todo
           \/ /\ phase' = [phase EXCEPT ![s] = "signalling"]
              /\ senders[p] # Nobody /\ todo' = [todo EXCEPT ![s] = <<senders[p]>>]
    BY DEF Types, TypeOK, Signal, Reaches, JoinVoice, GoTo
  <1>2. rooms' \in [Systems -> SUBSET Players]
    BY <1>1, RoomTypes
  <1>3. todo' \in [Sessions -> Seq(Sessions)] /\ phase' \in [Sessions -> Phases]
    <2>1. senders[p] # Nobody => <<senders[p]>> \in Seq(Sessions)
      BY DEF Types, TypeOK
    <2>2. todo' \in [Sessions -> Seq(Sessions)]
      BY <1>1, <2>1 DEF Types, TypeOK
    <2>3. phase' \in [Sessions -> Phases]
      BY <1>1 DEF Types, TypeOK, Phases
    <2>4. QED
      BY <2>2, <2>3
  <1>4. Whereabouts'
    BY <1>1, WhereaboutsOf DEF Types, TypeOK, Whereabouts, Settled
  <1>5. QED
    BY <1>1, <1>2, <1>3, <1>4 DEF Types, TypeOK

\* Who receives the message of s next.
LEMMA Receiver ==
    ASSUME Types, NEW s \in Sessions, todo[s] # <<>>
    PROVE /\ Head(todo[s]) \in Sessions /\ Tail(todo[s]) \in Seq(Sessions)
          /\ ViewAfter(s, Head(todo[s])) \in SUBSET Players
  <1>1. Head(todo[s]) \in Sessions /\ Tail(todo[s]) \in Seq(Sessions)
    BY HeadTailProperties DEF Types, TypeOK
  <1>2. ViewAfter(s, Head(todo[s])) \in SUBSET Players
    <2>1. view[Head(todo[s])] \in SUBSET Players /\ PlayerOf[s] \in Players
      BY <1>1, EachSessionHasAPlayer DEF Types, TypeOK
    <2>2. QED
      BY <2>1 DEF ViewAfter
  <1>3. QED
    BY <1>1, <1>2

LEMMA SendTypes == ASSUME Types, NEW s \in Sessions, Send(s) PROVE Types'
  <1>1. /\ todo[s] # <<>> /\ todo' = [todo EXCEPT ![s] = Tail(todo[s])]
        /\ view' = [view EXCEPT ![Head(todo[s])] = ViewAfter(s, Head(todo[s]))]
        /\ phase' = phase /\ at' = at /\ within' = within /\ goal' = goal /\ members' = members
        /\ rooms' = rooms /\ senders' = senders
    BY DEF Send, shared
  <1>2. TypeOK'
    BY <1>1, Receiver DEF Types, TypeOK
  <1>3. Whereabouts'
    BY <1>1 DEF Types, Whereabouts, Steady
  <1>4. QED
    BY <1>2, <1>3 DEF Types

LEMMA EndTellingTypes == ASSUME Types, NEW s \in Sessions, EndTelling(s) PROVE Types'
  <1> USE NoneDistinct, EachSessionHasAPlayer
  <1>1. CASE phase[s] # "telling_left"
    <2>1. /\ phase' = [phase EXCEPT ![s] = "reading"] /\ at' = at /\ within' = within
          /\ goal' = goal /\ todo' = todo
          /\ members' = members /\ rooms' = rooms /\ senders' = senders /\ view' = view
      BY <1>1 DEF EndTelling, GoTo
    <2>2. TypeOK'
      BY <2>1 DEF Types, TypeOK, Phases
    <2>3. Whereabouts'
      BY <2>1, WhereaboutsOf DEF Types, TypeOK, Whereabouts, Settled
    <2>4. QED
      BY <2>2, <2>3 DEF Types
  <1>2. CASE phase[s] = "telling_left"
    <2>1. /\ at' = [at EXCEPT ![s] = Nowhere] /\ within' = within /\ goal' = goal /\ todo' = todo
          /\ members' = members /\ senders' = senders /\ view' = view
          /\ \/ goal[s] = Nowhere /\ phase' = [phase EXCEPT ![s] = "closed"] /\ rooms' = rooms
             \/ /\ goal[s] \in Systems /\ phase' = [phase EXCEPT ![s] = "entering"]
                /\ rooms' = [rooms EXCEPT ![goal[s]] = rooms[goal[s]] \cup {PlayerOf[s]}]
      BY <1>2 DEF Types, TypeOK, EndTelling, GoTo, JoinVoice
    <2>2. rooms' \in [Systems -> SUBSET Players]
      BY <2>1, RoomTypes DEF Types, TypeOK
    <2>3. phase' \in [Sessions -> Phases]
      BY <2>1 DEF Types, TypeOK, Phases
    <2>4. TypeOK'
      BY <2>1, <2>2, <2>3 DEF Types, TypeOK
    <2>5. Whereabouts'
      BY <2>1, WhereaboutsOf DEF Types, TypeOK, Whereabouts, Settled
    <2>6. QED
      BY <2>4, <2>5 DEF Types
  <1>3. QED
    BY <1>1, <1>2

LEMMA CloseTypes == ASSUME Types, NEW s \in Sessions, Close(s) PROVE Types'
  <1> USE NoneDistinct, EachSessionHasAPlayer
  <1>1. /\ phase[s] = "reading" /\ senders' = [senders EXCEPT ![PlayerOf[s]] = Nobody]
        /\ goal' = [goal EXCEPT ![s] = Nowhere] /\ within' = [within EXCEPT ![s] = UniverseOf[s]]
        /\ at' = at /\ todo' = todo /\ members' = members /\ view' = view
        /\ \/ at[s] = Nowhere /\ phase' = [phase EXCEPT ![s] = "closed"] /\ rooms' = rooms
           \/ /\ at[s] \in Systems /\ phase' = [phase EXCEPT ![s] = "leaving"]
              /\ rooms' = [rooms EXCEPT ![at[s]] = rooms[at[s]] \ {PlayerOf[s]}]
    BY DEF Types, TypeOK, Close, GoTo, LeaveVoice
  <1>2. rooms' \in [Systems -> SUBSET Players]
    BY <1>1, RoomTypes DEF Types, TypeOK
  <1>3. phase' \in [Sessions -> Phases]
    BY <1>1 DEF Types, TypeOK, Phases
  <1>4. TypeOK'
    BY <1>1, <1>2, <1>3, EachSessionHasAUniverse DEF Types, TypeOK
  <1>5. Whereabouts'
    BY <1>1, WhereaboutsOf DEF Types, TypeOK, Settled
  <1>6. QED
    BY <1>4, <1>5 DEF Types

LEMMA NextTypes == Types /\ [Next]_vars => Types'
  <1>1. Types /\ UNCHANGED vars => Types'
    <2>1. TypeOK /\ UNCHANGED vars => TypeOK'
      BY DEF vars, shared, TypeOK
    <2>2. Whereabouts /\ UNCHANGED vars => Whereabouts'
      BY DEF vars, Whereabouts, Steady
    <2>3. QED
      BY <2>1, <2>2 DEF Types
  <1>2. QED
    BY <1>1, OpenTypes, DiscoverTypes, LeaveTypes, EnterTypes, TellTypes, ChatTypes, SignalTypes, SendTypes,
       EndTellingTypes, CloseTypes DEF Next

-------------------------------------------------------------------------------
\* Voice rooms.

\* The session is in the system k, or on its way in, and has not left its room.
InRoomOf(s, k) ==
    \/ at[s] = k /\ phase[s] \notin {"leaving", "left", "telling_left", "closed"}
    \/ goal[s] = k /\ phase[s] = "entering"

LEMMA Phantoms ==
    NoPhantomVoicePeer <=>
        \A k \in Systems : \A p \in rooms[k] : \E s \in Sessions : PlayerOf[s] = p /\ InRoomOf(s, k)
  BY DEF NoPhantomVoicePeer, InRoomOf

\* A step that moves one session s, and in the rooms at most its player, keeps the
\* rooms free of phantoms if s stays in the rooms it was in, except for the one its
\* player is taken out of, and its player is added only where s is.
LEMMA OneSession ==
    ASSUME NoPhantomVoicePeer, NEW s \in Sessions,
           \A r \in Sessions \ {s} : at'[r] = at[r] /\ goal'[r] = goal[r] /\ phase'[r] = phase[r],
           \A k \in Systems : \A p \in rooms'[k] :
                \/ p \in rooms[k] /\ (PlayerOf[s] = p /\ InRoomOf(s, k) => InRoomOf(s, k)')
                \/ p = PlayerOf[s] /\ InRoomOf(s, k)'
    PROVE NoPhantomVoicePeer'
  <1> SUFFICES ASSUME NEW k \in Systems, NEW p \in rooms'[k]
               PROVE \E r \in Sessions : PlayerOf[r] = p /\ InRoomOf(r, k)'
    BY DEF NoPhantomVoicePeer, InRoomOf
  <1>1. CASE p = PlayerOf[s] /\ InRoomOf(s, k)'
    BY <1>1
  <1>2. CASE p \in rooms[k] /\ (PlayerOf[s] = p /\ InRoomOf(s, k) => InRoomOf(s, k)')
    <2>1. PICK r \in Sessions : PlayerOf[r] = p /\ InRoomOf(r, k)
      BY <1>2, Phantoms
    <2>2. CASE r = s
      BY <1>2, <2>1, <2>2
    <2>3. CASE r # s
      <3>1. InRoomOf(r, k)'
        BY <2>1, <2>3 DEF InRoomOf
      <3>2. QED
        BY <2>1, <3>1
    <2>4. QED
      BY <2>2, <2>3
  <1>3. QED
    BY <1>1, <1>2

\* Rooms unchanged, and the session stays in those it was in.
LEMMA RoomsAlone ==
    ASSUME NoPhantomVoicePeer, NEW s \in Sessions, rooms' = rooms,
           \A r \in Sessions \ {s} : at'[r] = at[r] /\ goal'[r] = goal[r] /\ phase'[r] = phase[r],
           \A k \in Systems : InRoomOf(s, k) => InRoomOf(s, k)'
    PROVE NoPhantomVoicePeer'
  BY OneSession

\* Steps that leave the rooms alone.
LEMMA TaskRooms ==
    ASSUME Types, NoPhantomVoicePeer, NEW s \in Sessions,
           \/ Open(s) \/ Leave(s) \/ TellLeft(s) \/ Enter(s) \/ TellJoined(s) \/ Send(s)
           \/ \E k \in Systems : Chat(s, k)
    PROVE NoPhantomVoicePeer'
  <1> USE NoneDistinct
  <1>1. CASE Open(s)
    BY <1>1, RoomsAlone DEF Types, TypeOK, Whereabouts, Open, GoTo, InRoomOf
  <1>2. CASE Leave(s)
    BY <1>2, RoomsAlone DEF Types, TypeOK, Leave, GoTo, InRoomOf
  <1>3. CASE TellLeft(s)
    BY <1>3, RoomsAlone DEF Types, TypeOK, TellLeft, StartTelling, GoTo, InRoomOf, shared
  <1>4. CASE Enter(s)
    BY <1>4, RoomsAlone DEF Types, TypeOK, Whereabouts, Enter, GoTo, InRoomOf
  <1>5. CASE TellJoined(s)
    BY <1>5, RoomsAlone DEF Types, TypeOK, TellJoined, StartTelling, GoTo, InRoomOf, shared
  <1>6. CASE \E k \in Systems : Chat(s, k)
    BY <1>6, RoomsAlone DEF Types, TypeOK, Chat, StartTelling, GoTo, InRoomOf, shared
  <1>7. CASE Send(s)
    BY <1>7, RoomsAlone DEF Send, InRoomOf, shared
  <1>8. QED
    BY <1>1, <1>2, <1>3, <1>4, <1>5, <1>6, <1>7

LEMMA DiscoverRooms ==
    ASSUME Types, NoPhantomVoicePeer, NEW s \in Sessions, NEW u \in Named[s], NEW k \in Systems,
           Discover(s, u, k)
    PROVE NoPhantomVoicePeer'
  <1> USE NoneDistinct, EachSessionHasAPlayer
  <1>1. CASE at[s] = Nowhere
    <2>1. ASSUME NEW l \in Systems PROVE ~InRoomOf(s, l)
      BY <1>1 DEF Discover, InRoomOf
    <2>2. InRoomOf(s, k)' /\ \A l \in Systems : rooms'[l] \subseteq
                IF l = k THEN rooms[l] \cup {PlayerOf[s]} ELSE rooms[l]
      BY <1>1 DEF Types, TypeOK, Discover, JoinVoice, GoTo, InRoomOf
    <2>3. QED
      BY <1>1, <2>1, <2>2, OneSession DEF Types, TypeOK, Discover, GoTo
  <1>2. CASE at[s] # Nowhere
    <2>1. rooms' = [rooms EXCEPT ![at[s]] = rooms[at[s]] \ {PlayerOf[s]}] /\ at[s] \in Systems
      BY <1>2 DEF Types, TypeOK, Discover, LeaveVoice
    <2>2. \A l \in Systems : InRoomOf(s, l) => l = at[s]
      BY DEF Discover, InRoomOf
    <2>3. QED
      BY <2>1, <2>2, OneSession DEF Types, TypeOK, Discover, GoTo
  <1>3. QED
    BY <1>1, <1>2

LEMMA CloseRooms ==
    ASSUME Types, NoPhantomVoicePeer, NEW s \in Sessions, Close(s) PROVE NoPhantomVoicePeer'
  <1> USE NoneDistinct, EachSessionHasAPlayer
  <1>1. \A l \in Systems : InRoomOf(s, l) => l = at[s]
    BY DEF Close, InRoomOf
  <1>2. CASE at[s] = Nowhere
    BY <1>1, <1>2, RoomsAlone DEF Types, TypeOK, Close, GoTo
  <1>3. CASE at[s] # Nowhere
    <2>1. rooms' = [rooms EXCEPT ![at[s]] = rooms[at[s]] \ {PlayerOf[s]}] /\ at[s] \in Systems
      BY <1>3 DEF Types, TypeOK, Close, LeaveVoice
    <2>2. QED
      BY <1>1, <2>1, OneSession DEF Types, TypeOK, Close, GoTo
  <1>4. QED
    BY <1>2, <1>3

LEMMA SignalRooms ==
    ASSUME Types, NoPhantomVoicePeer, NEW s \in Sessions, NEW p \in Players, Signal(s, p)
    PROVE NoPhantomVoicePeer'
  <1> USE NoneDistinct, EachSessionHasAPlayer
  <1>1. /\ at[s] \in Systems /\ phase[s] = "reading" /\ at' = at /\ goal' = goal
        /\ rooms' = [rooms EXCEPT ![at[s]] = rooms[at[s]] \cup {PlayerOf[s]}]
        /\ phase' = phase \/ phase' = [phase EXCEPT ![s] = "signalling"]
    BY DEF Types, TypeOK, Signal, JoinVoice, GoTo
  <1>2. InRoomOf(s, at[s])' /\ \A l \in Systems : InRoomOf(s, l) => InRoomOf(s, l)'
    BY <1>1 DEF InRoomOf, Types, TypeOK
  <1>3. QED
    BY <1>1, <1>2, OneSession DEF Types, TypeOK

LEMMA EndTellingRooms ==
    ASSUME Types, NoPhantomVoicePeer, NEW s \in Sessions, EndTelling(s) PROVE NoPhantomVoicePeer'
  <1> USE NoneDistinct, EachSessionHasAPlayer
  <1>1. CASE phase[s] # "telling_left"
    <2>1. /\ phase[s] \in {"telling_joined", "telling_chat", "signalling"}
          /\ phase' = [phase EXCEPT ![s] = "reading"] /\ at' = at /\ goal' = goal /\ rooms' = rooms
      BY <1>1 DEF EndTelling, GoTo
    <2>2. QED
      BY <2>1, RoomsAlone DEF Types, TypeOK, InRoomOf
  <1>2. CASE phase[s] = "telling_left"
    <2>1. /\ at' = [at EXCEPT ![s] = Nowhere] /\ goal' = goal
          /\ \/ goal[s] = Nowhere /\ phase' = [phase EXCEPT ![s] = "closed"] /\ rooms' = rooms
             \/ /\ goal[s] \in Systems /\ phase' = [phase EXCEPT ![s] = "entering"]
                /\ rooms' = [rooms EXCEPT ![goal[s]] = rooms[goal[s]] \cup {PlayerOf[s]}]
      BY <1>2 DEF Types, TypeOK, EndTelling, GoTo, JoinVoice
    <2>2. \A l \in Systems : ~InRoomOf(s, l)
      BY <1>2 DEF InRoomOf
    <2>3. \A l \in Systems : goal[s] = l => InRoomOf(s, l)'
      BY <2>1 DEF Types, TypeOK, InRoomOf
    <2>4. ASSUME NEW l \in Systems, NEW p \in rooms'[l]
          PROVE p \in rooms[l] \/ (p = PlayerOf[s] /\ InRoomOf(s, l)')
      <3>1. rooms'[l] = rooms[l] \/ (goal[s] = l /\ rooms'[l] = rooms[l] \cup {PlayerOf[s]})
        BY <2>1 DEF Types, TypeOK
      <3>2. QED
        BY <2>3, <2>4, <3>1
    <2>5. \A r \in Sessions \ {s} : at'[r] = at[r] /\ goal'[r] = goal[r] /\ phase'[r] = phase[r]
      BY <2>1 DEF Types, TypeOK
    <2>6. QED
      BY <2>2, <2>4, <2>5, OneSession
  <1>3. QED
    BY <1>1, <1>2

LEMMA NextRooms == Types /\ NoPhantomVoicePeer /\ [Next]_vars => NoPhantomVoicePeer'
  <1>1. NoPhantomVoicePeer /\ UNCHANGED vars => NoPhantomVoicePeer'
    BY DEF vars, shared, NoPhantomVoicePeer
  <1>2. QED
    BY <1>1, TaskRooms, DiscoverRooms, CloseRooms, SignalRooms, EndTellingRooms DEF Next

-------------------------------------------------------------------------------
\* The members of a system.

\* a came to the system k before b, and both are there.
Before(a, b, k) == \E i, j \in 1..Len(members[k]) : i < j /\ members[k][i] = a /\ members[k][j] = b

Once(s, k) == \A i, j \in 1..Len(members[k]) : members[k][i] = s /\ members[k][j] = s => i = j

\* Where the task says that it is registered.
Registered(s, k) == Here(s) = k /\ phase[s] \notin {"left", "telling_left", "closed"}

LEMMA MembersAreRegistered ==
    MembersAreCurrent <=>
        \A s \in Sessions, k \in Scopes :
            /\ Stays(s, k) => InSystem(s, k)
            /\ Steady(s) => (InSystem(s, k) <=> Registered(s, k)) /\ Once(s, k)
  BY DEF MembersAreCurrent, Registered, Once

\* What PresenceManager::leave does to the members.
LEMMA LeaveMembers ==
    ASSUME Types, NEW s \in Sessions, Leave(s), NEW k \in Scopes
    PROVE /\ \A r \in Sessions : InSystem(r, k)' <=> InSystem(r, k) /\ ~(r = s /\ k = Here(s))
          /\ \A a, b \in Sessions : Before(a, b, k)' => Before(a, b, k)
          /\ \A r \in Sessions : Once(r, k) => Once(r, k)'
  <1> DEFINE m == members[k]
             n == members'[k]
  <1>1. m \in Seq(Sessions) /\ Here(s) \in Scopes
    BY HereIsAScope DEF Types, TypeOK, Whereabouts, Settled, Leave
  <1>2. members' = [members EXCEPT ![Here(s)] = Only(members[Here(s)], Sessions \ {s})]
    BY DEF Leave, Without
  <1>3. CASE k # Here(s)
    <2>1. n = m
      BY <1>2, <1>3 DEF Types, TypeOK
    <2>2. QED
      BY <1>3, <2>1 DEF InSystem, Before, Once
  <1>4. CASE k = Here(s)
    <2>1. n = Only(m, Sessions \ {s}) /\ n \in Seq(Sessions)
      BY <1>1, <1>2, <1>4, OnlyType DEF Types, TypeOK
    <2>2. PICK f : Places(m, Sessions \ {s}, n, f)
      BY <1>1, <2>1, OnlyPlaces
    <2>3. PICK lm \in Nat, ln \in Nat : lm = Len(m) /\ ln = Len(n)
      BY <1>1, <2>1, LenProperties
    <2> HIDE DEF m, n
    <2>4. \A i \in 1..ln : f[i] \in 1..lm /\ n[i] = m[f[i]] /\ n[i] # s
      BY <2>2, <2>3 DEF Places
    <2>5. \A i, j \in 1..ln : i < j => f[i] < f[j]
      BY <2>2, <2>3 DEF Places
    <2>6. \A i \in 1..lm : m[i] \in Sessions /\ m[i] # s => \E j \in 1..ln : f[j] = i
      BY <1>1, <2>2, <2>3, ElementOfSeq DEF Places
    <2>7. ASSUME NEW r \in Sessions
          PROVE (\E i \in 1..ln : n[i] = r) <=> (\E i \in 1..lm : m[i] = r) /\ r # s
      <3>1. ASSUME NEW i \in 1..ln, n[i] = r PROVE (\E j \in 1..lm : m[j] = r) /\ r # s
        BY <2>4, <3>1
      <3>2. ASSUME NEW i \in 1..lm, m[i] = r, r # s PROVE \E j \in 1..ln : n[j] = r
        BY <2>4, <2>6, <3>2
      <3>3. QED
        BY <3>1, <3>2
    <2>8. ASSUME NEW a \in Sessions, NEW b \in Sessions, NEW i \in 1..ln, NEW j \in 1..ln,
                 i < j, n[i] = a, n[j] = b
          PROVE \E x, y \in 1..lm : x < y /\ m[x] = a /\ m[y] = b
      BY <2>4, <2>5, <2>8
    <2>9. ASSUME NEW r \in Sessions, \A i, j \in 1..lm : m[i] = r /\ m[j] = r => i = j,
                 NEW i \in 1..ln, NEW j \in 1..ln, n[i] = r, n[j] = r
          PROVE i = j
      <3>1. f[i] = f[j]
        BY <2>4, <2>9
      <3>2. ~(i < j) /\ ~(j < i)
        BY <2>4, <2>5, <3>1
      <3>3. QED
        BY <3>2
    <2>10. \A r \in Sessions : InSystem(r, k)' <=> InSystem(r, k) /\ ~(r = s /\ k = Here(s))
      BY <1>4, <2>3, <2>7 DEF InSystem, m, n
    <2>11. \A a, b \in Sessions : Before(a, b, k)' => Before(a, b, k)
      BY <2>3, <2>8 DEF Before, m, n
    <2>12. \A r \in Sessions : Once(r, k) => Once(r, k)'
      BY <2>3, <2>9 DEF Once, m, n
    <2>13. QED
      BY <2>10, <2>11, <2>12
  <1>5. QED
    BY <1>3, <1>4

\* What PresenceManager::join does to them.
LEMMA EnterMembers ==
    ASSUME Types, NEW s \in Sessions, Enter(s), NEW k \in Scopes
    PROVE /\ \A r \in Sessions : InSystem(r, k)' <=> InSystem(r, k) \/ (r = s /\ k = <<within[s], goal[s]>>)
          /\ \A a, b \in Sessions : Before(a, b, k)' => Before(a, b, k) \/ (b = s /\ k = <<within[s], goal[s]>>)
          /\ \A r \in Sessions : Once(r, k) /\ (r = s => ~InSystem(s, k)) => Once(r, k)'
  <1> DEFINE h == <<within[s], goal[s]>>
             m == members[k]
             n == members'[k]
  <1>1. m \in Seq(Sessions) /\ h \in Scopes
    BY DEF Types, TypeOK, Whereabouts, Enter, Scopes
  <1>2. members' = [members EXCEPT ![h] = Append(members[h], s)]
    BY DEF Enter
  <1> HIDE DEF h
  <1>3. CASE k # h
    <2>1. n = m
      BY <1>2, <1>3 DEF Types, TypeOK
    <2>2. QED
      BY <1>3, <2>1 DEF InSystem, Before, Once, h
  <1>4. CASE k = h
    <2>1. n = Append(m, s)
      BY <1>1, <1>2, <1>4 DEF Types, TypeOK
    <2>2. PICK l \in Nat : l = Len(m)
      BY <1>1, LenProperties
    <2>3. Len(n) = l + 1 /\ n[l + 1] = s /\ \A i \in 1..l : n[i] = m[i]
      BY <1>1, <2>1, <2>2, AppendProperties
    <2> HIDE DEF m, n
    <2>4. \A i \in 1..(l + 1) : i = l + 1 \/ i \in 1..l
      OBVIOUS
    <2>5. ASSUME NEW r \in Sessions
          PROVE (\E i \in 1..(l + 1) : n[i] = r) <=> (\E i \in 1..l : m[i] = r) \/ r = s
      BY <2>3, <2>4
    <2>6. ASSUME NEW a \in Sessions, NEW b \in Sessions, NEW i \in 1..(l + 1), NEW j \in 1..(l + 1),
                 i < j, n[i] = a, n[j] = b
          PROVE (\E x, y \in 1..l : x < y /\ m[x] = a /\ m[y] = b) \/ b = s
      <3>1. i \in 1..l /\ (j = l + 1 \/ j \in 1..l)
        BY <2>6
      <3>2. QED
        BY <2>3, <2>6, <3>1
    <2>7. ASSUME NEW r \in Sessions, \A i, j \in 1..l : m[i] = r /\ m[j] = r => i = j,
                 r = s => \A i \in 1..l : m[i] # s,
                 NEW i \in 1..(l + 1), NEW j \in 1..(l + 1), n[i] = r, n[j] = r
          PROVE i = j
      BY <2>3, <2>4, <2>7
    <2>8. \A r \in Sessions : InSystem(r, k)' <=> InSystem(r, k) \/ (r = s /\ k = h)
      BY <1>4, <2>2, <2>3, <2>5 DEF InSystem, m, n
    <2>9. \A a, b \in Sessions : Before(a, b, k)' => Before(a, b, k) \/ (b = s /\ k = h)
      BY <1>4, <2>2, <2>3, <2>6 DEF Before, m, n
    <2>10. \A r \in Sessions : Once(r, k) /\ (r = s => ~InSystem(s, k)) => Once(r, k)'
      BY <2>2, <2>3, <2>7 DEF Once, InSystem, m, n
    <2>11. QED
      BY <2>8, <2>9, <2>10 DEF h
  <1>5. QED
    BY <1>3, <1>4

\* A step of s that leaves the members alone leaves them current if s is registered
\* where it was, and stays nowhere new.
LEMMA SameMembers ==
    ASSUME MembersAreCurrent, NEW s \in Sessions, members' = members,
           \A r \in Sessions \ {s} : at'[r] = at[r] /\ within'[r] = within[r] /\ phase'[r] = phase[r],
           \A k \in Scopes : /\ Steady(s) => (Registered(s, k)' <=> Registered(s, k))
                             /\ Stays(s, k)' => Stays(s, k)
    PROVE MembersAreCurrent'
  <1>1. \A r \in Sessions, k \in Scopes :
            /\ Steady(r) => (Registered(r, k)' <=> Registered(r, k))
            /\ Stays(r, k)' => Stays(r, k)
    <2>1. \A r \in Sessions \ {s}, k \in Scopes :
            (Registered(r, k)' <=> Registered(r, k)) /\ (Stays(r, k)' => Stays(r, k))
      BY DEF Registered, Stays, Here
    <2>2. QED
      BY <2>1
  <1>2. \A r \in Sessions, k \in Scopes : (InSystem(r, k)' <=> InSystem(r, k)) /\ (Once(r, k)' <=> Once(r, k))
    BY DEF InSystem, Once
  <1>3. (\A r \in Sessions, k \in Scopes :
            /\ Stays(r, k) => InSystem(r, k)
            /\ Steady(r) => (InSystem(r, k) <=> Registered(r, k)) /\ Once(r, k))'
    BY <1>1, <1>2, MembersAreRegistered DEF Steady
  <1>4. QED
    BY <1>3 DEF MembersAreCurrent, Registered, Once

LEMMA LeaveCurrent ==
    ASSUME Types, MembersAreCurrent, NEW s \in Sessions, Leave(s) PROVE MembersAreCurrent'
  <1>1. /\ phase[s] = "leaving" /\ phase' = [phase EXCEPT ![s] = "left"] /\ at' = at /\ within' = within
    BY DEF Leave, GoTo
  <1>2. \A r \in Sessions, k \in Scopes :
            /\ Registered(r, k)' <=> Registered(r, k) /\ ~(r = s /\ k = Here(s))
            /\ Stays(r, k)' => Stays(r, k) /\ r # s
    BY <1>1 DEF Registered, Stays, Here, Types, TypeOK
  <1>3. ASSUME NEW r \in Sessions, NEW k \in Scopes
        PROVE /\ Stays(r, k)' => InSystem(r, k)'
              /\ Steady(r) => (InSystem(r, k)' <=> Registered(r, k)') /\ Once(r, k)'
    <2>1. InSystem(r, k)' <=> InSystem(r, k) /\ ~(r = s /\ k = Here(s))
      BY LeaveMembers
    <2>2. Once(r, k) => Once(r, k)'
      BY LeaveMembers
    <2>3. QED
      BY <1>2, <2>1, <2>2, MembersAreRegistered
  <1>4. QED
    BY <1>3 DEF MembersAreCurrent, Registered, Once, Steady

LEMMA EnterCurrent ==
    ASSUME Types, MembersAreCurrent, NEW s \in Sessions, Enter(s) PROVE MembersAreCurrent'
  <1>1. /\ phase[s] = "entering" /\ phase' = [phase EXCEPT ![s] = "entered"] /\ within' = within
        /\ at' = [at EXCEPT ![s] = goal[s]] /\ goal[s] \in Systems /\ at[s] = Nowhere
    BY DEF Enter, GoTo, Types, Whereabouts
  <1>2. \A k \in Scopes : /\ ~Registered(s, k) /\ (Registered(s, k)' <=> k = <<within[s], goal[s]>>)
                          /\ Stays(s, k)' => k = <<within[s], goal[s]>>
    <2>1. Here(s) \notin Scopes /\ Here(s)' = <<within[s], goal[s]>> /\ phase'[s] = "entered"
      BY <1>1, NoneDistinct DEF Here, Scopes, Types, TypeOK
    <2>2. QED
      BY <2>1 DEF Registered, Stays
  <1>3. \A r \in Sessions \ {s}, k \in Scopes :
            (Registered(r, k)' <=> Registered(r, k)) /\ (Stays(r, k)' => Stays(r, k))
    BY <1>1 DEF Registered, Stays, Here, Types, TypeOK
  <1>4. ASSUME NEW r \in Sessions, NEW k \in Scopes
        PROVE /\ Stays(r, k)' => InSystem(r, k)'
              /\ Steady(r) => (InSystem(r, k)' <=> Registered(r, k)') /\ Once(r, k)'
    <2>1. InSystem(r, k)' <=> InSystem(r, k) \/ (r = s /\ k = <<within[s], goal[s]>>)
      BY EnterMembers
    <2>2. Once(r, k) /\ (r = s => ~InSystem(s, k)) => Once(r, k)'
      BY EnterMembers
    <2>3. QED
      BY <1>2, <1>3, <2>1, <2>2, MembersAreRegistered
  <1>5. QED
    BY <1>4 DEF MembersAreCurrent, Registered, Once, Steady

\* Steps that neither enter nor leave.
LEMMA TaskCurrent ==
    ASSUME Types, MembersAreCurrent, NEW s \in Sessions,
           \/ Open(s) \/ TellLeft(s) \/ TellJoined(s) \/ Send(s) \/ EndTelling(s) \/ Close(s)
           \/ \E u \in Named[s], k \in Systems : Discover(s, u, k)
           \/ \E k \in Systems : Chat(s, k)
           \/ \E p \in Players : Signal(s, p)
    PROVE MembersAreCurrent'
  <1>1. at[s] = Nowhere => Here(s) \notin Scopes
    BY HereIsAScope, NoneDistinct
  <1>2. /\ members' = members
        /\ \A r \in Sessions \ {s} : at'[r] = at[r] /\ within'[r] = within[r] /\ phase'[r] = phase[r]
    BY DEF Types, TypeOK, Open, TellLeft, TellJoined, Send, EndTelling, Close, Discover, Chat, Signal,
           StartTelling, GoTo, shared
  <1>3. CASE Open(s)
    <2>1. Here(s)' = Here(s) /\ at[s] = Nowhere
      BY <1>3 DEF Types, Whereabouts, Open, Here
    <2>2. QED
      BY <1>1, <1>2, <2>1, SameMembers DEF Registered, Stays
  <1>4. CASE TellLeft(s)
    BY <1>2, <1>4, SameMembers
       DEF Types, TypeOK, TellLeft, StartTelling, GoTo, Registered, Stays, Here
  <1>5. CASE TellJoined(s)
    BY <1>2, <1>5, SameMembers
       DEF Types, TypeOK, TellJoined, StartTelling, GoTo, Registered, Stays, Here
  <1>6. CASE \E k \in Systems : Chat(s, k)
    BY <1>2, <1>6, SameMembers DEF Types, TypeOK, Chat, StartTelling, GoTo, Registered, Stays, Here
  <1>7. CASE Send(s)
    BY <1>2, <1>7, SameMembers DEF Send, Registered, Stays, Here, shared
  <1>8. CASE EndTelling(s)
    <2>1. CASE phase[s] # "telling_left"
      BY <1>2, <1>8, <2>1, SameMembers DEF Types, TypeOK, EndTelling, GoTo, Registered, Stays, Here
    <2>2. CASE phase[s] = "telling_left"
      <3>1. at'[s] = Nowhere /\ phase'[s] \in {"closed", "entering"}
        BY <1>8, <2>2 DEF Types, TypeOK, EndTelling, GoTo
      <3>2. Here(s)' \notin Scopes
        BY <3>1, NoneDistinct DEF Here, Scopes
      <3>3. QED
        BY <1>2, <2>2, <3>2, SameMembers DEF Registered, Stays
    <2>3. QED
      BY <2>1, <2>2
  <1>9. CASE Close(s)
    <2>1. /\ phase[s] = "reading" /\ at'[s] = at[s]
          /\ phase'[s] = "leaving" \/ (phase'[s] = "closed" /\ at[s] = Nowhere)
          /\ Steady(s) => Here(s)' = Here(s)
      BY <1>9 DEF Types, TypeOK, Whereabouts, Close, GoTo, Here
    <2>2. QED
      BY <1>1, <1>2, <2>1, SameMembers DEF Registered, Stays
  <1>10. CASE \E u \in Named[s], k \in Systems : Discover(s, u, k)
    <2>1. /\ phase[s] = "reading" /\ phase'[s] \in {"leaving", "entering"}
          /\ Steady(s) => Here(s)' = Here(s)
      BY <1>10 DEF Types, TypeOK, Whereabouts, Discover, GoTo, Here, Steady
    <2>2. QED
      BY <1>2, <2>1, SameMembers DEF Registered, Stays
  <1>11. CASE \E p \in Players : Signal(s, p)
    BY <1>2, <1>11, SameMembers DEF Types, TypeOK, Signal, GoTo, Registered, Stays, Here
  <1>12. QED
    BY <1>3, <1>4, <1>5, <1>6, <1>7, <1>8, <1>9, <1>10, <1>11

LEMMA NextCurrent == Types /\ MembersAreCurrent /\ [Next]_vars => MembersAreCurrent'
  <1>1. MembersAreCurrent /\ UNCHANGED vars => MembersAreCurrent'
    BY DEF vars, shared, MembersAreCurrent, InSystem, Stays, Here, Steady
  <1>2. QED
    BY <1>1, TaskCurrent, LeaveCurrent, EnterCurrent DEF Next

-------------------------------------------------------------------------------
\* What the sessions know of each other.

Receives(s, r) == \E i \in 1..Len(todo[s]) : todo[s][i] = r

\* A broadcast holds the lock: its receivers cannot leave before they are served.
ReceiversAreThere ==
    \A t \in Sessions : phase[t] \in {"telling_left", "telling_joined"} =>
        \A r \in Sessions : Receives(t, r) => InSystem(r, Here(t))

\* Who takes leave of a system is no longer registered there.
LeaversAreGone ==
    \A t \in Sessions : phase[t] \in {"left", "telling_left"} => ~InSystem(t, Here(t))

\* NoGhostPeer, of whoever is registered.
NoStranger ==
    \A s \in Sessions : \A p \in view[s] :
        \E k \in Scopes, t \in Sessions :
            InSystem(s, k) /\ PlayerOf[t] = p /\ (InSystem(t, k) \/ Leaving(t, k, s))

\* The arrival of t in the system k is still to be announced to r.
Announced(t, k, r) ==
    Here(t) = k /\ (phase[t] = "entered" \/ (phase[t] = "telling_joined" /\ Receives(t, r)))

\* Whoever came before t knows of its player, or is still to be told.
ArrivalsKnown ==
    \A k \in Scopes : \A s, t \in Sessions :
        Before(s, t, k) /\ Steady(s) /\ Alone(t) => PlayerOf[t] \in view[s] \/ Announced(t, k, s)

Views == ReceiversAreThere /\ LeaversAreGone /\ NoStranger /\ ArrivalsKnown

LEMMA Ghosts == MembersAreCurrent => (NoGhostPeer <=> NoStranger)
  <1> SUFFICES ASSUME MembersAreCurrent PROVE NoGhostPeer <=> NoStranger
    OBVIOUS
  <1>1. \A t \in Sessions, k \in Scopes : Present(t, k) <=> InSystem(t, k)
    BY DEF MembersAreCurrent, Present
  <1>2. QED
    BY <1>1 DEF NoGhostPeer, NoStranger

LEMMA BeforeAreMembers ==
    ASSUME NEW a \in Sessions, NEW b \in Sessions, NEW k \in Scopes, Before(a, b, k)
    PROVE InSystem(a, k) /\ InSystem(b, k)
  BY DEF Before, InSystem

\* A session that keeps to its universe is in one system, and once.
LEMMA OnePlace ==
    ASSUME Types, MembersAreCurrent, NEW a \in Sessions, Steady(a), NEW k \in Scopes, InSystem(a, k)
    PROVE k = Here(a)
  BY DEF MembersAreCurrent

LEMMA SomebodyElse ==
    ASSUME Types, MembersAreCurrent, NEW a \in Sessions, Steady(a), NEW b \in Sessions, NEW k \in Scopes,
           Before(a, b, k)
    PROVE a # b
  <1>1. Once(a, k)
    BY MembersAreRegistered
  <1>2. members[k] \in Seq(Sessions)
    BY DEF Types, TypeOK
  <1>3. PICK l \in Nat : l = Len(members[k])
    BY <1>2, LenProperties
  <1>4. PICK i \in 1..l, j \in 1..l : i < j /\ members[k][i] = a /\ members[k][j] = b
    BY <1>3 DEF Before
  <1>5. a = b => i = j
    BY <1>1, <1>3, <1>4 DEF Once
  <1>6. QED
    BY <1>4, <1>5

\* A step that opens no session's past leaves the players alone who were not.
LEMMA AloneBefore ==
    ASSUME NEW t \in Sessions, Alone(t)',
           \A r \in Sessions : phase'[r] = "unopened" => phase[r] = "unopened"
    PROVE Alone(t)
  BY DEF Alone

\* Steps of s that change no member, no view and no broadcast.
LEMMA QuietViews ==
    ASSUME Types, Views, NEW s \in Sessions, members' = members, view' = view,
           \A r \in Sessions \ {s} : /\ at'[r] = at[r] /\ within'[r] = within[r]
                                     /\ phase'[r] = phase[r] /\ todo'[r] = todo[r],
           phase[s] \notin {"left", "entered"},
           phase[s] \in {"telling_left", "telling_joined"} => todo[s] = <<>>,
           phase'[s] \in {"reading", "signalling", "closed", "entering", "leaving"}
    PROVE Views'
  <1>1. \A r \in Sessions, k \in Scopes : InSystem(r, k)' <=> InSystem(r, k)
    BY DEF InSystem
  <1>2. \A a, b \in Sessions, k \in Scopes : Before(a, b, k)' <=> Before(a, b, k)
    BY DEF Before
  <1>3. /\ \A r \in Sessions \ {s}, q \in Sessions : Receives(r, q)' <=> Receives(r, q)
        /\ \A r \in Sessions \ {s} : Here(r)' = Here(r)
    BY DEF Receives, Here
  <1>4. todo[s] = <<>> => \A q \in Sessions : ~Receives(s, q)
    BY EmptySeq DEF Receives
  <1>5. ReceiversAreThere' /\ LeaversAreGone'
    BY <1>3 DEF Views, ReceiversAreThere, LeaversAreGone, InSystem
  <1>6. NoStranger'
    <2> SUFFICES ASSUME NEW q \in Sessions, NEW p \in view[q]
                 PROVE \E k \in Scopes, t \in Sessions :
                        InSystem(q, k) /\ PlayerOf[t] = p /\ (InSystem(t, k) \/ Leaving(t, k, q)')
      BY <1>1 DEF NoStranger
    <2>1. PICK k \in Scopes, t \in Sessions :
                InSystem(q, k) /\ PlayerOf[t] = p /\ (InSystem(t, k) \/ Leaving(t, k, q))
      BY DEF Views, NoStranger
    <2>2. ASSUME Leaving(t, k, q) PROVE Leaving(t, k, q)'
      <3>1. t # s
        BY <1>4, <2>2 DEF Leaving, Receives
      <3>2. QED
        BY <1>3, <2>2, <3>1 DEF Leaving
    <2>3. QED
      BY <2>1, <2>2
  <1>7. ArrivalsKnown'
    <2> SUFFICES ASSUME NEW k \in Scopes, NEW a \in Sessions, NEW t \in Sessions,
                        Before(a, t, k), Steady(a), Alone(t)'
                 PROVE PlayerOf[t] \in view[a] \/ Announced(t, k, a)'
      BY <1>2 DEF ArrivalsKnown, Steady
    <2>1. PlayerOf[t] \in view[a] \/ Announced(t, k, a)
      BY AloneBefore DEF Views, ArrivalsKnown
    <2>2. ASSUME Announced(t, k, a) PROVE Announced(t, k, a)'
      <3>1. t # s
        BY <1>4, <2>2 DEF Announced
      <3>2. QED
        BY <1>3, <2>2, <3>1 DEF Announced
    <2>3. QED
      BY <2>1, <2>2
  <1>8. QED
    BY <1>5, <1>6, <1>7 DEF Views

\* A broadcast starts with every member of the system as its receiver.
LEMMA StartTellingViews ==
    ASSUME Types, Views, NEW s \in Sessions, NEW p, NEW h \in Scopes, StartTelling(s, p, h),
           \/ phase[s] = "left" /\ p = "telling_left" /\ h = Here(s)
           \/ phase[s] = "entered" /\ p = "telling_joined" /\ h = Here(s)
           \/ phase[s] = "reading" /\ p = "telling_chat"
    PROVE Views'
  <1>1. /\ phase' = [phase EXCEPT ![s] = p] /\ todo' = [todo EXCEPT ![s] = members[h]]
        /\ at' = at /\ within' = within /\ members' = members /\ view' = view
    BY DEF StartTelling, GoTo, shared
  <1>2. /\ phase'[s] = p /\ todo'[s] = members[h]
        /\ \A r \in Sessions \ {s} : phase'[r] = phase[r] /\ todo'[r] = todo[r]
        /\ \A r \in Sessions : Here(r)' = Here(r)
    BY <1>1 DEF Types, TypeOK, Here
  <1>3. \A r \in Sessions, k \in Scopes : InSystem(r, k)' <=> InSystem(r, k)
    BY <1>1 DEF InSystem
  <1>4. \A a, b \in Sessions, k \in Scopes : Before(a, b, k)' <=> Before(a, b, k)
    BY <1>1 DEF Before
  <1>5. /\ \A r \in Sessions \ {s}, q \in Sessions : Receives(r, q)' <=> Receives(r, q)
        /\ \A q \in Sessions : Receives(s, q)' <=> InSystem(q, h)
    BY <1>2 DEF Receives, InSystem
  <1>6. ReceiversAreThere'
    <2>1. ASSUME NEW t \in Sessions, phase'[t] \in {"telling_left", "telling_joined"},
                 NEW q \in Sessions, Receives(t, q)'
          PROVE InSystem(q, Here(t))
      <3>1. CASE t = s
        BY <1>2, <1>5, <2>1, <3>1
      <3>2. CASE t # s
        BY <1>2, <1>5, <2>1, <3>2 DEF Views, ReceiversAreThere
      <3>3. QED
        BY <3>1, <3>2
    <2>2. QED
      BY <1>1, <1>2, <2>1 DEF ReceiversAreThere, InSystem
  <1>7. LeaversAreGone'
    <2>1. ASSUME NEW t \in Sessions, phase'[t] \in {"left", "telling_left"} PROVE ~InSystem(t, Here(t))
      BY <1>2, <2>1 DEF Views, LeaversAreGone
    <2>2. QED
      BY <1>1, <1>2, <2>1 DEF LeaversAreGone, InSystem
  <1>8. NoStranger'
    <2> SUFFICES ASSUME NEW q \in Sessions, NEW x \in view[q]
                 PROVE \E k \in Scopes, t \in Sessions :
                        InSystem(q, k) /\ PlayerOf[t] = x /\ (InSystem(t, k) \/ Leaving(t, k, q)')
      BY <1>1, <1>3 DEF NoStranger
    <2>1. PICK k \in Scopes, t \in Sessions :
                InSystem(q, k) /\ PlayerOf[t] = x /\ (InSystem(t, k) \/ Leaving(t, k, q))
      BY DEF Views, NoStranger
    <2>2. ASSUME Leaving(t, k, q) PROVE Leaving(t, k, q)'
      <3>1. CASE t # s
        BY <1>2, <2>2, <3>1 DEF Leaving
      <3>2. CASE t = s
        <4>1. phase[s] = "left" /\ h = k /\ p = "telling_left"
          BY <2>2, <3>2 DEF Leaving
        <4>2. Receives(s, q)'
          BY <1>5, <2>1, <4>1
        <4>3. QED
          BY <1>2, <2>2, <3>2, <4>1, <4>2 DEF Leaving, Receives
      <3>3. QED
        BY <3>1, <3>2
    <2>3. QED
      BY <2>1, <2>2
  <1>9. ArrivalsKnown'
    <2> SUFFICES ASSUME NEW k \in Scopes, NEW a \in Sessions, NEW t \in Sessions,
                        Before(a, t, k), Steady(a), Alone(t)'
                 PROVE PlayerOf[t] \in view[a] \/ Announced(t, k, a)'
      BY <1>1, <1>4 DEF ArrivalsKnown, Steady
    <2>1. Alone(t)
      BY <1>2, AloneBefore
    <2>2. PlayerOf[t] \in view[a] \/ Announced(t, k, a)
      BY <2>1 DEF Views, ArrivalsKnown
    <2>3. ASSUME Announced(t, k, a) PROVE Announced(t, k, a)'
      <3>1. CASE t # s
        BY <1>2, <1>5, <2>3, <3>1 DEF Announced
      <3>2. CASE t = s
        <4>1. p = "telling_joined" /\ h = k
          BY <2>3, <3>2 DEF Announced
        <4>2. Receives(s, a)'
          BY <1>5, <4>1, BeforeAreMembers
        <4>3. QED
          BY <1>2, <2>3, <3>2, <4>1, <4>2 DEF Announced
      <3>3. QED
        BY <3>1, <3>2
    <2>4. QED
      BY <2>2, <2>3
  <1>10. QED
    BY <1>6, <1>7, <1>8, <1>9 DEF Views

\* The next receiver of s is served, and nobody else.
LEMMA Served ==
    ASSUME Types, NEW s \in Sessions, Send(s)
    PROVE /\ Head(todo[s]) \in Sessions /\ Receives(s, Head(todo[s]))
          /\ \A q \in Sessions : Receives(s, q) => q = Head(todo[s]) \/ Receives(s, q)'
          /\ \A q \in Sessions : Receives(s, q)' => Receives(s, q)
          /\ \A r \in Sessions \ {s}, q \in Sessions : Receives(r, q)' <=> Receives(r, q)
          /\ \A q \in Sessions \ {Head(todo[s])} : view'[q] = view[q]
          /\ view'[Head(todo[s])] = ViewAfter(s, Head(todo[s]))
  <1>1. /\ todo[s] # <<>> /\ todo' = [todo EXCEPT ![s] = Tail(todo[s])]
        /\ view' = [view EXCEPT ![Head(todo[s])] = ViewAfter(s, Head(todo[s]))]
    BY DEF Send
  <1>2. todo[s] \in Seq(Sessions) /\ Head(todo[s]) \in Sessions
    BY <1>1, Receiver DEF Types, TypeOK
  <1>3. todo'[s] = Tail(todo[s]) /\ \A r \in Sessions \ {s} : todo'[r] = todo[r]
    BY <1>1 DEF Types, TypeOK
  <1>4. PICK l \in Nat \ {0} : l = Len(todo[s])
    BY <1>1, <1>2, EmptySeq
  <1>5. /\ Len(Tail(todo[s])) = l - 1 /\ \A i \in 1..(l - 1) : Tail(todo[s])[i] = todo[s][i + 1]
        /\ Head(todo[s]) = todo[s][1]
    BY <1>1, <1>2, <1>4, HeadTailProperties
  <1>6. Receives(s, Head(todo[s]))
    BY <1>4, <1>5 DEF Receives
  <1>7. ASSUME NEW q \in Sessions, Receives(s, q) PROVE q = Head(todo[s]) \/ Receives(s, q)'
    <2>1. PICK i \in 1..l : todo[s][i] = q
      BY <1>4, <1>7 DEF Receives
    <2>2. CASE i = 1
      BY <1>5, <2>1, <2>2
    <2>3. CASE i # 1
      <3>1. i - 1 \in 1..(l - 1) /\ (i - 1) + 1 = i
        BY <2>3
      <3>2. Tail(todo[s])[i - 1] = q
        BY <1>5, <2>1, <3>1
      <3>3. QED
        BY <1>3, <1>5, <3>1, <3>2 DEF Receives
    <2>4. QED
      BY <2>2, <2>3
  <1>8. ASSUME NEW q \in Sessions, Receives(s, q)' PROVE Receives(s, q)
    <2>1. PICK i \in 1..(l - 1) : Tail(todo[s])[i] = q
      BY <1>3, <1>5, <1>8 DEF Receives
    <2>2. i + 1 \in 1..l /\ todo[s][i + 1] = q
      BY <1>5, <2>1
    <2>3. QED
      BY <1>4, <2>2 DEF Receives
  <1>9. \A r \in Sessions \ {s}, q \in Sessions : Receives(r, q)' <=> Receives(r, q)
    BY <1>3 DEF Receives
  <1>10. QED
    BY <1>1, <1>2, <1>6, <1>7, <1>8, <1>9 DEF Types, TypeOK

LEMMA SendViews ==
    ASSUME Types, MembersAreCurrent, Views, NEW s \in Sessions, Send(s)
    PROVE Views'
  <1>1. PICK r \in Sessions : r = Head(todo[s])
    BY Served
  <1>2. /\ Receives(s, r) /\ view'[r] = ViewAfter(s, r)
        /\ \A q \in Sessions : Receives(s, q) => q = r \/ Receives(s, q)'
        /\ \A t, q \in Sessions : Receives(t, q)' => Receives(t, q)
        /\ \A t \in Sessions \ {s}, q \in Sessions : Receives(t, q) => Receives(t, q)'
        /\ \A q \in Sessions \ {r} : view'[q] = view[q]
    BY <1>1, Served
  <1>3. phase' = phase /\ members' = members /\ \A t \in Sessions : Here(t)' = Here(t)
    BY DEF Send, shared, Here
  <1>4. /\ \A q \in Sessions, k \in Scopes : InSystem(q, k)' <=> InSystem(q, k)
        /\ \A a, b \in Sessions, k \in Scopes : Before(a, b, k)' <=> Before(a, b, k)
    BY <1>3 DEF InSystem, Before
  <1>5. ASSUME NEW q \in Sessions, NEW x \in view'[q]
        PROVE \/ x \in view[q] /\ ~(q = r /\ phase[s] = "telling_left" /\ x = PlayerOf[s])
              \/ q = r /\ phase[s] = "telling_joined" /\ x = PlayerOf[s]
    BY <1>2, <1>5 DEF ViewAfter
  <1>6. ASSUME NEW q \in Sessions, NEW x \in view[q],
               ~(q = r /\ phase[s] = "telling_left" /\ x = PlayerOf[s])
        PROVE x \in view'[q]
    BY <1>2, <1>6 DEF ViewAfter
  <1>7. ReceiversAreThere' /\ LeaversAreGone'
    BY <1>2, <1>3 DEF Views, ReceiversAreThere, LeaversAreGone, InSystem
  <1>8. NoStranger'
    <2> SUFFICES ASSUME NEW q \in Sessions, NEW x \in view'[q]
                 PROVE \E k \in Scopes, t \in Sessions :
                        InSystem(q, k) /\ PlayerOf[t] = x /\ (InSystem(t, k) \/ Leaving(t, k, q)')
      BY <1>4 DEF NoStranger
    <2>1. CASE q = r /\ phase[s] = "telling_joined" /\ x = PlayerOf[s]
      <3>1. Here(s) \in Scopes
        BY <2>1, HereIsAScope DEF Types, Whereabouts, Settled
      <3>2. InSystem(s, Here(s)) /\ InSystem(r, Here(s))
        BY <1>2, <2>1, <3>1 DEF MembersAreCurrent, Stays, Views, ReceiversAreThere
      <3>3. QED
        BY <2>1, <3>1, <3>2
    <2>2. CASE x \in view[q] /\ ~(q = r /\ phase[s] = "telling_left" /\ x = PlayerOf[s])
      <3>1. PICK k \in Scopes, t \in Sessions :
                InSystem(q, k) /\ PlayerOf[t] = x /\ (InSystem(t, k) \/ Leaving(t, k, q))
        BY <2>2 DEF Views, NoStranger
      <3>2. ASSUME Leaving(t, k, q) PROVE Leaving(t, k, q)'
        <4>1. phase[t] = "left" \/ (phase[t] = "telling_left" /\ Receives(t, q))
          BY <3>2 DEF Leaving, Receives
        <4>2. phase[t] = "telling_left" /\ Receives(t, q) => Receives(t, q)'
          BY <1>2, <2>2, <3>1
        <4>3. QED
          BY <1>3, <3>2, <4>1, <4>2 DEF Leaving, Receives
      <3>3. QED
        BY <3>1, <3>2
    <2>3. QED
      BY <1>5, <2>1, <2>2
  <1>9. ArrivalsKnown'
    <2> SUFFICES ASSUME NEW k \in Scopes, NEW a \in Sessions, NEW t \in Sessions,
                        Before(a, t, k), Steady(a), Alone(t)
                 PROVE PlayerOf[t] \in view'[a] \/ Announced(t, k, a)'
      BY <1>3, <1>4 DEF ArrivalsKnown, Alone, Steady
    <2>1. CASE PlayerOf[t] \in view[a]
      <3>1. SUFFICES ASSUME a = r, phase[s] = "telling_left", PlayerOf[t] = PlayerOf[s] PROVE FALSE
        BY <1>6, <2>1
      <3>2. t = s
        BY <3>1 DEF Alone
      <3>3. Here(s) \in Scopes
        BY <3>1, HereIsAScope DEF Types, Whereabouts, Settled
      <3>4. InSystem(a, Here(s)) /\ InSystem(a, k) /\ InSystem(s, k)
        BY <1>2, <3>1, <3>2, BeforeAreMembers DEF Views, ReceiversAreThere
      <3>5. k = Here(s)
        BY <3>3, <3>4, OnePlace
      <3>6. QED
        BY <3>1, <3>4, <3>5 DEF Views, LeaversAreGone
    <2>2. CASE Announced(t, k, a)
      <3>1. CASE phase[t] = "telling_joined" /\ t = s /\ a = r
        <4>1. a # s
          BY <3>1, SomebodyElse
        <4>2. QED
          BY <1>2, <3>1, <4>1 DEF ViewAfter
      <3>2. CASE ~(phase[t] = "telling_joined" /\ t = s /\ a = r)
        BY <1>2, <1>3, <2>2, <3>2 DEF Announced
      <3>3. QED
        BY <3>1, <3>2
    <2>3. QED
      BY <2>1, <2>2 DEF Views, ArrivalsKnown
  <1>10. QED
    BY <1>7, <1>8, <1>9 DEF Views

\* PresenceManager::leave waits for the broadcasts.
LEMMA LeaveViews ==
    ASSUME Types, MembersAreCurrent, Views, NEW s \in Sessions, Leave(s)
    PROVE Views'
  <1>1. /\ phase[s] = "leaving" /\ ~PresenceLocked /\ phase' = [phase EXCEPT ![s] = "left"]
        /\ view' = [view EXCEPT ![s] = {}] /\ todo' = todo
        /\ \A r \in Sessions : Here(r)' = Here(r)
    BY DEF Leave, GoTo, Here
  <1>2. /\ phase'[s] = "left" /\ view'[s] = {}
        /\ \A r \in Sessions \ {s} : phase'[r] = phase[r] /\ view'[r] = view[r]
    BY <1>1 DEF Types, TypeOK
  <1>3. \A t \in Sessions : /\ phase[t] \notin {"telling_left", "telling_joined"}
                            /\ phase'[t] \notin {"telling_left", "telling_joined"}
    BY <1>1, <1>2 DEF PresenceLocked
  <1>4. \A k \in Scopes, r \in Sessions : InSystem(r, k)' <=> InSystem(r, k) /\ ~(r = s /\ k = Here(s))
    BY LeaveMembers
  <1>5. \A t \in Sessions : phase[t] \in {"left", "leaving"} => Here(t) \in Scopes
    BY HereIsAScope DEF Types, Whereabouts, Settled
  <1>6. ReceiversAreThere'
    BY <1>3 DEF ReceiversAreThere
  <1>7. LeaversAreGone'
    <2>1. ASSUME NEW t \in Sessions, phase'[t] = "left"
          PROVE ~InSystem(t, Here(t))'
      <3>1. Here(t) \in Scopes /\ (t = s \/ ~InSystem(t, Here(t)))
        BY <1>1, <1>2, <1>5, <2>1 DEF Views, LeaversAreGone
      <3>2. ASSUME NEW k \in Scopes, k = Here(t) PROVE ~InSystem(t, k)'
        BY <1>4, <3>1, <3>2
      <3>3. QED
        BY <1>1, <3>1, <3>2 DEF InSystem
    <2>2. QED
      BY <1>3, <2>1 DEF LeaversAreGone
  <1>8. NoStranger'
    <2> SUFFICES ASSUME NEW q \in Sessions \ {s}, NEW x \in view[q]
                 PROVE \E k \in Scopes, t \in Sessions :
                        InSystem(q, k)' /\ PlayerOf[t] = x /\ (InSystem(t, k)' \/ Leaving(t, k, q)')
      BY <1>2 DEF NoStranger
    <2>1. PICK k \in Scopes, t \in Sessions :
                InSystem(q, k) /\ PlayerOf[t] = x /\ (InSystem(t, k) \/ Leaving(t, k, q))
      BY DEF Views, NoStranger
    <2>2. InSystem(q, k)'
      BY <1>4, <2>1
    <2>3. CASE Leaving(t, k, q)
      <3>1. Here(t) = k /\ phase[t] = "left"
        BY <1>3, <2>3 DEF Leaving
      <3>2. phase'[t] = "left"
        BY <1>2, <3>1
      <3>3. QED
        BY <1>1, <2>1, <2>2, <3>1, <3>2 DEF Leaving
    <2>4. CASE InSystem(t, k)
      <3>1. CASE t = s /\ k = Here(s)
        BY <1>1, <1>2, <2>1, <2>2, <3>1 DEF Leaving
      <3>2. CASE ~(t = s /\ k = Here(s))
        BY <1>4, <2>1, <2>2, <2>4, <3>2
      <3>3. QED
        BY <3>1, <3>2
    <2>5. QED
      BY <2>1, <2>3, <2>4
  <1>9. ArrivalsKnown'
    <2> SUFFICES ASSUME NEW k \in Scopes, NEW a \in Sessions, NEW t \in Sessions,
                        Before(a, t, k)', Steady(a), Alone(t)'
                 PROVE PlayerOf[t] \in view'[a] \/ Announced(t, k, a)'
      BY DEF ArrivalsKnown, Steady
    <2>1. Before(a, t, k)
      BY LeaveMembers
    <2>2. Alone(t)
      BY <1>2, AloneBefore
    <2>3. a # s
      <3>1. InSystem(a, k)'
        BY DEF Before, InSystem
      <3>2. InSystem(a, k) /\ ~(a = s /\ k = Here(s))
        BY <1>4, <3>1
      <3>3. QED
        BY <3>2, OnePlace
    <2>4. Announced(t, k, a) => Announced(t, k, a)'
      BY <1>1, <1>2, <1>3 DEF Announced
    <2>5. QED
      BY <1>2, <2>1, <2>2, <2>3, <2>4 DEF Views, ArrivalsKnown
  <1>10. QED
    BY <1>6, <1>7, <1>8, <1>9 DEF Views

\* And so does PresenceManager::join.
LEMMA EnterViews ==
    ASSUME Types, MembersAreCurrent, Views, NEW s \in Sessions, Enter(s)
    PROVE Views'
  <1>1. /\ phase[s] = "entering" /\ ~PresenceLocked /\ phase' = [phase EXCEPT ![s] = "entered"]
        /\ at' = [at EXCEPT ![s] = goal[s]] /\ within' = within /\ view' = view /\ todo' = todo
    BY DEF Enter, GoTo
  <1>2. /\ phase'[s] = "entered" /\ Here(s)' = <<within[s], goal[s]>>
        /\ \A r \in Sessions \ {s} : phase'[r] = phase[r] /\ Here(r)' = Here(r)
    BY <1>1 DEF Types, TypeOK, Here
  <1>3. \A t \in Sessions : /\ phase[t] \notin {"telling_left", "telling_joined"}
                            /\ phase'[t] \notin {"telling_left", "telling_joined"}
    BY <1>1, <1>2 DEF PresenceLocked
  <1>4. \A k \in Scopes, r \in Sessions :
            InSystem(r, k)' <=> InSystem(r, k) \/ (r = s /\ k = <<within[s], goal[s]>>)
    BY EnterMembers
  <1>5. \A t \in Sessions : phase[t] = "left" => Here(t) \in Scopes
    BY HereIsAScope DEF Types, Whereabouts, Settled
  <1>6. ReceiversAreThere'
    BY <1>3 DEF ReceiversAreThere
  <1>7. LeaversAreGone'
    <2>1. ASSUME NEW t \in Sessions, phase'[t] = "left"
          PROVE ~InSystem(t, Here(t))'
      <3>1. t # s /\ phase[t] = "left" /\ Here(t)' = Here(t) /\ Here(t) \in Scopes
        BY <1>2, <1>5, <2>1
      <3>2. ASSUME NEW k \in Scopes, k = Here(t) PROVE ~InSystem(t, k)'
        BY <1>4, <3>1, <3>2 DEF Views, LeaversAreGone
      <3>3. QED
        BY <3>1, <3>2 DEF InSystem
    <2>2. QED
      BY <1>3, <2>1 DEF LeaversAreGone
  <1>8. NoStranger'
    <2> SUFFICES ASSUME NEW q \in Sessions, NEW x \in view[q]
                 PROVE \E k \in Scopes, t \in Sessions :
                        InSystem(q, k)' /\ PlayerOf[t] = x /\ (InSystem(t, k)' \/ Leaving(t, k, q)')
      BY <1>1 DEF NoStranger
    <2>1. PICK k \in Scopes, t \in Sessions :
                InSystem(q, k) /\ PlayerOf[t] = x /\ (InSystem(t, k) \/ Leaving(t, k, q))
      BY DEF Views, NoStranger
    <2>2. ASSUME Leaving(t, k, q) PROVE Leaving(t, k, q)'
      BY <1>1, <1>2, <1>3, <2>2 DEF Leaving
    <2>3. QED
      BY <1>4, <2>1, <2>2
  <1>9. ArrivalsKnown'
    <2> SUFFICES ASSUME NEW k \in Scopes, NEW a \in Sessions, NEW t \in Sessions,
                        Before(a, t, k)', Steady(a), Alone(t)'
                 PROVE PlayerOf[t] \in view[a] \/ Announced(t, k, a)'
      BY <1>1 DEF ArrivalsKnown, Steady
    <2>1. CASE t = s /\ k = <<within[s], goal[s]>>
      BY <1>2, <2>1 DEF Announced
    <2>2. CASE ~(t = s /\ k = <<within[s], goal[s]>>)
      <3>1. Before(a, t, k)
        BY <2>2, EnterMembers
      <3>2. Alone(t)
        BY <1>2, AloneBefore
      <3>3. Announced(t, k, a) => Announced(t, k, a)'
        BY <1>1, <1>2, <1>3 DEF Announced
      <3>4. QED
        BY <3>1, <3>2, <3>3 DEF Views, ArrivalsKnown
    <2>3. QED
      BY <2>1, <2>2
  <1>10. QED
    BY <1>6, <1>7, <1>8, <1>9 DEF Views

LEMMA QuietTaskViews ==
    ASSUME Types, Views, NEW s \in Sessions,
           \/ Open(s) \/ EndTelling(s) \/ Close(s)
           \/ \E u \in Named[s], k \in Systems : Discover(s, u, k)
           \/ \E p \in Players : Signal(s, p)
    PROVE Views'
  <1>1. /\ members' = members /\ view' = view
        /\ \A r \in Sessions \ {s} : /\ at'[r] = at[r] /\ within'[r] = within[r]
                                     /\ phase'[r] = phase[r] /\ todo'[r] = todo[r]
    BY DEF Types, TypeOK, Open, EndTelling, Close, Discover, Signal, GoTo
  <1>2. /\ phase[s] \notin {"left", "entered"}
        /\ phase[s] \in {"telling_left", "telling_joined"} => todo[s] = <<>>
        /\ phase'[s] \in {"reading", "signalling", "closed", "entering", "leaving"}
    BY DEF Types, TypeOK, Open, EndTelling, Close, Discover, Signal, GoTo
  <1>3. QED
    BY <1>1, <1>2, QuietViews

LEMMA NextViews == Types /\ MembersAreCurrent /\ Views /\ [Next]_vars => Views'
  <1> SUFFICES ASSUME Types, MembersAreCurrent, Views, [Next]_vars PROVE Views'
    OBVIOUS
  <1>1. CASE UNCHANGED vars
    <2>1. /\ members' = members /\ view' = view /\ todo' = todo /\ at' = at /\ within' = within
          /\ phase' = phase
      BY <1>1 DEF vars, shared
    <2>2. ReceiversAreThere' /\ LeaversAreGone'
      BY <2>1 DEF Views, ReceiversAreThere, LeaversAreGone, InSystem, Receives, Here
    <2>3. NoStranger'
      BY <2>1 DEF Views, NoStranger, InSystem, Leaving, Here
    <2>4. ArrivalsKnown'
      BY <2>1 DEF Views, ArrivalsKnown, Before, Alone, Announced, Receives, Here, Steady
    <2>5. QED
      BY <2>2, <2>3, <2>4 DEF Views
  <1>2. ASSUME NEW s \in Sessions, TellLeft(s) \/ TellJoined(s) PROVE Views'
    <2>1. Here(s) \in Scopes
      BY <1>2, HereIsAScope DEF Types, TypeOK, Whereabouts, Settled, TellLeft, TellJoined
    <2>2. QED
      BY <1>2, <2>1, StartTellingViews DEF TellLeft, TellJoined
  <1>3. ASSUME NEW s \in Sessions, NEW k \in Systems, Chat(s, k) PROVE Views'
    BY <1>3, ChatScope, StartTellingViews DEF Chat
  <1>4. QED
    BY <1>1, <1>2, <1>3, QuietTaskViews, LeaveViews, EnterViews, SendViews DEF Next

-------------------------------------------------------------------------------
IInv == Types /\ NoPhantomVoicePeer /\ MembersAreCurrent /\ Views

LEMMA InitInv == Init => IInv
  <1> SUFFICES ASSUME Init PROVE IInv
    OBVIOUS
  <1>1. NoPhantomVoicePeer
    BY DEF Init, NoPhantomVoicePeer
  <1>2. \A k \in Scopes : Len(members[k]) = 0
    BY EmptySeq DEF Init
  <1>3. \A s \in Sessions, k \in Scopes : ~InSystem(s, k) /\ ~Before(s, s, k)
    BY <1>2 DEF InSystem, Before
  <1>4. MembersAreCurrent
    <2>1. \A s \in Sessions : Here(s) \notin Scopes
      BY InitTypes, HereIsAScope, NoneDistinct DEF Init
    <2>2. QED
      BY <1>2, <1>3, <2>1 DEF Init, MembersAreCurrent, Stays
  <1>5. \A a, b \in Sessions, k \in Scopes : ~Before(a, b, k)
    BY <1>2 DEF Before
  <1>6. Views
    BY <1>5 DEF Init, Views, ReceiversAreThere, LeaversAreGone, NoStranger, ArrivalsKnown
  <1>7. QED
    BY <1>1, <1>4, <1>6, InitTypes DEF IInv

LEMMA Invariance == Spec => []IInv
  <1>1. IInv /\ [Next]_vars => IInv'
    BY NextTypes, NextRooms, NextCurrent, NextViews DEF IInv
  <1>2. QED
    BY <1>1, InitInv, PTL DEF Spec

\* Types hold, and a task that enters, leaves or broadcasts has the system it needs.
THEOREM Typing == Spec => []TypeOK
  <1>1. IInv => TypeOK
    BY DEF IInv, Types
  <1>2. QED
    BY <1>1, Invariance, PTL

\* A player in a voice room has a session there or on its way in, also when an older
\* session of the player is still closing.
THEOREM NoPhantoms == Spec => []NoPhantomVoicePeer
  <1>1. IInv => NoPhantomVoicePeer
    BY DEF IInv
  <1>2. QED
    BY <1>1, Invariance, PTL

\* Whoever is in a system is registered there, under the universe it named; a session
\* whose messages name its own universe exactly while it is there, once, and never after
\* it closed.
THEOREM Registration == Spec => []MembersAreCurrent
  <1>1. IInv => MembersAreCurrent
    BY DEF IInv
  <1>2. QED
    BY <1>1, Invariance, PTL

\* No ghost survives: a peer a session knows of is registered in a system it is in
\* itself, or takes leave of it there; one whose messages name its own universe is there.
THEOREM NoGhosts == Spec => []NoGhostPeer
  <1>1. IInv => NoGhostPeer
    BY Ghosts DEF IInv, Views
  <1>2. QED
    BY <1>1, Invariance, PTL

\* Whoever was there first knows of a player who came later, once the broadcast is over.
THEOREM ArrivalsAreKnown == Spec => []LaterArrivalsKnown
  <1>1. IInv => LaterArrivalsKnown
    <2> SUFFICES ASSUME IInv, NEW k \in Scopes,
                        NEW i \in 1..Len(members[k]), NEW j \in 1..Len(members[k]), i < j,
                        Steady(members[k][i]), Alone(members[k][j]),
                        phase[members[k][j]] \in {"reading", "telling_chat", "signalling"}
                 PROVE PlayerOf[members[k][j]] \in view[members[k][i]]
      BY DEF LaterArrivalsKnown
    <2>1. members[k][i] \in Sessions /\ members[k][j] \in Sessions
      BY ElementOfSeq DEF IInv, Types, TypeOK
    <2>2. Before(members[k][i], members[k][j], k)
      BY DEF Before
    <2>3. ~Announced(members[k][j], k, members[k][i])
      BY DEF Announced
    <2>4. QED
      BY <2>1, <2>2, <2>3 DEF IInv, Views, ArrivalsKnown
  <1>2. QED
    BY <1>1, Invariance, PTL
===============================================================================
