---------------------------- MODULE EvalChainProofs ----------------------------
(***************************************************************************)
(* What the server verifies, for any contracts, actions, sessions, losses  *)
(* and restarts.  The argument is about the server alone: of the client it *)
(* needs only that what it sends are signatures.                           *)
(***************************************************************************)
EXTENDS EvalChain, DataLemmas, TLAPS

Signatures == {sig \in Seq(Step) : Len(sig) \in 1..MaxTick}

Phases == {"unopened", "reading", "writing", "answering", "ended"}
AtWork == {"writing", "answering"}

ClientTypes ==
    /\ runtime \in [active : Contracts, chain : Seq(Step), tick : 0..MaxTick]
    /\ Len(runtime.chain) <= runtime.tick
    /\ outbox \in Seq(Signatures)
    /\ link \in {0} \cup Sessions
    /\ link # 0 => phase[link] # "unopened"

ServerTypes ==
    /\ wire \in [Sessions -> Seq(Signatures)]
    /\ phase \in [Sessions -> Phases]
    /\ writing \in [Sessions -> Signatures \cup {Genesis}]
    /\ heads \in [Contracts -> Signatures \cup {Genesis}]
    /\ stored \in [Contracts -> SUBSET Signatures]
    /\ accepted \in SUBSET Signatures /\ acked \in SUBSET Signatures
    /\ \A s \in Sessions : wire[s] # <<>> => phase[s] \in {"reading", "writing", "answering"}

\* Heads and rows are accepted evaluations of the contract they are filed under.
HeadsAreAccepted ==
    \A c \in Contracts : heads[c] # Genesis =>
        heads[c] \in accepted /\ Latest(heads[c]).contract = c

RowsAreAccepted ==
    \A c \in Contracts : \A sig \in stored[c] : sig \in accepted /\ Latest(sig).contract = c

\* An evaluation that was accepted, and that the head of its contract has not
\* fallen behind.
Pending(sig) ==
    /\ sig \in accepted
    /\ heads[Latest(sig).contract] # Genesis
    /\ Latest(sig).tick <= Latest(heads[Latest(sig).contract]).tick

\* What a session is at work on is pending, no other session's and, with a store,
\* not answered; it has its row from the insert on.
Sound(s) ==
    /\ phase[s] \notin AtWork => writing[s] = Genesis
    /\ phase[s] \in AtWork =>
        /\ writing[s] # Genesis /\ Pending(writing[s])
        /\ \A r \in Sessions \ {s} : writing[r] # writing[s]
        /\ StoreKind = "postgres" => writing[s] \notin acked
    /\ phase[s] = "writing" => writing[s] \notin stored[Latest(writing[s]).contract]
    /\ phase[s] = "answering" /\ StoreKind = "postgres" =>
        writing[s] \in stored[Latest(writing[s]).contract]

Recording == \A s \in Sessions : Sound(s)

\* What was answered was accepted and, with a store, has its row; without a store
\* nothing is recorded.
Answered ==
    /\ acked \subseteq accepted
    /\ StoreKind = "postgres" => \A sig \in acked : sig \in stored[Latest(sig).contract]
    /\ StoreKind = "none" => /\ \A s \in Sessions : phase[s] # "writing"
                             /\ \A c \in Contracts : stored[c] = {}

\* Of what has a row, or is getting one, the last tick tells it from the others of
\* its contract.
WritingOf(c) ==
    {writing[s] : s \in {r \in Sessions : phase[r] = "writing" /\ Latest(writing[r]).contract = c}}

Rowed(c) == stored[c] \cup WritingOf(c)

TicksTell ==
    \A c \in Contracts : \A a, b \in Rowed(c) : Latest(a).tick = Latest(b).tick => a = b

\* Unless an insert has failed, the head has its row or is getting it.
HeadIsKept ==
    StoreKind = "postgres" /\ "unrecorded" \notin mishaps =>
        \A c \in Contracts : heads[c] = Genesis \/ heads[c] \in Rowed(c)

Server ==
    /\ ServerTypes /\ HeadsAreAccepted /\ RowsAreAccepted /\ Recording /\ Answered
    /\ TicksTell /\ HeadIsKept /\ HeadNotBehindStore /\ AcceptedInOrder

IInv == ClientTypes /\ Server

-------------------------------------------------------------------------------
LEMMA PrefixType ==
    ASSUME NEW S, NEW q \in Seq(S), NEW k \in 0..Len(q)
    PROVE SubSeq(q, 1, k) \in Seq(S) /\ Len(SubSeq(q, 1, k)) = k
  <1>1. 1 \in Int /\ k \in Int /\ \A i \in 1..k : q[i] \in S
    OBVIOUS
  <1>2. SubSeq(q, 1, k) \in Seq(S) /\ Len(SubSeq(q, 1, k)) = IF 1 <= k THEN k - 1 + 1 ELSE 0
    BY <1>1, SubSeqProperties
  <1>3. (IF 1 <= k THEN k - 1 + 1 ELSE 0) = k
    BY k \in 0..Len(q)
  <1>4. QED
    BY <1>2, <1>3

\* The last step of a signature, and the signatures it commits to.
LEMMA SignatureFacts ==
    ASSUME NEW sig \in Signatures
    PROVE /\ Latest(sig) \in Step /\ Latest(sig).contract \in Contracts
          /\ Latest(sig).tick \in 1..MaxTick /\ sig # Genesis
          /\ Prev(sig) \in Seq(Step) /\ Len(Prev(sig)) = Len(sig) - 1
          /\ \A n \in 1..(Len(sig) - 1) : SubSeq(sig, 1, n) = SubSeq(Prev(sig), 1, n)
          /\ Len(sig) > 1 => SubSeq(sig, 1, Len(sig) - 1) = Prev(sig)
  <1>1. sig \in Seq(Step) /\ Len(sig) \in Nat /\ Len(sig) >= 1
    BY Bounds DEF Signatures
  <1>2. Latest(sig) \in Step /\ sig # Genesis
    BY <1>1 DEF Latest, Genesis
  <1>3. Latest(sig).contract \in Contracts /\ Latest(sig).tick \in 1..MaxTick
    BY <1>2 DEF Step
  <1>4. Prev(sig) \in Seq(Step) /\ Len(Prev(sig)) = Len(sig) - 1
    <2>1. Len(sig) - 1 \in 0..Len(sig)
      BY <1>1
    <2>2. QED
      BY <1>1, <2>1, PrefixType DEF Prev
  <1>5. ASSUME NEW n \in 1..(Len(sig) - 1)
        PROVE SubSeq(sig, 1, n) = SubSeq(Prev(sig), 1, n)
    <2> DEFINE k == Len(sig) - 1
    <2>1. 1 \in 1..Len(sig) /\ k \in 1..Len(sig) /\ 1 \in 1..(k - 1 + 1) /\ n \in 1..(k - 1 + 1)
      BY <1>1
    <2>2. SubSeq(SubSeq(sig, 1, k), 1, n) = SubSeq(sig, 1 + 1 - 1, 1 + n - 1)
      BY <1>1, <2>1, SubSeqOfSubSeq
    <2>3. 1 + 1 - 1 = 1 /\ 1 + n - 1 = n
      BY <1>1
    <2>4. QED
      BY <2>2, <2>3 DEF Prev
  <1>6. QED
    BY <1>2, <1>3, <1>4, <1>5 DEF Prev

\* load_heads finds a latest row, if there is one.
LEMMA LoadedFacts ==
    ASSUME stored \in [Contracts -> SUBSET Signatures], NEW c \in Contracts
    PROVE /\ stored[c] = {} => Loaded(c) = Genesis
          /\ stored[c] # {} => /\ Loaded(c) \in stored[c]
                               /\ \A sig \in stored[c] : Latest(sig).tick <= Latest(Loaded(c)).tick
  <1>1. CASE stored[c] = {}
    BY <1>1 DEF Loaded
  <1>2. CASE stored[c] # {}
    <2> DEFINE Ticks == {Latest(sig).tick : sig \in stored[c]}
    <2>1. Ticks \in SUBSET Int /\ Ticks # {} /\ \A x \in Ticks : x <= MaxTick
      BY <1>2, SignatureFacts, Bounds
    <2>2. MaxTick \in Int
      BY Bounds
    <2>3. \E x \in Ticks : \A y \in Ticks : y <= x
      <3> HIDE DEF Ticks
      <3>1. QED
        BY <2>1, <2>2, Largest
    <2>4. \E sig \in stored[c] : \A other \in stored[c] : Latest(other).tick <= Latest(sig).tick
      BY <2>3
    <2>5. QED
      BY <1>2, <2>4 DEF Loaded
  <1>3. QED
    BY <1>1, <1>2

LEMMA InitInv == Init => IInv
  <1> SUFFICES ASSUME Init PROVE IInv
    OBVIOUS
  <1>1. Genesis \in Seq(Step) /\ Len(Genesis) = 0 /\ 0 \in 0..MaxTick /\ <<>> \in Seq(Signatures)
    BY Bounds DEF Genesis
  <1>2. ClientTypes
    BY <1>1, FirstIsContract DEF Init, ClientTypes, FreshRuntime
  <1>3. ServerTypes
    BY <1>1 DEF Init, ServerTypes, Phases
  <1>4. HeadsAreAccepted /\ RowsAreAccepted /\ Recording
    BY DEF Init, HeadsAreAccepted, RowsAreAccepted, Recording, Sound, AtWork
  <1>5. Answered /\ HeadNotBehindStore /\ AcceptedInOrder /\ TicksTell /\ HeadIsKept
    BY DEF Init, Answered, HeadNotBehindStore, AcceptedInOrder, TicksTell, HeadIsKept,
           Rowed, WritingOf
  <1>6. QED
    BY <1>2, <1>3, <1>4, <1>5 DEF IInv, Server

-------------------------------------------------------------------------------
\* What the client and the sockets do leaves heads, rows and answers alone, and at
\* most ends a session at work: if it was writing, that is the mishap it counts as.
Same(s) ==
    /\ writing'[s] = writing[s]
    /\ \A p \in AtWork : phase'[s] = p <=> phase[s] = p

Given(s) ==
    /\ writing'[s] = Genesis /\ phase'[s] \notin AtWork
    /\ phase[s] = "writing" => "unrecorded" \in mishaps'

LEMMA CalmInv ==
    ASSUME Server, ServerTypes', UNCHANGED <<heads, stored, accepted, acked>>,
           \A s \in Sessions : Same(s) \/ Given(s),
           "unrecorded" \in mishaps => "unrecorded" \in mishaps'
    PROVE Server'
  <1>1. HeadsAreAccepted' /\ RowsAreAccepted'
    BY DEF Server, HeadsAreAccepted, RowsAreAccepted
  <1>2. ASSUME NEW s \in Sessions PROVE Sound(s)'
    <2>1. Sound(s)
      BY DEF Server, Recording
    <2>2. CASE Given(s)
      BY <2>2 DEF Given, Sound, AtWork
    <2>3. CASE Same(s)
      <3>1. /\ writing'[s] = writing[s]
            /\ phase'[s] = "writing" <=> phase[s] = "writing"
            /\ phase'[s] = "answering" <=> phase[s] = "answering"
        BY <2>3 DEF Same, AtWork
      <3>2. \A r \in Sessions : writing'[r] = writing[r] \/ writing'[r] = Genesis
        BY DEF Same, Given
      <3>3. Pending(writing[s]) => Pending(writing[s])'
        BY <3>1 DEF Pending
      <3>4. QED
        BY <2>1, <3>1, <3>2, <3>3 DEF Sound, AtWork
    <2>4. QED
      BY <2>2, <2>3
  <1>3. Answered'
    <2>1. \A s \in Sessions : phase'[s] = "writing" => phase[s] = "writing"
      BY DEF Same, Given, AtWork
    <2>2. QED
      BY <2>1 DEF Server, Answered
  <1>4. HeadNotBehindStore' /\ AcceptedInOrder'
    BY DEF Server, HeadNotBehindStore, AcceptedInOrder
  <1>5. ASSUME NEW c \in Contracts PROVE Rowed(c)' \subseteq Rowed(c)
    BY DEF Rowed, WritingOf, Same, Given, AtWork
  <1>6. TicksTell'
    BY <1>5 DEF Server, TicksTell
  <1>7. HeadIsKept'
    <2> SUFFICES ASSUME StoreKind = "postgres", "unrecorded" \notin mishaps',
                        NEW c \in Contracts, heads[c] # Genesis
                 PROVE heads[c] \in Rowed(c)'
      BY DEF HeadIsKept
    <2>1. heads[c] \in Rowed(c)
      BY DEF Server, HeadIsKept
    <2>2. \A s \in Sessions : phase[s] = "writing" => phase'[s] = "writing" /\ writing'[s] = writing[s]
      BY DEF Same, Given, AtWork
    <2>3. QED
      BY <2>1, <2>2 DEF Rowed, WritingOf
  <1>8. QED
    BY <1>1, <1>2, <1>3, <1>4, <1>6, <1>7 DEF Server, Recording
-------------------------------------------------------------------------------
\* Steps of the client and of its sockets.

LEMMA EvaluateInv == ASSUME NEW a \in Actions, IInv, Evaluate(a) PROVE IInv'
  <1>1. /\ runtime \in [active : Contracts, chain : Seq(Step), tick : 0..MaxTick]
        /\ runtime.tick < MaxTick /\ Len(runtime.chain) <= runtime.tick /\ MaxTick \in Nat
    BY Bounds DEF IInv, ClientTypes, Evaluate
  <1>2. runtime.active \in Contracts /\ runtime.chain \in Seq(Step) /\ runtime.tick \in Nat
    BY <1>1
  <1>3. [contract |-> runtime.active, tick |-> runtime.tick + 1, action |-> a] \in Step
    BY <1>1, <1>2 DEF Step
  <1>4. Signed(a) \in Seq(Step) /\ Len(Signed(a)) = Len(runtime.chain) + 1
    BY <1>2, <1>3 DEF Signed
  <1>5. Signed(a) \in Signatures
    BY <1>1, <1>2, <1>4 DEF Signatures
  <1>6. ClientTypes'
    <2>1. runtime' = [runtime EXCEPT !.chain = Signed(a), !.tick = runtime.tick + 1]
      BY DEF Evaluate
    <2>2. runtime'.active = runtime.active /\ runtime'.chain = Signed(a) /\ runtime'.tick = runtime.tick + 1
      BY <1>1, <2>1
    <2>3. runtime' \in [active : Contracts, chain : Seq(Step), tick : 0..MaxTick]
      <3>1. runtime.tick + 1 \in 0..MaxTick /\ Signed(a) \in Seq(Step)
        BY <1>1, <1>2, <1>4
      <3>2. QED
        BY <1>1, <2>1, <3>1, Zenon
    <2>4. outbox' \in Seq(Signatures)
      BY <1>5 DEF IInv, ClientTypes, Evaluate
    <2>5. Len(runtime'.chain) <= runtime'.tick
      BY <1>1, <1>2, <1>4, <2>2
    <2>6. link' = link /\ phase' = phase
      BY DEF Evaluate, server
    <2>7. QED
      BY <2>3, <2>4, <2>5, <2>6 DEF IInv, ClientTypes
  <1>7. Server'
    BY CalmInv DEF IInv, Server, ServerTypes, Same, Evaluate, server, history
  <1>8. QED
    BY <1>6, <1>7 DEF IInv

LEMMA CallModelInv == ASSUME IInv, CallModel PROVE IInv'
  <1>1. /\ runtime \in [active : Contracts, chain : Seq(Step), tick : 0..MaxTick]
        /\ runtime.tick < MaxTick /\ Len(runtime.chain) <= runtime.tick /\ MaxTick \in Nat
        /\ runtime' = [runtime EXCEPT !.tick = runtime.tick + 1]
    BY Bounds DEF IInv, ClientTypes, CallModel
  <1>2. runtime'.chain = runtime.chain /\ runtime'.tick = runtime.tick + 1 /\ runtime.chain \in Seq(Step)
    BY <1>1
  <1>3. ClientTypes'
    BY <1>1, <1>2 DEF IInv, ClientTypes, CallModel, server
  <1>4. Server'
    BY CalmInv DEF IInv, Server, ServerTypes, Same, CallModel, server, history
  <1>5. QED
    BY <1>3, <1>4 DEF IInv

LEMMA InstallInv == ASSUME NEW c \in Contracts, IInv, Install(c) PROVE IInv'
  <1>1. ClientTypes'
    BY DEF IInv, ClientTypes, Install, server
  <1>2. Server'
    BY CalmInv DEF IInv, Server, ServerTypes, Same, Install, server, history
  <1>3. QED
    BY <1>1, <1>2 DEF IInv

LEMMA RestartClientInv == ASSUME IInv, RestartClient PROVE IInv'
  <1>1. FreshRuntime \in [active : Contracts, chain : Seq(Step), tick : 0..MaxTick]
        /\ Len(FreshRuntime.chain) <= FreshRuntime.tick /\ <<>> \in Seq(Signatures)
    BY Bounds, FirstIsContract DEF FreshRuntime, Genesis
  <1>2. ClientTypes'
    BY <1>1 DEF IInv, ClientTypes, RestartClient
  <1>3. Server'
    BY CalmInv DEF IInv, Server, ServerTypes, Same, RestartClient, server, history
  <1>4. QED
    BY <1>2, <1>3 DEF IInv

LEMMA ConnectInv == ASSUME NEW s \in Sessions, IInv, Connect(s) PROVE IInv'
  <1>1. /\ phase \in [Sessions -> Phases]
        /\ phase[s] = "unopened" /\ phase' = [phase EXCEPT ![s] = "reading"] /\ wire' = wire
        /\ link' = s /\ runtime' = runtime /\ outbox' = outbox /\ writing' = writing
    BY DEF IInv, Server, ServerTypes, Connect
  <1>2. ClientTypes'
    BY <1>1 DEF IInv, ClientTypes
  <1>3. ServerTypes'
    BY <1>1 DEF IInv, Server, ServerTypes, Phases, Connect, history
  <1>4. Server'
    BY <1>1, <1>3, CalmInv DEF IInv, Same, AtWork, Phases, Connect, history
  <1>5. QED
    BY <1>2, <1>4 DEF IInv

LEMMA FlushInv == ASSUME IInv, Flush PROVE IInv'
  <1>1. /\ link \in Sessions /\ phase[link] # "unopened" /\ phase' = phase /\ outbox' = <<>>
        /\ runtime' = runtime /\ link' = link /\ writing' = writing
        /\ wire \in [Sessions -> Seq(Signatures)] /\ outbox \in Seq(Signatures)
        /\ phase \in [Sessions -> Phases]
    BY DEF IInv, ClientTypes, Server, ServerTypes, Flush
  <1>2. ClientTypes'
    BY <1>1 DEF IInv, ClientTypes
  <1>3. wire' \in [Sessions -> Seq(Signatures)]
        /\ \A s \in Sessions : wire'[s] = wire[s] \/ phase[s] \in {"reading", "writing", "answering"}
    <2>1. CASE phase[link] = "ended"
      BY <1>1, <2>1 DEF Flush
    <2>2. CASE phase[link] # "ended"
      <3>1. wire' = [wire EXCEPT ![link] = wire[link] \o outbox] /\ wire[link] \o outbox \in Seq(Signatures)
        BY <1>1, <2>2 DEF Flush
      <3>2. QED
        BY <1>1, <2>2, <3>1 DEF Phases
    <2>3. QED
      BY <2>1, <2>2
  <1>4. ServerTypes'
    BY <1>1, <1>3 DEF IInv, Server, ServerTypes, Flush, history
  <1>5. Server'
    BY <1>1, <1>4, CalmInv DEF IInv, Same, Flush, history
  <1>6. QED
    BY <1>2, <1>5 DEF IInv

LEMMA DisconnectInv == ASSUME NEW kept \in 0..MaxTick, IInv, Disconnect(kept) PROVE IInv'
  <1>1. /\ link \in Sessions /\ phase' = phase /\ outbox' = outbox
        /\ runtime' = runtime /\ link' = 0 /\ writing' = writing
        /\ wire \in [Sessions -> Seq(Signatures)] /\ kept \in 0..Len(wire[link])
        /\ wire' = [wire EXCEPT ![link] = SubSeq(wire[link], 1, kept)]
    BY DEF IInv, ClientTypes, Server, ServerTypes, Disconnect
  <1>2. ClientTypes'
    BY <1>1 DEF IInv, ClientTypes
  <1>3. SubSeq(wire[link], 1, kept) \in Seq(Signatures)
    <2>1. wire[link] \in Seq(Signatures)
      BY <1>1
    <2>2. QED
      BY <1>1, <2>1, PrefixType
  <1>4. wire[link] = <<>> => SubSeq(wire[link], 1, kept) = <<>>
    <2>1. wire[link] = <<>> => kept < 1 /\ kept \in Int
      BY <1>1
    <2>2. QED
      BY <2>1, SubSeqEmpty
  <1>5. ServerTypes'
    BY <1>1, <1>3, <1>4 DEF IInv, Server, ServerTypes, Disconnect, history
  <1>6. Server'
    BY <1>1, <1>5, CalmInv DEF IInv, Same, Disconnect, history
  <1>7. QED
    BY <1>2, <1>6 DEF IInv
-------------------------------------------------------------------------------
\* Steps of the server that accept nothing.

LEMMA RejectInv == ASSUME NEW s \in Sessions, IInv, Reject(s) PROVE IInv'
  <1>1. /\ wire \in [Sessions -> Seq(Signatures)] /\ wire[s] # <<>> /\ phase[s] = "reading"
        /\ phase' = phase /\ writing' = writing /\ wire' = [wire EXCEPT ![s] = Tail(wire[s])]
        /\ runtime' = runtime /\ outbox' = outbox /\ link' = link
    BY DEF IInv, Server, ServerTypes, Reject, client
  <1>2. wire[s] \in Seq(Signatures)
    BY <1>1
  <1>3. Tail(wire[s]) \in Seq(Signatures)
    BY <1>1, <1>2
  <1>4. ServerTypes'
    BY <1>1, <1>3 DEF IInv, Server, ServerTypes, Reject
  <1>5. ClientTypes'
    BY <1>1 DEF IInv, ClientTypes
  <1>6. Server'
    BY <1>1, <1>4, CalmInv DEF IInv, Same, Reject
  <1>7. QED
    BY <1>5, <1>6 DEF IInv

\* A session ends: what it was recording is given up, what it had to read is lost.
LEMMA EndInv ==
    ASSUME NEW s \in Sessions, IInv, RecordFails(s) \/ EndSession(s)
    PROVE IInv'
  <1>1. /\ wire \in [Sessions -> Seq(Signatures)] /\ writing \in [Sessions -> Signatures \cup {Genesis}]
        /\ phase \in [Sessions -> Phases]
        /\ phase[s] # "unopened" /\ phase' = [phase EXCEPT ![s] = "ended"]
        /\ wire' = [wire EXCEPT ![s] = <<>>]
        /\ runtime' = runtime /\ outbox' = outbox /\ link' = link
        /\ writing' = [writing EXCEPT ![s] = Genesis]
        /\ UNCHANGED <<heads, stored, accepted, acked>>
        /\ phase[s] = "writing" => "unrecorded" \in mishaps'
        /\ "unrecorded" \in mishaps => "unrecorded" \in mishaps'
    <2>1. /\ wire \in [Sessions -> Seq(Signatures)] /\ writing \in [Sessions -> Signatures \cup {Genesis}]
          /\ phase \in [Sessions -> Phases]
          /\ phase[s] \notin AtWork => writing[s] = Genesis
      BY DEF IInv, Server, ServerTypes, Recording, Sound
    <2>2. CASE RecordFails(s)
      BY <2>1, <2>2 DEF RecordFails, client, history
    <2>3. CASE EndSession(s)
      <3>1. writing' = writing /\ writing[s] = Genesis
        BY <2>1, <2>3 DEF EndSession, AtWork
      <3>2. writing' = [writing EXCEPT ![s] = Genesis]
        BY <2>1, <3>1
      <3>3. QED
        BY <2>1, <2>3, <3>2 DEF EndSession, client, history
    <2>4. QED
      BY <2>2, <2>3
  <1>2. ServerTypes'
    BY <1>1 DEF IInv, Server, ServerTypes, Phases
  <1>3. ClientTypes'
    BY <1>1 DEF IInv, ClientTypes
  <1>4. Server'
    <2>1. Given(s) /\ \A r \in Sessions \ {s} : Same(r)
      BY <1>1 DEF Given, Same, AtWork
    <2>2. QED
      BY <1>1, <1>2, <2>1, CalmInv DEF IInv
  <1>5. QED
    BY <1>3, <1>4 DEF IInv

\* The heads of a restarted server are those of the store, or none.
LEMMA BounceInv == ASSUME IInv, Bounce PROVE IInv'
  <1> DEFINE Reloaded(c) == IF StoreKind = "none" THEN Genesis ELSE Loaded(c)
  <1>1. /\ stored \in [Contracts -> SUBSET Signatures] /\ stored' = stored
        /\ accepted' = accepted /\ acked' = acked
        /\ phase \in [Sessions -> Phases]
        /\ phase' = [s \in Sessions |-> IF phase[s] = "unopened" THEN "unopened" ELSE "ended"]
        /\ wire' = [s \in Sessions |-> <<>>] /\ writing' = [s \in Sessions |-> Genesis]
        /\ runtime' = runtime /\ outbox' = outbox /\ link' = link
        /\ heads' = [c \in Contracts |-> Reloaded(c)]
    BY DEF IInv, Server, ServerTypes, Bounce, client, history
  <1>2. ASSUME NEW c \in Contracts
        PROVE /\ heads'[c] \in Signatures \cup {Genesis}
              /\ heads'[c] # Genesis => heads'[c] \in accepted /\ Latest(heads'[c]).contract = c
              /\ \A sig \in stored[c] : heads'[c] # Genesis /\ Latest(sig).tick <= Latest(heads'[c]).tick
    <2>1. heads'[c] = IF StoreKind = "none" THEN Genesis ELSE Loaded(c)
      BY <1>1
    <2>2. StoreKind = "none" => stored[c] = {}
      BY DEF IInv, Server, Answered
    <2>3. CASE stored[c] = {}
      BY <1>1, <2>1, <2>3, LoadedFacts
    <2>4. CASE stored[c] # {}
      <3>1. heads'[c] \in stored[c] /\ \A sig \in stored[c] : Latest(sig).tick <= Latest(heads'[c]).tick
        BY <1>1, <2>1, <2>2, <2>4, LoadedFacts
      <3>2. heads'[c] \in Signatures /\ heads'[c] # Genesis
        BY <1>1, <3>1, SignatureFacts
      <3>3. QED
        BY <3>1, <3>2 DEF IInv, Server, RowsAreAccepted
    <2>5. QED
      BY <2>3, <2>4
  <1>3. ServerTypes'
    <2>1. heads' \in [Contracts -> Signatures \cup {Genesis}]
      BY <1>1, <1>2
    <2>2. <<>> \in Seq(Signatures)
      OBVIOUS
    <2>3. QED
      BY <1>1, <2>1, <2>2 DEF IInv, Server, ServerTypes, Phases
  <1>4. HeadsAreAccepted' /\ RowsAreAccepted' /\ HeadNotBehindStore' /\ AcceptedInOrder'
    BY <1>1, <1>2
    DEF IInv, Server, HeadsAreAccepted, RowsAreAccepted, HeadNotBehindStore, AcceptedInOrder
  <1>5. \A s \in Sessions : writing'[s] = Genesis /\ phase'[s] \notin AtWork
    BY <1>1 DEF AtWork
  <1>6. Recording' /\ Answered'
    BY <1>1, <1>5 DEF IInv, Server, Recording, Sound, Answered, AtWork
  <1>7. \A c \in Contracts : Rowed(c)' = stored[c]
    BY <1>1, <1>5 DEF Rowed, WritingOf, AtWork
  <1>8. TicksTell'
    BY <1>7 DEF IInv, Server, TicksTell, Rowed
  <1>9. HeadIsKept'
    BY <1>1, <1>7, LoadedFacts DEF HeadIsKept
  <1>10. ClientTypes'
    BY <1>1 DEF IInv, ClientTypes
  <1>11. QED
    BY <1>3, <1>4, <1>6, <1>8, <1>9, <1>10 DEF IInv, Server

-------------------------------------------------------------------------------
\* submit, record_accepted and the reply.

\* What has a row, or is getting one, is no later than the head.
LEMMA RowedFacts ==
    ASSUME IInv, NEW c \in Contracts, NEW sig \in Rowed(c)
    PROVE /\ sig \in Signatures /\ Latest(sig).contract = c /\ Latest(sig).tick \in Nat
          /\ heads[c] # Genesis /\ Latest(sig).tick <= Latest(heads[c]).tick
  <1>1. CASE sig \in stored[c]
    BY <1>1, SignatureFacts DEF IInv, Server, ServerTypes, RowsAreAccepted, HeadNotBehindStore
  <1>2. CASE sig \in WritingOf(c)
    <2>1. PICK s \in Sessions : phase[s] = "writing" /\ sig = writing[s] /\ Latest(sig).contract = c
      BY <1>2 DEF WritingOf
    <2>2. sig # Genesis /\ Pending(sig)
      BY <2>1 DEF IInv, Server, Recording, Sound, AtWork
    <2>3. sig \in Signatures
      BY <2>1, <2>2 DEF IInv, Server, ServerTypes
    <2>4. QED
      BY <2>1, <2>2, <2>3, SignatureFacts DEF Pending
  <1>3. QED
    BY <1>1, <1>2 DEF Rowed

LEMMA AcceptInv == ASSUME NEW s \in Sessions, IInv, Accept(s) PROVE IInv'
  <1> DEFINE sig == Head(wire[s])
             c == Latest(sig).contract
  <1>1. /\ wire \in [Sessions -> Seq(Signatures)] /\ wire[s] # <<>> /\ phase[s] = "reading"
        /\ phase \in [Sessions -> Phases]
        /\ heads \in [Contracts -> Signatures \cup {Genesis}]
        /\ writing \in [Sessions -> Signatures \cup {Genesis}]
        /\ accepted \in SUBSET Signatures /\ acked \in SUBSET Signatures
    BY DEF IInv, Server, ServerTypes, Accept
  <1>2. wire[s] \in Seq(Signatures)
    BY <1>1
  <1>3. Tail(wire[s]) \in Seq(Signatures) /\ sig \in Signatures
    BY <1>1, <1>2
  <1>4. PICK S \in Signatures : S = sig
    BY <1>3
  <1>5. PICK C \in Contracts : C = Latest(S).contract
    BY SignatureFacts
  <1>6. /\ wire' = [wire EXCEPT ![s] = Tail(wire[s])]
        /\ heads' = [heads EXCEPT ![C] = S]
        /\ accepted' = accepted \cup {S} /\ stored' = stored
        /\ runtime' = runtime /\ outbox' = outbox /\ link' = link
        /\ phase' = [phase EXCEPT ![s] = IF StoreKind = "none" THEN "answering" ELSE "writing"]
        /\ writing' = [writing EXCEPT ![s] = S] /\ acked' = acked /\ mishaps' = mishaps
    BY <1>4, <1>5 DEF Accept, client
  <1>7. Prev(S) = heads[C] /\ (heads[C] # Genesis => Latest(S).tick > Latest(heads[C]).tick)
    BY <1>4, <1>5 DEF Accept, Verifies
  <1> HIDE DEF sig, c
  <1>8. Latest(S).tick \in Nat /\ S # Genesis
    BY SignatureFacts
  <1>9. heads[C] # Genesis => Latest(heads[C]).tick \in Nat
    BY <1>1, SignatureFacts
  <1>10. S \notin stored[C]
    BY <1>7, <1>8, <1>9 DEF IInv, Server, HeadNotBehindStore
  <1>11. ASSUME NEW r \in Sessions PROVE writing[r] # S
    <2> SUFFICES ASSUME writing[r] = S PROVE FALSE
      OBVIOUS
    <2>1. Pending(S)
      BY <1>8 DEF IInv, Server, Recording, Sound
    <2>2. QED
      BY <1>5, <1>7, <1>8, <1>9, <2>1 DEF Pending
  <1>12. ServerTypes'
    <2>1. heads' \in [Contracts -> Signatures \cup {Genesis}] /\ wire' \in [Sessions -> Seq(Signatures)]
      BY <1>1, <1>3, <1>6
    <2>2. phase' \in [Sessions -> Phases]
          /\ writing' \in [Sessions -> Signatures \cup {Genesis}]
          /\ acked' \in SUBSET Signatures
      BY <1>1, <1>6 DEF Phases
    <2>3. \A r \in Sessions : wire'[r] # <<>> => phase'[r] \in {"reading", "writing", "answering"}
      BY <1>1, <1>6 DEF IInv, Server, ServerTypes
    <2>4. QED
      BY <1>6, <2>1, <2>2, <2>3 DEF IInv, Server, ServerTypes
  <1>13. HeadsAreAccepted'
    BY <1>1, <1>5, <1>6 DEF IInv, Server, HeadsAreAccepted
  <1>14. RowsAreAccepted'
    BY <1>6 DEF IInv, Server, RowsAreAccepted
  <1>15. HeadNotBehindStore'
    <2> SUFFICES ASSUME NEW d \in Contracts, NEW row \in stored[d]
                 PROVE heads'[d] # Genesis /\ Latest(row).tick <= Latest(heads'[d]).tick
      BY <1>6 DEF HeadNotBehindStore
    <2>1. heads[d] # Genesis /\ Latest(row).tick <= Latest(heads[d]).tick /\ Latest(row).tick \in Nat
      BY SignatureFacts DEF IInv, Server, ServerTypes, HeadNotBehindStore
    <2>2. CASE d = C
      BY <1>1, <1>6, <1>7, <1>8, <1>9, <2>1, <2>2
    <2>3. CASE d # C
      BY <1>1, <1>6, <2>1, <2>3
    <2>4. QED
      BY <2>2, <2>3
  <1>16. AcceptedInOrder'
    <2> SUFFICES ASSUME NEW n \in 1..(Len(S) - 1) PROVE SubSeq(S, 1, n) \in accepted
      BY <1>6 DEF IInv, Server, AcceptedInOrder
    <2>1. /\ Len(heads[C]) = Len(S) - 1 /\ SubSeq(S, 1, n) = SubSeq(heads[C], 1, n)
          /\ Len(S) > 1 => SubSeq(S, 1, Len(S) - 1) = heads[C]
          /\ S \in Seq(Step) /\ Len(S) \in Nat
      <3>1. /\ Len(Prev(S)) = Len(S) - 1 /\ SubSeq(S, 1, n) = SubSeq(Prev(S), 1, n)
            /\ Len(S) > 1 => SubSeq(S, 1, Len(S) - 1) = Prev(S)
        BY SignatureFacts
      <3>2. S \in Seq(Step) /\ Len(S) \in Nat
        BY DEF Signatures
      <3>3. QED
        BY <1>7, <3>1, <3>2
    <2>2. heads[C] # Genesis /\ heads[C] \in accepted
      <3>1. heads[C] # Genesis
        <4>1. Len(Genesis) = 0 /\ Len(S) - 1 # 0
          BY <2>1 DEF Genesis
        <4>2. QED
          BY <2>1, <4>1
      <3>2. QED
        BY <3>1 DEF IInv, Server, HeadsAreAccepted
    <2>3. CASE n = Len(S) - 1
      <3>1. Len(S) > 1
        BY <2>1, <2>3
      <3>2. QED
        BY <2>1, <2>2, <2>3, <3>1, Zenon
    <2>4. CASE n # Len(S) - 1
      <3>1. n \in 1..(Len(heads[C]) - 1)
        BY <2>1, <2>4
      <3>2. QED
        BY <2>1, <2>2, <3>1 DEF IInv, Server, AcceptedInOrder
    <2>5. QED
      BY <2>3, <2>4
  <1>17. ASSUME NEW w, Pending(w), w \in Signatures PROVE Pending(w)'
    <2>1. /\ w \in accepted /\ heads[Latest(w).contract] # Genesis
          /\ Latest(w).tick <= Latest(heads[Latest(w).contract]).tick
      BY <1>17 DEF Pending
    <2>2. Latest(w).contract \in Contracts /\ Latest(w).tick \in Nat
      BY <1>17, SignatureFacts
    <2>3. CASE Latest(w).contract = C
      BY <1>1, <1>6, <1>7, <1>8, <1>9, <2>1, <2>2, <2>3 DEF Pending
    <2>4. CASE Latest(w).contract # C
      BY <1>1, <1>6, <2>1, <2>2, <2>4 DEF Pending
    <2>5. QED
      BY <2>3, <2>4
  <1>18. Pending(S)' /\ (StoreKind = "postgres" => S \notin acked)
    <2>1. Pending(S)'
      BY <1>1, <1>5, <1>6, <1>8 DEF Pending
    <2>2. StoreKind = "postgres" => S \notin acked
      BY <1>5, <1>10 DEF IInv, Server, Answered
    <2>3. QED
      BY <2>1, <2>2
  <1>19. ASSUME NEW r \in Sessions PROVE Sound(r)'
    <2>1. Sound(r)
      BY DEF IInv, Server, Recording
    <2>2. \A q \in Sessions : writing'[q] = IF q = s THEN S ELSE writing[q]
      BY <1>1, <1>6
    <2>3. CASE r = s
      <3>1. /\ phase'[s] = IF StoreKind = "none" THEN "answering" ELSE "writing"
            /\ writing'[s] = S
        BY <1>1, <1>6
      <3>2. \A q \in Sessions \ {s} : writing'[q] # S
        BY <1>11, <2>2
      <3>3. QED
        BY <1>5, <1>6, <1>8, <1>10, <1>18, <2>3, <3>1, <3>2 DEF Sound, AtWork
    <2>4. CASE r # s
      <3>1. phase'[r] = phase[r] /\ writing'[r] = writing[r]
        BY <1>1, <1>6, <2>4
      <3>2. ASSUME phase[r] \in AtWork PROVE Pending(writing[r])'
        <4>1. PICK w \in Signatures : w = writing[r]
          BY <1>1, <2>1, <3>2 DEF Sound
        <4>2. Pending(w)'
          BY <1>17, <2>1, <3>2, <4>1 DEF Sound
        <4>3. QED
          BY <3>1, <4>1, <4>2
      <3>3. \A q \in Sessions \ {r} : writing'[q] = writing[q] \/ writing'[q] = S
        BY <2>2
      <3>4. QED
        BY <1>6, <1>11, <2>1, <3>1, <3>2, <3>3 DEF Sound
    <2>5. QED
      BY <2>3, <2>4
  <1>20. Answered'
    BY <1>6 DEF IInv, Server, Answered
  <1>21. ASSUME NEW d \in Contracts
         PROVE /\ Rowed(d) \subseteq Rowed(d)'
               /\ Rowed(d)' \subseteq Rowed(d) \cup {S}
               /\ d # C => Rowed(d)' \subseteq Rowed(d)
               /\ StoreKind = "postgres" => S \in Rowed(C)'
    <2>1. \A r \in Sessions : r # s => phase'[r] = phase[r] /\ writing'[r] = writing[r]
      BY <1>1, <1>6
    <2>2. phase[s] # "writing" /\ writing'[s] = S /\ (StoreKind = "postgres" => phase'[s] = "writing")
      BY <1>1, <1>6
    <2>3. QED
      BY <1>5, <1>6, <2>1, <2>2 DEF Rowed, WritingOf
  <1>22. TicksTell'
    <2> SUFFICES ASSUME NEW d \in Contracts, NEW x \in Rowed(d)', NEW y \in Rowed(d)',
                        Latest(x).tick = Latest(y).tick
                 PROVE x = y
      BY DEF TicksTell
    <2>1. ASSUME NEW z \in Rowed(C) PROVE Latest(z).tick < Latest(S).tick
      <3>1. heads[C] # Genesis /\ Latest(z).tick <= Latest(heads[C]).tick /\ Latest(z).tick \in Nat
        BY RowedFacts
      <3>2. QED
        BY <1>7, <1>8, <1>9, <3>1
    <2>2. \A z \in Rowed(d)' : z \in Rowed(d) \/ (d = C /\ z = S)
      BY <1>21
    <2>3. CASE x \in Rowed(d) /\ y \in Rowed(d)
      BY <2>3 DEF IInv, Server, TicksTell
    <2>4. CASE d = C /\ (x = S \/ y = S)
      <3>1. \A z \in Rowed(C) : Latest(z).tick \in Nat
        BY RowedFacts
      <3>2. QED
        BY <1>8, <2>1, <2>2, <2>4, <3>1
    <2>5. QED
      BY <2>2, <2>3, <2>4
  <1>23. HeadIsKept'
    <2> SUFFICES ASSUME StoreKind = "postgres", "unrecorded" \notin mishaps', NEW d \in Contracts
                 PROVE heads'[d] = Genesis \/ heads'[d] \in Rowed(d)'
      BY DEF HeadIsKept
    <2>1. CASE d = C
      BY <1>1, <1>6, <1>21, <2>1
    <2>2. CASE d # C
      <3>1. heads'[d] = heads[d] /\ mishaps' = mishaps
        BY <1>1, <1>6, <2>2
      <3>2. QED
        BY <1>21, <3>1 DEF IInv, Server, HeadIsKept
    <2>3. QED
      BY <2>1, <2>2
  <1>24. ClientTypes'
    BY <1>1, <1>6 DEF IInv, ClientTypes
  <1>25. QED
    BY <1>12, <1>13, <1>14, <1>15, <1>16, <1>19, <1>20, <1>22, <1>23, <1>24
    DEF IInv, Server, Recording

LEMMA RecordInv == ASSUME NEW s \in Sessions, IInv, Record(s) PROVE IInv'
  <1>1. /\ phase \in [Sessions -> Phases] /\ phase[s] = "writing"
        /\ writing \in [Sessions -> Signatures \cup {Genesis}]
        /\ stored \in [Contracts -> SUBSET Signatures]
        /\ writing[s] # Genesis /\ Pending(writing[s])
        /\ \A r \in Sessions \ {s} : writing[r] # writing[s]
        /\ StoreKind = "postgres" => writing[s] \notin acked
    BY DEF IInv, Server, ServerTypes, Recording, Sound, AtWork, Record
  <1>2. PICK S \in Signatures : S = writing[s]
    BY <1>1
  <1>3. PICK C \in Contracts : C = Latest(S).contract
    BY SignatureFacts
  <1>4. /\ stored' = [stored EXCEPT ![C] = stored[C] \cup {S}] /\ writing' = writing
        /\ phase' = [phase EXCEPT ![s] = "answering"]
        /\ UNCHANGED <<wire, heads, accepted, acked, mishaps, runtime, outbox, link>>
    BY <1>2, <1>3 DEF Record, WithRow, client, history
  <1>5. S \in accepted /\ heads[C] # Genesis /\ Latest(S).tick <= Latest(heads[C]).tick
    BY <1>1, <1>2, <1>3 DEF Pending
  <1>6. ServerTypes'
    BY <1>1, <1>4 DEF IInv, Server, ServerTypes, Phases
  <1>7. HeadsAreAccepted' /\ AcceptedInOrder'
    BY <1>4 DEF IInv, Server, HeadsAreAccepted, AcceptedInOrder
  <1>8. RowsAreAccepted' /\ HeadNotBehindStore'
    <2> SUFFICES ASSUME NEW d \in Contracts, NEW row \in stored'[d]
                 PROVE /\ row \in accepted /\ Latest(row).contract = d
                       /\ heads[d] # Genesis /\ Latest(row).tick <= Latest(heads[d]).tick
      BY <1>4 DEF RowsAreAccepted, HeadNotBehindStore
    <2>1. row \in stored[d] \/ (d = C /\ row = S)
      BY <1>1, <1>4
    <2>2. QED
      BY <1>3, <1>5, <2>1 DEF IInv, Server, RowsAreAccepted, HeadNotBehindStore
  <1>9. ASSUME NEW r \in Sessions PROVE Sound(r)'
    <2>1. Sound(r)
      BY DEF IInv, Server, Recording
    <2>2. Pending(writing[r]) => Pending(writing[r])'
      BY <1>4 DEF Pending
    <2>3. CASE r = s
      <3>1. phase'[s] = "answering" /\ S \in stored'[C] /\ writing'[s] = S
        BY <1>1, <1>2, <1>4
      <3>2. QED
        BY <1>1, <1>2, <1>3, <1>4, <2>2, <2>3, <3>1 DEF Sound, AtWork
    <2>4. CASE r # s
      <3>1. phase'[r] = phase[r] /\ writing[r] # S
        BY <1>1, <1>2, <1>4, <2>4
      <3>2. ASSUME phase[r] \in AtWork
            PROVE writing[r] \in stored'[Latest(writing[r]).contract]
                    <=> writing[r] \in stored[Latest(writing[r]).contract]
        <4>1. PICK w \in Signatures : w = writing[r]
          BY <1>1, <2>1, <3>2 DEF Sound
        <4>2. Latest(w).contract \in Contracts
          BY SignatureFacts
        <4>3. QED
          BY <1>1, <1>4, <3>1, <4>1, <4>2
      <3>3. QED
        BY <1>4, <2>1, <2>2, <3>1, <3>2 DEF Sound, AtWork
    <2>5. QED
      BY <2>3, <2>4
  <1>10. Answered'
    <2>1. StoreKind # "none"
      BY <1>1 DEF IInv, Server, Answered
    <2>2. \A d \in Contracts : stored[d] \subseteq stored'[d]
      BY <1>1, <1>4
    <2>3. \A a \in acked : Latest(a).contract \in Contracts
      BY SignatureFacts DEF IInv, Server, ServerTypes
    <2>4. QED
      BY <1>4, <2>1, <2>2, <2>3 DEF IInv, Server, Answered
  <1>11. ASSUME NEW d \in Contracts PROVE Rowed(d)' = Rowed(d)
    <2>1. \A r \in Sessions : r # s => phase'[r] = phase[r]
      BY <1>1, <1>4
    <2>2. phase'[s] # "writing" /\ phase[s] = "writing" /\ writing[s] = S /\ writing' = writing
      BY <1>1, <1>2, <1>4
    <2>3. stored'[d] = IF d = C THEN stored[d] \cup {S} ELSE stored[d]
      BY <1>1, <1>4
    <2>4. WritingOf(d) = WritingOf(d)' \cup (IF d = C THEN {S} ELSE {})
      BY <1>3, <2>1, <2>2 DEF WritingOf
    <2>5. QED
      BY <2>3, <2>4 DEF Rowed
  <1>12. TicksTell' /\ HeadIsKept'
    BY <1>4, <1>11 DEF IInv, Server, TicksTell, HeadIsKept
  <1>13. ClientTypes'
    BY <1>1, <1>4 DEF IInv, ClientTypes
  <1>14. QED
    BY <1>6, <1>7, <1>8, <1>9, <1>10, <1>12, <1>13 DEF IInv, Server, Recording

LEMMA AnswerInv == ASSUME NEW s \in Sessions, IInv, Answer(s) PROVE IInv'
  <1>1. /\ phase \in [Sessions -> Phases] /\ phase[s] = "answering"
        /\ writing \in [Sessions -> Signatures \cup {Genesis}] /\ acked \in SUBSET Signatures
        /\ writing[s] # Genesis /\ Pending(writing[s])
        /\ \A r \in Sessions \ {s} : writing[r] # writing[s]
        /\ StoreKind = "postgres" => writing[s] \in stored[Latest(writing[s]).contract]
    BY DEF IInv, Server, ServerTypes, Recording, Sound, AtWork, Answer
  <1>2. /\ acked' = acked \cup {writing[s]}
        /\ phase' = [phase EXCEPT ![s] = "reading"] /\ writing' = [writing EXCEPT ![s] = Genesis]
        /\ UNCHANGED <<wire, heads, stored, accepted, mishaps, runtime, outbox, link>>
    BY DEF Answer, client
  <1>3. ServerTypes'
    BY <1>1, <1>2 DEF IInv, Server, ServerTypes, Phases
  <1>4. HeadsAreAccepted' /\ RowsAreAccepted' /\ HeadNotBehindStore' /\ AcceptedInOrder'
    BY <1>2 DEF IInv, Server, HeadsAreAccepted, RowsAreAccepted, HeadNotBehindStore, AcceptedInOrder
  <1>5. ASSUME NEW r \in Sessions PROVE Sound(r)'
    <2>1. Sound(r)
      BY DEF IInv, Server, Recording
    <2>2. CASE r = s
      BY <1>1, <1>2, <2>2 DEF Sound, AtWork
    <2>3. CASE r # s
      <3>1. phase'[r] = phase[r] /\ writing'[r] = writing[r] /\ writing[r] # writing[s]
        BY <1>1, <1>2, <2>3
      <3>2. \A q \in Sessions : writing'[q] = writing[q] \/ writing'[q] = Genesis
        BY <1>1, <1>2
      <3>3. Pending(writing[r]) => Pending(writing[r])'
        BY <1>2, <3>1 DEF Pending
      <3>4. QED
        BY <1>2, <2>1, <3>1, <3>2, <3>3 DEF Sound
    <2>4. QED
      BY <2>2, <2>3
  <1>6. Answered'
    <2>1. acked' \subseteq accepted'
      BY <1>1, <1>2 DEF IInv, Server, Answered, Pending
    <2>2. \A r \in Sessions : phase'[r] = "writing" => phase[r] = "writing"
      BY <1>1, <1>2
    <2>3. QED
      BY <1>1, <1>2, <2>1, <2>2 DEF IInv, Server, Answered
  <1>7. ASSUME NEW d \in Contracts PROVE Rowed(d)' = Rowed(d)
    <2>1. \A r \in Sessions : /\ phase'[r] = "writing" <=> phase[r] = "writing"
                              /\ phase[r] = "writing" => writing'[r] = writing[r]
      BY <1>1, <1>2
    <2>2. WritingOf(d)' = WritingOf(d)
      BY <2>1 DEF WritingOf
    <2>3. QED
      BY <1>2, <2>2 DEF Rowed
  <1>8. TicksTell' /\ HeadIsKept'
    BY <1>2, <1>7 DEF IInv, Server, TicksTell, HeadIsKept
  <1>9. ClientTypes'
    BY <1>1, <1>2 DEF IInv, ClientTypes
  <1>10. QED
    BY <1>3, <1>4, <1>5, <1>6, <1>8, <1>9 DEF IInv, Server, Recording

LEMMA NextInv == IInv /\ [Next]_vars => IInv'
  <1> SUFFICES ASSUME IInv, [Next]_vars PROVE IInv'
    OBVIOUS
  <1>1. CASE UNCHANGED vars
    <2>1. ClientTypes'
      BY <1>1 DEF IInv, ClientTypes, vars, client, server
    <2>2. Server'
      BY <1>1, CalmInv DEF IInv, Server, ServerTypes, Same, vars, client, server, history
    <2>3. QED
      BY <2>1, <2>2 DEF IInv
  <1>2. CASE Next
    BY <1>2, EvaluateInv, CallModelInv, InstallInv, FlushInv, DisconnectInv, RestartClientInv,
       ConnectInv, AcceptInv, RejectInv, RecordInv, AnswerInv, EndInv, BounceInv DEF Next
  <1>3. QED
    BY <1>1, <1>2

-------------------------------------------------------------------------------
LEMMA Invariant == Spec => []IInv
  BY InitInv, NextInv, PTL DEF Spec

\* Queues, heads and rows hold signatures under the contract of their last step, and
\* just the sessions at work on an accepted evaluation hold one.
THEOREM TypeCorrect == Spec => []TypeOK
  <1>1. IInv => TypeOK
    <2> SUFFICES ASSUME IInv PROVE TypeOK
      OBVIOUS
    <2>1. \A sig \in Signatures : IsSignature(sig)
      BY DEF Signatures, IsSignature
    <2>2. /\ runtime.active \in Contracts /\ runtime.tick \in 0..MaxTick
          /\ runtime.chain = Genesis \/ IsSignature(runtime.chain)
          /\ \A i \in 1..Len(outbox) : IsSignature(outbox[i])
          /\ link \in {0} \cup Sessions /\ (link # 0 => phase[link] # "unopened")
      <3>1. /\ runtime.active \in Contracts /\ runtime.tick \in 0..MaxTick
            /\ runtime.chain \in Seq(Step) /\ Len(runtime.chain) <= runtime.tick /\ MaxTick \in Nat
        BY Bounds DEF IInv, ClientTypes
      <3>2. runtime.chain = Genesis \/ IsSignature(runtime.chain)
        <4>1. CASE Len(runtime.chain) = 0
          BY <3>1, <4>1 DEF Genesis
        <4>2. CASE Len(runtime.chain) # 0
          BY <3>1, <4>2, <2>1 DEF Signatures
        <4>3. QED
          BY <4>1, <4>2
      <3>3. \A i \in 1..Len(outbox) : IsSignature(outbox[i])
        BY <2>1 DEF IInv, ClientTypes
      <3>4. QED
        BY <3>1, <3>2, <3>3 DEF IInv, ClientTypes
    <2>3. ASSUME NEW s \in Sessions
          PROVE /\ phase[s] \in Phases
                /\ \A i \in 1..Len(wire[s]) : IsSignature(wire[s][i])
                /\ wire[s] # <<>> => phase[s] \in {"reading", "writing", "answering"}
                /\ IF phase[s] \in {"writing", "answering"} THEN IsSignature(writing[s]) ELSE writing[s] = Genesis
      <3>1. wire[s] \in Seq(Signatures) /\ writing[s] \in Signatures \cup {Genesis}
        BY DEF IInv, Server, ServerTypes
      <3>2. \A i \in 1..Len(wire[s]) : IsSignature(wire[s][i])
        BY <2>1, <3>1
      <3>3. QED
        BY <2>1, <3>1, <3>2 DEF IInv, Server, ServerTypes, Recording, Sound, AtWork
    <2>4. \A c \in Contracts : \A sig \in stored[c] \cup ({heads[c]} \ {Genesis}) :
            IsSignature(sig) /\ Latest(sig).contract = c
      BY <2>1 DEF IInv, Server, ServerTypes, HeadsAreAccepted, RowsAreAccepted
    <2>5. acked \subseteq accepted
      BY DEF IInv, Server, Answered
    <2>6. QED
      BY <2>2, <2>3, <2>4, <2>5 DEF TypeOK, Phases
  <1>2. QED
    BY <1>1, Invariant, PTL

\* An evaluation is accepted only after all those its signature commits to, for any
\* overlap of sessions, any losses and restarts, and either store.
THEOREM NoGap == Spec => []AcceptedInOrder
  <1>1. IInv => AcceptedInOrder
    BY DEF IInv, Server
  <1>2. QED
    BY <1>1, Invariant, PTL

\* However sessions record, no head falls behind the store.
THEOREM Monotone == Spec => []HeadNotBehindStore
  <1>1. IInv => HeadNotBehindStore
    BY DEF IInv, Server
  <1>2. QED
    BY <1>1, Invariant, PTL

LEMMA MirrorHolds == IInv => StoreMirrorsHeads
  <1> SUFFICES ASSUME IInv, StoreKind = "postgres", "unrecorded" \notin mishaps, NEW c \in Contracts,
                      \A s \in Sessions : phase[s] = "writing" => Latest(writing[s]).contract # c
               PROVE Loaded(c) = heads[c]
    BY DEF StoreMirrorsHeads
  <1>1. Rowed(c) = stored[c]
    BY DEF Rowed, WritingOf
  <1>2. stored \in [Contracts -> SUBSET Signatures]
    BY DEF IInv, Server, ServerTypes
  <1>3. CASE stored[c] = {}
    BY <1>1, <1>2, <1>3, LoadedFacts DEF IInv, Server, HeadIsKept
  <1>4. CASE stored[c] # {}
    <2>1. Loaded(c) \in Rowed(c) /\ \A sig \in Rowed(c) : Latest(sig).tick <= Latest(Loaded(c)).tick
      BY <1>1, <1>2, <1>4, LoadedFacts
    <2>2. Latest(Loaded(c)).tick <= Latest(heads[c]).tick /\ heads[c] # Genesis
      BY <2>1, RowedFacts
    <2>3. heads[c] \in Rowed(c)
      BY <2>2 DEF IInv, Server, HeadIsKept
    <2>4. Latest(heads[c]).tick <= Latest(Loaded(c)).tick
      BY <2>1, <2>3
    <2>5. Latest(heads[c]).tick \in Nat /\ Latest(Loaded(c)).tick \in Nat
      BY <2>1, <2>3, RowedFacts
    <2>6. Latest(heads[c]).tick = Latest(Loaded(c)).tick
      BY <2>2, <2>4, <2>5
    <2>7. QED
      BY <2>1, <2>3, <2>6 DEF IInv, Server, TicksTell
  <1>5. QED
    BY <1>3, <1>4

\* While no insert fails, a restart returns the head of every contract of which no
\* evaluation is being written, in whatever order sessions have written.
THEOREM Mirrored == Spec => []StoreMirrorsHeads
  BY MirrorHolds, Invariant, PTL

\* With a store, no evaluation is verified twice, whatever a client sends again and
\* wherever between the check and the reply the server stops.
THEOREM NoReplay == ASSUME StoreKind = "postgres" PROVE Spec => []VerifiedOnce
  <1>1. IInv => VerifiedOnce
    BY DEF IInv, Server, Recording, Sound, AtWork, VerifiedOnce
  <1>2. QED
    BY <1>1, Invariant, PTL
-------------------------------------------------------------------------------
\* An honest client is verified.

\* A signature the client has made on its way to the present chain.
OnChain(sig) ==
    /\ Len(sig) <= Len(runtime.chain)
    /\ \A i \in 1..Len(sig) : sig[i] = runtime.chain[i]

\* Without a mishap there is one chain, of one contract and with growing ticks.  What
\* the server has, what one session has still to read and what is queued are
\* consecutive parts of it.
OneChain ==
    /\ runtime.active = FirstContract
    /\ \A i \in 1..Len(runtime.chain) :
        /\ runtime.chain[i].contract = FirstContract
        /\ runtime.chain[i].tick <= runtime.tick
        /\ \A j \in 1..(i - 1) : runtime.chain[j].tick < runtime.chain[i].tick

InTransit ==
    LET head == heads[FirstContract] IN
    /\ OnChain(head)
    /\ \A j \in 1..Len(outbox) :
        OnChain(outbox[j]) /\ Len(outbox[j]) = Len(runtime.chain) - Len(outbox) + j
    /\ \A s \in Sessions : \A i \in 1..Len(wire[s]) :
        OnChain(wire[s][i]) /\ Len(wire[s][i]) = Len(head) + i
    /\ \A s \in Sessions : wire[s] # <<>> =>
        Len(head) + Len(wire[s]) + Len(outbox) = Len(runtime.chain)
    /\ (\A s \in Sessions : wire[s] = <<>>) => Len(head) + Len(outbox) = Len(runtime.chain)

OneWorker ==
    \A s \in Sessions : Busy(s) =>
        /\ link # 0 => s = link
        /\ \A r \in Sessions : Busy(r) => r = s

Undisturbed == OneChain /\ InTransit /\ OneWorker /\ rejected = {}

HInv == bounces \in 0..MaxBounces /\ (mishaps = {} => Undisturbed)

HonestTypes ==
    /\ runtime.chain \in Seq(Step) /\ runtime.tick \in Nat /\ Len(runtime.chain) \in Nat
    /\ runtime \in [active : Contracts, chain : Seq(Step), tick : 0..MaxTick]
    /\ outbox \in Seq(Signatures) /\ Len(outbox) \in Nat
    /\ link \in {0} \cup Sessions /\ 0 \notin Sessions
    /\ heads[FirstContract] \in Seq(Step) /\ Len(heads[FirstContract]) \in Nat
    /\ wire \in [Sessions -> Seq(Signatures)]
    /\ \A s \in Sessions : wire[s] \in Seq(Signatures) /\ Len(wire[s]) \in Nat

LEMMA HonestTypesHold == IInv => HonestTypes
  <1> SUFFICES ASSUME IInv PROVE HonestTypes
    OBVIOUS
  <1>1. /\ runtime \in [active : Contracts, chain : Seq(Step), tick : 0..MaxTick]
        /\ outbox \in Seq(Signatures) /\ link \in {0} \cup Sessions /\ 0 \notin Sessions
        /\ wire \in [Sessions -> Seq(Signatures)]
        /\ heads[FirstContract] \in Signatures \cup {Genesis}
    BY FirstIsContract, Bounds DEF IInv, ClientTypes, Server, ServerTypes, Sessions
  <1>2. runtime.chain \in Seq(Step) /\ runtime.tick \in Nat /\ Len(runtime.chain) \in Nat
    BY <1>1, Bounds
  <1>3. heads[FirstContract] \in Seq(Step) /\ Len(heads[FirstContract]) \in Nat
    <2>1. Genesis \in Seq(Step) /\ \A sig \in Signatures : sig \in Seq(Step)
      BY DEF Signatures, Genesis
    <2>2. PICK h \in Seq(Step) : h = heads[FirstContract]
      BY <1>1, <2>1
    <2>3. QED
      BY <2>2
  <1>4. \A s \in Sessions : wire[s] \in Seq(Signatures) /\ Len(wire[s]) \in Nat
    BY <1>1
  <1>5. Len(outbox) \in Nat
    BY <1>1
  <1>6. QED
    BY <1>1, <1>2, <1>3, <1>4, <1>5 DEF HonestTypes

LEMMA HonestInit == Init => HInv
  <1> SUFFICES ASSUME Init PROVE HInv
    OBVIOUS
  <1>1. /\ runtime.active = FirstContract /\ Len(runtime.chain) = 0 /\ outbox = <<>> /\ Len(outbox) = 0
        /\ heads[FirstContract] = Genesis /\ Len(Genesis) = 0 /\ stored[FirstContract] = {}
        /\ \A s \in Sessions : wire[s] = <<>> /\ Len(wire[s]) = 0 /\ phase[s] # "writing"
        /\ rejected = {} /\ bounces \in 0..MaxBounces
    BY FirstIsContract, Bounds DEF Init, FreshRuntime, Genesis
  <1>2. OneChain
    BY <1>1 DEF OneChain
  <1>3. OnChain(heads[FirstContract])
    BY <1>1 DEF OnChain
  <1>4. InTransit
    BY <1>1, <1>3 DEF InTransit
  <1>5. OneWorker
    BY <1>1 DEF OneWorker, Busy
  <1>6. QED
    BY <1>1, <1>2, <1>4, <1>5 DEF HInv, Undisturbed

LEMMA HonestEvaluate ==
    ASSUME NEW a \in Actions, IInv, Undisturbed, Evaluate(a) PROVE Undisturbed'
  <1>0. /\ runtime.chain \in Seq(Step) /\ runtime.tick \in Nat /\ Len(runtime.chain) \in Nat
        /\ runtime \in [active : Contracts, chain : Seq(Step), tick : 0..MaxTick]
        /\ outbox \in Seq(Signatures) /\ Len(outbox) \in Nat
        /\ heads[FirstContract] \in Seq(Step) /\ Len(heads[FirstContract]) \in Nat
        /\ \A s \in Sessions : wire[s] \in Seq(Signatures) /\ Len(wire[s]) \in Nat
    BY HonestTypesHold DEF HonestTypes
  <1> DEFINE x == [contract |-> runtime.active, tick |-> runtime.tick + 1, action |-> a]
  <1>1. /\ runtime' = [runtime EXCEPT !.chain = Signed(a), !.tick = runtime.tick + 1]
        /\ outbox' = Append(outbox, Signed(a)) /\ runtime.tick < MaxTick
        /\ UNCHANGED <<link, wire, phase, writing, heads, stored, rejected>>
    BY DEF Evaluate, server, history
  <1>2. x \in Step /\ x.contract = runtime.active /\ x.tick = runtime.tick + 1
    BY <1>0, <1>1, Bounds DEF Step
  <1>3. PICK y \in Step : y = x
    BY <1>2
  <1>4. PICK n \in Nat : n = Len(runtime.chain)
    BY <1>0
  <1>5. Signed(a) = Append(runtime.chain, y)
    BY <1>3 DEF Signed
  <1>6. /\ Signed(a) \in Seq(Step) /\ Len(Signed(a)) = n + 1 /\ Signed(a)[n + 1] = y
        /\ \A i \in 1..n : Signed(a)[i] = runtime.chain[i]
    BY <1>0, <1>4, <1>5
  <1>7. /\ runtime'.chain = Signed(a) /\ runtime'.tick = runtime.tick + 1
        /\ runtime'.active = runtime.active
    BY <1>0, <1>1
  <1>8. y.contract = runtime.active /\ y.tick = runtime.tick + 1
    BY <1>2, <1>3
  <1> HIDE DEF x
  <1>9. OneChain'
    <2>1. /\ runtime.active = FirstContract
          /\ \A i \in 1..n : /\ runtime.chain[i].contract = FirstContract
                             /\ runtime.chain[i].tick <= runtime.tick
                             /\ \A j \in 1..(i - 1) : runtime.chain[j].tick < runtime.chain[i].tick
      BY <1>4 DEF Undisturbed, OneChain
    <2>2. ASSUME NEW i \in 1..n PROVE runtime.chain[i].tick \in Nat
      <3>1. PICK st \in Step : st = runtime.chain[i]
        BY <1>0, <1>4
      <3>2. st.tick \in 1..MaxTick
        BY DEF Step
      <3>3. QED
        BY <3>1, <3>2, Bounds
    <2>3. ASSUME NEW i \in 1..(n + 1)
          PROVE /\ Signed(a)[i].contract = FirstContract
                /\ Signed(a)[i].tick <= runtime.tick + 1
                /\ \A j \in 1..(i - 1) : Signed(a)[j].tick < Signed(a)[i].tick
      <3>1. CASE i = n + 1
        <4>1. \A j \in 1..(i - 1) : Signed(a)[j] = runtime.chain[j] /\ runtime.chain[j].tick < runtime.tick + 1
          BY <1>0, <1>6, <2>1, <2>2, <3>1
        <4>2. Signed(a)[i] = y
          BY <1>6, <3>1
        <4>3. QED
          BY <1>0, <1>8, <2>1, <4>1, <4>2
      <3>2. CASE i # n + 1
        <4>1. i \in 1..n /\ Signed(a)[i] = runtime.chain[i]
          BY <1>6, <3>2
        <4>2. \A j \in 1..(i - 1) : Signed(a)[j] = runtime.chain[j]
          BY <1>6, <4>1
        <4>3. /\ runtime.chain[i].contract = FirstContract
              /\ runtime.chain[i].tick <= runtime.tick + 1
              /\ \A j \in 1..(i - 1) : runtime.chain[j].tick < runtime.chain[i].tick
          BY <1>0, <2>1, <2>2, <4>1
        <4>4. QED
          BY <4>1, <4>2, <4>3, Zenon
      <3>3. QED
        BY <3>1, <3>2
    <2>4. QED
      BY <1>6, <1>7, <2>1, <2>3 DEF OneChain
  <1>10. ASSUME NEW sig, OnChain(sig), Len(sig) \in Nat
         PROVE Len(sig) <= Len(Signed(a)) /\ \A i \in 1..Len(sig) : sig[i] = Signed(a)[i]
    BY <1>0, <1>4, <1>6, <1>10 DEF OnChain
  <1>11. InTransit'
    <2>1. OnChain(heads[FirstContract])'
      BY <1>0, <1>1, <1>7, <1>10 DEF Undisturbed, InTransit, OnChain
    <2>2. ASSUME NEW j \in 1..Len(outbox')
          PROVE OnChain(outbox[j])' /\ Len(outbox'[j]) = Len(Signed(a)) - Len(outbox') + j
      <3>1. Len(outbox') = Len(outbox) + 1 /\ Len(outbox) \in Nat
        BY <1>0, <1>1, <1>5, <1>6
      <3>2. CASE j = Len(outbox')
        <4>1. outbox'[j] = Signed(a)
          BY <1>0, <1>1, <3>1, <3>2
        <4>2. Len(outbox'[j]) = Len(Signed(a)) - Len(outbox') + j
          BY <1>6, <3>1, <3>2, <4>1
        <4>3. OnChain(outbox[j])'
          BY <1>6, <1>7, <4>1 DEF OnChain
        <4>4. QED
          BY <4>2, <4>3
      <3>3. CASE j # Len(outbox')
        <4>1. j \in 1..Len(outbox) /\ outbox'[j] = outbox[j] /\ Len(outbox[j]) \in Nat
          BY <1>0, <1>1, <3>1, <3>3 DEF Signatures
        <4>2. OnChain(outbox[j]) /\ Len(outbox[j]) = n - Len(outbox) + j
          BY <1>4, <4>1 DEF Undisturbed, InTransit
        <4>3. OnChain(outbox[j])'
          BY <1>7, <1>10, <4>1, <4>2, ZenonT(30) DEF OnChain
        <4>4. QED
          BY <1>4, <1>6, <3>1, <4>1, <4>2, <4>3
      <3>4. QED
        BY <3>2, <3>3
    <2>3. ASSUME NEW s \in Sessions, NEW i \in 1..Len(wire[s])
          PROVE OnChain(wire[s][i])' /\ Len(wire[s][i]) = Len(heads[FirstContract]) + i
      <3>1. Len(wire[s][i]) \in Nat
        BY <1>0 DEF Signatures
      <3>2. OnChain(wire[s][i]) /\ Len(wire[s][i]) = Len(heads[FirstContract]) + i
        BY DEF Undisturbed, InTransit
      <3>3. QED
        <4>1. /\ Len(wire[s][i]) <= Len(Signed(a))
              /\ \A k \in 1..Len(wire[s][i]) : wire[s][i][k] = Signed(a)[k]
          BY <1>10, <3>1, <3>2
        <4>2. wire' = wire
          BY <1>1
        <4>3. QED
          BY <1>7, <3>2, <4>1, <4>2 DEF OnChain
    <2>4. Len(outbox') = Len(outbox) + 1 /\ Len(runtime'.chain) = Len(runtime.chain) + 1
      BY <1>0, <1>1, <1>4, <1>6, <1>7
    <2>5. (\A s \in Sessions : wire[s] # <<>> =>
                Len(heads[FirstContract]) + Len(wire[s]) + Len(outbox') = Len(runtime'.chain))
          /\ ((\A s \in Sessions : wire[s] = <<>>) =>
                Len(heads[FirstContract]) + Len(outbox') = Len(runtime'.chain))
      <3>1. /\ \A s \in Sessions : wire[s] # <<>> =>
                    Len(heads[FirstContract]) + Len(wire[s]) + Len(outbox) = Len(runtime.chain)
            /\ (\A s \in Sessions : wire[s] = <<>>) =>
                    Len(heads[FirstContract]) + Len(outbox) = Len(runtime.chain)
        BY DEF Undisturbed, InTransit
      <3>2. PICK l \in Nat, m \in Nat, k \in Nat :
                l = Len(heads[FirstContract]) /\ m = Len(outbox) /\ k = Len(runtime.chain)
        BY <1>0
      <3>3. ASSUME NEW s \in Sessions, wire[s] # <<>>
            PROVE l + Len(wire[s]) + (m + 1) = k + 1
        <4>1. PICK w \in Nat : w = Len(wire[s])
          BY <1>0
        <4>2. l + w + m = k
          BY <3>1, <3>2, <3>3, <4>1
        <4>3. l + w + (m + 1) = k + 1
          BY <4>2
        <4>4. QED
          BY <4>1, <4>3
      <3>4. ASSUME \A s \in Sessions : wire[s] = <<>> PROVE l + (m + 1) = k + 1
        <4>1. l + m = k
          BY <3>1, <3>2, <3>4
        <4>2. QED
          BY <4>1
      <3>5. QED
        BY <2>4, <3>2, <3>3, <3>4
    <2>6. QED
      BY <1>1, <1>7, <2>1, <2>2, <2>3, <2>5 DEF InTransit
  <1>12. OneWorker' /\ rejected' = {}
    BY <1>1 DEF Undisturbed, OneWorker, Busy
  <1>13. QED
    BY <1>9, <1>11, <1>12 DEF Undisturbed

\* A step that leaves chain, queues and head alone, and ends no recording.
LEMMA SameTransit ==
    ASSUME InTransit, UNCHANGED <<outbox, wire, heads>>, runtime'.chain = runtime.chain
    PROVE InTransit'
  <1>1. \A sig : OnChain(sig) <=>
            Len(sig) <= Len(runtime'.chain) /\ \A i \in 1..Len(sig) : sig[i] = runtime'.chain[i]
    BY Zenon DEF OnChain
  <1>2. OnChain(heads[FirstContract])'
    BY <1>1 DEF InTransit, OnChain
  <1>3. ASSUME NEW j \in 1..Len(outbox)
        PROVE OnChain(outbox[j])' /\ Len(outbox[j]) = Len(runtime.chain) - Len(outbox) + j
    <2>1. OnChain(outbox[j]) /\ Len(outbox[j]) = Len(runtime.chain) - Len(outbox) + j
      BY DEF InTransit
    <2>2. QED
      BY <1>1, <2>1 DEF OnChain
  <1>4. ASSUME NEW s \in Sessions, NEW i \in 1..Len(wire[s])
        PROVE OnChain(wire[s][i])' /\ Len(wire[s][i]) = Len(heads[FirstContract]) + i
    <2>1. OnChain(wire[s][i]) /\ Len(wire[s][i]) = Len(heads[FirstContract]) + i
      BY DEF InTransit
    <2>2. QED
      BY <1>1, <2>1 DEF OnChain
  <1>5. QED
    BY <1>2, <1>3, <1>4 DEF InTransit

LEMMA HonestCallModel == ASSUME IInv, Undisturbed, CallModel PROVE Undisturbed'
  <1>1. /\ runtime \in [active : Contracts, chain : Seq(Step), tick : 0..MaxTick]
        /\ runtime.chain \in Seq(Step) /\ runtime.tick \in Nat
    BY HonestTypesHold DEF HonestTypes
  <1>2. /\ runtime'.chain = runtime.chain /\ runtime'.active = runtime.active
        /\ runtime'.tick = runtime.tick + 1
        /\ UNCHANGED <<outbox, link, wire, phase, writing, heads, stored, rejected>>
    BY <1>1 DEF CallModel, server, history
  <1>3. ASSUME NEW i \in 1..Len(runtime.chain) PROVE runtime.chain[i].tick <= runtime.tick + 1
    <2>1. PICK st \in Step : st = runtime.chain[i]
      BY <1>1
    <2>2. st.tick \in Nat
      BY Bounds DEF Step
    <2>3. runtime.chain[i].tick <= runtime.tick
      BY DEF Undisturbed, OneChain
    <2>4. QED
      BY <1>1, <2>1, <2>2, <2>3
  <1>4. OneChain'
    BY <1>2, <1>3 DEF Undisturbed, OneChain
  <1>5. QED
    BY <1>2, <1>4, SameTransit DEF Undisturbed, OneWorker, Busy

LEMMA HonestConnect ==
    ASSUME NEW s \in Sessions, IInv, Undisturbed, Connect(s), mishaps' = {}
    PROVE Undisturbed'
  <1>1. \A r \in Sessions : ~Busy(r)
    BY DEF Connect
  <1>2. phase \in [Sessions -> Phases]
        /\ phase' = [phase EXCEPT ![s] = "reading"]
        /\ UNCHANGED <<runtime, outbox, wire, writing, heads, stored, rejected>>
    BY DEF IInv, Server, ServerTypes, Connect, history
  <1>3. \A r \in Sessions : ~Busy(r)'
    BY <1>1, <1>2 DEF Busy
  <1>4. QED
    BY <1>2, <1>3, SameTransit DEF Undisturbed, OneChain, OneWorker

LEMMA HonestDisconnect ==
    ASSUME NEW kept \in 0..MaxTick, IInv, Undisturbed, Disconnect(kept), mishaps' = {}
    PROVE Undisturbed'
  <1>1. link \in Sessions /\ wire \in [Sessions -> Seq(Signatures)] /\ wire[link] \in Seq(Signatures)
    <2>1. link \in Sessions /\ wire \in [Sessions -> Seq(Signatures)]
      BY HonestTypesHold DEF HonestTypes, Disconnect
    <2>2. QED
      BY <2>1
  <1>2. kept = Len(wire[link])
    <2>1. kept \in 0..Len(wire[link]) /\ ~(kept < Len(wire[link]))
      BY DEF Disconnect
    <2>2. PICK n \in Nat : n = Len(wire[link])
      BY <1>1
    <2>3. QED
      BY <2>1, <2>2
  <1>3. wire' = wire
    <2>1. SubSeq(wire[link], 1, kept) = wire[link]
      BY <1>1, <1>2, SubSeqFull
    <2>2. QED
      BY <1>1, <2>1 DEF Disconnect
  <1>4. UNCHANGED <<runtime, outbox, wire, phase, writing, heads, stored, rejected>> /\ link' = 0
    BY <1>3 DEF Disconnect, history
  <1>5. QED
    BY <1>1, <1>4, SameTransit DEF Undisturbed, OneChain, OneWorker, Busy

LEMMA HonestEnd ==
    ASSUME NEW s \in Sessions, IInv, Undisturbed, EndSession(s), mishaps' = {}
    PROVE Undisturbed'
  <1>1. wire[s] = <<>> /\ wire' = wire /\ phase[s] = "reading" /\ phase' = [phase EXCEPT ![s] = "ended"]
        /\ phase \in [Sessions -> Phases]
        /\ UNCHANGED <<runtime, outbox, link, writing, heads, stored, rejected>>
    <2>1. wire[s] = <<>>
      BY DEF EndSession
    <2>2. wire' = wire
      BY <2>1, HonestTypesHold DEF HonestTypes, EndSession
    <2>3. QED
      BY <2>1, <2>2 DEF IInv, Server, ServerTypes, EndSession, client, history
  <1>2. \A r \in Sessions : Busy(r)' <=> Busy(r)
    BY <1>1 DEF Busy
  <1>3. QED
    BY <1>1, <1>2, SameTransit DEF Undisturbed, OneChain, OneWorker

\* What is read next extends the head.
LEMMA NextVerifies ==
    ASSUME IInv, Undisturbed, NEW s \in Sessions, wire[s] # <<>>
    PROVE /\ OnChain(wire[s][1]) /\ Len(wire[s][1]) = Len(heads[FirstContract]) + 1
          /\ Latest(wire[s][1]).contract = FirstContract
          /\ Head(wire[s]) = wire[s][1] /\ Verifies(wire[s][1])
  <1>1. /\ wire[s] \in Seq(Signatures) /\ Len(wire[s]) \in Nat
        /\ heads[FirstContract] \in Seq(Step) /\ Len(heads[FirstContract]) \in Nat
        /\ runtime.chain \in Seq(Step)
    BY HonestTypesHold DEF HonestTypes
  <1>2. 1 \in 1..Len(wire[s])
    BY <1>1
  <1>3. PICK S \in Signatures : S = wire[s][1] /\ S = Head(wire[s])
    BY <1>1, <1>2
  <1>4. PICK hd \in Seq(Step) : hd = heads[FirstContract]
    BY <1>1
  <1>5. PICK h \in Nat : h = Len(hd)
    OBVIOUS
  <1>6. /\ OnChain(S) /\ Len(S) = h + 1 /\ OnChain(hd) /\ S \in Seq(Step)
    BY <1>2, <1>3, <1>4, <1>5 DEF Undisturbed, InTransit, Signatures
  <1>7. /\ h + 1 <= Len(runtime.chain) /\ Len(runtime.chain) \in Nat
        /\ \A i \in 1..(h + 1) : S[i] = runtime.chain[i]
        /\ \A i \in 1..h : hd[i] = runtime.chain[i]
    BY <1>1, <1>5, <1>6 DEF OnChain
  <1>8. Latest(S) = runtime.chain[h + 1] /\ h + 1 \in 1..Len(runtime.chain) /\ (h > 0 => Latest(hd) = runtime.chain[h])
    BY <1>5, <1>6, <1>7 DEF Latest
  <1>9. Latest(S).contract = FirstContract
    BY <1>8 DEF Undisturbed, OneChain
  <1>10. Prev(S) = hd
    <2>1. Prev(S) \in Seq(Step) /\ Len(Prev(S)) = h
      BY <1>6, SignatureFacts
    <2>2. ASSUME NEW i \in 1..h PROVE Prev(S)[i] = hd[i]
      <3>1. Prev(S) = SubSeq(S, 1, h)
        BY <1>6 DEF Prev
      <3>2. 1 \in Int /\ h \in Int /\ (\A j \in 1..h : S[j] \in Step) /\ i \in 1..(h - 1 + 1) /\ 1 + i - 1 = i
        BY <1>6
      <3>3. \A j \in 1..(h - 1 + 1) : SubSeq(S, 1, h)[j] = S[1 + j - 1]
        BY <3>2, SubSeqProperties
      <3>4. Prev(S)[i] = S[i]
        BY <3>1, <3>2, <3>3
      <3>5. QED
        BY <1>7, <3>4
    <2>3. QED
      BY <1>5, <2>1, <2>2, SeqEqual
  <1>11. hd # Genesis => Latest(S).tick > Latest(hd).tick
    <2> SUFFICES ASSUME hd # Genesis PROVE Latest(S).tick > Latest(hd).tick
      OBVIOUS
    <2>1. h > 0
      BY <1>5 DEF Genesis
    <2>2. h \in 1..(h + 1 - 1) /\ Latest(hd) = runtime.chain[h]
      BY <1>8, <2>1
    <2>3. runtime.chain[h].tick < runtime.chain[h + 1].tick
      BY <1>8, <2>2 DEF Undisturbed, OneChain
    <2>4. PICK s1 \in Step, s2 \in Step : s1 = runtime.chain[h] /\ s2 = runtime.chain[h + 1]
      BY <1>1, <1>7, <1>8, <2>1
    <2>5. s1.tick \in Nat /\ s2.tick \in Nat
      BY Bounds DEF Step
    <2>6. QED
      BY <1>8, <2>2, <2>3, <2>4, <2>5
  <1>12. QED
    BY <1>3, <1>4, <1>5, <1>6, <1>9, <1>10, <1>11 DEF Verifies

LEMMA HonestFlush == ASSUME IInv, Undisturbed, Flush, mishaps' = {} PROVE Undisturbed'
  <1>1. /\ outbox \in Seq(Signatures) /\ link \in Sessions /\ 0 \notin Sessions
        /\ wire \in [Sessions -> Seq(Signatures)] /\ wire[link] \in Seq(Signatures)
        /\ \A s \in Sessions : Len(wire[s]) \in Nat
        /\ Len(heads[FirstContract]) \in Nat /\ Len(runtime.chain) \in Nat
    <2>1. link \in Sessions
      BY HonestTypesHold DEF HonestTypes, Flush
    <2>2. QED
      BY <2>1, HonestTypesHold DEF HonestTypes
  <1>2. /\ wire' = [wire EXCEPT ![link] = wire[link] \o outbox] /\ outbox' = <<>> /\ outbox # <<>>
        /\ UNCHANGED <<runtime, link, phase, writing, heads, stored, rejected>>
    BY DEF Flush, history
  <1>3. PICK w \in Nat, o \in Nat, h \in Nat, n \in Nat :
            w = Len(wire[link]) /\ o = Len(outbox) /\ h = Len(heads[FirstContract]) /\ n = Len(runtime.chain)
    BY <1>1
  <1>4. \A s \in Sessions \ {link} : wire[s] = <<>> /\ phase[s] # "writing"
    BY <1>1 DEF Undisturbed, OneWorker, Busy
  <1>5. h + w + o = n
    <2>1. CASE wire[link] # <<>>
      BY <1>1, <1>3, <2>1 DEF Undisturbed, InTransit
    <2>2. CASE wire[link] = <<>>
      <3>1. h + o = n
        BY <1>1, <1>3, <1>4, <2>2 DEF Undisturbed, InTransit
      <3>2. w = 0
        BY <1>3, <2>2
      <3>3. QED
        BY <3>1, <3>2
    <2>3. QED
      BY <2>1, <2>2
  <1>6. /\ wire'[link] \in Seq(Signatures) /\ Len(wire'[link]) = w + o
        /\ \A i \in 1..(w + o) : wire'[link][i] = IF i <= w THEN wire[link][i] ELSE outbox[i - w]
        /\ \A s \in Sessions \ {link} : wire'[s] = wire[s]
        /\ wire'[link] # <<>> /\ Len(outbox') = 0
    <2>1. wire'[link] = wire[link] \o outbox /\ \A s \in Sessions \ {link} : wire'[s] = wire[s]
      BY <1>1, <1>2
    <2>2. Len(wire[link] \o outbox) = w + o
          /\ wire[link] \o outbox \in Seq(Signatures)
          /\ \A i \in 1..(w + o) : (wire[link] \o outbox)[i] = IF i <= w THEN wire[link][i] ELSE outbox[i - w]
      BY <1>1, <1>3, ConcatProperties
    <2>3. w + o # 0
      BY <1>1, <1>2, <1>3
    <2>4. Len(wire'[link]) # 0 /\ Len(<<>>) = 0
      BY <2>1, <2>2, <2>3
    <2>5. QED
      BY <1>2, <2>1, <2>2, <2>4
  <1>7. ASSUME NEW i \in 1..(w + o)
        PROVE OnChain(wire'[link][i]) /\ Len(wire'[link][i]) = h + i
    <2>1. CASE i <= w
      <3>1. i \in 1..Len(wire[link]) /\ wire'[link][i] = wire[link][i]
        BY <1>3, <1>6, <2>1
      <3>2. QED
        BY <1>1, <1>3, <3>1 DEF Undisturbed, InTransit
    <2>2. CASE ~(i <= w)
      <3>1. PICK j \in 1..o : j = i - w
        BY <2>2
      <3>2. wire'[link][i] = outbox[j] /\ j \in 1..Len(outbox)
        BY <1>3, <1>6, <2>2, <3>1
      <3>3. OnChain(outbox[j]) /\ Len(outbox[j]) = n - o + j
        BY <1>3, <3>2 DEF Undisturbed, InTransit
      <3>4. n - o + j = h + i
        BY <1>5, <3>1
      <3>5. QED
        BY <3>2, <3>3, <3>4
    <2>3. QED
      BY <2>1, <2>2
  <1>8. InTransit'
    <2>1. OnChain(heads[FirstContract])'
      BY <1>2 DEF Undisturbed, InTransit, OnChain
    <2>2. ASSUME NEW s \in Sessions, NEW i \in 1..Len(wire'[s])
          PROVE OnChain(wire[s][i])' /\ Len(wire'[s][i]) = Len(heads'[FirstContract]) + i
      <3>1. s = link
        <4>1. ASSUME s # link PROVE FALSE
          <5>1. wire'[s] = <<>>
            BY <1>4, <1>6, <4>1
          <5>2. Len(wire'[s]) = 0
            BY <5>1
          <5>3. QED
            BY <5>2
        <4>2. QED
          BY <4>1
      <3>2. i \in 1..(w + o)
        BY <1>6, <3>1
      <3>3. OnChain(wire'[link][i]) /\ Len(wire'[link][i]) = h + i
        BY <1>7, <3>2
      <3>4. OnChain(wire[s][i])'
        BY <1>2, <3>1, <3>3 DEF OnChain
      <3>5. QED
        BY <1>2, <1>3, <3>1, <3>3, <3>4
    <2>3. ASSUME NEW s \in Sessions, wire'[s] # <<>>
          PROVE Len(heads'[FirstContract]) + Len(wire'[s]) + Len(outbox') = Len(runtime'.chain)
      <3>1. s = link
        BY <1>4, <1>6, <2>3
      <3>2. h + (w + o) + 0 = n
        BY <1>5
      <3>3. QED
        BY <1>2, <1>3, <1>6, <3>1, <3>2
    <2>4. \A j \in 1..Len(outbox') :
            OnChain(outbox[j])' /\ Len(outbox'[j]) = Len(runtime'.chain) - Len(outbox') + j
      BY <1>6
    <2>5. QED
      BY <1>1, <1>6, <2>1, <2>2, <2>3, <2>4 DEF InTransit
  <1>9. OneWorker'
    BY <1>1, <1>2, <1>4, <1>6 DEF OneWorker, Busy
  <1>10. QED
    BY <1>2, <1>8, <1>9 DEF Undisturbed, OneChain

LEMMA HonestAccept ==
    ASSUME NEW s \in Sessions, IInv, Undisturbed, Accept(s)
    PROVE Undisturbed'
  <1>1. /\ wire \in [Sessions -> Seq(Signatures)] /\ wire[s] \in Seq(Signatures) /\ wire[s] # <<>>
        /\ Len(wire[s]) \in Nat /\ heads[FirstContract] \in Seq(Step)
        /\ Len(heads[FirstContract]) \in Nat /\ Len(outbox) \in Nat /\ Len(runtime.chain) \in Nat
    BY HonestTypesHold DEF HonestTypes, Accept
  <1>2. PICK S \in Signatures : S = wire[s][1]
    <2>1. 1 \in 1..Len(wire[s])
      BY <1>1
    <2>2. QED
      BY <1>1, <2>1
  <1>3. /\ OnChain(S) /\ Len(S) = Len(heads[FirstContract]) + 1
        /\ Latest(S).contract = FirstContract /\ Head(wire[s]) = S
    BY <1>1, <1>2, NextVerifies
  <1>4. /\ wire' = [wire EXCEPT ![s] = Tail(wire[s])]
        /\ heads' = [heads EXCEPT ![FirstContract] = S]
        /\ UNCHANGED <<runtime, outbox, link, stored, rejected>>
        /\ phase' = [phase EXCEPT ![s] = IF StoreKind = "none" THEN "answering" ELSE "writing"]
    BY <1>3 DEF Accept, client
  <1>5. heads'[FirstContract] = S
    BY <1>4, FirstIsContract DEF IInv, Server, ServerTypes
  <1>6. PICK w \in Nat, o \in Nat, h \in Nat, n \in Nat :
            w = Len(wire[s]) /\ o = Len(outbox) /\ h = Len(heads[FirstContract]) /\ n = Len(runtime.chain)
    BY <1>1
  <1>7. /\ \A r \in Sessions \ {s} : wire[r] = <<>> /\ phase[r] # "writing"
        /\ link # 0 => link = s
        /\ phase[s] = "reading"
    BY <1>1 DEF Undisturbed, OneWorker, Busy, Accept
  <1>8. h + w + o = n /\ w # 0
    BY <1>1, <1>6 DEF Undisturbed, InTransit
  <1>9. /\ wire'[s] \in Seq(Signatures) /\ Len(wire'[s]) = w - 1
        /\ \A i \in 1..(w - 1) : wire'[s][i] = wire[s][i + 1]
        /\ \A r \in Sessions \ {s} : wire'[r] = <<>>
    <2>1. wire'[s] = Tail(wire[s]) /\ \A r \in Sessions \ {s} : wire'[r] = wire[r]
      BY <1>1, <1>4
    <2>2. Tail(wire[s]) \in Seq(Signatures) /\ Len(Tail(wire[s])) = w - 1
          /\ \A i \in 1..Len(Tail(wire[s])) : Tail(wire[s])[i] = wire[s][i + 1]
      BY <1>1, <1>6, HeadTailProperties
    <2>3. QED
      BY <1>7, <2>1, <2>2
  <1>10. InTransit'
    <2>1. OnChain(heads[FirstContract])'
      BY <1>3, <1>4, <1>5 DEF OnChain
    <2>2. ASSUME NEW j \in 1..Len(outbox')
          PROVE OnChain(outbox[j])' /\ Len(outbox'[j]) = Len(runtime'.chain) - Len(outbox') + j
      <3>1. outbox' = outbox /\ runtime' = runtime
        BY <1>4
      <3>2. OnChain(outbox[j]) /\ Len(outbox[j]) = Len(runtime.chain) - Len(outbox) + j
        BY <3>1 DEF Undisturbed, InTransit
      <3>3. QED
        BY <3>1, <3>2 DEF OnChain
    <2>3. ASSUME NEW r \in Sessions, NEW i \in 1..Len(wire'[r])
          PROVE OnChain(wire[r][i])' /\ Len(wire'[r][i]) = Len(heads'[FirstContract]) + i
      <3>1. r = s
        <4>1. Len(<<>>) = 0
          OBVIOUS
        <4>2. r # s => FALSE
          BY <1>9, <4>1
        <4>3. QED
          BY <4>2
      <3>2. i \in 1..(w - 1) /\ i + 1 \in 1..Len(wire[s]) /\ wire'[s][i] = wire[s][i + 1]
        BY <1>6, <1>9, <3>1
      <3>3. OnChain(wire[s][i + 1]) /\ Len(wire[s][i + 1]) = h + (i + 1)
        BY <1>6, <3>2 DEF Undisturbed, InTransit
      <3>4. OnChain(wire[r][i])'
        BY <1>4, <3>1, <3>2, <3>3, ZenonT(30) DEF OnChain
      <3>5. h + (i + 1) = (h + 1) + i
        BY <3>2
      <3>6. QED
        BY <1>3, <1>5, <1>6, <3>1, <3>2, <3>3, <3>4, <3>5
    <2>4. (h + 1) + (w - 1) + o = n
      BY <1>8
    <2>5. ASSUME NEW r \in Sessions, wire'[r] # <<>>
          PROVE Len(heads'[FirstContract]) + Len(wire'[r]) + Len(outbox') = Len(runtime'.chain)
      <3>1. r = s
        BY <1>9, <2>5
      <3>2. QED
        BY <1>3, <1>4, <1>5, <1>6, <1>9, <2>4, <3>1
    <2>6. ASSUME \A r \in Sessions : wire'[r] = <<>>
          PROVE Len(heads'[FirstContract]) + Len(outbox') = Len(runtime'.chain)
      <3>1. w - 1 = 0
        <4>1. wire'[s] = <<>> /\ Len(<<>>) = 0
          BY <2>6
        <4>2. QED
          BY <1>9, <4>1
      <3>2. (h + 1) + o = n
        BY <2>4, <3>1
      <3>3. QED
        BY <1>3, <1>4, <1>5, <1>6, <3>2
    <2>7. QED
      BY <2>1, <2>2, <2>3, <2>5, <2>6 DEF InTransit
  <1>11. OneWorker'
    <2>1. \A r \in Sessions \ {s} : ~Busy(r)'
      <3>1. \A r \in Sessions \ {s} : phase'[r] # "writing"
        BY <1>4, <1>7 DEF IInv, Server, ServerTypes
      <3>2. QED
        BY <1>9, <3>1 DEF Busy
    <2>2. QED
      BY <1>4, <1>7, <2>1 DEF OneWorker
  <1>12. QED
    BY <1>4, <1>10, <1>11 DEF Undisturbed, OneChain

\* Recording and answering touch neither the chain nor what is on its way.
LEMMA HonestReply ==
    ASSUME NEW s \in Sessions, IInv, Undisturbed, Record(s) \/ Answer(s)
    PROVE Undisturbed'
  <1>1. /\ phase \in [Sessions -> Phases] /\ phase[s] \in AtWork
        /\ phase' = [phase EXCEPT ![s] = IF phase[s] = "writing" THEN "answering" ELSE "reading"]
        /\ UNCHANGED <<runtime, outbox, link, wire, heads, rejected>>
    BY DEF Record, Answer, client, history, AtWork, IInv, Server, ServerTypes
  <1>2. \A r \in Sessions : Busy(r)' => Busy(r)
    BY <1>1 DEF Busy
  <1>3. OneWorker'
    BY <1>1, <1>2 DEF Undisturbed, OneWorker
  <1>4. QED
    BY <1>1, <1>3, SameTransit DEF Undisturbed, OneChain

\* The store returns the head the server had.
LEMMA HonestBounce ==
    ASSUME StoreKind = "postgres", IInv, Undisturbed, Bounce, mishaps' = {}
    PROVE Undisturbed'
  <1>1. \A s \in Sessions : ~Busy(s)
    BY DEF Bounce
  <1>2. /\ \A s \in Sessions : wire[s] = <<>> /\ phase[s] # "writing"
        /\ wire \in [Sessions -> Seq(Signatures)]
    BY <1>1, HonestTypesHold DEF HonestTypes, Busy
  <1>3. /\ wire' = wire /\ heads' = [c \in Contracts |-> Loaded(c)]
        /\ \A s \in Sessions : phase'[s] # "writing"
        /\ UNCHANGED <<runtime, outbox, link, stored, rejected>>
    <2>1. wire' = [s \in Sessions |-> <<>>] /\ heads' = [c \in Contracts |-> Loaded(c)]
      BY DEF Bounce
    <2>2. wire' = wire
      BY <1>2, <2>1
    <2>3. QED
      BY <2>1, <2>2 DEF Bounce, client, history
  <1>4. heads'[FirstContract] = heads[FirstContract]
    <2>1. "unrecorded" \notin mishaps
      BY DEF Bounce
    <2>2. Loaded(FirstContract) = heads[FirstContract]
      BY <1>2, <2>1, MirrorHolds, FirstIsContract DEF StoreMirrorsHeads
    <2>3. QED
      BY <1>3, <2>2, FirstIsContract
  <1>5. InTransit'
    <2>1. OnChain(heads[FirstContract])'
      BY <1>3, <1>4 DEF Undisturbed, InTransit, OnChain
    <2>2. ASSUME NEW j \in 1..Len(outbox')
          PROVE OnChain(outbox[j])' /\ Len(outbox'[j]) = Len(runtime'.chain) - Len(outbox') + j
      BY <1>3 DEF Undisturbed, InTransit, OnChain
    <2>3. \A s \in Sessions : wire'[s] = <<>> /\ Len(wire'[s]) = 0
      BY <1>2, <1>3
    <2>4. Len(heads'[FirstContract]) + Len(outbox') = Len(runtime'.chain)
      BY <1>2, <1>3, <1>4 DEF Undisturbed, InTransit
    <2>5. \A s \in Sessions : 1..Len(wire'[s]) = {}
      BY <2>3
    <2>6. QED
      BY <2>1, <2>2, <2>3, <2>4, <2>5 DEF InTransit
  <1>6. OneWorker'
    BY <1>2, <1>3 DEF OneWorker, Busy
  <1>7. QED
    BY <1>3, <1>5, <1>6 DEF Undisturbed, OneChain

LEMMA HonestNext ==
    ASSUME StoreKind = "postgres" \/ MaxBounces = 0, IInv, HInv, [Next]_vars
    PROVE HInv'
  <1>1. bounces' \in 0..MaxBounces
    <2>1. bounces \in 0..MaxBounces
      BY DEF HInv
    <2>2. CASE Bounce
      BY <2>1, <2>2, Bounds DEF Bounce
    <2>3. CASE ~Bounce
      <3>1. bounces' = bounces
        BY <2>3, Zenon
        DEF Next, vars, counters, Evaluate, CallModel, Install, Flush, Disconnect, RestartClient,
            Connect, Accept, Reject, Record, RecordFails, Answer, EndSession
      <3>2. QED
        BY <2>1, <3>1
    <2>4. QED
      BY <2>2, <2>3
  <1>2. ASSUME mishaps' = {} PROVE Undisturbed'
    <2>1. mishaps = {}
      BY <1>2
      DEF Next, vars, Evaluate, CallModel, Install, Flush, Disconnect, RestartClient,
          Connect, Accept, Reject, Record, RecordFails, Answer, EndSession, Bounce
    <2>2. Undisturbed
      BY <2>1 DEF HInv
    <2>3. CASE UNCHANGED vars
      BY <2>2, <2>3, SameTransit
      DEF vars, client, server, history, Undisturbed, OneChain, OneWorker, Busy
    <2>4. CASE \E c \in Contracts : Install(c)
      BY <1>2, <2>4 DEF Install
    <2>5. CASE RestartClient
      BY <1>2, <2>5 DEF RestartClient
    <2>6. ASSUME NEW s \in Sessions, RecordFails(s) PROVE FALSE
      BY <1>2, <2>6 DEF RecordFails
    <2>7. ASSUME NEW s \in Sessions, Reject(s) PROVE FALSE
      <3>1. wire[s] # <<>> /\ ~Verifies(Head(wire[s]))
        BY <2>7 DEF Reject
      <3>2. QED
        BY <2>2, <3>1, NextVerifies
    <2>8. CASE Bounce
      <3>1. MaxBounces # 0
        BY <2>8, Bounds DEF Bounce, HInv
      <3>2. QED
        BY <1>2, <2>2, <2>8, <3>1, HonestBounce
    <2>9. QED
      BY <1>2, <2>2, <2>3, <2>4, <2>5, <2>6, <2>7, <2>8, HonestEvaluate, HonestCallModel,
         HonestFlush, HonestDisconnect, HonestConnect, HonestAccept, HonestReply, HonestEnd DEF Next
  <1>3. QED
    BY <1>1, <1>2 DEF HInv

\* With a store, or as long as the server is not restarted without one, an honest
\* client is rejected only after a mishap around its chain.
THEOREM HonestIsVerified ==
    ASSUME StoreKind = "postgres" \/ MaxBounces = 0
    PROVE Spec => []RejectionNeedsMishap
  <1>1. Init => IInv /\ HInv
    BY InitInv, HonestInit
  <1>2. IInv /\ HInv /\ [Next]_vars => (IInv /\ HInv)'
    BY NextInv, HonestNext
  <1>3. IInv /\ HInv => RejectionNeedsMishap
    BY DEF HInv, Undisturbed, RejectionNeedsMishap
  <1>4. QED
    BY <1>1, <1>2, <1>3, PTL DEF Spec
===============================================================================
