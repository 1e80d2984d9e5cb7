------------------------------- MODULE EvalChain -------------------------------
(***************************************************************************)
(* The signed evaluation chain of one player, end to end: the client's     *)
(* ContractRuntime signs and queues evaluations, sessions carry them (an   *)
(* old one still being read while a new one is open), VerifyService checks *)
(* each against the head of its contract, and the eval store, if there is  *)
(* one, records what was accepted and reloads the heads after a bounce.    *)
(***************************************************************************)
EXTENDS Naturals, Sequences

CONSTANTS
    Contracts,         \* contract ids
    FirstContract,     \* the contract installed at startup
    Actions,           \* actions a rule may fire
    StoreKind,         \* the EvalStore: "none" (as AppState wires it) or "postgres"
    TableHasPlayer,    \* eval_signatures has the player_id column PgEvalStore names,
                       \* which the repository's own migrations do not create
    MaxTick,           \* bound: evaluations and calls of one client process
    MaxSessions,       \* bound: sessions the player opens
    MaxBounces,        \* bound: server restarts
    MaxClientRestarts, \* bound: client restarts
    MaxInstalls        \* bound: changes of the active contract

ASSUME FirstIsContract == FirstContract \in Contracts
ASSUME StoreKinds == StoreKind \in {"none", "postgres"}
ASSUME Tables == TableHasPlayer \in BOOLEAN
ASSUME Bounds == /\ MaxTick \in Nat /\ MaxSessions \in Nat /\ MaxBounces \in Nat
                 /\ MaxClientRestarts \in Nat /\ MaxInstalls \in Nat

Sessions == 1..MaxSessions

\* SHA-256 is taken as injective: a signature is the list of the
\* (contract, tick, action) steps it hashes, back to the empty string.  It
\* then is the evaluation too: the last step is what it submits, the rest
\* its prev_signature.
Step == [contract : Contracts, tick : 1..MaxTick, action : Actions]
Genesis == <<>>
IsSignature(sig) == Len(sig) \in 1..MaxTick /\ \A i \in 1..Len(sig) : sig[i] \in Step
Latest(sig) == sig[Len(sig)]
Prev(sig) == SubSeq(sig, 1, Len(sig) - 1)

VARIABLES
    runtime,  \* client: ContractRuntime's active contract, chain and tick counter
    outbox,   \* client: NetOutbox
    link,     \* client: the session its transport belongs to, 0 when it has none
    wire,     \* evaluations sent over each session and not read yet
    phase,    \* what each session's server task is doing
    writing,  \* the accepted evaluation a session is recording or answering
    heads,    \* VerifyService.last
    stored,   \* rows of eval_signatures, per contract
    accepted, \* history: every evaluation accepted
    acked,    \* history: every evaluation answered EvalVerified
    rejected, \* history: every evaluation answered EvalRejected
    mishaps,  \* history: what has gone wrong around the chain
    bounces, clientRestarts, installs

client == <<runtime, outbox, link>>
server == <<wire, phase, writing, heads, stored>>
history == <<accepted, acked, rejected>>
counters == <<bounces, clientRestarts, installs>>
vars == <<client, server, history, mishaps, counters>>

\* load_heads panics where its query fails, and the server does not come up.
Boots == StoreKind = "none" \/ TableHasPlayer

FreshRuntime == [active |-> FirstContract, chain |-> Genesis, tick |-> 0]

Init ==
    /\ runtime = FreshRuntime
    /\ outbox = <<>>
    /\ link = 0
    /\ wire = [s \in Sessions |-> <<>>]
    /\ phase = [s \in Sessions |-> IF Boots THEN "unopened" ELSE "ended"]
    /\ writing = [s \in Sessions |-> Genesis]
    /\ heads = [c \in Contracts |-> Genesis]
    /\ stored = [c \in Contracts |-> {}]
    /\ accepted = {} /\ acked = {} /\ rejected = {} /\ mishaps = {}
    /\ bounces = 0 /\ clientRestarts = 0 /\ installs = 0

-------------------------------------------------------------------------------
\* The client.

\* sign_eval: the next link of the one chain this process keeps.
Signed(a) ==
    Append(runtime.chain, [contract |-> runtime.active, tick |-> runtime.tick + 1,
                           action |-> a])

\* A rule fires, or a model's answer is classified: sign the action and queue it,
\* connected or not.
Evaluate(a) ==
    /\ runtime.tick < MaxTick
    /\ runtime' = [runtime EXCEPT !.chain = Signed(a), !.tick = @ + 1]
    /\ outbox' = Append(outbox, Signed(a))
    /\ UNCHANGED <<link, server, history, mishaps, counters>>

\* An uncovered evaluation while connected: its LLM call uses up a tick.
CallModel ==
    /\ link # 0
    /\ runtime.tick < MaxTick
    /\ runtime' = [runtime EXCEPT !.tick = @ + 1]
    /\ UNCHANGED <<outbox, link, server, history, mishaps, counters>>

\* ContractRuntime::install makes another contract the active one; the chain
\* goes on.
Install(c) ==
    /\ installs < MaxInstalls
    /\ c # runtime.active
    /\ runtime' = [runtime EXCEPT !.active = c]
    /\ installs' = installs + 1
    /\ mishaps' = mishaps \cup {"switch"}
    /\ UNCHANGED <<outbox, link, server, history, bounces, clientRestarts>>

\* A session has still to read, or to record, what its transport carried.
Busy(s) == phase[s] = "writing" \/ wire[s] # <<>>

\* The transport opens: the server starts a session for it.
Connect(s) ==
    /\ link = 0
    /\ phase[s] = "unopened"
    /\ \A r \in Sessions : phase[r] = "unopened" => s <= r
    /\ link' = s
    /\ phase' = [phase EXCEPT ![s] = "reading"]
    /\ mishaps' = IF \E r \in Sessions : Busy(r) THEN mishaps \cup {"overlap"} ELSE mishaps
    /\ UNCHANGED <<runtime, outbox, wire, writing, heads, stored, history, counters>>

\* poll_network drains the outbox into the transport.  Nothing tells it that
\* the session at the other end is gone.
Flush ==
    /\ link # 0
    /\ outbox # <<>>
    /\ outbox' = <<>>
    /\ IF phase[link] = "ended"
       THEN wire' = wire /\ mishaps' = mishaps \cup {"loss"}
       ELSE wire' = [wire EXCEPT ![link] = @ \o outbox] /\ mishaps' = mishaps
    /\ UNCHANGED <<runtime, link, phase, writing, heads, stored, history, counters>>

\* The transport fails and is dropped: of what it carried, a suffix is lost.
\* What arrived is still read by the session.
Disconnect(kept) ==
    /\ link # 0
    /\ kept \in 0..Len(wire[link])
    /\ link' = 0
    /\ wire' = [wire EXCEPT ![link] = SubSeq(@, 1, kept)]
    /\ mishaps' = IF kept < Len(wire[link]) THEN mishaps \cup {"loss"} ELSE mishaps
    /\ UNCHANGED <<runtime, outbox, phase, writing, heads, stored, history, counters>>

\* The client process starts again, with ContractRuntime::default().
RestartClient ==
    /\ clientRestarts < MaxClientRestarts
    /\ clientRestarts' = clientRestarts + 1
    /\ runtime' = FreshRuntime
    /\ outbox' = <<>>
    /\ link' = 0
    /\ mishaps' = mishaps \cup {"client_restart"}
    /\ UNCHANGED <<server, history, bounces, installs>>

-------------------------------------------------------------------------------
\* The server.

\* A mutant: the tick is compared, the previous signature is not.
VerifiesTickOnly(sig) ==
    LET head == heads[Latest(sig).contract] IN
    head # Genesis => Latest(sig).tick > Latest(head).tick

\* VerifyService::submit, up to the end of its critical section.
Verifies(sig) ==
    LET head == heads[Latest(sig).contract] IN
    /\ head # Genesis => Latest(sig).tick > Latest(head).tick
    /\ Prev(sig) = head

Accept(s) ==
    LET sig == Head(wire[s]) IN
    /\ phase[s] = "reading" /\ wire[s] # <<>>
    /\ Verifies(sig)
    /\ wire' = [wire EXCEPT ![s] = Tail(@)]
    /\ heads' = [heads EXCEPT ![Latest(sig).contract] = sig]
    /\ accepted' = accepted \cup {sig}
    /\ phase' = [phase EXCEPT ![s] = IF StoreKind = "none" THEN "answering" ELSE "writing"]
    /\ writing' = [writing EXCEPT ![s] = sig]
    /\ UNCHANGED <<client, stored, acked, rejected, mishaps, counters>>

Reject(s) ==
    /\ phase[s] = "reading" /\ wire[s] # <<>>
    /\ ~Verifies(Head(wire[s]))
    /\ wire' = [wire EXCEPT ![s] = Tail(@)]
    /\ rejected' = rejected \cup {Head(wire[s])}
    /\ UNCHANGED <<client, phase, writing, heads, stored, accepted, acked, mishaps, counters>>

\* A mutant: one row per contract, overwritten.
WithRowOverwritten(sig) == [stored EXCEPT ![Latest(sig).contract] = {sig}]

\* record_accepted appends the row of an evaluation.
WithRow(sig) == [stored EXCEPT ![Latest(sig).contract] = @ \cup {sig}]

\* record_accepted commits the row, outside the lock.
Record(s) ==
    /\ phase[s] = "writing"
    /\ TableHasPlayer
    /\ stored' = WithRow(writing[s])
    /\ phase' = [phase EXCEPT ![s] = "answering"]
    /\ UNCHANGED <<client, wire, writing, heads, history, mishaps, counters>>

\* submit has returned Accepted: EvalVerified is sent.
Answer(s) ==
    /\ phase[s] = "answering"
    /\ acked' = acked \cup {writing[s]}
    /\ phase' = [phase EXCEPT ![s] = "reading"]
    /\ writing' = [writing EXCEPT ![s] = Genesis]
    /\ UNCHANGED <<client, wire, heads, stored, accepted, rejected, mishaps, counters>>

\* The insert fails: the expect panics the session task, and the head in
\* memory stays where it is.
RecordFails(s) ==
    /\ phase[s] = "writing"
    /\ phase' = [phase EXCEPT ![s] = "ended"]
    /\ writing' = [writing EXCEPT ![s] = Genesis]
    /\ wire' = [wire EXCEPT ![s] = <<>>]
    /\ mishaps' = mishaps \cup {"unrecorded"}
    /\ UNCHANGED <<client, heads, stored, history, counters>>

\* The session's read loop ends (heartbeat, dead writer, closed socket): what
\* it had not read is never read.
EndSession(s) ==
    /\ phase[s] = "reading"
    /\ phase' = [phase EXCEPT ![s] = "ended"]
    /\ wire' = [wire EXCEPT ![s] = <<>>]
    /\ mishaps' = IF wire[s] # <<>> THEN mishaps \cup {"loss"} ELSE mishaps
    /\ UNCHANGED <<client, writing, heads, stored, history, counters>>

\* Mutants: the heads are not reloaded; the oldest row is taken; the rows are
\* not told apart by contract.
LoadedNothing(c) == Genesis
LoadedOldest(c) ==
    IF stored[c] = {} THEN Genesis
    ELSE CHOOSE sig \in stored[c] :
            \A other \in stored[c] : Latest(other).tick >= Latest(sig).tick
LoadedOfAnyContract(c) ==
    IF UNION {stored[d] : d \in Contracts} = {} THEN Genesis
    ELSE CHOOSE sig \in UNION {stored[d] : d \in Contracts} : TRUE

\* load_heads: the row with the greatest tick of each contract.
Loaded(c) ==
    IF stored[c] = {} THEN Genesis
    ELSE CHOOSE sig \in stored[c] :
            \A other \in stored[c] : Latest(other).tick <= Latest(sig).tick

\* The server process stops, at any point, and starts again: with_heads over
\* the store's heads, or VerifyService::default() when there is no store.
Bounce ==
    /\ bounces < MaxBounces
    /\ bounces' = bounces + 1
    /\ heads' = [c \in Contracts |-> IF StoreKind = "none" THEN Genesis ELSE Loaded(c)]
    /\ phase' = [s \in Sessions |-> IF phase[s] = "unopened" THEN "unopened" ELSE "ended"]
    /\ wire' = [s \in Sessions |-> <<>>]
    /\ writing' = [s \in Sessions |-> Genesis]
    /\ mishaps' = IF \E s \in Sessions : Busy(s) THEN mishaps \cup {"loss"} ELSE mishaps
    /\ UNCHANGED <<client, stored, history, clientRestarts, installs>>

-------------------------------------------------------------------------------
Next ==
    \/ \E a \in Actions : Evaluate(a)
    \/ CallModel
    \/ \E c \in Contracts : Install(c)
    \/ Flush
    \/ \E kept \in 0..MaxTick : Disconnect(kept)
    \/ RestartClient
    \/ \E s \in Sessions :
        \/ Connect(s)
        \/ Accept(s)
        \/ Reject(s)
        \/ Record(s)
        \/ RecordFails(s)
        \/ Answer(s)
        \/ EndSession(s)
    \/ Bounce

Spec == Init /\ [][Next]_vars

-------------------------------------------------------------------------------
\* Every queue, head and row holds signatures of the steps its chain commits
\* to, filed under the contract of their last step, and exactly the sessions at
\* work on an accepted evaluation hold one.
TypeOK ==
    /\ runtime.active \in Contracts
    /\ runtime.tick \in 0..MaxTick
    /\ runtime.chain = Genesis \/ IsSignature(runtime.chain)
    /\ \A i \in 1..Len(outbox) : IsSignature(outbox[i])
    /\ link \in {0} \cup Sessions
    /\ \A s \in Sessions :
        /\ phase[s] \in {"unopened", "reading", "writing", "answering", "ended"}
        /\ \A i \in 1..Len(wire[s]) : IsSignature(wire[s][i])
        /\ wire[s] # <<>> => phase[s] \in {"reading", "writing", "answering"}
        /\ IF phase[s] \in {"writing", "answering"} THEN IsSignature(writing[s]) ELSE writing[s] = Genesis
    /\ \A c \in Contracts : \A sig \in stored[c] \cup ({heads[c]} \ {Genesis}) :
        IsSignature(sig) /\ Latest(sig).contract = c
    /\ link # 0 => phase[link] # "unopened"
    /\ acked \subseteq accepted

\* The accepted evaluations leave no gap: one is accepted only after every
\* evaluation its signature commits to, across overlapping sessions, losses,
\* restarts of the client and bounces of the server (signature.rs: "replays
\* and reorderings both break verification").
AcceptedInOrder ==
    \A sig \in accepted : \A n \in 1..(Len(sig) - 1) : SubSeq(sig, 1, n) \in accepted

\* The store mirrors the heads (verify.rs: "mirrored to durable storage so a
\* restart doesn't break an in-flight chain").  Heads advance under the lock and
\* rows are inserted outside it, by several sessions in any order: still, once no
\* session is writing a contract's evaluation, a restart returns just the head
\* the server has, unless an insert has failed after its head had advanced.
StoreMirrorsHeads ==
    StoreKind = "postgres" /\ "unrecorded" \notin mishaps =>
        \A c \in Contracts :
            (\A s \in Sessions : phase[s] = "writing" => Latest(writing[s]).contract # c)
                => Loaded(c) = heads[c]

\* No evaluation is verified twice where there is a store, whatever is sent again
\* after a bounce, also one between the insert and the reply, or by a client
\* that starts its chain over and fires the same actions.
VerifiedOnce ==
    \A s \in Sessions : phase[s] \in {"writing", "answering"} =>
        /\ writing[s] \notin acked
        /\ \A r \in Sessions \ {s} : writing[r] # writing[s]

\* The head in memory is never behind the store, although sessions record
\* outside the lock and in any order: a stale head would accept an old link.
HeadNotBehindStore ==
    \A c \in Contracts : \A sig \in stored[c] :
        heads[c] # Genesis /\ Latest(sig).tick <= Latest(heads[c]).tick

\* An honest client is rejected only after a mishap around its chain: a
\* reconnect or a server bounce with nothing in flight breaks no chain
\* (docs/sprints/S49-postgres-store-wiring.md: "submit evals -> restart server
\* -> next eval still verifies").
RejectionNeedsMishap == rejected # {} => mishaps # {}
===============================================================================
