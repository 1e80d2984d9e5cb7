# Reachlock: TLA+ models, model checks and proofs

This directory verifies the parts of Reachlock in which several actors share
state: the server's stores and session tasks, the client's link to the server,
and the protocols that run between them. Paths below are relative to `src/`;
`server` stands for `reachlock-server/src`, `client` for `reachlock-client/src`
and `core` for `reachlock-core/src`.

Contents: [inventory](#inventory), [modules](#modules-and-their-code),
[runs and bounds](#runs-and-bounds), [fairness](#fairness),
[proofs](#proofs), [findings](#findings),
[what is left out](#what-is-not-modelled), [plan](#plan),
[how to run](#running-the-checks).

## Inventory

Reachlock is a space game. A client (Bevy) simulates ship, crew and a universe
of its own and plays offline; online it keeps one WebSocket to a server (axum,
tokio), which owns what players share. `reachlock-core` is a library of pure
types and functions used by both.

| Part | State | Operations | Correct when |
|---|---|---|---|
| Seed ledger, `server/services/seed.rs` | one entry per (universe, system): seed, discoverer, diffs | `discover`, `modify`; from sessions and from HTTP routes | the first discoverer's seed is canonical for everyone and for ever; the credit goes to one player |
| Evaluation chain, `server/services/{verify,eval}.rs`, `core/contract/signature.rs`, `client/systems/contract.rs` | client: active contract, chain, tick; server: head per (player, contract), rows of accepted evaluations | sign, queue, submit, record, reload at boot | what is accepted has no gap and survives the server; an honest client is not rejected |
| Sessions, presence, voice, `server/ws/{handler,mod}.rs`, `server/services/voice.rs` | per session its current system; senders per system; voice room per system; sender per player | open, discover, position, chat, voice signal, close | a session is registered exactly where it is; peers learn of arrivals and departures |
| Network link, `client/systems/{network,jump}.rs`, `client/net/*`, `server/ws/handler.rs` | connection state, transport, outbox, adopted seed; session's read loop and heartbeat | connect, poll, flush, back off, arrive, time out | a lost link comes back; the client ends with the canonical seed of the system it is in |
| LLM proxy, `server/services/{llm_proxy,limiter,quota,cost}.rs` | token bucket and call counter per (player, universe), provider health | `route`: gate, limiter, quota, provider, records | calls in flight and the quota's overshoot are bounded; refusals cost nothing; the breaker follows the provider |
| Providers, BYOK, `server/services/{providers,byok}.rs` | keys at rest | HTTP requests, encryption | – |
| Client deliberation, `client/systems/{contract,jump,combat,deliberation_renderer,dialogue,network}.rs` | one `DeliberationState` slot, timer, call id | open, tick, answer, expire, override, clear | every deliberation ends once, with its own answer or fallback |
| Crew conference, `core/contract/co_deliberation.rs`, `client/systems/comms.rs` | one session: positions, regards, history, resolution | call, take a turn, override, conclude | every conference ends by its third round; nobody's proposal is lost on the way |
| Universe tick, `server/services/tick.rs`, `server/ws/handler.rs`, `client/systems/ticker.rs` | the server's universe and its snapshot; a forwarder per session; the client's universe | tick, broadcast, snapshot, restart; replay, tick offline | a session's client replays the server's ticks once each and in order; a restart rewinds by less than a period |
| Accounts, `server/services/auth.rs` | players, two indexes and one-time tokens behind several mutexes; configuration behind an RwLock | register, log in, verify, reset, sign in by a provider | names and e-mails are unique and lead to their player; the lockout cannot be raced past; requests are answered |
| Billing, `server/services/billing.rs`, `server/ws/mod.rs` | processed webhooks, subscriptions | webhook, checkout | each event takes effect once |
| Contract library and sync, `server/services/{library,contracts}.rs` | shared and per-player contracts | list, search, publish, sync | the last sync of a player wins |
| Redis and session stores, administration, metrics, start-up | counters, wrappers | – | – |
| Contract engine, `core/contract/*` | none: pure | evaluate rules, validate | first matching rule, in priority order |
| Simulation core and generators, `core/*` | none: pure | economy, crises, crew, generation | deterministic |
| Client gameplay, interface, presence rendering | Bevy components | – | remote ships match presence |

How they interact. Every WebSocket has a session task that reads, a writer task
that owns the sink, and a forwarder that copies the server's broadcast channel
to the writer. Session tasks call stores synchronously (`discover`, and `submit`,
although the note above it asks for `spawn_blocking` where a store is attached), or in
tasks of their own (`LlmCall`, `ContractSync`), and share `PresenceManager` and the registry of player senders
through `tokio` RwLocks. The client runs systems once per frame:
`poll_network` drains the transport and flushes `NetOutbox`, the other systems
only push to the outbox or read what was adopted.

What is hard in it: critical sections that are several where one was meant
(presence, records after the check), guards held over an `await` (broadcast),
two sessions of one player at a reconnect, a store write outside the lock that
ordered it, a socket that dies silently, a server that restarts, a timeout
against a late answer, two mutexes taken in either order, a channel that lags. `PROJECT.json` lists the hazards one by one, at their
lines, with the properties that cover them.

## Modules and their code

### `CanonicalSeeds` and `SeedLedger`

`CanonicalSeeds` is what the ledger promises: a write-once register of seeds
with a credit to hand out at most once (`Claim`, `Tell`, `LoseCredit`).
`SeedLedger` is the code. `rows` is the map or the table; `call[c]` is one
caller's `discover`, with its arguments and how far it got.

| Action | Code |
|---|---|
| `Discover` | `route` (SeedDiscover) or the HTTP route enters `discover` |
| `Insert` | the `None` arm under the mutex; `INSERT ... RETURNING` that returned a row |
| `FindLocked` | the `Some` arm of `MemorySeedStore::discover` |
| `Conflict`, `Select` | Postgres: `ON CONFLICT DO NOTHING` returned nothing; a second statement reads the row |
| `Deliver` | the answer reaches the caller |
| `Fail` | the caller dies between statements, or before its answer is used |
| `Modify` | `modify` and `merge_diffs` |

The backend is chosen in `Init`, so one specification covers both stores. `Fail`
is possible for the memory store only once the answer is computed: before that
the caller holds the mutex and has no await. Diffs are JSON objects
told apart by their keys; a diff that is no object (the wire accepts one) would
replace or be concatenated, and is listed as a hazard.

The refinement maps a row without its diffs to the canonical entry, the credits
still waiting in a `reply` to `owed`, and the history of answers to `told`.
`Deliver` implements `Tell`, `Insert` implements `Claim`, `Fail` of a credited
answer implements `LoseCredit`, all else stutters.

### `EvalChain`

One player, all contracts, client and server. A signature is taken as injective:
it *is* the list of steps it hashes, so `Prev` and `Latest` are its parts, and
comparing `prev_signature` with the head's signature is comparing sequences.
`runtime` is `ContractRuntime`, `heads` `VerifyService.last`, `stored` the table
`eval_signatures`.

The client evaluates (`Evaluate`: a rule's action, or a model's answer), spends a
tick on an LLM call (`CallModel`: the call id and the chain draw from one
counter), installs a contract, connects, flushes, loses its transport, restarts.
The server accepts or rejects the next message of a session (the critical
section of `submit`), inserts the row of an accepted one outside the lock
(`Record`, `RecordFails`), answers (`Answer`), ends a session, and stops and boots
again (`Bounce`), also between any two of these.
A session reads on after its client has opened another one: `Connect` does not
end the old session, which is what happens when a socket breaks with messages in
flight. `mishaps` is a history variable: what has gone wrong around the chain
so far (a loss, an overlap, a switch of contract, a client restart, an
unrecorded acceptance).

`StoreKind` is `"none"` (as `AppState` wires it) or `"postgres"` (as
`with_heads` is meant to be used). The invariants about the store are
checked of the latter, the wiring of the former in run `eval_bounce`. Nothing
constructs `PgEvalStore`, and as written it would not work: its statements name a column
`player_id` of `eval_signatures`, which no migration creates
(`reachlock-server/migrations/0001_init.sql:83-93` has `character_id`, not null). `TableHasPlayer` says
whether the table has the column. The runs give it as TRUE, the store as it is meant;
with FALSE and a store, `load_heads` panics at boot and the model's server never opens a
session (`Boots`), so that there is nothing to check. The theorems cover both.

### `Presence`

Session tasks as small programs with a `phase`: `handle` opens a session and
registers its sender, `route` moves it between systems in four critical
sections (leave, broadcast, join, broadcast), chats, and relays voice signals;
the clean-up after the read loop leaves for good. `members` is
`PresenceManager.by_system`, `rooms` the voice rooms, `senders` the registry.

A broadcast holds the presence read lock over all its `send().await`s: it is a
phase with `todo`, the receivers still to be served, and while it lasts no
session can `Leave` or `Enter` (`PresenceLocked`). A relayed voice signal holds
the registry's read lock in the same way (`SendersLocked`), and `Open` and
`Close` wait for it. A `send` completes in finite time: the channel's bound is
not modelled, so that a peer who never reads is out of the model.
`view` is a history variable, the peers each session was told of.

Presence is keyed by a pair of universe and system. A session has a universe
(`UniverseOf`: that of its token, which "is authoritative", `server/ws/session.rs:47`, or
of its query), and chat, positions and the clean-up go by it. `route` handles a
`SeedDiscover` under the universe that the message names and never compares the two
(`within`; `Named` is what a session's messages may name). `MembersAreCurrent`,
`NoGhostPeer` and `LaterArrivalsKnown` promise what the code keeps: in full for a session
that is `Steady`, whose messages name its own universe; of a stray one, that it is
registered where it is as long as it is open, and that it never makes a steady session's
entry or departure wrong. That a stray stays registered after it has closed is a
[finding](#findings). The repository's client names one universe throughout, the one its
`?player=&universe=` handshake carries (`client/net/mode.rs:16`,
`client/net/transport.rs:82`); a token of another universe would make it a stray.

### `Link`

One client and all sockets it opens, each with its two directions (`up`,
`down`), its session task and whether the network has cut it. `Poll` is
`poll_network` as a whole: it handles some prefix of what has arrived (all that
the transport has buffered; the rest arrives later), sends the current location
if the link opened, flushes the outbox if connected, drops the transport if it
was lost. `Arrive` is the end of a jump in `hyperspace_tick` (to another system: one to the
current system would only send again what the link says already), `Reconnect` the
backoff timer running out, `Serve` the session's `SeedDiscover`, `TimeOut` its
heartbeat, `EndSession` the end of a broken stream. `OtherDiscovers` stands for
all other players. The ledger appears here as its abstraction, a write-once
`canon`.

`AdoptedAfter` handles the answers among the polled events one by one, so that the
last one stays: `Only(events, Answers)`, of the module `Filters`, is what
`SelectSeq` would give. A cut delivers a prefix of each direction and then the error. A session that
has timed out is `"deaf"`: it reads nothing and has no system, and its socket
stays open. Of `SeedState` only `adopted` is kept; the attribution
(`KnownSystems`, the discovery log, notifications, career progress) is left out.

### `LlmService`

`route` in two halves: up to the request (`RateLimited`, `Exhausted`, `Start`)
and from the answer on (`Finish`). Time is in ticks and so is the bucket: a
token is worth `Refill` ticks, exact where the code uses floats. Calls in
flight are counted by age; `Tick` cannot pass while a call is as old as the
timeout. `Finish` samples the health, or, if another call of the server holds
its lock at that moment (`try_lock`), does not. Left out: the contents of the
request (fatigue prompt, token limit), the cost log and the metrics, which
nothing reads back. Not in the code: a reset of the monthly counters, which only
grow, and any caller of `is_tripped`, so that the samples of the health, which
`route` inverts (`server/services/llm_proxy.rs:274`), decide nothing.

### `Deliberation`

The client has one slot for somebody who is thinking, and six systems write it.
`slot` is `DeliberationState.active`, numbered; `past` is a history variable
that keeps for every deliberation how it ended and whose answer ended it.

| Action | Code |
|---|---|
| `Signal`, `Fuel` | the ship's key and its tank (`ship.rs`) |
| `Evaluate` | `evaluate_contracts` when its timer is due; opens the slot, online with a call |
| `Expire` | `tick_deliberation` and `resolve_timeout` |
| `Control` | `damage_control` when its timer is due: lands a repair, opens the slot, fights a lone fire at once |
| `GateJump`, `SelfJump` | `try_gate_jump` or the cryo jump's `jump_clock`; `self_jump` |
| `Anomaly`, `Arrive` | the two places of `hyperspace_tick` that overwrite the slot |
| `Show`, `Dismiss`, `Override` | the panel, and the captain's order |
| `Flush`, `Reply`, `Resolve` | the call goes out; its task answers; `poll_network` resolves |
| `Lose`, `Reconnect` | the socket; with it go all answers of its session |
| `Tick` | half a second; it waits for everything that is due |

Bevy leaves the order of these systems within a frame open, and so does the
model: whatever is due happens, in any order, before time goes on. The active
contract is the auto-helm. How many fires burn (none, one, more) is an input of each look
at them. One is fought at once, also while the engineer deliberates about others
(`client/systems/combat.rs:945-949`): damage control does not stand still during a
deliberation, and what `EngineerIsAwaited` says is that each deliberation has its one
repair, after its own end and before the next one begins. `fought` records where the two
overlap, which shows that the runs reach it. How many fires there are is no state, so that the count
read before the repair and used after it (`:919`) is a hazard without a property.
A call id is the contract's name and the tick, and only the auto-helm calls, so
the model's ids are ticks. Evaluations that a rule covers draw ticks as well;
they are left out, as they only set the ids further apart. The panel's phases
have no time of their own: it may close, and the captain may interject, at any
moment, which includes all the moments of the code.

### `CoDeliberation`

One conference from `Call` to `Conclude`. `Turn` is `CoDeliberation::step` with no
resolution yet: the speaker's `Stance` (`compute_position`), what it does to the
speaker's respect (`Regard`), and the `Verdict` (`try_resolve`, then, in the last
round, `force_resolve`). `PlayerOverride` is the captain's "my way", which may come at
any frame and again, `Conclude` the turn that finds its resolution; the frame in
which both happen is the two steps in a row; `TickCrewConference` is the system that
does either of the last. Of the history only what is read is
kept: its length, its first proposal (`lead`), and each one's last turn, which is
its position. Members and actions are numbers, in the order of seniority and of
the `BTreeMap` of the tally.

The client opens a conference with proposals and neutral respect; the module
admits any opening that the type does, since the library documents them
(`from_proposals` is "for tests and the player-initiated crew conference").
Nobody refers to itself, and the crew is not empty (`step` handles that case
apart). Seen while modelling and stated by no property: opposing counts as
backing the opposed proposal (`backed_action`), so a "consensus" may have an
opponent; the tie-break looks only among backers of the first leading action;
the client keeps the regards a conference leaves (`CrewRelationships`) and never
reads them.

### `AccountStore`

The store in memory and the handlers that use it. `player`, `byEmail` and
`byProvider` are the three maps; a player is known by its username, which never
changes, rather than by its id. A handler is a record in `req` with the place
`at` which it is. A call that takes one mutex is one step, guarded by that mutex
being free; a call that takes two is two steps:

| Call | Steps | Order of the mutexes |
|---|---|---|
| `create` | `CreateLock`, `Create` | players, e-mails |
| `by_login` of no username | `FindByLogin`, `FindByLoginAddress` | players, e-mails |
| `by_email` | `FindAddress`, `FindByEmail` | e-mails, players |

`by_provider` takes providers, then players; nothing takes them the other way,
so it is one step. `Judge` is what `login` makes of the record it was given,
which may be out of date: locked, wrong password or none, unverified, right. A
wrong password counts (`inc_fails`), reads the count (`by_id`) and locks
(`set_lock`) in three steps; a right one clears. `LockPasses` is the end of
`locked_until`. `OAuth` starts `oauth_token` after the provider has answered,
with an address or none; a name or address that is taken is tried once more under
the longer name. The store in Postgres (`PgPlayerStore`) leaves uniqueness to the
database and has no mutexes; it is not modelled.

### `UniverseTicks`

The server's tick task (`Advance`, `Send` per event, `WriteSnapshot`), its crashes
and restarts; per client the session with its forwarder, the socket, and the
ticker. A tick is a function of the universe before it, so that a universe is its
number of ticks. `std::fs::write` truncates, then writes: a crash in between
leaves `Torn`, which `load_snapshot` takes for none. `backlog` is what a receiver
of the broadcast channel has not read; beyond `Capacity` the forwarder's `recv`
fails and its loop ends for good (`"silent"`), and the client is not told.
`since`, `from` and `missed` are history.

The client's universe and the server's are compared by no property, for good
reason: the client replays one tick per `EconomyTick` without looking at its
number, and nothing brings the two together when a session starts. A client that
has ticked offline, joined late, or seen the server restart stays shifted, though
`client/systems/network.rs:383` says that the replay reproduces the server's step
exactly. What does hold, and is checked, is that within a session no tick is
replayed twice, skipped, or made by both clocks.

### `Filters` and `DataLemmas`

`Filters` has one operator, `Only(s, S)`: the elements of `s` that are in `S`, in
their order, which is what `retain`, `filter` and the arms of a `match` do to a
list. It is `SelectSeq` for a test that is a set, defined by a recursive function
where `SelectSeq` is a RECURSIVE operator. `DataLemmas` proves about it, and about
sets of numbers, what the proof modules cite.

The modules of components that share a proof module (`Deliberation` and
`CoDeliberation`, `SeedLedger` and `UniverseTicks`) name their specifications
apart (`ConferenceSpec`, `TicksSpec`), since one module extends both.

## Runs and bounds

| Run | Instance | What it shows |
|---|---|---|
| `seed_ledger` | 3 callers, 1 system, 2 seeds, a player and the nameless route, 1 diff key | `NoConflictingCanonical`, `AnswersCoverEarlierDiffs`, and the refinement `ImplementsRegister`, on both stores with callers that die |
| `eval_chain` | 2 contracts, 3 ticks, 3 sessions, 1 bounce, 1 client restart, 1 switch, Postgres store | `AcceptedInOrder`, `StoreMirrorsHeads`, `VerifiedOnce`, `HeadNotBehindStore`; a rejection of an honest client has a cause (`RejectionNeedsMishap`) |
| `eval_bounce` | no store, nothing but a bounce | the same property fails as the server is wired |
| `presence` | 3 sessions, 2 of one player, 2 systems, 2 universes, the other player's token of another one than its messages name | `MembersAreCurrent`, `NoGhostPeer`, `LaterArrivalsKnown`, `NoPhantomVoicePeer` |
| `presence_voice` | the same | `PlayersShareTheRoom` fails when an old session closes after a reconnect |
| `link` | 2 systems, 3 sockets, 2 jumps, 1 timeout | `LinkNeverStuck`, `QuiescentAgreement`, and under fairness `ArrivalIsAnswered`, `ClientReconnects` |
| `llm` | 1 account, bucket 5, refill 2, timeout 3 ticks, quota 7 | `InFlightBounded`, `OvershootBounded`, `RefusalsAreFree` |
| `deliberation` | the code's timers (4 s, 3 s, 1.5 s, every 1 s and 2 s, transit 4 s), 1 signal, 1 fire, 1 jump, 1 lost socket | `AnswerIsOwn`, `EngineerIsAwaited`, and under fairness `DeliberationEnds`, `SignalPasses`, `EngineerReturns` |
| `deliberation_repair` | the same, no lost socket | `RepairFollowsOutcome` fails: a transit's arrival empties the slot |
| `conference` | 4 of the crew, 2 actions, 3 rounds, 4 openings, regards on both sides of the thresholds | `NoVoiceLost`; the third round is the last (`ConferenceTypeOK`); under fairness `ConferenceEnds` |
| `accounts` | 3 handlers at a time, 4 altogether, 1 address, 1 registered name, 1 provider's account with both its names, threshold 2 | `IndexesAgree`, `ThresholdLocks`; mutexes as in the code (`TypeOK`); under fairness `RequestsEnd` |
| `ticks` | 1 client, 5 ticks, a snapshot every other one, a channel of 2, 2 connections, 2 crashes | `EveryTickReplayedOnce`, `RewindBounded` |

Why the bounds are enough.

- *Seed ledger.* Systems are independent (no action relates two), so one is
  enough. Three callers are one more than any race needs: winner, loser between
  its statements, and a bystander. The theorems lift all of it.
- *Evaluation chain.* Three ticks are a chain with an interior link; three
  sessions an old one still reading, the current one and a later one; one bounce
  falls before, between and after acceptance, insert and answer. Two contracts tell
  apart heads and rows filed under the wrong key.
- *Presence.* Two sessions of one player is the most a reconnect makes at a
  time, and a third is the peer who must not be deceived. Sessions are used
  once; a later one is another value. The two steady sessions overlap; the third is a
  stray, in their universe by its messages and in another by its token, so that it enters
  and leaves beside them, and its departure at the close goes astray. Systems are
  interchangeable (symmetry; only invariants are checked with it).
- *Link.* Two jumps return the client to the system it came from, so answers of
  an earlier visit can be mistaken; three sockets let it lose two. The
  last socket works (`s < MaxSockets` in `Refuse` and `Break`): a
  network that breaks for ever satisfies no liveness property.
- *LLM.* A tick of five seconds makes the instance the code's own figures:
  capacity 5, ten seconds per token, the 15 s cap on a provider call. The bounds
  `Burst` and `Budget - 1 + Burst` are reached; both fail when lowered by one.
- *Deliberation.* All the code's timers are multiples of half a second. One
  signal makes up to two calls, since an arrival clears the slot and leaves the
  signal: enough for a late answer to meet another call of the same contract.
  One fire, one transit and one lost socket give every writer of the slot a turn
  against every other.

- *Conference.* Four make every verdict possible: consensus, a majority of three, a
  tie of two and two. A regard of -280 is lifted above the threshold by one
  argument, so that members change sides between rounds. That the seniors are not
  held in low regard by each other and the juniors in high cuts the starts to a
  hundred thousand states; the theorems need no such bound.
- *Accounts.* Three handlers are the two that cross and one more that is kept
  waiting; four altogether let one begin after another has ended, so that a lock
  set, a success and two failures may meet. One address is shared by everybody.
- *Ticks.* The snapshots of two periods, a crash before, in and after each, and a
  channel that lags after two events, within five ticks. Clients share nothing
  but the channel they read, so one is enough.

`CHECK_DEADLOCK FALSE` appears where the bounds on counters end a behaviour:
ticks and sessions (`eval_*`), sessions used up (`presence*`), sockets and jumps
(`link`), requests (`accounts`), ticks (`ticks`), and the one conference
(`conference`). In `accounts` handlers may also wait on each other for ever, which
is what `RequestsEnd` is about. The seed ledger, the LLM service and the deliberation never stop.

Each property of a passing run has a mutant in `PROJECT.json`: a plausible slip
in one mapped definition (an insert without its guard, an answer without diffs,
a link checked by tick only, a departure nobody is told of, ...) under which TLC
finds it violated. The mutated forms stand next to the definitions they change,
marked as mutants; no action uses them.

## Fairness

`Link`, `Deliberation`, `CoDeliberation` and `AccountStore` state fairness
(`FairSpec`), all of it weak. In `Link`, Bevy runs
`poll_network` and `reconnect_backoff` every frame, which is `PollSome` and
`Reconnect`; the backoff timer is finite. A dialled socket is opened or refused
by the operating system (`Establish \/ Refuse`). A session task that has
messages to read, or a broken stream to notice, is scheduled by tokio
(`Serve \/ EndSession`). Nothing makes a player jump, a socket break, a session
time out or another player discover anything. In particular `EndSession` of
a session that is not cut is not assumed: a session that timed out keeps its
socket.

In `Deliberation` frames run and time passes (`Timers`: the systems that wait
for a timer, and time itself). Nothing is assumed of the server, the network or
the captain: the slot must fall free without them, and does.

In `CoDeliberation` frames run and the delay between turns passes
(`TickCrewConference`); the captain need not do anything, and may do the same thing for ever. In
`AccountStore` a handler whose mutex is free goes on (`Step`); std mutexes do
not queue fairly, but each handler takes finitely many and requests are bounded.
A handler that waits on another which waits on it does not go on: `RequestsEnd`
excepts just the state in which the two mutexes are taken crosswise.

The other modules state safety only. `Presence` has no liveness property since
whether a handler finishes depends on peers that read their socket.

## Proofs

`tlapm` checks these for every value of the constants that the named assumptions
admit.

| Theorem | Module | From |
|---|---|---|
| `TypeCorrect` | `UniverseProofs` | `NoneDistinct` (what the code writes as `None` is no value) |
| `Agreement`: no two answers disagree | `UniverseProofs` | the same |
| `Freshness`: an answer has all earlier diffs | `UniverseProofs` | the same |
| `Refinement`: `SeedLedger` implements `CanonicalSeeds` | `UniverseProofs` | the same |
| `Rewind`: a restart rewinds by less than a period | `UniverseProofs` | `PeriodAssumption`, `FileAssumption` |
| `TicksTyping`: types, both ends of a connection | `UniverseProofs` | the same, `BoundsAssumption` |
| `TicksReplayedOnce`: each tick sent is replayed once, in order | `UniverseProofs` | the same |
| `TypeCorrect`: what queues, heads and rows hold | `EvalChainProofs` | `FirstIsContract`, `Bounds` |
| `NoGap`: links are accepted in order | `EvalChainProofs` | the same |
| `Monotone`: no head falls behind the store | `EvalChainProofs` | the same |
| `Mirrored`: the store has the heads | `EvalChainProofs` | the same |
| `NoReplay`: nothing is verified twice | `EvalChainProofs` | the same, `StoreKind = "postgres"` |
| `HonestIsVerified`: a rejection needs a mishap | `EvalChainProofs` | the same, `StoreKind = "postgres" \/ MaxBounces = 0` |
| `Typing` | `PresenceProofs` | `EachSessionHasAPlayer`, `EachSessionHasAUniverse`, `NoneDistinct` |
| `Registration`: a system's senders are its sessions', if these are steady | `PresenceProofs` | the same |
| `NoGhosts`: nobody is seen who is not there | `PresenceProofs` | the same |
| `ArrivalsAreKnown`: who is there learns who comes | `PresenceProofs` | the same |
| `NoPhantoms`: a voice room's players have sessions | `PresenceProofs` | the same |
| `LinkTyping`: types, short wires | `LinkProofs` | `HomeIsSystem`, `LocalSeeds`, `Bounds` |
| `NeverStuck`: no transport just where one redials | `LinkProofs` | the same |
| `Quiescent`: both ends agree once all has arrived | `LinkProofs` | the same |
| `TypeCorrect`: types, no bucket overflows | `LlmServiceProofs` | `Limits`, `Samples` |
| `Generosity`: refused calls never delay the next token | `LlmServiceProofs` | `Limits` |
| `CallsInFlight`: at most one burst in flight | `LlmServiceProofs` | the same |
| `Overshoot`: the quota is overshot by less than a burst | `LlmServiceProofs` | the same |
| `SlotTyping`: one deliberation is open, and how many there are | `DeliberationProofs` | `Times`, `Bounds` |
| `OwnAnswer`: none is ended by another's answer | `DeliberationProofs` | the same |
| `EngineerAwaited`: one repair for each deliberation, after its end | `DeliberationProofs` | the same |
| `TypeCorrect`: no turn after the last round | `DeliberationProofs` | `CrewAssumption`, `ActionsAssumption`, `OpeningsAssumption` |
| `NoProposalLost`: whoever proposed counts for some action | `DeliberationProofs` | the same |
| `TypeCorrect`: a mutex is held just inside the call that took it | `AccountStoreProofs` | `NamesAssumption`, `ValuesAssumption`, `BoundsAssumption` |
| `Indexes`: addresses and records agree | `AccountStoreProofs` | the same |
| `Lockout`: too many failures lock | `AccountStoreProofs` | the same |

Two deliberations, the client's slot and the crew's conference, share
`DeliberationProofs`; the two parts of a universe that the server keeps, its seeds
and its ticks, share `UniverseProofs`. No theorem relates the two of a pair.

*Data.* The library's induction takes an operator, which no prover here can
instantiate; `DataLemmas` proves it again for a property given as a set, for
numbers (`Induction`, from `Smallest`, and that from the well-foundedness of the
subset order) and for sequences (`SeqInduction`). That is enough for what `Only`
does to any sequence: to one more element (`OnlyAppend`), to a concatenation
(`OnlyConcat`), and that it keeps just the elements of the set, each at a place that
grows with its own (`OnlyPlaces`).

*Seed ledger.* `NoConflictingCanonical` alone is not inductive: it says nothing
of the row an answer was taken from. `IInv` adds that every answer, pending or
given, repeats the row of its system (`AnswersRepeatRows`, `CallFollowsRow`),
that a call which met a conflict has a row to read, and that at most one pending
answer carries the credit (`OneCredit`). The proof goes through two step
lemmas: rows keep seed and discoverer and never lose a diff (`RowsOnlyGrow`, for
all actions), and a call moves only by its own caller's action (`CallStep`). The
invariant then follows without a further split per action, except for
`OneCredit`. The refinement takes one case per action, with `Owed` computed
before and after.

*Evaluation chain.* What is verified is the server's doing alone: `Server` asks of
the client only that it sends signatures. `Recording` is the strengthening, in two parts. A
session at work holds an evaluation that is accepted and that no other session holds
(`Sound`); while it writes, the evaluation has no row, and the head has not fallen behind
it (`Pending`). So an accepted evaluation, whose tick is above its head's, is new to rows
and to sessions at work, and a restart that takes the latest row goes back behind none.
With a store, what has been answered has a row (`Answered`), from which `NoReplay`
follows; a tick tells the rows of a contract apart (`TicksTell`). For `Mirrored`,
`HeadIsKept` says where a head is: among the rows, or held by a session that writes it,
unless an insert has failed; since no row is ahead of it (`HeadNotBehindStore`), `Loaded`
returns it. `NoGap` needs of the prefixes of a signature only that the head was one.
`HonestIsVerified` is about the client. While `mishaps` is empty there is one chain
(`OneChain`), and what the server has, what the one session at work holds and what is
queued are consecutive parts of it (`InTransit`, `OneWorker`); so what is read next
verifies (`NextVerifies`), and a restart finds the head again, by `StoreMirrorsHeads`. Its
condition cannot be dropped: the run `eval_bounce` refutes it without a store.

*Presence.* Every proof needs where a task is while it enters, leaves or broadcasts
(`Whereabouts`). Rooms change only in steps of one session and for its own player, so
`NoPhantomVoicePeer` is kept if that session stays in its rooms. `MembersAreCurrent` is
inductive with the types, since it says of a stray session just what its leaving under
another universe cannot break: `Leave` keeps all senders but one (`Only`), whose places
`OnlyPlaces` gives, and `Enter` appends one that, if it is steady, is not there. The two
about what sessions know of each other (`Views`) are not inductive alone. A ghost could be
told of by a broadcast that began before its session left: but whoever is still to be
served is there (`ReceiversAreThere`), since a broadcast holds the lock, and the subject of
the broadcast is waiting for it to end; and who announces its departure has gone
(`LeaversAreGone`). `NoStranger` is `NoGhostPeer` with registration in place of presence,
and the two agree (`Ghosts`): it gives whoever knows of a peer a place where both are
registered, so that a session brings no ghost along when it enters another system.
`LaterArrivalsKnown` speaks of arrivals whose broadcast is over;
`ArrivalsKnown` adds those whose broadcast is under way, of whom each earlier member knows
or is still to be told, and the order of arrival is the order in the list (`Before`),
which `Only` keeps.

*Link.* `LinkInv`. `QuiescentAgreement` speaks of wires that are empty; what leads there
is `Told`. Over a live link, the discoveries on their way to the server, on the wire or
in the outbox, end with the one of the system the client is in; and when none is on its
way, the session is in that system, which has a canonical seed, and handling the answers
that are on their way back leaves the client with it (`AdoptedAfter`). A poll changes
neither side of this, since handling some answers and then the rest adopts what handling
all of them does (`AdoptedInTurn`, from `OnlyConcat`); it greets when the link opens, and
then what follows is the outbox, whose last entry is the latest arrival (`QueuedLast`).
`Serve` takes the last discovery and appends its answer, which is the last one to be
adopted (`AdoptedLast`). Rivals cannot disturb it, as a canonical seed is not
overwritten. That a connected link has been dialled and opened (`Dialled`) keeps
`Establish` and `Refuse` away from it. `TypeOK` bounds the wires, which is not inductive
as it stands: `Short` counts what a socket carries in both directions and has queued
against the arrivals so far, one for its opening and one for its end.

*LLM service.* `RefusalsAreFree` speaks of accounts that have waited long enough.
`Credit` generalises it to any wait: what an account has waited since
its last token, up to one token's worth, is covered by what is in the bucket
plus what is due. It needs the fractions: the mutant `RefilledWhole`, which
credits whole tokens only, breaks it. The two bounds are about calls of all ages
together. `Throttled` says, for every age, that the calls not older than that have been
paid for: their tokens and what is left in the bucket are at most a full bucket and what
it gained in that time. For the oldest age that is `InFlightBounded`. A call is paid for
when it starts, and a tick makes every age one older on both sides. `OvershootBounded`
follows from there being a burst at most in flight whenever one passes the check.
`Totals`, the sums by age, is a recursive function; what it does when a call starts,
ends or ages is proved by induction over ages.

*Accounts.* `IndexesAgree` is kept only because a handler that goes on knows
something of the player it works on: `Known` says what, for every place in every
handler (the name it links exists, the address it adopts leads to somebody, ...).
Records are never deleted, so what one handler knows survives the steps of all
others (`RecordStep`, `StoreStep`); what is left is one lemma per action. The
mutexes are part of `TypeOK`, and a handler's move takes or frees them just as
its new place says (`Moves`). For `ThresholdLocks` a failure that reaches the
threshold leaves its own handler at `"count"`, which keeps the disjunct true until
it has locked.

*Deliberation.* `SlotInv`. What the six systems write has an order that none of them
keeps by itself. `Ledger` is that order: what is in the slot is the latest deliberation,
it alone is open, and each was ended by its own answer, if by any. Every step either
opens one (`Opens`), empties the slot (`Empties`) or leaves it (`Keeps`), so each action
is put into one of the three and the rest is proved once. An answer ends what is in the
slot if their call ids agree: `CallsKept` says that of all calls under way (in the
outbox, at the server, on the way back) one with the slot's id was made by the
deliberation in the slot, because ids only grow and a call is made when one opens.
`TypeOK` bounds how many deliberations there are, about which things, and `Counts` is
why: an anomaly comes at most once in a jump, a fire is thought over once, and a signal
once, and once more for each jump whose arrival clears the slot and leaves the signal.

*Conference.* `NoVoiceLost` is about everybody's reference being good. The
argument is that the first proposal stands (`LeadStands`): its speaker gives way
to nobody, since one only gives way to the first proposal of another; and
that whoever gave way refers to that one (`VoicesRefer`). The mutant `LeadLatest`,
by which one gives way to the latest proposal, breaks it. `TypeCorrect` needs that
what is chosen exists, a leading action, a dissenter, a tie-breaker, hence the
lemmas `Smallest` and `Largest` on sets of numbers; and that while nothing is decided a
turn is left (`Going`).

*Ticks.* `RewindBounded` says nothing of where the snapshot stands, and a crash
while sending would not keep it. `SnapshotKept` adds that the snapshot that counts is of a
tick that was due, the last one or the one before it while this one's is being
written; then a tick that is not due is less than a period ahead (`DueAgain`).
`EveryTickReplayedOnce` is nearly inductive once it is said of all sessions (`Flow`):
what the client has replayed and what is under way to it, on the wire and in the
backlog, are the ticks sent since it subscribed. What it lacks is the state of the
connection (`Connection`): the opening is first on the wire and the close last, which is
then over, so that a poll that goes online or offline does so where the count begins or
ends; and who does not forward has no backlog. Ticks are picked out of the wire by
`Only`, a poll takes them from its front (`OnlyHead`), a forward moves one from backlog
to wire (`HeadMoves`).

Only model-checked: liveness under fairness (`ArrivalIsAnswered`, `ClientReconnects`,
`DeliberationEnds`, `SignalPasses`, `EngineerReturns`, `ConferenceEnds`, `RequestsEnd`),
which is beyond the prover. Every invariant of a passing run, and the refinement, is the
subject of a theorem. The properties of the three runs that expect a violation are false.

## Findings

- `eval_bounce`: `AppState` builds `VerifyService::default()`
  (`server/ws/mod.rs:210` and `:302`), so heads are neither stored nor
  reloaded, and a restart of the server breaks every chain in progress, against
  `docs/sprints/S49-postgres-store-wiring.md:43`.
- `presence_voice`: voice rooms are keyed by player, sessions are not; an old
  session that closes late takes the reconnected player out of the room
  (`server/services/voice.rs:60`).
- `deliberation_repair`: damage control takes an empty slot for the outcome of
  the engineer's deliberation (`client/systems/combat.rs:923`, and the comment
  above it); a transit's arrival (`client/systems/jump.rs:343`) empties it
  without one, and the repair lands all the same.

Read off the code while modelling, without a run of their own:

- The heartbeat ends the read loop, but the broadcast forwarder holds a sender to
  the writer, so the socket stays open and the client never learns
  (`server/ws/handler.rs:132`), against
  `docs/sprints/S57-server-route-completion.md:43`. As the client never sends a
  `Ping`, this befalls every session after 30 seconds. The properties of `Link`
  leave such a session out: none claims that the client gets out of it.
- `route` records `!success` where `success` is asked for
  (`server/services/llm_proxy.rs:274`), so the breaker of
  `docs/sprints/S27-llm-cost-quota.md:134` would trip on success, if anything asked
  it.
- `by_email` and `create` take the same two mutexes in opposite orders
  (`server/services/auth.rs:381` and `:328`): a forgotten password and a
  registration at the same moment can stop all logins for good. `RequestsEnd`
  excepts this state, so it does not rule the deadlock out; it shows that nothing else
  keeps a request waiting, and `TypeOK` that no third mutex is involved.
- A session whose discoveries name another universe than its own stays registered after
  it has closed, and its `PlayerLeft` goes to the wrong scope: `route` registers under the
  universe of the message (`server/ws/handler.rs:190-255`), the clean-up leaves under
  `session.universe` (`:157-173`), against `server/ws/mod.rs:51-52`, which says that
  presence holds "every session currently in a given (universe, system) pair".
- `PgEvalStore` names a column that the migrations do not create
  (`server/services/eval.rs:111` and `:132`, `reachlock-server/migrations/0001_init.sql:83-93`): wired to a
  server, it would panic at boot, and at each accepted evaluation.
- `submit` is called on the session task itself (`server/ws/handler.rs:354-368`), against
  the note in `server/services/verify.rs:61-63`, "never called directly on an async worker
  thread".
- Two sign-ins of one provider's account without an address, at once, make two
  players, and the later link wins (`server/services/auth.rs:1858-1872`).

## What is not modelled

- *Providers, BYOK, content packs, world generation, client gameplay and
  interface, administration, metrics*: input and output, arithmetic on large
  records, or reads; no protocol between actors. They are most of the
  repository, which is why the share of its lines that the models translate
  is small and stays so.
- *Contract engine, simulation core*: pure functions, unit-tested in place; a model
  of them would repeat them line by line.
- *Billing*: webhooks that are marked as processed before they are handled
  (`server/ws/mod.rs:796`); a single table otherwise.
- *Contract sync and library*: no client sends `ContractSync`; the library is one
  table behind one mutex.
- *Client presence rendering*: queued events applied to spawned ships; its ordering
  hazard is listed.
- *Inside modelled parts*: the bounds of the send channels (`Presence`);
  unparseable messages; payloads of the other client messages (`Link`); cost log,
  metrics, health and prompt (`LlmService`); the player and universe dimension where
  keys never meet (`EvalChain`); dialogue's calls, which have a slot of
  their own, and the story prompt (`Deliberation`); trust, tension and wording, and
  what the outcome writes to the souls (`CoDeliberation`); password reset, deletion,
  two-factor, device sessions, `dev_login`, rate limits, bans, which no route
  issues, and the store in Postgres (`AccountStore`); trades, the event table, and
  the client's saves and catch-up (`UniverseTicks`).

## Plan

Done, in this order: `CanonicalSeeds` and `SeedLedger` with their proofs,
`EvalChain`, `Presence`, `Link`, `LlmService`, `Deliberation`,
`CoDeliberation`, `AccountStore` and `UniverseTicks`; then the proofs, of `SeedLedger`,
`EvalChain`, `LlmService`, `AccountStore` and the conference first, of `Presence`,
`Deliberation`, `UniverseTicks` and `Link` last.

What would come next, the most important first:

1. Proofs: what liveness rests on and is safety, as that damage control and the slot are
   never waiting on each other; that `EvalChain` implements a log that only grows.
2. Password reset, two-factor and the configuration's RwLock, in `AccountStore`.
3. Dialogue's calls beside the deliberation's, in `Deliberation`.
4. Billing's webhooks.

Modules that are proved about declare no RECURSIVE operator and name their
assumptions; bounds that only TLC needs are constants of the module, so the
theorems hold for any value of them.

## Running the checks

    tlc -workers 2 -config MCSeedLedger.cfg MCSeedLedger
    tlapm UniverseProofs.tla

`PROJECT.json` lists the runs with their configurations, the mutants, the
theorems, and for each definition the lines it models.
