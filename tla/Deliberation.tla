------------------------------ MODULE Deliberation ------------------------------
(***************************************************************************)
(* The one deliberation slot of reachlock-client (DeliberationState) and   *)
(* the frame systems that write it: contract evaluation, damage control,   *)
(* the hyperspace transit, the timer, the server's answers and the         *)
(* captain's override.                                                     *)
(*                                                                         *)
(* Time runs in half seconds.  Bevy orders these systems freely within a   *)
(* frame, so everything that falls due runs, in any order, before time     *)
(* goes on.  The active contract is the auto-helm.  The fires are not      *)
(* state: how many burn is an input of each look at them, which a repair   *)
(* need not change.  The overlay, the log and the story prompt are left    *)
(* out.                                                                    *)
(***************************************************************************)
EXTENDS Naturals, Sequences, FiniteSets, SequencesExt, FiniteSetsExt

CONSTANTS
    SignalTime,   \* timeout_ms of the auto-helm contract
    FireTime,     \* timeout_ms of the damage-control contract
    AnomalyTime,  \* the cryo-pilot's timer
    EvalPeriod,   \* ContractRuntime.eval_timer
    ControlPeriod,\* DamageControl.timer
    TransitTime,  \* TRANSIT_SECS; an anomaly comes half way
    MaxSignals,   \* bound: unknown signals
    MaxFires,     \* bound: deliberations about fires
    MaxJumps,     \* bound: transits
    MaxLosses     \* bound: lost sockets

ASSUME Times == /\ SignalTime \in Nat \ {0} /\ FireTime \in Nat \ {0}
                /\ AnomalyTime \in Nat \ {0} /\ EvalPeriod \in Nat \ {0}
                /\ ControlPeriod \in Nat \ {0} /\ TransitTime \in Nat \ {0}
ASSUME Bounds == /\ MaxSignals \in Nat /\ MaxFires \in Nat
                 /\ MaxJumps \in Nat /\ MaxLosses \in Nat

VARIABLES
    slot,       \* DeliberationState.active
    signal,     \* ShipSystems.unknown_signal
    lowFuel,    \* ShipSystems.fuel is below the fuel warning's threshold
    evalIn,     \* time left of eval_timer
    controlIn,  \* time left of DamageControl.timer
    waiting,    \* DamageControl.deliberating
    transit,    \* TransitState: active, elapsed time, anomaly_fired
    panel,      \* the deliberation panel shows a stage
    conn,       \* ConnectionState is Connected
    tick,       \* ContractRuntime.next_tick
    outbox,     \* calls in NetOutbox
    asked,      \* calls the session's server is working on
    answers,    \* its answers on their way back
    past,       \* history: every deliberation, how it ended, and whose answer ended it
    repaired,   \* history: the fires' deliberations whose repair has landed
    fought,     \* history: those under way when the last look fought a lone fire
    signals, jumps, losses

ship == <<signal, lowFuel, evalIn, controlIn, waiting, transit, panel>>
net == <<conn, outbox, asked, answers>>
repairs == <<repaired, fought>>
history == <<past, repairs>>
counters == <<signals, jumps, losses>>
vars == <<slot, ship, net, tick, history, counters>>

NoCall == 0
Empty == [id |-> 0, left |-> 0, call |-> NoCall]
Busy == slot # Empty
AtHome == [active |-> FALSE, elapsed |-> 0, fired |-> FALSE]

Init ==
    /\ slot = Empty
    /\ signal = FALSE /\ lowFuel = FALSE
    /\ evalIn = EvalPeriod /\ controlIn = ControlPeriod
    /\ waiting = FALSE
    /\ transit = AtHome
    /\ panel = FALSE
    /\ conn \in BOOLEAN
    /\ tick = 0
    /\ outbox = <<>> /\ asked = {} /\ answers = {}
    /\ past = <<>> /\ repaired = {} /\ fought = {}
    /\ signals = 0 /\ jumps = 0 /\ losses = 0

-------------------------------------------------------------------------------
\* What the frame systems do to the slot.

\* A mutant: deliberations pile on.
Anyone == TRUE

\* "Someone is already thinking; don't pile on."
NobodyThinks == ~Busy

\* past, once the deliberation in the slot, if any, has come to an end; by is
\* the deliberation that had asked for the answer which ended it.
Closed(how, by) ==
    IF Busy THEN [past EXCEPT ![slot.id].end = how, ![slot.id].by = by] ELSE past

\* A deliberation takes the slot, whatever was in it.
Begin(about, time, call) ==
    /\ slot' = [id |-> Len(past) + 1, left |-> time, call |-> call]
    /\ past' = Append(Closed("displaced", 0), [about |-> about, end |-> "open", by |-> 0])

\* The slot is emptied, and the moment passes.
End(how, by) ==
    /\ slot' = Empty
    /\ past' = Closed(how, by)
    /\ signal' = FALSE

-------------------------------------------------------------------------------
\* Contract evaluation.

\* The signal is picked up at the helm, where nobody sits during a transit.
Signal ==
    /\ signals < MaxSignals
    /\ ~transit.active
    /\ ~signal
    /\ signal' = TRUE
    /\ signals' = signals + 1
    /\ UNCHANGED <<slot, lowFuel, evalIn, controlIn, waiting, transit, panel, net, tick,
                   history, jumps, losses>>

\* The tank runs low, or is filled.
Fuel ==
    /\ lowFuel' = ~lowFuel
    /\ UNCHANGED <<slot, signal, evalIn, controlIn, waiting, transit, panel, net, tick,
                   history, counters>>

\* A mutant: what the rules do not cover waits for a connection.
UncoveredOnline == signal /\ ~lowFuel /\ conn

\* The auto-helm's rules cover everything but an unknown signal with fuel aboard:
\* the fuel warning comes first.
Uncovered == signal /\ ~lowFuel

\* A mutant: the id is the contract's alone.
CallOfContract(t) == 1

\* The call id: the contract's id, one for all here, and the tick.
CallId(t) == t

\* evaluate_contracts: an unknown signal, with nobody thinking, is deliberated,
\* by the server if there is one.  What a rule covers draws a tick as well,
\* which only sets the call ids further apart.
Evaluate ==
    /\ evalIn = 0
    /\ evalIn' = EvalPeriod
    /\ IF ~NobodyThinks \/ ~Uncovered
       THEN UNCHANGED <<slot, past, tick, outbox>>
       ELSE IF conn
       THEN /\ tick' = tick + 1
            /\ outbox' = Append(outbox, [call |-> CallId(tick + 1), from |-> Len(past) + 1])
            /\ Begin("signal", SignalTime, CallId(tick + 1))
       ELSE Begin("signal", SignalTime, NoCall) /\ UNCHANGED <<tick, outbox>>
    /\ UNCHANGED <<signal, lowFuel, controlIn, waiting, transit, panel, conn, asked, answers,
                   repairs, counters>>

\* A mutant: only what is thought over offline runs out of time.
ExpireOffline ==
    /\ Busy /\ slot.left = 0 /\ slot.call = NoCall
    /\ End("fallback", 0)
    /\ UNCHANGED <<lowFuel, evalIn, controlIn, waiting, transit, panel, net, tick, repairs, counters>>

\* tick_deliberation, resolve_timeout: the fallback fires.
Expire ==
    /\ Busy /\ slot.left = 0
    /\ End("fallback", 0)
    /\ UNCHANGED <<lowFuel, evalIn, controlIn, waiting, transit, panel, net, tick, repairs, counters>>

-------------------------------------------------------------------------------
\* Damage control.

Fires == {i \in 1..Len(past) : past[i].about = "fire"}

\* Mutants: any look at the fires ends the wait; none does.
LandsAnyway == waiting
LandsNever == FALSE

\* A pending deliberation has since cleared: the repair lands.
Lands == waiting /\ ~Busy

\* damage_control looks at the fires, after the repair of a deliberation that has
\* cleared.  A lone fire it fights at once, also while the engineer thinks about
\* others; several are deliberated, unless someone is thinking already.
Control(burning) ==
    /\ controlIn = 0
    /\ controlIn' = ControlPeriod
    /\ repaired' = IF Lands THEN repaired \cup {Max(Fires)} ELSE repaired
    /\ fought' = IF burning = 1 THEN {i \in Fires : past[i].end = "open"} ELSE {}
    /\ IF burning > 1 /\ NobodyThinks /\ (~waiting \/ Lands)
       THEN /\ Cardinality(Fires) < MaxFires
            /\ waiting' = TRUE
            /\ Begin("fire", FireTime, NoCall)
       ELSE waiting' = (waiting /\ ~Lands) /\ UNCHANGED <<slot, past>>
    /\ UNCHANGED <<signal, lowFuel, evalIn, transit, panel, net, tick, counters>>

-------------------------------------------------------------------------------
\* The transit.

\* The crossing begins; fired: it has had its anomaly.
Engage(fired) ==
    /\ jumps < MaxJumps
    /\ ~transit.active
    /\ transit' = [active |-> TRUE, elapsed |-> 0, fired |-> fired]
    /\ jumps' = jumps + 1
    /\ UNCHANGED <<slot, signal, evalIn, controlIn, waiting, panel, net, tick,
                   history, signals, losses>>

\* try_gate_jump, and jump_clock alike: nothing happened yet.
GateJump == Engage(FALSE) /\ UNCHANGED lowFuel

\* self_jump burns fuel, and has no anomaly.
SelfJump == Engage(TRUE) /\ lowFuel' \in {lowFuel, TRUE}

AnomalyDue == transit.active /\ ~transit.fired /\ 2 * transit.elapsed >= TransitTime

Anomaly(rolls) ==
    /\ AnomalyDue
    /\ transit' = [transit EXCEPT !.fired = TRUE]
    /\ IF rolls THEN Begin("anomaly", AnomalyTime, NoCall) ELSE UNCHANGED <<slot, past>>
    /\ UNCHANGED <<signal, lowFuel, evalIn, controlIn, waiting, panel, net, tick, repairs, counters>>

ArrivalDue == transit.active /\ transit.fired /\ transit.elapsed = TransitTime

Arrive ==
    /\ ArrivalDue
    /\ transit' = AtHome
    /\ slot' = Empty
    /\ past' = Closed("cleared", 0)
    /\ UNCHANGED <<signal, lowFuel, evalIn, controlIn, waiting, panel, net, tick, repairs, counters>>

-------------------------------------------------------------------------------
\* The captain.

\* The panel opens on a deliberation, and stays when that has ended.
Show == Busy /\ ~panel /\ panel' = TRUE
        /\ UNCHANGED <<slot, signal, lowFuel, evalIn, controlIn, waiting, transit, net, tick,
                       history, counters>>

Dismiss == panel /\ panel' = FALSE
           /\ UNCHANGED <<slot, signal, lowFuel, evalIn, controlIn, waiting, transit, net, tick,
                          history, counters>>

\* handle_interjection_input takes whatever is in the slot.
Override ==
    /\ panel
    /\ panel' = FALSE
    /\ End("override", 0)
    /\ UNCHANGED <<lowFuel, evalIn, controlIn, waiting, transit, net, tick, repairs, counters>>

-------------------------------------------------------------------------------
\* The server.

\* poll_network sends the queued calls, maybe to a session that no longer reads.
Flush(read) ==
    /\ conn
    /\ outbox # <<>>
    /\ outbox' = <<>>
    /\ asked' = IF read THEN asked \cup ToSet(outbox) ELSE asked
    /\ UNCHANGED <<slot, ship, conn, answers, tick, history, counters>>

\* Each call is a task of its own: its answer comes at any time, in any order.
Reply(c, ok) ==
    /\ asked' = asked \ {c}
    /\ answers' = answers \cup {[call |-> c.call, from |-> c.from, ok |-> ok]}
    /\ UNCHANGED <<slot, ship, conn, outbox, tick, history, counters>>

\* poll_network: llm.response and llm.failed resolve the active deliberation if
\* it carries their call id; a response is signed, and its evaluation draws a tick.
Resolve(a) ==
    /\ answers' = answers \ {a}
    /\ IF Busy /\ slot.call = a.call
       THEN /\ End(IF a.ok THEN "answered" ELSE "failed", a.from)
            /\ tick' = IF a.ok THEN tick + 1 ELSE tick
       ELSE UNCHANGED <<slot, past, signal, tick>>
    /\ UNCHANGED <<lowFuel, evalIn, controlIn, waiting, transit, panel, conn, outbox, asked,
                   repairs, counters>>

\* The socket goes, and with it every answer of its session.
Lose ==
    /\ losses < MaxLosses
    /\ conn
    /\ losses' = losses + 1
    /\ conn' = FALSE
    /\ asked' = {} /\ answers' = {}
    /\ UNCHANGED <<slot, ship, outbox, tick, history, signals, jumps>>

Reconnect ==
    /\ ~conn
    /\ conn' = TRUE
    /\ UNCHANGED <<slot, ship, outbox, asked, answers, tick, history, counters>>

-------------------------------------------------------------------------------
\* Half a second passes when no timer is due.
Tick ==
    /\ Busy => slot.left > 0
    /\ evalIn > 0 /\ controlIn > 0
    /\ ~AnomalyDue /\ ~ArrivalDue
    /\ slot' = IF Busy THEN [slot EXCEPT !.left = @ - 1] ELSE slot
    /\ evalIn' = evalIn - 1
    /\ controlIn' = controlIn - 1
    /\ transit' = IF transit.active THEN [transit EXCEPT !.elapsed = @ + 1] ELSE transit
    /\ UNCHANGED <<signal, lowFuel, waiting, panel, net, tick, history, counters>>

Timers ==
    \/ Evaluate
    \/ Expire
    \/ \E burning \in 0..2 : Control(burning)
    \/ \E rolls \in BOOLEAN : Anomaly(rolls)
    \/ Arrive
    \/ Tick

Next ==
    \/ Timers
    \/ Signal
    \/ Fuel
    \/ GateJump
    \/ SelfJump
    \/ Show
    \/ Dismiss
    \/ Override
    \/ \E read \in BOOLEAN : Flush(read)
    \/ \E c \in asked, ok \in BOOLEAN : Reply(c, ok)
    \/ \E a \in answers : Resolve(a)
    \/ Lose
    \/ Reconnect

\* Frames run and time passes; nothing else is promised.
Spec == Init /\ [][Next]_vars
FairSpec == Spec /\ WF_vars(Timers)

-------------------------------------------------------------------------------
\* An arrival clears the slot and leaves the signal, which is then thought over anew.
MaxPast == MaxSignals + MaxFires + 2 * MaxJumps

\* Types; what is in the slot is the latest deliberation and the only open one.
TypeOK ==
    /\ slot.id \in 0..MaxPast /\ slot.left \in Nat /\ slot.call \in 0..tick
    /\ signal \in BOOLEAN /\ lowFuel \in BOOLEAN /\ waiting \in BOOLEAN /\ panel \in BOOLEAN /\ conn \in BOOLEAN
    /\ evalIn \in 0..EvalPeriod /\ controlIn \in 0..ControlPeriod
    /\ transit.elapsed \in 0..TransitTime
    /\ Len(past) <= MaxPast
    /\ \A i \in 1..Len(past) :
        /\ past[i].end \in {"open", "displaced", "fallback", "answered", "failed",
                            "override", "cleared"}
        /\ past[i].end = "open" <=> slot.id = i
    /\ Busy => slot.id = Len(past)
    /\ ~conn => asked = {} /\ answers = {}

\* No deliberation is ended by the answer to another one, however late answers
\* come and whoever took the slot meanwhile.
AnswerIsOwn == \A i \in 1..Len(past) : past[i].by \in {0, i}

\* Each deliberation about fires has one repair, which lands when it has come to
\* its end, whatever that is, and before the next one begins: damage control waits
\* for the latest, and for no other, although an arrival may clear the slot, an
\* anomaly or a signal take it, and lone fires be fought at once meanwhile.
EngineerIsAwaited ==
    /\ Fires \ repaired = IF waiting THEN {Max(Fires)} ELSE {}
    /\ \A i \in repaired : past[i].end # "open"

\* The slot falls free again, also when the server never answers (contract.rs: "if
\* the socket drops mid-call ... this still expires into the fallback action").
DeliberationEnds == Busy ~> ~Busy

\* A signal passes, whatever fire, jump or lost socket comes first, unless low fuel
\* keeps the helm busy warning.
SignalPasses == signal /\ ~lowFuel ~> ~signal \/ lowFuel

\* Damage control's wait ends, although the slot may be taken again before it
\* looks (by finitely many signals and anomalies).
EngineerReturns == waiting ~> ~waiting

\* The repair lands when the engineer's deliberation has come to an outcome
\* (combat.rs: "A pending deliberation that has since cleared = the fallback (or
\* the answer) fired").
RepairFollowsOutcome ==
    \A i \in repaired : past[i].end \in {"fallback", "answered", "failed", "override"}
===============================================================================
