---------------------------- MODULE CoDeliberation ----------------------------
(***************************************************************************)
(* The crew conference: the session of reachlock-core's co_deliberation    *)
(* and the two systems of the client that open it and step it.  The crew   *)
(* speaks in turn, the most senior first; each turn may settle the matter, *)
(* the third round must, and the captain may cut it short.                 *)
(*                                                                         *)
(* Every session is built afresh, so one conference stands for all.  The   *)
(* history is kept as far as it is read: the number of turns, the first    *)
(* proposal spoken, and each one's last turn, which is its position.       *)
(* Trust, tension and the wording feed the souls and decide nothing here.  *)
(***************************************************************************)
EXTENDS Integers, FiniteSets

CONSTANTS
    N,          \* the crew: 1..N, by seniority
    Actions,    \* what can be proposed, numbers in the order of the names
    HoldCourse, \* the captain's action when the crew backs nothing
    MaxRounds,  \* MAX_ROUNDS
    Regards,    \* the respect each may have for each other at the start
    Openings    \* the positions they may start from

None == 0
Crew == 1..N
Respect == (-1024)..1024
Abstain == [kind |-> "abstain", on |-> None]
Propose(a) == [kind |-> "propose", on |-> a]
Position == [kind : {"propose"}, on : Actions] \cup {Abstain}
            \cup [kind : {"support", "oppose", "defer"}, on : Crew]

ASSUME CrewAssumption == N \in Nat \ {0} /\ MaxRounds \in Nat \ {0}
ASSUME ActionsAssumption == Actions \subseteq Nat \ {None} /\ HoldCourse \in Nat \ {None}
ASSUME OpeningsAssumption == /\ Openings \subseteq Position
                             /\ Regards \subseteq [Crew -> [Crew -> Respect]]

VARIABLES
    phase,      \* CrewConference.session: not "called" yet, "open", or "over"
    opening,    \* initial_position of each
    current,    \* current_position of each
    respect,    \* the respect of each for the others
    turns,      \* how many turns have been spoken
    lead,       \* the first proposal among them
    resolution

conferenceVars == <<phase, opening, current, respect, turns, lead, resolution>>

NoLead == [who |-> None, action |-> None]
Unresolved == [kind |-> "none", action |-> None, who |-> None]

ConferenceInit ==
    /\ phase = "called"
    /\ opening = [i \in Crew |-> Abstain]
    /\ current = opening
    /\ respect = [i \in Crew |-> [j \in Crew |-> 0]]
    /\ turns = 0
    /\ lead = NoLead
    /\ resolution = Unresolved

-------------------------------------------------------------------------------
\* Who backs what, with the positions cur after t turns.

\* The action a member's latest turn proposes, if it has had one.
ProposedBy(cur, t, i) == IF i <= t /\ cur[i].kind = "propose" THEN cur[i].on ELSE None

\* backed_action: one's own proposal, or that of the member one refers to, be it
\* to support, to defer or to oppose.
Backed(cur, t, i) ==
    IF cur[i].kind = "propose" THEN cur[i].on
    ELSE IF cur[i].kind = "abstain" THEN None
    ELSE ProposedBy(cur, t, cur[i].on)

Backers(cur, t, a) == {i \in Crew : Backed(cur, t, i) = a}

Votes(cur, t, a) == Cardinality(Backers(cur, t, a))

Backing(cur, t) == {a \in Actions : Votes(cur, t, a) > 0}

\* The first of the tally: the most backed action, ties in the order of the names.
Leading(cur, t) ==
    IF Backing(cur, t) = {} THEN None
    ELSE CHOOSE a \in Backing(cur, t) : \A b \in Actions :
            \/ Votes(cur, t, a) > Votes(cur, t, b)
            \/ Votes(cur, t, a) = Votes(cur, t, b) /\ a <= b

-------------------------------------------------------------------------------
\* A turn.

Speaker == (turns % N) + 1

\* compute_position: someone who came to propose gives way to an earlier proposal
\* of another, or stands against it, by the respect for who made it.
Stance(i) ==
    LET mine == opening[i] IN
    IF mine.kind # "propose" \/ lead = NoLead \/ lead.who = i \/ lead.action = mine.on
    THEN mine
    ELSE IF respect[i][lead.who] > 256 THEN [kind |-> "defer", on |-> lead.who]
    ELSE IF respect[i][lead.who] < -256 THEN [kind |-> "oppose", on |-> lead.who]
    ELSE mine

AtMost1024(x) == IF x > 1024 THEN 1024 ELSE x

\* apply_relationship_deltas: taking sides raises the respect, arguing most.
Regard(i, p) ==
    IF p.kind \in {"support", "defer"}
    THEN [respect EXCEPT ![i][p.on] = AtMost1024(@ + 20)]
    ELSE IF p.kind = "oppose"
    THEN [respect EXCEPT ![i][p.on] = AtMost1024(@ + 30)]
    ELSE respect

\* A mutant: the latest proposal leads.
LeadLatest(i, p) ==
    IF p.kind = "propose" THEN [who |-> i, action |-> p.on] ELSE lead

LeadAfter(i, p) ==
    IF lead = NoLead /\ p.kind = "propose" THEN [who |-> i, action |-> p.on] ELSE lead

\* The first member that does not back a.
Dissenter(cur, t, a) ==
    LET others == Crew \ Backers(cur, t, a)
    IN  IF others = {} THEN None ELSE CHOOSE i \in others : \A j \in others : i <= j

\* try_resolve: once all have spoken, all agree, or more than half do.
Settle(cur, t) ==
    LET a == Leading(cur, t) IN
    IF t < N \/ a = None THEN Unresolved
    ELSE IF Votes(cur, t, a) = N THEN [kind |-> "consensus", action |-> a, who |-> None]
    ELSE IF 2 * Votes(cur, t, a) > N
    THEN [kind |-> "majority", action |-> a, who |-> Dissenter(cur, t, a)]
    ELSE Unresolved

\* The most a member respects any other.
Esteem(r, i) ==
    LET of == {r[i][j] : j \in Crew \ {i}}
    IN  IF of = {} THEN 0 ELSE CHOOSE x \in of : \A y \in of : y <= x

\* Of those that back a, the last one of the highest esteem (max_by_key).
Tiebreaker(cur, r, t, a) ==
    CHOOSE i \in Backers(cur, t, a) : \A j \in Backers(cur, t, a) :
        \/ Esteem(r, j) < Esteem(r, i)
        \/ Esteem(r, j) = Esteem(r, i) /\ j <= i

\* force_resolve: what more than half back has been settled before.
ForceResolve(cur, r, t) ==
    LET a == Leading(cur, t) IN
    IF a = None THEN [kind |-> "deadlocked", action |-> None, who |-> None]
    ELSE [kind |-> "tiebreak", action |-> a, who |-> Tiebreaker(cur, r, t, a)]

\* A mutant: the cap on the rounds is passed over.
LastTurnLate(t) == t > MaxRounds * N

LastTurn(t) == t >= MaxRounds * N

\* What the turn that leads to cur, r and t decides.
Verdict(cur, r, t) ==
    LET settled == Settle(cur, t) IN
    IF settled = Unresolved /\ LastTurn(t) THEN ForceResolve(cur, r, t) ELSE settled

\* step, with no resolution yet; a resolution ends the conference (tick_crew_conference).
Turn ==
    /\ phase = "open"
    /\ resolution = Unresolved
    /\ LET i == Speaker
           p == Stance(i)
           cur == [current EXCEPT ![i] = p]
           r == Regard(i, p)
       IN  /\ current' = cur
           /\ respect' = r
           /\ lead' = LeadAfter(i, p)
           /\ resolution' = Verdict(cur, r, turns + 1)
    /\ turns' = turns + 1
    /\ phase' = IF resolution' = Unresolved THEN "open" ELSE "over"
    /\ UNCHANGED opening

-------------------------------------------------------------------------------
\* The client.

\* crew_conference_hotkey: new sets each current position to the opening one.
Call ==
    /\ phase = "called"
    /\ opening' \in {o \in [Crew -> Openings] :
                        \A i \in Crew : o[i].kind \in {"support", "oppose", "defer"} => o[i].on # i}
    /\ current' = opening'
    /\ respect' \in Regards
    /\ phase' = "open"
    /\ UNCHANGED <<turns, lead, resolution>>

\* The captain's "my way", between two turns and maybe again: player_override takes
\* what leads, whatever has been decided.
PlayerOverride ==
    /\ phase = "open"
    /\ LET a == Leading(current, turns)
       IN  resolution' = [kind |-> "override", who |-> None,
                          action |-> IF a = None THEN HoldCourse ELSE a]
    /\ UNCHANGED <<phase, opening, current, respect, turns, lead>>

\* A mutant: the captain's resolution leaves the session where it is.
ConcludeCrewOnly ==
    /\ phase = "open"
    /\ resolution \notin {Unresolved} /\ resolution.kind # "override"
    /\ phase' = "over"
    /\ UNCHANGED <<opening, current, respect, turns, lead, resolution>>

\* step finds the captain's resolution.
Conclude ==
    /\ phase = "open"
    /\ resolution # Unresolved
    /\ phase' = "over"
    /\ UNCHANGED <<opening, current, respect, turns, lead, resolution>>

\* tick_crew_conference, when the turn's delay has passed.
TickCrewConference == Turn \/ Conclude

ConferenceNext == Call \/ TickCrewConference \/ PlayerOverride

\* Frames run, so that a turn that is due is taken.
ConferenceSpec == ConferenceInit /\ [][ConferenceNext]_conferenceVars
ConferenceFairSpec == ConferenceSpec /\ WF_conferenceVars(TickCrewConference)

-------------------------------------------------------------------------------
Kinds == {"none", "consensus", "majority", "tiebreak", "deadlocked", "override"}

\* Types; and the third round is the last (co_deliberation.rs: "within MAX_ROUNDS rounds
\* per participant"): no turn is taken after it, whoever changed sides meanwhile.
ConferenceTypeOK ==
    /\ phase \in {"called", "open", "over"}
    /\ opening \in [Crew -> Position]
    /\ current \in [Crew -> Position]
    /\ respect \in [Crew -> [Crew -> Respect]]
    /\ turns \in 0..MaxRounds * N
    /\ lead = NoLead \/ lead \in [who : Crew, action : Actions]
    /\ resolution \in [kind : Kinds, action : Actions \cup {None, HoldCourse}, who : Crew \cup {None}]

\* Whoever came with a proposal counts for some action at every moment, also after
\* giving way: those it refers to never give way themselves, so that the tally loses
\* no vote to a chain of deferrals (backed_action resolves one reference only).
NoVoiceLost ==
    \A i \in Crew : opening[i].kind = "propose" => Backed(current, turns, i) # None

\* A conference that is open ends, however often the captain cuts in
\* (co_deliberation.rs: "the deliberation can never spin the game loop").
ConferenceEnds == phase = "open" ~> phase = "over"
===============================================================================
