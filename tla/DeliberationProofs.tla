----------------------------- MODULE DeliberationProofs -----------------------------
(***************************************************************************)
(* The theorems about both kinds of deliberation.  First the crew's        *)
(* conference, for any crew, actions, regards and openings: its types and  *)
(* its length, and that no proposal is lost to deferrals.  Then the slot   *)
(* of the client's deliberations, for any timers and bounds: its types and *)
(* the length of its history, that only its own answer ends a              *)
(* deliberation, and that the engineer is waited for, just once.           *)
(***************************************************************************)
EXTENDS Deliberation, CoDeliberation, DataLemmas, TLAPS

\* The first proposal spoken stands: whoever made it never gives way.
LeadStands ==
    lead # NoLead =>
        /\ lead.who \in Crew /\ lead.action \in Actions
        /\ lead.who <= turns
        /\ opening[lead.who] = Propose(lead.action)
        /\ current[lead.who] = opening[lead.who]

\* Whoever came with a proposal holds to it or refers to the first one.
Refers(i) ==
    \/ current[i] = opening[i]
    \/ lead # NoLead /\ current[i].kind \in {"defer", "oppose"} /\ current[i].on = lead.who

VoicesRefer == \A i \in Crew : opening[i].kind = "propose" => Refers(i)

\* What the argument needs of the types.
Shape ==
    /\ opening \in [Crew -> Position] /\ current \in [Crew -> Position]
    /\ turns \in Nat
    /\ phase = "called" => turns = 0 /\ lead = NoLead

VInv == Shape /\ LeadStands /\ VoicesRefer

-------------------------------------------------------------------------------
\* The speaker is one of the crew, and has had its turn when it is over.
LEMMA SpeakerInCrew ==
    ASSUME turns \in Nat
    PROVE Speaker \in Crew /\ Speaker <= turns + 1
  <1>1. N \in Nat \ {0}
    BY CrewAssumption
  <1>2. turns % N \in 0..(N - 1) /\ turns % N <= turns
    BY <1>1
  <1>3. QED
    BY <1>1, <1>2 DEF Speaker, Crew

\* A proposal is for some action, and gives way to the first one only.
LEMMA StanceRefers ==
    ASSUME VInv, NEW i \in Crew
    PROVE /\ Stance(i) \in Position
          /\ opening[i].kind = "propose" =>
                \/ Stance(i) = opening[i]
                \/ /\ lead # NoLead /\ lead.who # i
                   /\ Stance(i).kind \in {"defer", "oppose"} /\ Stance(i).on = lead.who
          /\ opening[i].kind # "propose" => Stance(i) = opening[i]
  BY DEF VInv, Shape, LeadStands, Stance, Position

LEMMA TurnVoices ==
    ASSUME VInv, Turn
    PROVE VInv'
  <1> DEFINE i == Speaker
             p == Stance(i)
  <1>1. turns \in Nat /\ phase = "open" /\ i \in Crew /\ i <= turns + 1
    BY SpeakerInCrew DEF Turn, VInv, Shape
  <1>2. p \in Position
    BY <1>1, StanceRefers
  <1>3. /\ current' = [current EXCEPT ![i] = p] /\ opening' = opening /\ turns' = turns + 1
        /\ lead' = LeadAfter(i, p) /\ phase' \in {"open", "over"}
    BY DEF Turn
  <1>4. opening \in [Crew -> Position] /\ current \in [Crew -> Position]
    BY DEF VInv, Shape
  <1> HIDE DEF i, p
  <1>5. Shape'
    BY <1>1, <1>2, <1>3, <1>4 DEF Shape
  <1>6. current'[i] = p /\ \A j \in Crew \ {i} : current'[j] = current[j]
    BY <1>1, <1>3, <1>4
  <1>7. CASE lead # NoLead
    <2>1. lead' = lead
      BY <1>3, <1>7 DEF LeadAfter
    <2>2. /\ lead.who \in Crew /\ lead.action \in Actions /\ lead.who <= turns
          /\ opening[lead.who] = Propose(lead.action) /\ current[lead.who] = opening[lead.who]
      BY <1>7 DEF VInv, LeadStands
    <2>3. lead.who = i => p = opening[i]
      BY <1>1, <2>2, StanceRefers DEF p, Propose
    <2>4. LeadStands'
      <3>1. current'[lead.who] = opening[lead.who]
        BY <1>6, <2>2, <2>3
      <3>2. lead.who <= turns'
        BY <1>1, <1>3, <2>2 DEF Crew
      <3>3. QED
        BY <1>3, <2>1, <2>2, <3>1, <3>2 DEF LeadStands
    <2>5. ASSUME NEW j \in Crew, opening[j].kind = "propose" PROVE Refers(j)'
      <3>1. CASE j = i
        BY <1>1, <1>3, <1>6, <2>1, <2>5, <3>1, StanceRefers DEF p, Refers
      <3>2. CASE j # i
        BY <1>3, <1>6, <2>1, <2>5, <3>2 DEF VInv, VoicesRefer, Refers
      <3>3. QED
        BY <3>1, <3>2
    <2>6. QED
      BY <1>3, <1>5, <2>4, <2>5 DEF VInv, VoicesRefer
  <1>8. CASE lead = NoLead
    <2>1. p = opening[i]
      BY <1>1, <1>8, StanceRefers DEF p, Stance
    <2>2. \A j \in Crew : opening[j].kind = "propose" => current[j] = opening[j]
      BY <1>8 DEF VInv, VoicesRefer, Refers
    <2>3. \A j \in Crew : opening[j].kind = "propose" => current'[j] = opening[j]
      BY <1>6, <2>1, <2>2
    <2>4. LeadStands'
      <3>1. CASE p.kind = "propose"
        <4>1. lead' = [who |-> i, action |-> p.on]
          BY <1>3, <1>8, <3>1 DEF LeadAfter
        <4>2. p.on \in Actions /\ p = Propose(p.on)
          BY <1>2, <3>1 DEF Position, Propose, Abstain
        <4>3. QED
          BY <1>1, <1>3, <1>6, <2>1, <4>1, <4>2 DEF LeadStands
      <3>2. CASE p.kind # "propose"
        BY <1>3, <1>8, <3>2 DEF LeadAfter, LeadStands
      <3>3. QED
        BY <3>1, <3>2
    <2>5. QED
      BY <1>3, <1>5, <2>3, <2>4 DEF VInv, VoicesRefer, Refers
  <1>9. QED
    BY <1>7, <1>8

LEMMA VoicesInv == VInv /\ [ConferenceNext]_conferenceVars => VInv'
  <1> SUFFICES ASSUME VInv, [ConferenceNext]_conferenceVars PROVE VInv'
    OBVIOUS
  <1>1. CASE Turn
    BY <1>1, TurnVoices
  <1>2. CASE Call
    <2>1. /\ opening' \in [Crew -> Openings] /\ current' = opening'
          /\ turns' = 0 /\ lead' = NoLead /\ phase' = "open"
      BY <1>2 DEF Call, VInv, Shape
    <2>2. opening' \in [Crew -> Position]
      BY <2>1, OpeningsAssumption
    <2>3. QED
      BY <2>1, <2>2 DEF VInv, Shape, LeadStands, VoicesRefer, Refers
  <1>3. CASE PlayerOverride \/ Conclude
    BY <1>3 DEF PlayerOverride, Conclude, VInv, Shape, LeadStands, VoicesRefer, Refers
  <1>4. CASE UNCHANGED conferenceVars
    BY <1>4 DEF conferenceVars, VInv, Shape, LeadStands, VoicesRefer, Refers
  <1>5. QED
    BY <1>1, <1>2, <1>3, <1>4 DEF ConferenceNext, TickCrewConference

LEMMA VoicesInit == ConferenceInit => VInv
  <1> SUFFICES ASSUME ConferenceInit PROVE VInv
    OBVIOUS
  <1>1. Abstain \in Position
    BY DEF Position
  <1>2. QED
    BY <1>1 DEF ConferenceInit, VInv, Shape, LeadStands, VoicesRefer, Refers

\* Whoever holds to a proposal or refers to the first one counts for an action.
LEMMA VoicesCount == VInv => NoVoiceLost
  <1> SUFFICES ASSUME VInv, NEW i \in Crew, opening[i].kind = "propose"
               PROVE Backed(current, turns, i) # None
    BY DEF NoVoiceLost
  <1>1. \A a \in Actions : a # None
    BY ActionsAssumption
  <1>2. Refers(i) /\ opening[i] \in Position /\ current[i] \in Position
    BY DEF VInv, Shape, VoicesRefer
  <1>3. CASE current[i] = opening[i]
    <2>1. opening[i].on \in Actions
      BY <1>2 DEF Position, Abstain
    <2>2. QED
      BY <1>1, <1>3, <2>1 DEF Backed
  <1>4. CASE lead # NoLead /\ current[i].kind \in {"defer", "oppose"} /\ current[i].on = lead.who
    <2>1. /\ lead.who <= turns /\ current[lead.who] = Propose(lead.action)
          /\ lead.action \in Actions
      BY <1>4 DEF VInv, LeadStands
    <2>2. Backed(current, turns, i) = lead.action
      BY <1>4, <2>1 DEF Backed, ProposedBy, Propose
    <2>3. QED
      BY <1>1, <2>1, <2>2
  <1>5. QED
    BY <1>2, <1>3, <1>4 DEF Refers

\* Whatever the crew and its regards, everyone who came with a proposal counts for
\* some action at every moment of the conference.
THEOREM NoProposalLost == ConferenceSpec => []NoVoiceLost
  BY VoicesInit, VoicesInv, VoicesCount, PTL DEF ConferenceSpec

-------------------------------------------------------------------------------
\* What is chosen exists.

LEMMA VotesType ==
    ASSUME NEW cur, NEW t, NEW a
    PROVE Votes(cur, t, a) \in 0..N
  <1> DEFINE S == Backers(cur, t, a)
  <1>1. IsFiniteSet(Crew) /\ Cardinality(Crew) = N
    BY CrewAssumption, FS_Interval DEF Crew
  <1>2. IsFiniteSet(S) /\ Cardinality(S) <= Cardinality(Crew)
    BY <1>1, FS_Subset DEF Backers
  <1>3. Cardinality(S) \in Nat
    BY <1>2, FS_CardinalityType
  <1>4. QED
    BY <1>1, <1>2, <1>3, CrewAssumption DEF Votes

\* The tally is led by one of the actions that are backed.
LEMMA LeadingType ==
    ASSUME NEW cur, NEW t
    PROVE /\ Leading(cur, t) \in Backing(cur, t) \cup {None}
          /\ Backing(cur, t) \subseteq Actions
  <1>1. Backing(cur, t) \subseteq Actions /\ Actions \subseteq Nat
    BY ActionsAssumption DEF Backing
  <1>2. CASE Backing(cur, t) = {}
    BY <1>1, <1>2 DEF Leading
  <1>3. CASE Backing(cur, t) # {}
    <2> DEFINE B == Backing(cur, t)
               V == {Votes(cur, t, a) : a \in B}
    <2>1. V \in SUBSET Int /\ V # {} /\ \A v \in V : v <= N
      BY <1>3, VotesType
    <2>2. PICK v \in V : \A w \in V : w <= v
      <3> HIDE DEF V
      <3>1. N \in Int
        BY CrewAssumption
      <3>2. QED
        BY <2>1, <3>1, Largest
    <2> DEFINE M == {a \in B : Votes(cur, t, a) = v}
    <2>3. M \in SUBSET Nat /\ M # {}
      BY <1>1
    <2>4. PICK a \in M : \A b \in M : a <= b
      BY <2>3, Smallest
    <2>5. ASSUME NEW b \in Actions
          PROVE \/ Votes(cur, t, a) > Votes(cur, t, b)
                \/ Votes(cur, t, a) = Votes(cur, t, b) /\ a <= b
      <3>1. Votes(cur, t, a) = v /\ a \in B /\ v > 0
        BY DEF Backing
      <3>2. Votes(cur, t, b) \in Nat /\ v \in Nat
        BY <3>1, VotesType
      <3>3. CASE b \in B
        <4>1. Votes(cur, t, b) <= v
          BY <2>2, <3>3
        <4>2. CASE Votes(cur, t, b) = v
          BY <2>4, <3>1, <3>3, <4>2
        <4>3. CASE Votes(cur, t, b) # v
          BY <3>1, <3>2, <4>1, <4>3
        <4>4. QED
          BY <4>2, <4>3
      <3>4. CASE b \notin B
        BY <2>5, <3>1, <3>2, <3>4 DEF Backing
      <3>5. QED
        BY <3>3, <3>4
    <2>6. Leading(cur, t) = CHOOSE c \in B : \A b \in Actions :
                                \/ Votes(cur, t, c) > Votes(cur, t, b)
                                \/ Votes(cur, t, c) = Votes(cur, t, b) /\ c <= b
      BY <1>3 DEF Leading
    <2>7. a \in B
      OBVIOUS
    <2> HIDE DEF B, V, M
    <2>8. Leading(cur, t) \in B
      BY <2>5, <2>6, <2>7
    <2>9. QED
      BY <1>1, <2>8 DEF B
  <1>4. QED
    BY <1>2, <1>3

LEMMA DissenterType ==
    ASSUME NEW cur, NEW t, NEW a
    PROVE Dissenter(cur, t, a) \in Crew \cup {None}
  <1> DEFINE others == Crew \ Backers(cur, t, a)
  <1>1. CASE others = {}
    BY <1>1 DEF Dissenter
  <1>2. CASE others # {}
    <2>1. PICK x \in others : \A y \in others : x <= y
      <3>1. others \in SUBSET Nat
        BY DEF Crew
      <3> HIDE DEF others
      <3>2. QED
        BY <1>2, <3>1, Smallest
    <2>2. Dissenter(cur, t, a) = CHOOSE i \in others : \A j \in others : i <= j
      BY <1>2 DEF Dissenter
    <2>3. QED
      BY <2>1, <2>2
  <1>3. QED
    BY <1>1, <1>2

LEMMA RespectRange == \A x \in Respect : x \in Int /\ x <= 1024
  BY DEF Respect

\* Esteem is a respect, or 0.
LEMMA EsteemType ==
    ASSUME NEW r \in [Crew -> [Crew -> Respect]], NEW i \in Crew
    PROVE Esteem(r, i) \in Respect
  <1> DEFINE of == {r[i][j] : j \in Crew \ {i}}
  <1>1. CASE of = {}
    BY <1>1 DEF Esteem, Respect
  <1>2. CASE of # {}
    <2>1. of \in SUBSET (Respect)
      OBVIOUS
    <2>2. PICK x \in of : \A y \in of : y <= x
      <3> HIDE DEF of
      <3>1. PICK b \in Int : b = 1024
        OBVIOUS
      <3>2. of \in SUBSET Int /\ \A x \in of : x <= b
        BY <2>1, <3>1 DEF Respect
      <3>3. QED
        BY <1>2, <3>2, Largest
    <2>3. Esteem(r, i) = CHOOSE z \in of : \A y \in of : y <= z
      BY <1>2 DEF Esteem
    <2> HIDE DEF of
    <2>4. Esteem(r, i) \in of
      BY <2>2, <2>3
    <2>5. QED
      BY <2>1, <2>4
  <1>3. QED
    BY <1>1, <1>2

LEMMA TiebreakerType ==
    ASSUME NEW cur, NEW r \in [Crew -> [Crew -> Respect]], NEW t, NEW a \in Backing(cur, t)
    PROVE Tiebreaker(cur, r, t, a) \in Crew
  <1> DEFINE backers == Backers(cur, t, a)
             E == {Esteem(r, i) : i \in backers}
  <1>1. backers # {}
    <2>1. Cardinality(backers) > 0
      BY DEF Backing, Votes
    <2> HIDE DEF backers
    <2>2. QED
      BY <2>1, FS_EmptySet
  <1>2. PICK e \in E : \A x \in E : x <= e
    <2>1. PICK b \in Int : b = 1024
      OBVIOUS
    <2>2. \A i \in backers : Esteem(r, i) \in Respect
      BY EsteemType DEF Backers
    <2>3. E # {} /\ \A x \in E : x \in Respect
      BY <1>1, <2>2
    <2> HIDE DEF E
    <2>4. \A x \in E : x \in Int /\ x <= b
      BY <2>1, <2>3, RespectRange
    <2>5. E \in SUBSET Int
      BY <2>4
    <2>6. QED
      BY <2>3, <2>4, <2>5, Largest
  <1> DEFINE best == {i \in backers : Esteem(r, i) = e}
  <1>3. PICK i \in best : \A j \in best : j <= i
    <2>1. best \in SUBSET Int /\ best # {} /\ \A x \in best : x <= N
      BY CrewAssumption DEF Crew, Backers
    <2>2. N \in Int
      BY CrewAssumption
    <2> HIDE DEF best
    <2>3. QED
      BY <2>1, <2>2, Largest
  <1>4. ASSUME NEW j \in backers
        PROVE Esteem(r, j) < Esteem(r, i) \/ (Esteem(r, j) = Esteem(r, i) /\ j <= i)
    <2>1. Esteem(r, j) <= e /\ Esteem(r, i) = e
      BY <1>2
    <2>2. i \in Crew /\ j \in Crew
      BY DEF Backers
    <2>3. Esteem(r, j) \in Respect /\ Esteem(r, i) \in Respect
      BY <2>2, EsteemType
    <2>4. Esteem(r, j) = e => j <= i
      BY <1>3
    <2>5. Esteem(r, j) \in Int /\ Esteem(r, i) \in Int
      BY <2>3, RespectRange
    <2> HIDE DEF best, backers, E
    <2>6. QED
      BY <2>1, <2>4, <2>5
  <1>5. Tiebreaker(cur, r, t, a)
          = CHOOSE k \in backers : \A j \in backers :
                Esteem(r, j) < Esteem(r, k) \/ (Esteem(r, j) = Esteem(r, k) /\ j <= k)
    BY DEF Tiebreaker
  <1>6. i \in backers /\ backers \subseteq Crew
    BY DEF Backers
  <1> HIDE DEF backers, E, best
  <1>7. QED
    BY <1>4, <1>5, <1>6

-------------------------------------------------------------------------------
\* The types, and the length of a conference.

Resolution == [kind : Kinds, action : Actions \cup {None, HoldCourse}, who : Crew \cup {None}]

\* While nothing is decided a turn is left.
Going ==
    /\ phase = "called" => resolution = Unresolved /\ turns = 0
    /\ phase = "open" /\ resolution = Unresolved => turns < MaxRounds * N

LengthIsPositive == MaxRounds * N \in Nat /\ MaxRounds * N > 0

LEMMA LengthLemma == LengthIsPositive
  <1>1. \A m, n \in Nat \ {0} : m * n \in Nat /\ m * n > 0
    OBVIOUS
  <1>2. QED
    BY <1>1, CrewAssumption DEF LengthIsPositive

\* Either the verdict is a resolution, or there is a turn left.
LEMMA VerdictType ==
    ASSUME NEW cur, NEW r \in [Crew -> [Crew -> Respect]], NEW t \in Nat
    PROVE /\ Verdict(cur, r, t) \in Resolution
          /\ Verdict(cur, r, t) = Unresolved => t < MaxRounds * N
  <1> DEFINE a == Leading(cur, t)
  <1>1. a \in Actions \cup {None} /\ (a # None => a \in Backing(cur, t))
    BY LeadingType
  <1>2. Unresolved \in Resolution
    BY DEF Unresolved, Resolution, Kinds
  <1>3. Settle(cur, t) \in Resolution
    <2>1. Dissenter(cur, t, a) \in Crew \cup {None}
      BY DissenterType
    <2> HIDE DEF a
    <2>2. QED
      BY <1>1, <1>2, <2>1 DEF Settle, Resolution, Kinds, a
  <1>4. ForceResolve(cur, r, t) \in Resolution /\ ForceResolve(cur, r, t) # Unresolved
    <2>1. a # None => Tiebreaker(cur, r, t, a) \in Crew
      BY <1>1, TiebreakerType
    <2> HIDE DEF a
    <2>2. QED
      BY <1>1, <2>1 DEF ForceResolve, Unresolved, Resolution, Kinds, a
  <1>5. LastTurn(t) \/ t < MaxRounds * N
    BY LengthLemma DEF LastTurn, LengthIsPositive
  <1>6. QED
    BY <1>3, <1>4, <1>5 DEF Verdict

LEMMA RegardType ==
    ASSUME respect \in [Crew -> [Crew -> Respect]], NEW i \in Crew, NEW p \in Position
    PROVE Regard(i, p) \in [Crew -> [Crew -> Respect]]
  <1>1. p.kind \in {"support", "defer", "oppose"} => p.on \in Crew
    BY DEF Position, Abstain
  <1>2. \A j \in Crew : \A d \in {20, 30} : AtMost1024(respect[i][j] + d) \in Respect
    <2>1. \A x \in Respect : \A d \in {20, 30} : AtMost1024(x + d) \in Respect
      BY DEF AtMost1024, Respect
    <2>2. \A j \in Crew : respect[i][j] \in Respect
      OBVIOUS
    <2>3. QED
      BY <2>1, <2>2
  <1>3. \A j \in Crew : \A x \in Respect :
            [respect EXCEPT ![i][j] = x] \in [Crew -> [Crew -> Respect]]
    OBVIOUS
  <1>4. CASE p.kind \in {"support", "defer"}
    <2>1. Regard(i, p) = [respect EXCEPT ![i][p.on] = AtMost1024(respect[i][p.on] + 20)]
      BY <1>4 DEF Regard
    <2>2. QED
      BY <1>1, <1>2, <1>3, <1>4, <2>1
  <1>5. CASE p.kind = "oppose"
    <2>1. Regard(i, p) = [respect EXCEPT ![i][p.on] = AtMost1024(respect[i][p.on] + 30)]
      BY <1>5 DEF Regard
    <2>2. QED
      BY <1>1, <1>2, <1>3, <1>5, <2>1
  <1>6. CASE p.kind \notin {"support", "defer", "oppose"}
    BY <1>6 DEF Regard
  <1>7. QED
    BY <1>4, <1>5, <1>6

LEMMA TurnTypes ==
    ASSUME ConferenceTypeOK, VInv, Going, Turn
    PROVE ConferenceTypeOK' /\ Going'
  <1> DEFINE i == Speaker
             p == Stance(i)
             cur == [current EXCEPT ![i] = p]
             r == Regard(i, p)
  <1>1. i \in Crew /\ p \in Position /\ turns \in Nat
    BY SpeakerInCrew, StanceRefers DEF VInv, Shape
  <1>2. r \in [Crew -> [Crew -> Respect]]
    BY <1>1, RegardType DEF ConferenceTypeOK
  <1>3. /\ current' = cur /\ respect' = r /\ turns' = turns + 1 /\ lead' = LeadAfter(i, p)
        /\ resolution' = Verdict(cur, r, turns + 1) /\ opening' = opening
        /\ phase' = (IF resolution' = Unresolved THEN "open" ELSE "over")
        /\ phase = "open" /\ resolution = Unresolved
    BY DEF Turn
  <1>4. cur \in [Crew -> Position]
    BY <1>1 DEF ConferenceTypeOK
  <1> HIDE DEF i, p, cur, r
  <1>5. resolution' \in Resolution /\ (resolution' = Unresolved => turns' < MaxRounds * N)
    BY <1>1, <1>2, <1>3, VerdictType
  <1>6. turns' \in 0..MaxRounds * N
    BY <1>1, <1>3, LengthLemma DEF Going, LengthIsPositive
  <1>7. lead' = NoLead \/ lead' \in [who : Crew, action : Actions]
    <2>1. p.kind = "propose" => p.on \in Actions
      BY <1>1 DEF Position, Abstain
    <2>2. QED
      BY <1>1, <1>3, <2>1 DEF ConferenceTypeOK, LeadAfter
  <1>8. ConferenceTypeOK'
    BY <1>2, <1>3, <1>4, <1>5, <1>6, <1>7 DEF ConferenceTypeOK, Resolution
  <1>9. Going'
    BY <1>3, <1>5 DEF Going
  <1>10. QED
    BY <1>8, <1>9

LEMMA TypesInv ==
    ConferenceTypeOK /\ Going /\ VInv /\ [ConferenceNext]_conferenceVars => ConferenceTypeOK' /\ Going'
  <1> SUFFICES ASSUME ConferenceTypeOK, Going, VInv, [ConferenceNext]_conferenceVars
               PROVE ConferenceTypeOK' /\ Going'
    OBVIOUS
  <1>1. CASE Turn
    BY <1>1, TurnTypes
  <1>2. CASE Call
    <2>1. /\ opening' \in [Crew -> Openings] /\ current' = opening' /\ respect' \in Regards
          /\ phase' = "open" /\ turns' = 0 /\ lead' = lead /\ resolution' = resolution
          /\ resolution = Unresolved
      BY <1>2 DEF Call, Going
    <2>2. opening' \in [Crew -> Position] /\ respect' \in [Crew -> [Crew -> Respect]]
      BY <2>1, OpeningsAssumption
    <2>3. ConferenceTypeOK'
      BY <2>1, <2>2, LengthLemma DEF ConferenceTypeOK, LengthIsPositive
    <2>4. QED
      BY <2>1, <2>3, LengthLemma DEF Going, LengthIsPositive
  <1>3. CASE PlayerOverride
    <2>1. Leading(current, turns) \in Actions \cup {None}
      BY LeadingType
    <2>2. resolution' \in Resolution /\ resolution' # Unresolved
      BY <1>3, <2>1 DEF PlayerOverride, Resolution, Kinds, Unresolved
    <2>3. QED
      BY <1>3, <2>2 DEF PlayerOverride, ConferenceTypeOK, Going, Resolution
  <1>4. CASE Conclude
    BY <1>4 DEF Conclude, ConferenceTypeOK, Going
  <1>5. CASE UNCHANGED conferenceVars
    BY <1>5 DEF conferenceVars, ConferenceTypeOK, Going
  <1>6. QED
    BY <1>1, <1>2, <1>3, <1>4, <1>5 DEF ConferenceNext, TickCrewConference

LEMMA TypesInit == ConferenceInit => ConferenceTypeOK /\ Going
  <1> SUFFICES ASSUME ConferenceInit PROVE ConferenceTypeOK /\ Going
    OBVIOUS
  <1>1. Abstain \in Position /\ Unresolved \in Resolution
    BY DEF Position, Unresolved, Resolution, Kinds
  <1>2. QED
    BY <1>1, LengthLemma DEF ConferenceInit, ConferenceTypeOK, Going, Resolution, LengthIsPositive, Respect

\* Whatever the crew, its regards and the captain's interventions, the conference is
\* settled by the third round: no turn follows it.
THEOREM TypeCorrect == ConferenceSpec => []ConferenceTypeOK
  BY VoicesInit, VoicesInv, TypesInit, TypesInv, PTL DEF ConferenceSpec

-------------------------------------------------------------------------------
\* The slot.
Abouts == {"signal", "fire", "anomaly"}
Ends == {"open", "displaced", "fallback", "answered", "failed", "override", "cleared"}
Entries == [about : Abouts, end : Ends, by : Nat]

\* The slot and its history: what is in the slot is the latest deliberation and the only
\* one that is open, and each has been ended by its own answer, if by any.
Ledger ==
    /\ past \in Seq(Entries) /\ slot \in [id : Nat, left : Nat, call : Nat]
    /\ slot # Empty => slot.id = Len(past) /\ slot.id > 0
    /\ \A i \in 1..Len(past) : /\ past[i].end = "open" <=> slot.id = i
                               /\ past[i].by \in {0, i}

\* What each step may do to them.
Opens(about) == \E time \in Nat, call \in Nat : Begin(about, time, call)
Empties == /\ slot' = Empty
           /\ \E how \in Ends \ {"open"}, by \in {0, slot.id} : past' = Closed(how, by)
Keeps == /\ past' = past /\ slot'.id = slot.id /\ slot'.call = slot.call
         /\ slot' \in [id : Nat, left : Nat, call : Nat]
         /\ (slot' = Empty <=> slot = Empty)

\* The empty slot has no deliberation and no call.
LEMMA EmptyFacts ==
    Empty \in [id : Nat, left : Nat, call : Nat] /\ Empty.id = 0 /\ Empty.call = 0
  BY DEF Empty, NoCall

\* The history once the deliberation in the slot has ended.
LEMMA ClosedFacts ==
    ASSUME Ledger, NEW how \in Ends \ {"open"}, NEW by \in {0, slot.id}
    PROVE /\ Closed(how, by) \in Seq(Entries) /\ Len(Closed(how, by)) = Len(past)
          /\ \A i \in 1..Len(past) : /\ Closed(how, by)[i].about = past[i].about
                                     /\ Closed(how, by)[i].end # "open"
                                     /\ Closed(how, by)[i].by \in {0, i}
  <1> DEFINE q == Closed(how, by)
  <1>1. PICK l \in Nat : l = Len(past)
    BY LenProperties DEF Ledger
  <1>2. past \in [1..l -> Entries] /\ by \in Nat
    BY <1>1, LenProperties DEF Ledger
  <1>3. CASE ~Busy
    <2>1. q = past /\ slot.id = 0
      BY <1>3, EmptyFacts DEF Closed, Busy
    <2>2. QED
      BY <1>1, <2>1 DEF Ledger
  <1>4. CASE Busy
    <2>1. PICK k \in 1..l : k = slot.id
      BY <1>1, <1>4 DEF Ledger, Busy
    <2>2. q = [past EXCEPT ![k] = [past[k] EXCEPT !.end = how, !.by = by]]
      BY <1>4, <2>1 DEF Closed
    <2>3. PICK e \in Entries : /\ e = [past[k] EXCEPT !.end = how, !.by = by]
                               /\ e.about = past[k].about /\ e.end = how /\ e.by = by
      <3>1. past[k] \in Entries
        BY <1>2
      <3>2. \A x \in Entries : /\ [x EXCEPT !.end = how, !.by = by] \in Entries
                               /\ [x EXCEPT !.end = how, !.by = by].about = x.about
                               /\ [x EXCEPT !.end = how, !.by = by].end = how
                               /\ [x EXCEPT !.end = how, !.by = by].by = by
        BY <1>2 DEF Entries
      <3>3. QED
        BY <3>1, <3>2
    <2>4. q = [past EXCEPT ![k] = e]
      BY <2>2, <2>3
    <2> HIDE DEF q
    <2>5. q \in [1..l -> Entries] /\ \A i \in 1..l : q[i] = IF i = k THEN e ELSE past[i]
      BY <1>2, <2>4
    <2>6. q \in Seq(Entries) /\ Len(q) = l
      BY <2>5
    <2>7. ASSUME NEW i \in 1..l
          PROVE q[i].about = past[i].about /\ q[i].end # "open" /\ q[i].by \in {0, i}
      <3>1. CASE i = k
        BY <2>1, <2>3, <2>5, <3>1
      <3>2. CASE i # k
        BY <1>1, <2>1, <2>5, <3>2 DEF Ledger
      <3>3. QED
        BY <3>1, <3>2
    <2>8. QED
      BY <1>1, <2>6, <2>7 DEF q
  <1>5. QED
    BY <1>3, <1>4

\* A deliberation that begins is the latest and the only open one, and the earlier ones keep
\* what they are about.
LEMMA OpensLedger ==
    ASSUME Ledger, NEW about \in Abouts, NEW time \in Nat, NEW call \in Nat,
           Begin(about, time, call)
    PROVE /\ Ledger' /\ slot'.id = Len(past) + 1 /\ Len(past') = Len(past) + 1
          /\ slot'.call = call /\ slot' # Empty
          /\ \A i \in 1..Len(past) : past'[i].about = past[i].about
          /\ past'[Len(past) + 1].about = about
  <1> DEFINE e == [about |-> about, end |-> "open", by |-> 0]
  <1>1. PICK q : q = Closed("displaced", 0)
    OBVIOUS
  <1>2. PICK l \in Nat : l = Len(past)
    BY LenProperties DEF Ledger
  <1>3. /\ q \in Seq(Entries) /\ Len(q) = l
        /\ \A i \in 1..l : q[i].about = past[i].about /\ q[i].end # "open" /\ q[i].by \in {0, i}
    <2>1. "displaced" \in Ends \ {"open"}
      BY DEF Ends
    <2>2. QED
      BY <1>1, <1>2, <2>1, ClosedFacts
  <1>4. e \in Entries /\ e.about = about /\ e.end = "open" /\ e.by = 0
    BY DEF Entries, Ends
  <1>5. slot' = [id |-> l + 1, left |-> time, call |-> call] /\ past' = Append(q, e)
    BY <1>1, <1>2 DEF Begin
  <1> HIDE DEF e
  <1>6. /\ past' \in Seq(Entries) /\ Len(past') = l + 1 /\ past'[l + 1] = e
        /\ \A i \in 1..l : past'[i] = q[i]
    BY <1>3, <1>4, <1>5, AppendProperties
  <1>7. /\ slot' \in [id : Nat, left : Nat, call : Nat] /\ slot'.id = l + 1 /\ slot'.call = call
    BY <1>5
  <1>8. \A i \in 1..(l + 1) : /\ past'[i].end = "open" <=> slot'.id = i
                              /\ past'[i].by \in {0, i}
    BY <1>3, <1>4, <1>6, <1>7
  <1>9. slot' # Empty
    BY <1>7, EmptyFacts
  <1>10. Ledger'
    BY <1>6, <1>7, <1>8 DEF Ledger
  <1>11. QED
    BY <1>2, <1>3, <1>4, <1>6, <1>7, <1>9, <1>10

\* Ending the deliberation in the slot leaves none open.
LEMMA EmptiesLedger ==
    ASSUME Ledger, Empties
    PROVE /\ Ledger' /\ Len(past') = Len(past) /\ slot'.id = 0 /\ slot'.call = 0
          /\ \A i \in 1..Len(past) : past'[i].about = past[i].about
  <1>1. PICK how \in Ends \ {"open"}, by \in {0, slot.id} : past' = Closed(how, by)
    BY DEF Empties
  <1>2. slot' = Empty
    BY DEF Empties
  <1>3. /\ past' \in Seq(Entries) /\ Len(past') = Len(past)
        /\ \A i \in 1..Len(past) : /\ past'[i].about = past[i].about
                                   /\ past'[i].end # "open" /\ past'[i].by \in {0, i}
    BY <1>1, ClosedFacts
  <1>4. \A i \in 1..Len(past) : i # 0
    BY LenProperties DEF Ledger
  <1>5. slot' \in [id : Nat, left : Nat, call : Nat] /\ slot'.id = 0 /\ slot'.call = 0
    BY <1>2, EmptyFacts
  <1>6. \A i \in 1..Len(past') : /\ past'[i].end = "open" <=> slot'.id = i
                                /\ past'[i].by \in {0, i}
    BY <1>3, <1>4, <1>5
  <1>7. Ledger'
    <2>1. (slot = Empty)'
      BY <1>2 DEF Empty
    <2>2. QED
      BY <1>3, <1>5, <1>6, <2>1 DEF Ledger
  <1>8. QED
    BY <1>3, <1>5, <1>7

\* Keeping the slot keeps the ledger.
LEMMA KeepsLedger == ASSUME Ledger, Keeps PROVE Ledger'
  BY EmptyFacts DEF Ledger, Keeps

-------------------------------------------------------------------------------
Types ==
    /\ Times /\ Bounds
    /\ signal \in BOOLEAN /\ lowFuel \in BOOLEAN /\ waiting \in BOOLEAN
    /\ panel \in BOOLEAN /\ conn \in BOOLEAN
    /\ evalIn \in 0..EvalPeriod /\ controlIn \in 0..ControlPeriod
    /\ transit \in [active : BOOLEAN, elapsed : 0..TransitTime, fired : BOOLEAN]
    /\ tick \in Nat /\ signals \in 0..MaxSignals /\ jumps \in 0..MaxJumps

\* The timers and counters start within their types.
LEMMA InitTypes == Times /\ Bounds /\ Init => Types
  <1> SUFFICES ASSUME Times, Bounds, Init PROVE Types
    OBVIOUS
  <1>1. /\ EvalPeriod \in 0..EvalPeriod /\ ControlPeriod \in 0..ControlPeriod /\ 0 \in 0..TransitTime
        /\ 0 \in 0..MaxSignals /\ 0 \in 0..MaxJumps
    BY DEF Times, Bounds
  <1>2. AtHome \in [active : BOOLEAN, elapsed : 0..TransitTime, fired : BOOLEAN]
    BY <1>1 DEF AtHome
  <1>3. QED
    BY <1>1, <1>2 DEF Init, Types

\* A step of the transit keeps its type.
LEMMA TransitTypes ==
    ASSUME Types
    PROVE /\ AtHome \in [active : BOOLEAN, elapsed : 0..TransitTime, fired : BOOLEAN]
          /\ [transit EXCEPT !.fired = TRUE] \in [active : BOOLEAN, elapsed : 0..TransitTime, fired : BOOLEAN]
          /\ \A fired \in BOOLEAN : [active |-> TRUE, elapsed |-> 0, fired |-> fired]
                                        \in [active : BOOLEAN, elapsed : 0..TransitTime, fired : BOOLEAN]
  <1>1. 0 \in 0..TransitTime
    BY DEF Types, Times
  <1>2. QED
    BY <1>1 DEF Types, AtHome

\* What the timers do keeps the types.
LEMMA TimerTypes == Types /\ Timers => Types'
  <1> SUFFICES ASSUME Types, Timers PROVE Types'
    OBVIOUS
  <1>1. /\ EvalPeriod \in 0..EvalPeriod /\ ControlPeriod \in 0..ControlPeriod
    BY DEF Types, Times
  <1>2. CASE Evaluate
    <2>1. tick' \in Nat
      BY <1>2 DEF Evaluate, Types
    <2>2. QED
      BY <1>1, <1>2, <2>1 DEF Evaluate, Types, counters
  <1>3. CASE Expire
    BY <1>3 DEF Expire, End, Types, net, counters
  <1>4. CASE \E burning \in 0..2 : Control(burning)
    <2>1. PICK burning \in 0..2 : Control(burning)
      BY <1>4
    <2>2. waiting' \in BOOLEAN
      BY <2>1 DEF Control
    <2>3. QED
      BY <1>1, <2>1, <2>2 DEF Control, Types, net, counters
  <1>5. CASE \E rolls \in BOOLEAN : Anomaly(rolls)
    BY <1>5, TransitTypes DEF Anomaly, Types, net, counters
  <1>6. CASE Arrive
    BY <1>6, TransitTypes DEF Arrive, Types, net, counters
  <1>7. CASE Tick
    <2>1. evalIn' \in 0..EvalPeriod /\ controlIn' \in 0..ControlPeriod
      BY <1>7 DEF Tick, Types, Times
    <2>2. transit' \in [active : BOOLEAN, elapsed : 0..TransitTime, fired : BOOLEAN]
      <3>1. PICK t \in Nat, e \in Nat : t = TransitTime /\ e = transit.elapsed /\ e <= t
        BY DEF Types, Times
      <3>2. CASE transit.active
        <4>1. e # t
          <5>1. CASE transit.fired
            BY <1>7, <3>1, <3>2, <5>1 DEF Tick, ArrivalDue
          <5>2. CASE ~transit.fired
            <6>1. ~(2 * e >= t)
              BY <1>7, <3>1, <3>2, <5>2 DEF Tick, AnomalyDue
            <6>2. QED
              BY <6>1
          <5>3. QED
            BY <5>1, <5>2
        <4>2. e + 1 \in 0..t
          BY <3>1, <4>1
        <4>3. transit' = [transit EXCEPT !.elapsed = e + 1]
          BY <1>7, <3>1, <3>2 DEF Tick
        <4>4. QED
          BY <3>1, <4>2, <4>3 DEF Types
      <3>3. CASE ~transit.active
        BY <1>7, <3>3 DEF Tick, Types
      <3>4. QED
        BY <3>2, <3>3
    <2>3. QED
      BY <1>7, <2>1, <2>2 DEF Tick, Types, net, counters
  <1>8. QED
    BY <1>2, <1>3, <1>4, <1>5, <1>6, <1>7 DEF Timers

\* Every step keeps the types.
LEMMA NextTypes == Types /\ [Next]_vars => Types'
  <1> SUFFICES ASSUME Types, [Next]_vars PROVE Types'
    OBVIOUS
  <1>1. CASE Signal
    <2>1. signals' \in 0..MaxSignals
      BY <1>1 DEF Signal, Types, Bounds
    <2>2. QED
      BY <1>1, <2>1 DEF Signal, Types, net
  <1>2. CASE Fuel \/ Show \/ Dismiss
    BY <1>2 DEF Fuel, Show, Dismiss, Types, net, counters
  <1>3. CASE GateJump \/ SelfJump
    <2>1. PICK fired \in BOOLEAN : Engage(fired)
      BY <1>3 DEF GateJump, SelfJump
    <2>2. lowFuel' \in BOOLEAN
      BY <1>3 DEF GateJump, SelfJump, Types
    <2>3. jumps' \in 0..MaxJumps
      BY <2>1 DEF Engage, Types, Bounds
    <2>4. transit' \in [active : BOOLEAN, elapsed : 0..TransitTime, fired : BOOLEAN]
      BY <2>1, TransitTypes DEF Engage
    <2>5. QED
      BY <2>1, <2>2, <2>3, <2>4 DEF Engage, Types, net
  <1>4. CASE Override
    BY <1>4 DEF Override, End, Types, net, counters
  <1>5. CASE \E read \in BOOLEAN : Flush(read)
    BY <1>5 DEF Flush, Types, ship, counters
  <1>6. CASE \E c \in asked, ok \in BOOLEAN : Reply(c, ok)
    BY <1>6 DEF Reply, Types, ship, counters
  <1>7. CASE \E a \in answers : Resolve(a)
    <2>1. PICK a \in answers : Resolve(a)
      BY <1>7
    <2>2. tick' \in Nat /\ signal' \in BOOLEAN
      <3>1. tick' \in {tick, tick + 1} /\ signal' \in {signal, FALSE}
        BY <2>1 DEF Resolve, End
      <3>2. QED
        <4>1. tick \in Nat /\ tick + 1 \in Nat /\ signal \in BOOLEAN
          BY DEF Types
        <4>2. QED
          BY <3>1, <4>1
    <2>3. QED
      BY <2>1, <2>2 DEF Resolve, Types, counters
  <1>8. CASE Lose \/ Reconnect
    BY <1>8 DEF Lose, Reconnect, Types, ship, counters
  <1>9. CASE UNCHANGED vars
    BY <1>9 DEF vars, ship, net, counters, Types
  <1>10. QED
    BY <1>1, <1>2, <1>3, <1>4, <1>5, <1>6, <1>7, <1>8, <1>9, TimerTypes DEF Next

-------------------------------------------------------------------------------
\* Each step opens a deliberation, empties the slot or keeps what is there.  Only damage
\* control opens one about fires.
FireOpens == Opens("fire") /\ \E burning \in 0..2 : Control(burning)

LEMMA TimerCases ==
    ASSUME Types, Ledger, Timers
    PROVE \/ \E about \in Abouts \ {"fire"} : Opens(about)
          \/ FireOpens
          \/ Empties
          \/ Keeps
  <1>1. /\ SignalTime \in Nat /\ FireTime \in Nat /\ AnomalyTime \in Nat /\ NoCall \in Nat
        /\ {"signal", "anomaly"} = Abouts \ {"fire"}
    BY DEF Types, Times, NoCall, Abouts
  <1>2. {"fallback", "cleared"} \subseteq Ends \ {"open"}
    BY DEF Ends
  <1>3. UNCHANGED <<slot, past>> => Keeps
    BY DEF Keeps, Ledger
  <1>4. CASE Evaluate
    <2>1. CallId(tick + 1) \in Nat
      BY DEF CallId, Types
    <2>2. UNCHANGED <<slot, past>> \/ \E call \in Nat : Begin("signal", SignalTime, call)
      BY <1>1, <1>4, <2>1 DEF Evaluate
    <2>3. QED
      BY <1>1, <1>3, <2>2 DEF Opens
  <1>5. CASE Expire
    BY <1>2, <1>5 DEF Expire, End, Empties
  <1>6. CASE \E burning \in 0..2 : Control(burning)
    <2>1. UNCHANGED <<slot, past>> \/ Begin("fire", FireTime, NoCall)
      BY <1>6 DEF Control
    <2>2. QED
      BY <1>1, <1>3, <1>6, <2>1 DEF Opens, FireOpens
  <1>7. CASE \E rolls \in BOOLEAN : Anomaly(rolls)
    <2>1. UNCHANGED <<slot, past>> \/ Begin("anomaly", AnomalyTime, NoCall)
      BY <1>7 DEF Anomaly
    <2>2. QED
      BY <1>1, <1>3, <2>1 DEF Opens
  <1>8. CASE Arrive
    BY <1>2, <1>8 DEF Arrive, Empties
  <1>9. CASE Tick
    <2>1. past' = past
      BY <1>9 DEF Tick, history
    <2>2. CASE Busy
      <3>1. slot' = [slot EXCEPT !.left = slot.left - 1] /\ slot.left - 1 \in Nat
        BY <1>9, <2>2 DEF Tick, Ledger
      <3>2. /\ slot'.id = slot.id /\ slot'.call = slot.call /\ slot' \in [id : Nat, left : Nat, call : Nat]
        BY <3>1 DEF Ledger
      <3>3. slot.id > 0 /\ slot' # Empty
        BY <2>2, <3>2, EmptyFacts DEF Ledger, Busy
      <3>4. QED
        BY <2>1, <2>2, <3>2, <3>3 DEF Keeps, Busy
    <2>3. CASE ~Busy
      BY <1>3, <1>9, <2>1, <2>3 DEF Tick
    <2>4. QED
      BY <2>2, <2>3
  <1>10. QED
    BY <1>4, <1>5, <1>6, <1>7, <1>8, <1>9 DEF Timers

-------------------------------------------------------------------------------
\* Every call under way was made by some deliberation, and if its id is the slot's then by
\* the one that is there.
OwnCalls == {c \in [call : Nat, from : Nat] :
                c.call \in 1..tick /\ (slot.call = c.call => c.from = slot.id)}
OwnReplies == {a \in [call : Nat, from : Nat, ok : BOOLEAN] :
                a.call \in 1..tick /\ (slot.call = a.call => a.from = slot.id)}
CallsKept ==
    /\ slot.call \in 0..tick
    /\ outbox \in Seq(OwnCalls) /\ asked \subseteq OwnCalls /\ answers \subseteq OwnReplies

\* The same for every step: only Resolve needs to know whose answer it is.
LEMMA NextCases ==
    ASSUME Types, Ledger, CallsKept, [Next]_vars
    PROVE \/ \E about \in Abouts \ {"fire"} : Opens(about)
          \/ FireOpens
          \/ Empties
          \/ Keeps
  <1>1. UNCHANGED <<slot, past>> => Keeps
    BY DEF Keeps, Ledger
  <1>2. {"override", "answered", "failed"} \subseteq Ends \ {"open"}
    BY DEF Ends
  <1>3. CASE Override
    BY <1>2, <1>3 DEF Override, End, Empties
  <1>4. CASE \E a \in answers : Resolve(a)
    <2>1. PICK a \in answers : Resolve(a)
      BY <1>4
    <2>2. CASE Busy /\ slot.call = a.call
      <3>1. a.from = slot.id
        BY <2>2 DEF CallsKept, OwnReplies
      <3>2. PICK how \in Ends \ {"open"} : End(how, a.from)
        BY <1>2, <2>1, <2>2 DEF Resolve
      <3>3. QED
        BY <3>1, <3>2 DEF End, Empties
    <2>3. CASE ~(Busy /\ slot.call = a.call)
      BY <1>1, <2>1, <2>3 DEF Resolve
    <2>4. QED
      BY <2>2, <2>3
  <1>5. CASE \/ Signal \/ Fuel \/ GateJump \/ SelfJump \/ Show \/ Dismiss
             \/ (\E read \in BOOLEAN : Flush(read)) \/ (\E c \in asked, ok \in BOOLEAN : Reply(c, ok))
             \/ Lose \/ Reconnect \/ UNCHANGED vars
    BY <1>1, <1>5 DEF Signal, Fuel, GateJump, SelfJump, Engage, Show, Dismiss,
       Flush, Reply,
                      Lose, Reconnect, vars, history
  <1>6. QED
    BY <1>3, <1>4, <1>5, TimerCases DEF Next

\* Every step keeps the ledger.
LEMMA NextLedger == ASSUME Types, Ledger, CallsKept, [Next]_vars PROVE Ledger'
  <1>1. ASSUME NEW about \in Abouts, Opens(about) PROVE Ledger'
    BY <1>1, OpensLedger DEF Opens
  <1>2. "fire" \in Abouts
    BY DEF Abouts
  <1>3. QED
    BY <1>1, <1>2, NextCases, EmptiesLedger, KeepsLedger DEF FireOpens

\* What is under way stays in order while ids only grow and the slot keeps its call, drops
\* it, or takes one that is newer than all.
LEMMA CallsStayOwn ==
    ASSUME tick \in Nat, tick' \in Nat, tick <= tick',
           \/ slot'.call = 0
           \/ slot'.call = tick + 1
           \/ slot'.call = slot.call /\ slot'.id = slot.id
    PROVE OwnCalls \subseteq OwnCalls' /\ OwnReplies \subseteq OwnReplies'
  <1>1. ASSUME NEW n \in 1..tick
        PROVE n \in 1..tick' /\ (slot'.call = n => slot.call = n /\ slot'.id = slot.id)
    OBVIOUS
  <1>2. QED
    BY <1>1 DEF OwnCalls, OwnReplies

LEMMA CallsStay ==
    ASSUME Types, CallsKept, tick' \in {tick, tick + 1}, UNCHANGED <<outbox, asked, answers>>,
           slot'.call = 0 \/ (slot'.call = slot.call /\ slot'.id = slot.id)
    PROVE CallsKept'
  <1>1. tick \in Nat /\ tick' \in Nat /\ tick <= tick'
    BY DEF Types
  <1>2. OwnCalls \subseteq OwnCalls' /\ OwnReplies \subseteq OwnReplies'
    BY <1>1, CallsStayOwn
  <1>3. slot'.call \in 0..tick'
    BY <1>1 DEF CallsKept
  <1>4. outbox \in Seq(OwnCalls')
    BY <1>2, SeqMonotonic DEF CallsKept
  <1>5. QED
    BY <1>2, <1>3, <1>4 DEF CallsKept

\* The call of a new deliberation carries an id that none under way has.
LEMMA EvaluateCalls == ASSUME Types, Ledger, CallsKept, Evaluate PROVE CallsKept'
  <1>1. tick \in Nat /\ Len(past) \in Nat
    BY LenProperties DEF Types, Ledger
  <1>2. UNCHANGED <<asked, answers>>
    BY DEF Evaluate
  <1>3. CASE UNCHANGED <<slot, past, tick, outbox>>
    BY <1>2, <1>3, CallsStay
  <1>4. CASE Begin("signal", SignalTime, NoCall) /\ UNCHANGED <<tick, outbox>>
    <2>1. slot'.call = 0
      BY <1>4 DEF Begin, NoCall
    <2>2. QED
      BY <1>2, <1>4, <2>1, CallsStay
  <1>5. CASE /\ tick' = tick + 1
             /\ outbox' = Append(outbox, [call |-> CallId(tick + 1), from |-> Len(past) + 1])
             /\ Begin("signal", SignalTime, CallId(tick + 1))
    <2> DEFINE new == [call |-> tick + 1, from |-> Len(past) + 1]
    <2>1. slot'.call = tick + 1 /\ slot'.id = Len(past) + 1 /\ outbox' = Append(outbox, new)
      BY <1>5 DEF Begin, CallId
    <2>2. new \in OwnCalls'
      BY <1>1, <1>5, <2>1 DEF OwnCalls
    <2> HIDE DEF new
    <2>3. OwnCalls \subseteq OwnCalls' /\ OwnReplies \subseteq OwnReplies'
      BY <1>1, <1>5, <2>1, CallsStayOwn
    <2>4. outbox \in Seq(OwnCalls')
      BY <2>3, SeqMonotonic DEF CallsKept
    <2>5. outbox' \in Seq(OwnCalls')
      BY <2>1, <2>2, <2>4, AppendProperties
    <2>6. slot'.call \in 0..tick'
      BY <1>1, <1>5, <2>1
    <2>7. QED
      BY <1>2, <2>3, <2>5, <2>6 DEF CallsKept
  <1>6. QED
    BY <1>3, <1>4, <1>5 DEF Evaluate

\* Every step keeps the calls the deliberations' own.
LEMMA NextCalls == ASSUME Types, Ledger, CallsKept, [Next]_vars PROVE CallsKept'
  <1>1. Empty.call = 0
    BY EmptyFacts
  <1>2. CASE Expire \/ Arrive \/ Override
    <2>1. slot'.call = 0 /\ UNCHANGED <<tick, outbox, asked, answers>>
      BY <1>1, <1>2 DEF Expire, Arrive, Override, End, net
    <2>2. QED
      BY <2>1, CallsStay
  <1>3. ASSUME \/ \E burning \in 0..2 : Control(burning)
               \/ \E rolls \in BOOLEAN : Anomaly(rolls)
        PROVE CallsKept'
    <2>1. UNCHANGED <<tick, outbox, asked, answers>>
      BY <1>3 DEF Control, Anomaly, net
    <2>2. slot'.call = 0 \/ slot' = slot
      BY <1>3 DEF Control, Anomaly, Begin, NoCall
    <2>3. QED
      BY <2>1, <2>2, CallsStay
  <1>4. CASE Tick
    <2>1. slot'.call = slot.call /\ slot'.id = slot.id /\ UNCHANGED <<tick, outbox, asked, answers>>
      BY <1>4 DEF Tick, net, Ledger
    <2>2. QED
      BY <2>1, CallsStay
  <1>5. CASE Signal \/ Fuel \/ GateJump \/ SelfJump \/ Show \/ Dismiss \/ UNCHANGED vars
    <2>1. UNCHANGED <<slot, tick, outbox, asked, answers>>
      BY <1>5 DEF Signal, Fuel, GateJump, SelfJump, Engage, Show, Dismiss, net,
         vars
    <2>2. QED
      BY <2>1, CallsStay
  <1>6. CASE Lose \/ Reconnect
    BY <1>6 DEF Lose, Reconnect, CallsKept, OwnCalls, OwnReplies
  <1>7. ASSUME NEW read \in BOOLEAN, Flush(read) PROVE CallsKept'
    <2>1. OwnCalls' = OwnCalls /\ OwnReplies' = OwnReplies /\ UNCHANGED <<slot, tick, answers>>
      BY <1>7 DEF Flush, OwnCalls, OwnReplies
    <2>2. ToSet(outbox) \subseteq OwnCalls
      BY ElementOfSeq, LenProperties DEF CallsKept, ToSet
    <2>3. outbox' = <<>> /\ asked' \subseteq OwnCalls
      BY <1>7, <2>2 DEF Flush, CallsKept
    <2>4. <<>> \in Seq(OwnCalls)
      BY EmptySeq
    <2>5. QED
      BY <2>1, <2>3, <2>4 DEF CallsKept
  <1>8. ASSUME NEW c \in asked, NEW ok \in BOOLEAN, Reply(c, ok) PROVE CallsKept'
    <2>1. OwnCalls' = OwnCalls /\ OwnReplies' = OwnReplies /\ UNCHANGED <<slot, tick, outbox>>
      BY <1>8 DEF Reply, OwnCalls, OwnReplies
    <2>2. [call |-> c.call, from |-> c.from, ok |-> ok] \in OwnReplies
      BY DEF CallsKept, OwnCalls, OwnReplies
    <2>3. asked' \subseteq OwnCalls /\ answers' \subseteq OwnReplies
      BY <1>8, <2>2 DEF Reply, CallsKept
    <2>4. QED
      BY <2>1, <2>3 DEF CallsKept
  <1>9. ASSUME NEW a \in answers, Resolve(a) PROVE CallsKept'
    <2>1. /\ slot'.call = 0 \/ slot' = slot
          /\ tick' \in {tick, tick + 1} /\ UNCHANGED <<outbox, asked>> /\ answers' \subseteq answers
      BY <1>1, <1>9 DEF Resolve, End
    <2>2. tick \in Nat /\ tick' \in Nat /\ tick <= tick'
      BY <2>1 DEF Types
    <2>3. OwnCalls \subseteq OwnCalls' /\ OwnReplies \subseteq OwnReplies'
      BY <2>1, <2>2, CallsStayOwn
    <2>4. outbox \in Seq(OwnCalls') /\ slot'.call \in 0..tick'
      BY <2>1, <2>2, <2>3, SeqMonotonic DEF CallsKept
    <2>5. QED
      BY <2>1, <2>3, <2>4 DEF CallsKept
  <1>10. QED
    BY <1>2, <1>3, <1>4, <1>5, <1>6, <1>7, <1>8, <1>9, EvaluateCalls DEF Next, Timers

\* The repairs that have landed are of deliberations about fires.
Engineer == EngineerIsAwaited /\ repaired \subseteq Fires

LEMMA MaxOfNew ==
    ASSUME NEW l \in Nat, NEW S, S \subseteq 1..l
    PROVE Max(S \cup {l + 1}) = l + 1
  <1>1. \A x \in S \cup {l + 1} : x \in Nat /\ l + 1 >= x
    OBVIOUS
  <1>2. \A x \in S \cup {l + 1} : (\A y \in S \cup {l + 1} : x >= y) => x = l + 1
    BY <1>1
  <1>3. QED
    BY <1>1, <1>2 DEF Max

\* A step that is not damage control's leaves it waiting for the same deliberation, and
\* opens none that has had its repair.
LEMMA EngineerStays ==
    ASSUME Ledger, Ledger', Engineer, UNCHANGED <<waiting, repaired>>, Fires' = Fires,
           slot'.id \in {slot.id, 0, Len(past) + 1}
    PROVE Engineer'
  <1>1. PICK l \in Nat : l = Len(past)
    BY LenProperties DEF Ledger
  <1>2. ASSUME NEW i \in repaired PROVE past'[i].end # "open"
    <2>1. i \in 1..Len(past) /\ i \in 1..Len(past')
      BY DEF Engineer, Fires
    <2>2. slot.id # i
      BY <2>1 DEF Ledger, Engineer, EngineerIsAwaited
    <2>3. slot'.id # i
      BY <1>1, <2>1, <2>2
    <2>4. QED
      BY <2>1, <2>3 DEF Ledger
  <1>3. QED
    BY <1>2 DEF Engineer, EngineerIsAwaited

\* Damage control lands the repair it has been waiting for, if that deliberation is over,
\* and waits again only for one that it opens.
LEMMA ControlEngineer ==
    ASSUME Types, Ledger, Ledger', Engineer, NEW burning \in 0..2, Control(burning)
    PROVE Engineer'
  <1>1. PICK l \in Nat : l = Len(past)
    BY LenProperties DEF Ledger
  <1>2. Fires \subseteq 1..l /\ repaired \subseteq Fires
        /\ Fires \ repaired = (IF waiting THEN {Max(Fires)} ELSE {})
        /\ repaired' = IF Lands THEN repaired \cup {Max(Fires)} ELSE repaired
    BY <1>1 DEF Fires, Engineer, EngineerIsAwaited, Control
  <1>3. repaired' \subseteq Fires /\ Fires \ repaired' = IF waiting /\ ~Lands THEN {Max(Fires)} ELSE {}
    BY <1>2 DEF Lands
  <1>4. ASSUME NEW i \in repaired' PROVE slot.id # i
    <2>1. i \in 1..l
      BY <1>2, <1>3
    <2>2. CASE i \in repaired
      BY <1>1, <2>1, <2>2 DEF Engineer, EngineerIsAwaited, Ledger
    <2>3. CASE i \notin repaired
      <3>1. slot = Empty
        BY <1>2, <2>3 DEF Lands, Busy
      <3>2. QED
        BY <2>1, <3>1, EmptyFacts
    <2>4. QED
      BY <2>2, <2>3
  <1>5. CASE UNCHANGED <<slot, past>> /\ waiting' = (waiting /\ ~Lands)
    <2>1. Fires' = Fires
      BY <1>5 DEF Fires
    <2>2. \A i \in repaired' : past'[i].end # "open"
      BY <1>1, <1>2, <1>3, <1>4, <1>5 DEF Ledger
    <2>3. QED
      BY <1>3, <1>5, <2>1, <2>2 DEF Engineer, EngineerIsAwaited
  <1>6. CASE waiting' = TRUE /\ Begin("fire", FireTime, NoCall) /\ (~waiting \/ Lands)
    <2>1. "fire" \in Abouts /\ FireTime \in Nat /\ NoCall \in Nat
      BY DEF Abouts, Types, Times, NoCall
    <2>2. /\ slot'.id = l + 1 /\ Len(past') = l + 1 /\ past'[l + 1].about = "fire"
          /\ \A i \in 1..l : past'[i].about = past[i].about
      BY <1>1, <1>6, <2>1, OpensLedger
    <2>3. Fires' = Fires \cup {l + 1}
      <3>1. 1..(l + 1) = (1..l) \cup {l + 1} /\ l + 1 \notin 1..l
        OBVIOUS
      <3>2. QED
        BY <1>1, <2>2, <3>1 DEF Fires
    <2>4. Max(Fires') = l + 1
      BY <1>2, <2>3, MaxOfNew
    <2>5. Fires' \ repaired' = {l + 1}
      BY <1>2, <1>3, <1>6, <2>3
    <2>6. \A i \in repaired' : past'[i].end # "open"
      BY <1>2, <1>3, <2>2 DEF Ledger
    <2>7. QED
      BY <1>3, <1>6, <2>3, <2>4, <2>5, <2>6 DEF Engineer, EngineerIsAwaited
  <1>7. QED
    BY <1>5, <1>6 DEF Control

\* Every step keeps the engineer awaited.
LEMMA NextEngineer ==
    ASSUME Types, Ledger, CallsKept, Engineer, [Next]_vars, Ledger'
    PROVE Engineer'
  <1>1. CASE \E burning \in 0..2 : Control(burning)
    BY <1>1, ControlEngineer
  <1>2. CASE ~\E burning \in 0..2 : Control(burning)
    <2>1. UNCHANGED <<waiting, repaired>>
      <3>1. CASE Timers
        BY <1>2, <3>1, Zenon
        DEF Timers, Evaluate, Expire, Anomaly, Arrive, Tick, history, repairs
      <3>2. CASE ~Timers
        BY <3>2, Zenon
        DEF Next, Signal, Fuel, GateJump, SelfJump, Engage, Show, Dismiss, Override, Flush, Reply,
            Resolve, Lose, Reconnect, vars, ship, history, repairs
      <3>3. QED
        BY <3>1, <3>2
    <2>2. ASSUME NEW about \in Abouts \ {"fire"}, Opens(about) PROVE Engineer'
      <3>1. PICK time \in Nat, call \in Nat : Begin(about, time, call)
        BY <2>2 DEF Opens
      <3>2. PICK l \in Nat : l = Len(past)
        BY LenProperties DEF Ledger
      <3>3. /\ slot'.id = l + 1 /\ Len(past') = l + 1 /\ past'[l + 1].about = about
            /\ \A i \in 1..l : past'[i].about = past[i].about
        BY <3>1, <3>2, OpensLedger
      <3>4. Fires' = Fires
        BY <3>2, <3>3 DEF Fires
      <3>5. QED
        BY <2>1, <3>2, <3>3, <3>4, EngineerStays
    <2>3. CASE Empties
      <3>1. Len(past') = Len(past) /\ slot'.id = 0 /\ \A i \in 1..Len(past) : past'[i].about = past[i].about
        BY <2>3, EmptiesLedger
      <3>2. Fires' = Fires
        BY <3>1 DEF Fires
      <3>3. QED
        BY <2>1, <3>1, <3>2, EngineerStays
    <2>4. CASE Keeps
      <3>1. Fires' = Fires /\ slot'.id = slot.id
        BY <2>4 DEF Keeps, Fires
      <3>2. QED
        BY <2>1, <3>1, EngineerStays
    <2>5. QED
      BY <1>2, <2>2, <2>3, <2>4, NextCases DEF FireOpens
  <1>3. QED
    BY <1>1, <1>2

-------------------------------------------------------------------------------
\* How many deliberations there have been about each thing: an anomaly comes at most once
\* in a jump, and a signal is thought over once, and once more for each jump at whose end
\* the slot was cleared and the signal left.
Of(x) == {i \in 1..Len(past) : past[i].about = x}
Many(x) == Cardinality(Of(x))

Coming == IF transit.active /\ ~transit.fired THEN 1 ELSE 0
Crossing == IF transit.active THEN 1 ELSE 0
Unheard == signal /\ ~(Busy /\ past[slot.id].about \in {"signal", "anomaly"})
Owed == IF Unheard THEN 1 ELSE 0

Counts ==
    /\ Len(past) = Many("signal") + Many("fire") + Many("anomaly")
    /\ Many("fire") <= MaxFires
    /\ Many("anomaly") + Coming <= jumps
    /\ Many("signal") + Owed + Crossing <= signals + jumps

\* The deliberations about a thing can be counted.
LEMMA OfFinite == ASSUME Ledger PROVE \A x : IsFiniteSet(Of(x)) /\ Many(x) \in Nat
  <1>1. IsFiniteSet(1..Len(past))
    <2>1. PICK l \in Nat : l = Len(past)
      BY LenProperties DEF Ledger
    <2>2. 1 \in Int /\ l \in Int
      OBVIOUS
    <2>3. IsFiniteSet(1..l)
      BY <2>2, FS_Interval
    <2>4. QED
      BY <2>1, <2>3
  <1>2. \A x : Of(x) \subseteq 1..Len(past)
    BY DEF Of
  <1>3. QED
    BY <1>1, <1>2, FS_Subset, FS_CardinalityType DEF Many

\* A deliberation that begins counts for what it is about.
LEMMA OpensMany ==
    ASSUME Ledger, NEW about \in Abouts, NEW time \in Nat, NEW call \in Nat,
           Begin(about, time, call)
    PROVE /\ Many(about)' = Many(about) + 1
          /\ \A x \in Abouts \ {about} : Many(x)' = Many(x)
  <1>1. PICK l \in Nat : l = Len(past)
    BY LenProperties DEF Ledger
  <1>2. /\ Len(past') = l + 1 /\ past'[l + 1].about = about
        /\ \A i \in 1..l : past'[i].about = past[i].about
    BY <1>1, OpensLedger
  <1>3. Of(about)' = Of(about) \cup {l + 1} /\ l + 1 \notin Of(about)
    BY <1>1, <1>2 DEF Of
  <1>4. ASSUME NEW x \in Abouts \ {about} PROVE Many(x)' = Many(x)
    <2>1. Of(x)' = Of(x)
      BY <1>1, <1>2 DEF Of
    <2>2. QED
      BY <2>1 DEF Many
  <1>5. Cardinality(Of(about) \cup {l + 1}) = Cardinality(Of(about)) + 1
    BY <1>3, OfFinite, FS_AddElement
  <1>6. QED
    BY <1>3, <1>4, <1>5 DEF Many

\* A step that opens nothing.
LEMMA CountsStay ==
    ASSUME Types, Ledger, Counts, Types', Empties \/ Keeps,
           Coming' + jumps <= Coming + jumps',
           Owed' + Crossing' + signals + jumps <= Owed + Crossing + signals' + jumps'
    PROVE Counts'
  <1>1. Len(past') = Len(past) /\ \A i \in 1..Len(past) : past'[i].about = past[i].about
    BY EmptiesLedger DEF Keeps
  <1>2. \A x : Many(x)' = Many(x)
    <2>1. \A x : Of(x)' = Of(x)
      BY <1>1 DEF Of
    <2>2. QED
      BY <2>1 DEF Many
  <1>3. Many("signal") \in Nat /\ Many("fire") \in Nat /\ Many("anomaly") \in Nat
    BY OfFinite
  <1>4. /\ Coming \in Nat /\ Coming' \in Nat /\ Owed \in Nat /\ Owed' \in Nat
        /\ Crossing \in Nat /\ Crossing' \in Nat
    BY DEF Coming, Owed, Crossing
  <1>5. jumps \in Nat /\ jumps' \in Nat /\ signals \in Nat /\ signals' \in Nat
    BY DEF Types, Bounds
  <1>6. /\ Many("signal")' = Many("signal") /\ Many("fire")' = Many("fire")
        /\ Many("anomaly")' = Many("anomaly")
    BY <1>2
  <1>7. Len(past') = Many("signal") + Many("fire") + Many("anomaly") /\ Many("fire") <= MaxFires
    BY <1>1 DEF Counts
  <1>8. Many("anomaly") + Coming' <= jumps'
    <2>1. Many("anomaly") + Coming <= jumps
      BY DEF Counts
    <2>2. \A m, c, d, j, k \in Nat : m + c <= j /\ d + j <= c + k => m + d <= k
      OBVIOUS
    <2>3. QED
      BY <1>3, <1>4, <1>5, <2>1, <2>2
  <1>9. Many("signal") + Owed' + Crossing' <= signals' + jumps'
    <2>1. Many("signal") + Owed + Crossing <= signals + jumps
      BY DEF Counts
    <2>2. PICK m \in Nat, o \in Nat, c \in Nat, j \in Nat, n \in Nat :
              /\ m = Many("signal") /\ o = Owed /\ c = Crossing /\ j = jumps /\ n = signals
      BY <1>3, <1>4, <1>5
    <2>3. PICK p \in Nat, d \in Nat, k \in Nat, q \in Nat :
              /\ p = Owed' /\ d = Crossing' /\ k = jumps' /\ q = signals'
      BY <1>4, <1>5
    <2>4. p + d + n + j <= o + c + q + k
      BY <2>2, <2>3
    <2>5. m + p + d <= q + k
      BY <2>1, <2>2, <2>4
    <2>6. QED
      BY <2>2, <2>3, <2>5
  <1>10. QED
    BY <1>6, <1>7, <1>8, <1>9 DEF Counts

\* Thinking over a signal uses up the one that was owed.
LEMMA EvaluateOpens ==
    ASSUME Types, Ledger, Counts, Types', Evaluate, NEW time \in Nat, NEW call \in Nat,
           Begin("signal", time, call), signal, ~Busy
    PROVE Counts'
  <1>1. /\ Len(past') = Len(past) + 1 /\ past'[slot'.id].about = "signal"
        /\ Many("signal")' = Many("signal") + 1 /\ Many("fire")' = Many("fire")
        /\ Many("anomaly")' = Many("anomaly")
    BY OpensLedger, OpensMany DEF Abouts
  <1>2. Busy'
    BY OpensLedger DEF Busy, Abouts, Empty
  <1>3. Coming' = Coming /\ Crossing' = Crossing /\ Owed = 1 /\ Owed' = 0 /\ UNCHANGED <<signals, jumps>>
    BY <1>1, <1>2 DEF Evaluate, Coming, Crossing, Owed, Unheard, counters
  <1>4. Many("signal") \in Nat /\ Many("fire") \in Nat /\ Many("anomaly") \in Nat /\ Crossing \in Nat
        /\ jumps \in Nat /\ signals \in Nat
    BY OfFinite DEF Types, Bounds, Crossing
  <1>5. PICK s \in Nat, f \in Nat, a \in Nat, x \in Nat, j \in Nat, n \in Nat :
            /\ s = Many("signal") /\ f = Many("fire") /\ a = Many("anomaly")
            /\ x = Crossing /\ j = jumps /\ n = signals
    BY <1>4
  <1>6. Len(past) = s + f + a /\ f <= MaxFires /\ a + Coming <= j /\ s + 1 + x <= n + j
    BY <1>3, <1>5 DEF Counts
  <1>7. s + f + a + 1 = (s + 1) + f + a /\ (s + 1) + 0 + x <= n + j
    <2>1. s + 1 + x <= n + j
      BY <1>6
    <2>2. QED
      BY <2>1
  <1>8. Len(past') = (s + 1) + f + a
    BY <1>1, <1>6, <1>7
  <1>9. QED
    BY <1>1, <1>3, <1>5, <1>6, <1>7, <1>8 DEF Counts

\* A fire's deliberation is within the bound on fires.
LEMMA ControlOpens ==
    ASSUME Types, Ledger, Counts, Types', NEW burning \in 0..2, Control(burning),
           Begin("fire", FireTime, NoCall), ~Busy, Cardinality(Fires) < MaxFires
    PROVE Counts'
  <1>1. FireTime \in Nat /\ NoCall \in Nat
    BY DEF Types, Times, NoCall
  <1>2. /\ Len(past') = Len(past) + 1 /\ past'[slot'.id].about = "fire"
        /\ Many("fire")' = Many("fire") + 1 /\ Many("signal")' = Many("signal")
        /\ Many("anomaly")' = Many("anomaly")
    BY <1>1, OpensLedger, OpensMany DEF Abouts
  <1>3. Many("fire") < MaxFires
    BY DEF Fires, Many, Of
  <1>4. Coming' = Coming /\ Crossing' = Crossing /\ Owed' = Owed /\ UNCHANGED <<signals, jumps>>
    BY <1>2 DEF Control, Coming, Crossing, Owed, Unheard, counters
  <1>5. Many("signal") \in Nat /\ Many("fire") \in Nat /\ Many("anomaly") \in Nat /\ MaxFires \in Nat
    BY OfFinite DEF Types, Bounds
  <1>6. QED
    BY <1>2, <1>3, <1>4, <1>5 DEF Counts

\* An anomaly uses up the one its jump had coming.
LEMMA AnomalyOpens ==
    ASSUME Types, Ledger, Counts, Types', NEW rolls \in BOOLEAN, Anomaly(rolls),
           Begin("anomaly", AnomalyTime, NoCall)
    PROVE Counts'
  <1>1. AnomalyTime \in Nat /\ NoCall \in Nat
    BY DEF Types, Times, NoCall
  <1>2. /\ Len(past') = Len(past) + 1 /\ past'[slot'.id].about = "anomaly"
        /\ Many("anomaly")' = Many("anomaly") + 1 /\ Many("signal")' = Many("signal")
        /\ Many("fire")' = Many("fire")
    BY <1>1, OpensLedger, OpensMany DEF Abouts
  <1>3. Busy'
    BY <1>1, OpensLedger DEF Busy, Abouts, Empty
  <1>4. transit' = [transit EXCEPT !.fired = TRUE] /\ AnomalyDue /\ UNCHANGED <<signals, jumps>>
    BY DEF Anomaly, counters
  <1>5. Coming = 1 /\ Coming' = 0 /\ Crossing' = Crossing /\ Owed' = 0
    BY <1>2, <1>3, <1>4 DEF AnomalyDue, Types, Coming, Crossing, Owed, Unheard
  <1>6. Many("signal") \in Nat /\ Many("fire") \in Nat /\ Many("anomaly") \in Nat /\ Crossing \in Nat
        /\ jumps \in Nat /\ signals \in Nat /\ Owed \in Nat
    BY OfFinite DEF Types, Bounds, Crossing, Owed
  <1>7. PICK s \in Nat, f \in Nat, a \in Nat, x \in Nat, o \in Nat, j \in Nat, n \in Nat :
            /\ s = Many("signal") /\ f = Many("fire") /\ a = Many("anomaly")
            /\ x = Crossing /\ o = Owed /\ j = jumps /\ n = signals
    BY <1>6
  <1>8. Len(past) = s + f + a /\ f <= MaxFires /\ a + 1 <= j /\ s + o + x <= n + j
    BY <1>5, <1>7 DEF Counts
  <1>9. s + f + a + 1 = s + f + (a + 1) /\ (a + 1) + 0 <= j /\ s + 0 + x <= n + j
    <2>1. a + 1 <= j /\ s + o + x <= n + j
      BY <1>8
    <2>2. QED
      BY <2>1
  <1>10. Len(past') = s + f + (a + 1)
    BY <1>2, <1>8, <1>9
  <1>11. QED
    BY <1>2, <1>4, <1>5, <1>7, <1>8, <1>9, <1>10 DEF Counts

LEMMA SameCounts ==
    ASSUME Types, Ledger, Counts, Types', Empties \/ Keeps, UNCHANGED <<signals, jumps>>,
           Coming' <= Coming, Owed' + Crossing' <= Owed + Crossing
    PROVE Counts'
  <1>1. /\ Coming \in Nat /\ Coming' \in Nat /\ Owed \in Nat /\ Owed' \in Nat
        /\ Crossing \in Nat /\ Crossing' \in Nat
    BY DEF Coming, Owed, Crossing
  <1>2. jumps \in Nat /\ signals \in Nat
    BY DEF Types, Bounds
  <1>3. PICK j \in Nat, n \in Nat : j = jumps /\ j = jumps' /\ n = signals /\ n = signals'
    BY <1>2
  <1>4. PICK c \in Nat, d \in Nat, o \in Nat, p \in Nat, x \in Nat, y \in Nat :
            /\ c = Coming /\ d = Coming' /\ o = Owed /\ p = Owed' /\ x = Crossing /\ y = Crossing'
    BY <1>1
  <1>5. d + j <= c + j /\ p + y + n + j <= o + x + n + j
    <2>1. d <= c /\ p + y <= o + x
      BY <1>4
    <2>2. QED
      BY <2>1
  <1>6. QED
    BY <1>3, <1>4, <1>5, CountsStay

\* Every step keeps the counts.
LEMMA NextCounts ==
    ASSUME Types, Ledger, CallsKept, Counts, [Next]_vars, Types'
    PROVE Counts'
  <1>1. UNCHANGED <<slot, past>> => Keeps
    BY DEF Keeps, Ledger
  <1>2. ASSUME UNCHANGED <<slot, past, signal, transit, signals, jumps>> PROVE Counts'
    <2>1. Coming' = Coming /\ Owed' = Owed /\ Crossing' = Crossing
      BY <1>2 DEF Coming, Crossing, Owed, Unheard, Busy
    <2>2. Coming \in Nat /\ Owed + Crossing \in Nat
      BY DEF Coming, Crossing, Owed
    <2>3. QED
      BY <1>1, <1>2, <2>1, <2>2, SameCounts
  <1>3. ASSUME NEW how \in Ends \ {"open"}, NEW by \in {0, slot.id}, End(how, by),
               UNCHANGED <<transit, signals, jumps>>
        PROVE Counts'
    <2>1. Empties
      BY <1>3 DEF End, Empties
    <2>2. Coming' = Coming /\ Owed' = 0 /\ Crossing' = Crossing
      BY <1>3 DEF End, Coming, Crossing, Owed, Unheard
    <2>3. PICK c \in Nat, o \in Nat, x \in Nat : c = Coming /\ o = Owed /\ x = Crossing
      BY DEF Coming, Crossing, Owed
    <2>4. c <= c /\ 0 + x <= o + x
      OBVIOUS
    <2>5. QED
      BY <1>3, <2>1, <2>2, <2>3, <2>4, SameCounts
  <1>4. {"fallback", "override", "answered", "failed", "cleared"} \subseteq Ends \ {"open"}
    BY DEF Ends
  <1>5. CASE Evaluate
    <2>1. CASE UNCHANGED <<slot, past>>
      BY <1>2, <1>5, <2>1 DEF Evaluate, counters
    <2>2. CASE ~UNCHANGED <<slot, past>>
      <3>1. /\ signal /\ ~Busy
            /\ Begin("signal", SignalTime, NoCall) \/ Begin("signal", SignalTime, CallId(tick + 1))
        BY <1>5, <2>2 DEF Evaluate, NobodyThinks, Uncovered
      <3>2. SignalTime \in Nat /\ NoCall \in Nat /\ CallId(tick + 1) \in Nat
        BY DEF Types, Times, NoCall, CallId
      <3>3. QED
        BY <1>5, <3>1, <3>2, EvaluateOpens
    <2>3. QED
      BY <2>1, <2>2
  <1>6. ASSUME NEW burning \in 0..2, Control(burning) PROVE Counts'
    <2>1. CASE UNCHANGED <<slot, past>>
      BY <1>2, <1>6, <2>1 DEF Control, counters
    <2>2. CASE ~UNCHANGED <<slot, past>>
      BY <1>6, <2>2, ControlOpens DEF Control, NobodyThinks
    <2>3. QED
      BY <2>1, <2>2
  <1>7. ASSUME NEW rolls \in BOOLEAN, Anomaly(rolls) PROVE Counts'
    <2>1. CASE UNCHANGED <<slot, past>>
      <3>1. transit' = [transit EXCEPT !.fired = TRUE] /\ UNCHANGED <<signal, signals, jumps>>
        BY <1>7 DEF Anomaly, counters
      <3>2. Coming' = 0 /\ Owed' = Owed /\ Crossing' = Crossing
        BY <2>1, <3>1 DEF Coming, Crossing, Owed, Unheard, Busy, Types
      <3>3. Coming \in Nat /\ Owed + Crossing \in Nat
        BY DEF Coming, Crossing, Owed
      <3>4. QED
        BY <1>1, <2>1, <3>1, <3>2, <3>3, SameCounts
    <2>2. CASE ~UNCHANGED <<slot, past>>
      BY <1>7, <2>2, AnomalyOpens DEF Anomaly
    <2>3. QED
      BY <2>1, <2>2
  <1>8. CASE Arrive
    <2>1. Empties /\ transit' = AtHome /\ transit.active /\ UNCHANGED <<signal, signals, jumps>>
      BY <1>4, <1>8 DEF Arrive, ArrivalDue, Empties, counters
    <2>2. Coming' = 0 /\ Crossing = 1 /\ Crossing' = 0 /\ Owed' \in {0, 1}
      BY <2>1 DEF Coming, Crossing, AtHome, Owed
    <2>3. PICK c \in Nat, o \in Nat, p \in {0, 1} : c = Coming /\ o = Owed /\ p = Owed'
      BY <2>2 DEF Coming, Owed
    <2>4. 0 <= c /\ p + 0 <= o + 1
      OBVIOUS
    <2>5. QED
      BY <2>1, <2>2, <2>3, <2>4, SameCounts
  <1>9. CASE Tick
    <2>1. /\ UNCHANGED <<past, signal, signals, jumps>> /\ slot'.id = slot.id
          /\ transit'.active = transit.active /\ transit'.fired = transit.fired
          /\ Busy' <=> Busy
      <3>1. UNCHANGED <<past, signal, signals, jumps>>
        BY <1>9 DEF Tick, history, counters
      <3>2. transit'.active = transit.active /\ transit'.fired = transit.fired
        BY <1>9 DEF Tick, Types
      <3>3. slot'.id = slot.id /\ (slot = Empty => slot' = Empty)
        BY <1>9 DEF Tick, Ledger, Busy
      <3>4. slot # Empty => slot' # Empty
        BY <3>3, EmptyFacts DEF Ledger
      <3>5. QED
        BY <3>1, <3>2, <3>3, <3>4 DEF Busy
    <2>2. Keeps
      BY <1>9, <2>1 DEF Tick, Keeps, Ledger, Busy
    <2>3. Coming' = Coming /\ Owed' = Owed /\ Crossing' = Crossing
      BY <2>1 DEF Coming, Crossing, Owed, Unheard
    <2>4. Coming \in Nat /\ Owed + Crossing \in Nat
      BY DEF Coming, Crossing, Owed
    <2>5. QED
      BY <2>1, <2>2, <2>3, <2>4, SameCounts
  <1>10. CASE Signal
    <2>1. UNCHANGED <<slot, past, transit, jumps>> /\ signals' = signals + 1 /\ ~signal
      BY <1>10 DEF Signal, history
    <2>2. Coming' = Coming /\ Crossing' = Crossing /\ Owed = 0 /\ Owed' \in {0, 1}
      BY <2>1 DEF Coming, Crossing, Owed, Unheard
    <2>3. Coming \in Nat /\ Crossing \in Nat /\ jumps \in Nat /\ signals \in Nat
      BY DEF Coming, Crossing, Types, Bounds
    <2>4. /\ Coming' + jumps <= Coming + jumps'
          /\ Owed' + Crossing' + signals + jumps <= Owed + Crossing + signals' + jumps'
      <3>1. PICK j \in Nat, n \in Nat : j = jumps /\ j = jumps' /\ n = signals /\ signals' = n + 1
        BY <2>1, <2>3
      <3>2. PICK c \in Nat, x \in Nat, p \in {0, 1} : c = Coming /\ x = Crossing /\ p = Owed'
        BY <2>2, <2>3
      <3>3. c + j <= c + j /\ p + x + n + j <= 0 + x + (n + 1) + j
        OBVIOUS
      <3>4. QED
        BY <2>2, <3>1, <3>2, <3>3
    <2>5. QED
      BY <1>1, <2>1, <2>4, CountsStay
  <1>11. ASSUME NEW fired \in BOOLEAN, Engage(fired) PROVE Counts'
    <2>1. /\ UNCHANGED <<slot, past, signal, signals>> /\ jumps' = jumps + 1
          /\ ~transit.active /\ transit' = [active |-> TRUE, elapsed |-> 0, fired |-> fired]
      BY <1>11 DEF Engage, history
    <2>2. Coming = 0 /\ Crossing = 0 /\ Coming' \in {0, 1} /\ Crossing' = 1 /\ Owed' = Owed
      BY <2>1 DEF Coming, Crossing, Owed, Unheard, Busy
    <2>3. Owed \in Nat /\ jumps \in Nat /\ signals \in Nat
      BY DEF Owed, Types, Bounds
    <2>4. /\ Coming' + jumps <= Coming + jumps'
          /\ Owed' + Crossing' + signals + jumps <= Owed + Crossing + signals' + jumps'
      <3>1. PICK j \in Nat, n \in Nat : j = jumps /\ jumps' = j + 1 /\ n = signals /\ signals' = n
        BY <2>1, <2>3
      <3>2. PICK o \in Nat, d \in {0, 1} : o = Owed /\ d = Coming'
        BY <2>2, <2>3
      <3>3. d + j <= 0 + (j + 1) /\ o + 1 + n + j <= o + 0 + n + (j + 1)
        OBVIOUS
      <3>4. QED
        BY <2>2, <3>1, <3>2, <3>3
    <2>5. QED
      BY <1>1, <2>1, <2>4, CountsStay
  <1>12. ASSUME NEW a \in answers, Resolve(a) PROVE Counts'
    <2>1. UNCHANGED <<transit, signals, jumps>>
      BY <1>12 DEF Resolve, counters
    <2>2. CASE Busy /\ slot.call = a.call
      <3>1. a.from \in {0, slot.id}
        BY <2>2 DEF CallsKept, OwnReplies
      <3>2. QED
        BY <1>3, <1>4, <1>12, <2>1, <2>2, <3>1 DEF Resolve
    <2>3. CASE ~(Busy /\ slot.call = a.call)
      BY <1>2, <1>12, <2>1, <2>3 DEF Resolve
    <2>4. QED
      BY <2>2, <2>3
  <1>13. CASE Expire \/ Override
    BY <1>3, <1>4, <1>13 DEF Expire, Override, counters
  <1>14. CASE \/ Fuel \/ Show \/ Dismiss
              \/ (\E read \in BOOLEAN : Flush(read)) \/ (\E c \in asked, ok \in BOOLEAN : Reply(c, ok))
              \/ Lose \/ Reconnect \/ UNCHANGED vars
    BY <1>2, <1>14 DEF Fuel, Show, Dismiss, Flush, Reply, Lose, Reconnect,
       vars, history, ship, counters
  <1>15. QED
    BY <1>5, <1>6, <1>7, <1>8, <1>9, <1>10, <1>11, <1>12, <1>13, <1>14
       DEF Next, Timers, GateJump, SelfJump

-------------------------------------------------------------------------------
Disconnected == ~conn => asked = {} /\ answers = {}

SlotInv == Types /\ Ledger /\ CallsKept /\ Engineer /\ Counts /\ Disconnected

\* The client starts in order.
LEMMA InitSlot == Times /\ Bounds /\ Init => SlotInv
  <1> SUFFICES ASSUME Times, Bounds, Init PROVE SlotInv
    OBVIOUS
  <1>1. Types
    BY InitTypes
  <1>2. slot = Empty /\ past = <<>> /\ past \in Seq(Entries) /\ Len(past) = 0
    BY EmptySeq DEF Init
  <1>3. Ledger
    BY <1>2, EmptyFacts DEF Ledger
  <1>4. CallsKept
    <2>1. outbox \in Seq(OwnCalls) /\ asked = {} /\ answers = {} /\ tick = 0
      BY EmptySeq DEF Init
    <2>2. QED
      BY <1>2, <2>1, EmptyFacts DEF CallsKept
  <1>5. Counts
    <2>1. \A x : Of(x) = {}
      BY <1>2 DEF Of
    <2>2. \A x : Many(x) = 0
      BY <2>1, FS_EmptySet DEF Many
    <2>3. Coming = 0 /\ Owed = 0 /\ Crossing = 0 /\ jumps = 0 /\ signals = 0
      BY DEF Init, AtHome, Coming, Owed, Unheard, Crossing
    <2>4. MaxFires \in Nat
      BY DEF Bounds
    <2>5. QED
      BY <1>2, <2>2, <2>3, <2>4 DEF Counts
  <1>6. Engineer /\ Disconnected
    BY <1>2 DEF Init, Engineer, EngineerIsAwaited, Fires, Disconnected
  <1>7. QED
    BY <1>1, <1>3, <1>4, <1>5, <1>6 DEF SlotInv

\* A lost socket takes the session's calls and answers with it, and none come without one.
LEMMA NextDisconnected == ASSUME Disconnected, [Next]_vars PROVE Disconnected'
  <1>1. CASE UNCHANGED <<conn, asked, answers>>
    BY <1>1 DEF Disconnected
  <1>2. CASE \/ Timers \/ Signal \/ Fuel \/ GateJump \/ SelfJump \/ Show
              \/ Dismiss \/ Override \/ UNCHANGED vars
    BY <1>1, <1>2 DEF Timers, Evaluate, Expire, Control, Anomaly, Arrive, Tick,
       Signal, Fuel, GateJump,
                      SelfJump, Engage, Show, Dismiss, Override, net, vars
  <1>3. ASSUME NEW read \in BOOLEAN, Flush(read) PROVE Disconnected'
    BY <1>3 DEF Flush, Disconnected
  <1>4. ASSUME NEW c \in asked, NEW ok \in BOOLEAN, Reply(c, ok) PROVE Disconnected'
    BY <1>4 DEF Reply, Disconnected
  <1>5. ASSUME NEW a \in answers, Resolve(a) PROVE Disconnected'
    BY <1>5 DEF Resolve, Disconnected
  <1>6. CASE Lose \/ Reconnect
    BY <1>6 DEF Lose, Reconnect, Disconnected
  <1>7. QED
    BY <1>2, <1>3, <1>4, <1>5, <1>6 DEF Next

\* Every step keeps the slot in order.
LEMMA NextSlot == SlotInv /\ [Next]_vars => SlotInv'
  <1> SUFFICES ASSUME SlotInv, [Next]_vars PROVE SlotInv'
    OBVIOUS
  <1>1. Types' /\ Ledger' /\ CallsKept' /\ Engineer' /\ Disconnected'
    BY NextTypes, NextLedger, NextCalls, NextEngineer, NextDisconnected DEF SlotInv
  <1>2. Counts'
    BY <1>1, NextCounts DEF SlotInv
  <1>3. QED
    BY <1>1, <1>2 DEF SlotInv

\* The invariant holds, whatever the timers and bounds.
LEMMA SlotHolds == Spec => []SlotInv
  <1>1. Init => SlotInv
    BY InitSlot, Times, Bounds
  <1>2. QED
    BY <1>1, NextSlot, PTL DEF Spec

\* The types of the slot follow, and from the counts the length of its history.
LEMMA SlotTypes == SlotInv => TypeOK
  <1> SUFFICES ASSUME SlotInv PROVE TypeOK
    OBVIOUS
  <1>1. PICK l \in Nat : l = Len(past)
    BY LenProperties DEF SlotInv, Ledger
  <1>2. l <= MaxPast
    <2>1. /\ l = Many("signal") + Many("fire") + Many("anomaly")
          /\ Many("fire") <= MaxFires
          /\ Many("anomaly") + Coming <= jumps
          /\ Many("signal") + Owed + Crossing <= signals + jumps
      BY <1>1 DEF SlotInv, Counts
    <2>2. Many("signal") \in Nat /\ Many("fire") \in Nat /\ Many("anomaly") \in Nat
          /\ Coming \in Nat /\ Owed \in Nat /\ Crossing \in Nat
      BY OfFinite DEF SlotInv, Coming, Owed, Crossing
    <2>3. jumps \in 0..MaxJumps /\ signals \in 0..MaxSignals
          /\ MaxJumps \in Nat /\ MaxSignals \in Nat /\ MaxFires \in Nat
      BY DEF SlotInv, Types, Bounds
    <2>4. l <= MaxSignals + MaxFires + 2 * MaxJumps
      BY <2>1, <2>2, <2>3
    <2>5. QED
      BY <2>4 DEF MaxPast
  <1>3. slot.id \in 0..l
    BY <1>1, EmptyFacts DEF SlotInv, Ledger
  <1>4. slot.id \in 0..MaxPast /\ slot.left \in Nat /\ slot.call \in 0..tick
    <2>1. MaxPast \in Nat
      BY DEF MaxPast, SlotInv, Types, Bounds
    <2>2. QED
      BY <1>2, <1>3, <2>1 DEF SlotInv, Ledger, CallsKept
  <1>5. \A i \in 1..Len(past) : past[i].end \in Ends /\ (past[i].end = "open" <=> slot.id = i)
    <2>1. \A i \in 1..Len(past) : past[i] \in Entries
      BY ElementOfSeq DEF SlotInv, Ledger
    <2>2. \A e \in Entries : e.end \in Ends
      BY DEF Entries
    <2>3. QED
      BY <2>1, <2>2 DEF SlotInv, Ledger
  <1>6. Busy => slot.id = Len(past)
    BY DEF SlotInv, Ledger, Busy
  <1>7. transit.elapsed \in 0..TransitTime
    BY DEF SlotInv, Types
  <1>8. QED
    BY <1>1, <1>2, <1>4, <1>5, <1>6, <1>7 DEF TypeOK, SlotInv, Types, Disconnected, Ends

\* The timers, the calls and the history stay within their types: what is in the slot is the
\* latest deliberation and the only open one (DeliberationState.active), and each signal
\* and jump is deliberated a bounded number of times.
THEOREM SlotTyping == Spec => []TypeOK
  BY SlotHolds, SlotTypes, PTL

\* No deliberation is ended by another's answer (poll_network compares call ids), however
\* many are displaced and however late the answers.
THEOREM OwnAnswer == Spec => []AnswerIsOwn
  <1>1. SlotInv => AnswerIsOwn
    BY DEF SlotInv, Ledger, AnswerIsOwn
  <1>2. QED
    BY <1>1, SlotHolds, PTL

\* Each deliberation about fires has its one repair (DamageControl.deliberating), after its
\* end and before the next begins, however the slot is cleared or taken meanwhile and
\* however many lone fires are fought at once.
THEOREM EngineerAwaited == Spec => []EngineerIsAwaited
  <1>1. SlotInv => EngineerIsAwaited
    BY DEF SlotInv, Engineer
  <1>2. QED
    BY <1>1, SlotHolds, PTL
===============================================================================
