----------------------------- MODULE UniverseProofs -----------------------------
(***************************************************************************)
(* Theorems about the two parts of a universe that the server keeps and    *)
(* its clients repeat.                                                     *)
(*                                                                         *)
(* The seed ledger, for any callers, systems, seeds and players: that it   *)
(* implements the write-once register, and never contradicts itself.       *)
(*                                                                         *)
(* The universe tick, for any clients, bounds and crashes, any period of   *)
(* the snapshot and any capacity of the channel: how far a restart rewinds *)
(* the universe (from the task and its snapshot alone), and that a         *)
(* session's client replays each tick it was sent once and in order (from  *)
(* what is under way).                                                     *)
(***************************************************************************)
EXTENDS SeedLedger, UniverseTicks, DataLemmas, TLAPS

\* Every answer, delivered or pending, repeats the row of its system; a call
\* that met a conflict has a row to read; diffs once recorded stay recorded;
\* and at most one pending answer credits the discovery of a system.
AnswersRepeatRows ==
    \A a \in answers :
        /\ rows[a.system] # NoRow
        /\ rows[a.system].seed = a.seed
        /\ rows[a.system].by = a.by

CallFollowsRow(c) ==
    call[c] # Idle =>
        LET k == call[c].system a == call[c].answer IN
        /\ call[c].seen \subseteq Known(k)
        /\ call[c].phase = "select" => rows[k] # NoRow
        /\ call[c].phase = "reply" =>
            /\ a.system = k
            /\ rows[k] # NoRow
            /\ rows[k].seed = a.seed
            /\ rows[k].by = a.by
            /\ call[c].seen \subseteq a.diffs

OneCredit ==
    \A c, d \in Callers :
        /\ InPhase(c, "reply") /\ call[c].answer.first
        /\ InPhase(d, "reply") /\ call[d].answer.first
        /\ call[c].system = call[d].system
        => c = d

IInv ==
    /\ TypeOK
    /\ AnswersRepeatRows
    /\ \A c \in Callers : CallFollowsRow(c)
    /\ OneCredit

\* The action property a row obeys: once inserted it keeps its seed and its
\* discoverer, and never loses a diff.
RowsOnlyGrow ==
    \A k \in Systems :
        rows[k] # NoRow =>
            /\ rows'[k] # NoRow
            /\ rows'[k].seed = rows[k].seed
            /\ rows'[k].by = rows[k].by
            /\ rows[k].diffs \subseteq rows'[k].diffs

-------------------------------------------------------------------------------
\* The ledger starts in a state of the inductive invariant.
LEMMA InitInv == Init => IInv
<1> SUFFICES ASSUME Init PROVE IInv
    OBVIOUS
<1>1. TypeOK
    BY DEF Init, TypeOK, Row, Call
<1>2. AnswersRepeatRows /\ OneCredit /\ \A c \in Callers : CallFollowsRow(c)
    BY DEF Init, AnswersRepeatRows, OneCredit, CallFollowsRow, InPhase
<1>3. QED
    BY <1>1, <1>2 DEF IInv

\* Moving a call to its next phase keeps the calls well typed.
LEMMA GoToType ==
    ASSUME TypeOK, NEW c \in Callers, call[c] # Idle,
           NEW phase \in {"select", "reply"}, NEW a \in Answer \cup {NoAnswer},
           GoTo(c, phase, a)
    PROVE  /\ call' \in [Callers -> Call \cup {Idle}]
           /\ call'[c] # Idle
           /\ call'[c].phase = phase
           /\ call'[c].answer = a
           /\ \A d \in Callers \ {c} : call'[d] = call[d]
<1> DEFINE new == [phase |-> phase, system |-> call[c].system, seed |-> call[c].seed,
                   by |-> call[c].by, seen |-> call[c].seen, answer |-> a]
<1>1. call[c] \in Call
    BY DEF TypeOK
<1>2. new \in Call
    BY <1>1 DEF Call
<1>3. call' = [call EXCEPT ![c] = new]
    BY DEF GoTo
<1>4. new # Idle
    BY <1>2, NoneDistinct
<1> HIDE DEF new
<1>5. call' \in [Callers -> Call \cup {Idle}] /\ call'[c] = new
    BY <1>2, <1>3 DEF TypeOK
<1>6. \A d \in Callers \ {c} : call'[d] = call[d]
    BY <1>3 DEF TypeOK
<1>7. QED
    BY <1>4, <1>5, <1>6 DEF new

\* An existing row yields a well-typed answer.
LEMMA ExistingType ==
    ASSUME TypeOK, NEW k \in Systems, rows[k] # NoRow
    PROVE  Existing(k) \in Answer
<1>1. rows[k] \in Row
    BY DEF TypeOK
<1>2. QED
    BY <1>1 DEF Existing, Row, Answer

\* Type correctness is inductive on its own.
LEMMA TypeStep == TypeOK /\ [Next]_vars => TypeOK'
<1> SUFFICES ASSUME TypeOK, [Next]_vars PROVE TypeOK'
    OBVIOUS
<1>0. ASSUME NEW c \in Callers, call[c] # Idle,
             NEW phase \in {"select", "reply"}, NEW a \in Answer \cup {NoAnswer},
             GoTo(c, phase, a), phase = "reply" <=> a # NoAnswer,
             phase = "select" => backend = "postgres",
             rows' \in [Systems -> Row \cup {NoRow}], UNCHANGED <<backend, answers>>
      PROVE  TypeOK'
    BY <1>0, GoToType DEF TypeOK
<1>1. ASSUME NEW c \in Callers, NEW k \in Systems, NEW s \in Seeds,
             NEW p \in Discoverers, Discover(c, k, s, p)
      PROVE  TypeOK'
    BY <1>1, NoneDistinct DEF Discover, TypeOK, Call, Row, Known
<1>2. ASSUME NEW c \in Callers, Insert(c) PROVE TypeOK'
    <2> DEFINE row == [seed |-> call[c].seed, by |-> call[c].by, diffs |-> {}]
               ans == [system |-> call[c].system, seed |-> call[c].seed,
                       by |-> call[c].by, first |-> TRUE, diffs |-> {}]
    <2>1. call[c] \in Call /\ call[c] # Idle
        BY <1>2 DEF Insert, InPhase, TypeOK
    <2>2. row \in Row /\ ans \in Answer
        BY <2>1 DEF Call, Row, Answer
    <2>3. rows' \in [Systems -> Row \cup {NoRow}]
        BY <1>2, <2>2 DEF Insert, TypeOK
    <2>4. GoTo(c, "reply", ans) /\ UNCHANGED <<backend, answers>>
        BY <1>2 DEF Insert, Reply
    <2> HIDE DEF row, ans
    <2>5. ans # NoAnswer
        BY <2>2, NoneDistinct
    <2>6. QED
        BY <2>1, <2>2, <2>3, <2>4, <2>5, <1>0
<1>3. ASSUME NEW c \in Callers, FindLocked(c) \/ Select(c) PROVE TypeOK'
    <2>1. call[c] \in Call /\ call[c] # Idle
        BY <1>3 DEF FindLocked, Select, InPhase, TypeOK
    <2>2. call[c].system \in Systems /\ rows[call[c].system] # NoRow
        BY <1>3, <2>1 DEF FindLocked, Select, Call
    <2>3. Existing(call[c].system) \in Answer
        BY <2>2, ExistingType
    <2>4. GoTo(c, "reply", Existing(call[c].system)) /\ UNCHANGED <<backend, rows, answers>>
        BY <1>3 DEF FindLocked, Select, Reply
    <2>5. rows' \in [Systems -> Row \cup {NoRow}]
        BY <2>4 DEF TypeOK
    <2>6. QED
        BY <2>1, <2>3, <2>4, <2>5, <1>0, NoneDistinct
<1>4. ASSUME NEW c \in Callers, Conflict(c) PROVE TypeOK'
    <2>1. rows' \in [Systems -> Row \cup {NoRow}]
        BY <1>4 DEF Conflict, TypeOK
    <2>2. QED
        BY <1>0, <1>4, <2>1 DEF Conflict, InPhase
<1>5. ASSUME NEW c \in Callers, Deliver(c) PROVE TypeOK'
    BY <1>5, NoneDistinct
       DEF Deliver, InPhase, Said, TypeOK, Call, Answer, Register!Told
<1>6. ASSUME NEW c \in Callers, Fail(c) PROVE TypeOK'
    BY <1>6 DEF Fail, TypeOK
<1>7. ASSUME NEW k \in Systems, NEW d \in SUBSET Fields, Modify(k, d) PROVE TypeOK'
    BY <1>7 DEF Modify, TypeOK, Row
<1>8. CASE UNCHANGED vars
    BY <1>8 DEF vars, TypeOK
<1>9. QED
    BY <1>1, <1>2, <1>3, <1>4, <1>5, <1>6, <1>7, <1>8 DEF Next

\* No step overwrites a row or forgets one of its diffs.
LEMMA RowsStep == TypeOK /\ [Next]_vars => RowsOnlyGrow
<1> SUFFICES ASSUME TypeOK, [Next]_vars PROVE RowsOnlyGrow
    OBVIOUS
<1> USE NoneDistinct DEF RowsOnlyGrow, TypeOK, Row
<1>1. ASSUME NEW c \in Callers, Insert(c) PROVE RowsOnlyGrow
    BY <1>1 DEF Insert
<1>2. ASSUME NEW k \in Systems, NEW d \in SUBSET Fields, Modify(k, d)
      PROVE  RowsOnlyGrow
    BY <1>2 DEF Modify
<1>3. CASE UNCHANGED rows
    BY <1>3
<1>4. QED
    BY <1>1, <1>2, <1>3
       DEF Next, vars, Discover, FindLocked, Conflict, Select, Deliver, Fail

\* What a step may do to one caller's call.
LEMMA CallStep ==
    ASSUME TypeOK, [Next]_vars, NEW d \in Callers
    PROVE  \/ call'[d] = call[d]
           \/ call'[d] = Idle
           \/ \E k \in Systems, s \in Seeds, p \in Discoverers : Discover(d, k, s, p)
           \/ Insert(d) \/ FindLocked(d) \/ Select(d) \/ Conflict(d)
<1> DEFINE Goal == \/ call'[d] = call[d]
                   \/ call'[d] = Idle
                   \/ \E k \in Systems, s \in Seeds, p \in Discoverers :
                        Discover(d, k, s, p)
                   \/ Insert(d) \/ FindLocked(d) \/ Select(d) \/ Conflict(d)
<1>0. call \in [Callers -> Call \cup {Idle}]
    BY DEF TypeOK
<1>1. ASSUME NEW c \in Callers, NEW k \in Systems, NEW s \in Seeds,
             NEW p \in Discoverers, Discover(c, k, s, p)
      PROVE  Goal
    <2>1. CASE c = d
        BY <1>1, <2>1
    <2>2. CASE c # d
        BY <1>0, <1>1, <2>2 DEF Discover
    <2>3. QED
        BY <2>1, <2>2
<1>2. ASSUME NEW c \in Callers, Insert(c) \/ FindLocked(c) \/ Select(c) \/ Conflict(c)
      PROVE  Goal
    <2>1. CASE c = d
        BY <1>2, <2>1
    <2>2. CASE c # d
        BY <1>0, <1>2, <2>2 DEF Insert, FindLocked, Select, Conflict, Reply, GoTo
    <2>3. QED
        BY <2>1, <2>2
<1>3. ASSUME NEW c \in Callers, Deliver(c) \/ Fail(c) PROVE Goal
    BY <1>0, <1>3 DEF Deliver, Fail
<1>4. ASSUME NEW k \in Systems, NEW e \in SUBSET Fields, Modify(k, e) PROVE Goal
    BY <1>4 DEF Modify
<1>5. CASE UNCHANGED vars
    BY <1>5 DEF vars
<1>6. QED
    BY <1>1, <1>2, <1>3, <1>4, <1>5 DEF Next

\* The rest of the inductive invariant is preserved.
LEMMA InvStep == IInv /\ [Next]_vars => IInv'
<1> SUFFICES ASSUME IInv, [Next]_vars PROVE IInv'
    OBVIOUS
<1>1. TypeOK /\ TypeOK' /\ RowsOnlyGrow
    BY TypeStep, RowsStep DEF IInv
<1>2. AnswersRepeatRows'
    <2>1. CASE UNCHANGED answers
        BY <1>1, <2>1 DEF IInv, AnswersRepeatRows, RowsOnlyGrow, TypeOK, Register!Told
    <2>2. ASSUME NEW c \in Callers, Deliver(c) PROVE AnswersRepeatRows'
        BY <1>1, <2>2
           DEF IInv, AnswersRepeatRows, CallFollowsRow, Deliver, Said, InPhase
    <2>3. QED
        BY <2>1, <2>2
           DEF Next, vars, Discover, Insert, FindLocked, Conflict, Select, Fail, Modify
<1>3. ASSUME NEW d \in Callers PROVE CallFollowsRow(d)'
    <2>0. call[d] # Idle => call[d] \in Call
        BY <1>1 DEF TypeOK
    <2>1. CASE call'[d] = call[d]
        BY <1>1, <2>0, <2>1 DEF IInv, CallFollowsRow, RowsOnlyGrow, Known, Call
    <2>2. CASE call'[d] = Idle
        BY <2>2 DEF CallFollowsRow
    <2>3. ASSUME NEW k \in Systems, NEW s \in Seeds, NEW p \in Discoverers,
                 Discover(d, k, s, p)
          PROVE  CallFollowsRow(d)'
        BY <1>1, <2>3 DEF Discover, CallFollowsRow, TypeOK, Known
    <2>4. CASE Insert(d)
        <3>1. call[d] # Idle /\ call[d] \in Call /\ rows[call[d].system] = NoRow
            BY <2>0, <2>4 DEF Insert, InPhase
        <3>2. call[d].seen = {}
            BY <3>1 DEF IInv, CallFollowsRow, Known
        <3>3. call'[d].system = call[d].system /\ call'[d].seen = call[d].seen
            BY <1>1, <2>4 DEF Insert, Reply, GoTo, TypeOK
        <3>4. /\ call'[d].phase = "reply"
              /\ call'[d].answer.system = call[d].system
              /\ call'[d].answer.seed = call[d].seed
              /\ call'[d].answer.by = call[d].by
            BY <1>1, <2>4 DEF Insert, Reply, GoTo, TypeOK
        <3>5. /\ rows'[call[d].system] # NoRow
              /\ rows'[call[d].system].seed = call[d].seed
              /\ rows'[call[d].system].by = call[d].by
            <4> DEFINE row == [seed |-> call[d].seed, by |-> call[d].by, diffs |-> {}]
            <4>1. row \in Row /\ call[d].system \in Systems
                BY <3>1 DEF Call, Row
            <4>2. rows'[call[d].system] = row
                BY <1>1, <2>4, <4>1 DEF Insert, TypeOK
            <4>3. row # NoRow
                BY <4>1, NoneDistinct
            <4>4. QED
                BY <4>2, <4>3
        <3>6. QED
            BY <3>2, <3>3, <3>4, <3>5 DEF CallFollowsRow
    <2>5. CASE FindLocked(d) \/ Select(d)
        <3> DEFINE k == call[d].system
        <3>1. call[d] # Idle /\ rows[k] # NoRow /\ UNCHANGED rows
            BY <2>5 DEF FindLocked, Select, InPhase
        <3>2. call[d].seen \subseteq rows[k].diffs
            BY <3>1 DEF IInv, CallFollowsRow, Known
        <3>3. /\ call'[d].system = k
              /\ call'[d].seen = call[d].seen
              /\ call'[d].phase = "reply"
              /\ call'[d].answer = Existing(k)
            BY <1>1, <2>5 DEF FindLocked, Select, Reply, GoTo, TypeOK
        <3>4. QED
            BY <3>1, <3>2, <3>3 DEF CallFollowsRow, Existing, Known
    <2>6. CASE Conflict(d)
        <3>1. /\ call[d] # Idle /\ rows[call[d].system] # NoRow
              /\ call'[d].system = call[d].system /\ call'[d].seen = call[d].seen
              /\ call'[d].phase = "select" /\ UNCHANGED rows
            BY <1>1, <2>6 DEF Conflict, GoTo, InPhase, TypeOK
        <3>2. QED
            BY <3>1 DEF IInv, CallFollowsRow, Known
    <2>7. \/ call'[d] = call[d]
          \/ call'[d] = Idle
          \/ \E k \in Systems, s \in Seeds, p \in Discoverers : Discover(d, k, s, p)
          \/ Insert(d) \/ FindLocked(d) \/ Select(d) \/ Conflict(d)
        BY <1>1, CallStep
    <2>8. QED
        BY <2>1, <2>2, <2>3, <2>4, <2>5, <2>6, <2>7
<1>4. OneCredit'
    <2> SUFFICES ASSUME NEW c \in Callers, NEW d \in Callers, c # d,
                        InPhase(c, "reply")', call'[c].answer.first,
                        InPhase(d, "reply")', call'[d].answer.first,
                        call'[c].system = call'[d].system
                 PROVE  FALSE
        BY DEF OneCredit
    <2>1. \A e \in Callers :
            InPhase(e, "reply")' /\ call'[e].answer.first => call'[e] = call[e] \/ Insert(e)
        BY <1>1, CallStep DEF Discover, FindLocked, Select, Conflict, Existing,
                              Reply, GoTo, InPhase, TypeOK
    <2>2. ~(call'[c] = call[c] /\ call'[d] = call[d])
        BY DEF IInv, OneCredit, InPhase
    <2>3. ASSUME NEW e \in Callers, NEW f \in Callers, e # f, Insert(e), call'[f] = call[f],
                 InPhase(f, "reply")', call'[e].system = call'[f].system
          PROVE  FALSE
        BY <1>1, <2>3 DEF Insert, Reply, GoTo, InPhase, TypeOK, IInv, CallFollowsRow
    <2>4. ~(Insert(c) /\ Insert(d))
        BY <1>1 DEF Insert, Reply, GoTo, InPhase, TypeOK
    <2>5. QED
        BY <2>1, <2>2, <2>3, <2>4
<1>5. QED
    BY <1>1, <1>2, <1>3, <1>4 DEF IInv

-------------------------------------------------------------------------------
\* The strengthening holds in every reachable state.
LEMMA Invariance == Spec => []IInv
<1>1. QED
    BY InitInv, InvStep, PTL DEF Spec

\* The ledger's variables always have the shape the code gives them.
THEOREM TypeCorrect == Spec => []TypeOK
<1>1. IInv => TypeOK
    BY DEF IInv
<1>2. QED
    BY <1>1, Invariance, PTL

\* No two callers ever hear different canonical entries for one system.
THEOREM Agreement == Spec => []NoConflictingCanonical
<1>1. IInv => NoConflictingCanonical
    <2> SUFFICES ASSUME IInv, NEW a \in AllAnswers, NEW b \in AllAnswers,
                        a.system = b.system
                 PROVE  a.seed = b.seed /\ a.by = b.by
        BY DEF NoConflictingCanonical
    <2>1. ASSUME NEW e \in AllAnswers
          PROVE  rows[e.system].seed = e.seed /\ rows[e.system].by = e.by
        <3>1. CASE e \in answers
            BY <3>1 DEF IInv, AnswersRepeatRows
        <3>2. ASSUME NEW c \in Callers, InPhase(c, "reply"), e = Said(call[c].answer)
              PROVE  rows[e.system].seed = e.seed /\ rows[e.system].by = e.by
            BY <3>2 DEF IInv, CallFollowsRow, InPhase, Said
        <3>3. QED
            BY <3>1, <3>2 DEF AllAnswers, Pending
    <2>2. QED
        BY <2>1
<1>2. QED
    BY <1>1, Invariance, PTL

\* No answer misses a diff recorded before its call began.
THEOREM Freshness == Spec => []AnswersCoverEarlierDiffs
<1>1. IInv => AnswersCoverEarlierDiffs
    BY DEF IInv, CallFollowsRow, AnswersCoverEarlierDiffs, InPhase
<1>2. QED
    BY <1>1, Invariance, PTL

-------------------------------------------------------------------------------
\* How a step of the ledger changes who is owed a discovery.
LEMMA OwedUnchanged ==
    ASSUME TypeOK, \A c \in Callers : \/ call'[c] = call[c]
                                      \/ /\ ~(InPhase(c, "reply") /\ call[c].answer.first)
                                         /\ ~(InPhase(c, "reply")' /\ call'[c].answer.first)
    PROVE  Owed' = Owed
BY DEF Owed, InPhase

\* The inserting caller is the one that will be told it discovered the system.
LEMMA GoToInsert ==
    ASSUME TypeOK, NEW c \in Callers, Insert(c)
    PROVE  InPhase(c, "reply")' /\ call'[c].answer.first /\ call'[c].system = call[c].system
<1> DEFINE a == [system |-> call[c].system, seed |-> call[c].seed, by |-> call[c].by,
                 first |-> TRUE, diffs |-> {}]
<1>1. call[c] # Idle /\ call[c] \in Call
    BY DEF Insert, InPhase, TypeOK
<1>2. a \in Answer
    BY <1>1 DEF Call, Answer
<1>3. GoTo(c, "reply", a)
    BY DEF Insert, Reply
<1>4. call'[c] # Idle /\ call'[c].phase = "reply" /\ call'[c].answer = a
    BY <1>1, <1>2, <1>3, GoToType
<1>5. call'[c].system = call[c].system
    BY <1>3 DEF GoTo, TypeOK
<1>6. QED
    BY <1>4, <1>5 DEF InPhase

\* A credited caller that leaves takes its system off the owed ones.
LEMMA OwedLeaves ==
    ASSUME IInv, NEW c \in Callers, InPhase(c, "reply"), call[c].answer.first,
           call' = [call EXCEPT ![c] = Idle]
    PROVE  Owed' = Owed \ {call[c].system} /\ call[c].system \in Owed
<1>1. \A d \in Callers : call'[d] = IF d = c THEN Idle ELSE call[d]
    BY DEF IInv, TypeOK
<1>2. \A d \in Callers \ {c} :
        InPhase(d, "reply") /\ call[d].answer.first => call[d].system # call[c].system
    BY DEF IInv, OneCredit
<1>3. QED
    BY <1>1, <1>2 DEF Owed, InPhase

\* Every step of the ledger is a step of the register or leaves it unchanged.
LEMMA RefinementStep ==
    IInv /\ [Next]_vars => [Register!Next]_<<Canon, Owed, answers>>
<1> SUFFICES ASSUME IInv, [Next]_vars, ~(UNCHANGED <<Canon, Owed, answers>>)
             PROVE  Register!Next
    OBVIOUS
<1>0. TypeOK
    BY DEF IInv
<1>1. UNCHANGED rows => UNCHANGED Canon
    BY DEF Canon
<1>2. ASSUME NEW c \in Callers, NEW k \in Systems, NEW s \in Seeds,
             NEW p \in Discoverers, Discover(c, k, s, p)
      PROVE  FALSE
    <2>1. Owed' = Owed
        BY <1>0, <1>2, OwedUnchanged DEF Discover, InPhase, TypeOK
    <2>2. QED
        BY <1>1, <1>2, <2>1 DEF Discover
<1>3. ASSUME NEW c \in Callers, Insert(c) PROVE Register!Next
    <2> DEFINE k == call[c].system s == call[c].seed p == call[c].by
    <2>1. call[c] # Idle /\ call[c] \in Call /\ rows[k] = NoRow
        BY <1>0, <1>3 DEF Insert, InPhase, TypeOK
    <2>2. k \in Systems /\ s \in Seeds /\ p \in Discoverers
        BY <2>1 DEF Call
    <2>3. Canon[k] = NoRow
        BY <2>1, <2>2 DEF Canon
    <2>4. Canon' = [Canon EXCEPT ![k] = [seed |-> s, by |-> p]]
        <3> DEFINE row == [seed |-> s, by |-> p, diffs |-> {}]
        <3>1. row \in Row
            BY <2>2 DEF Row
        <3>2. rows' = [rows EXCEPT ![k] = row] /\ row # NoRow
            BY <1>3, <3>1, NoneDistinct DEF Insert
        <3>3. \A j \in Systems : rows'[j] = IF j = k THEN row ELSE rows[j]
            BY <1>0, <3>2 DEF TypeOK
        <3>4. \A j \in Systems : Canon'[j] = IF j = k THEN [seed |-> s, by |-> p]
                                             ELSE Canon[j]
            BY <3>2, <3>3 DEF Canon
        <3>5. Canon' = [j \in Systems |-> Canon'[j]] /\ Canon = [j \in Systems |-> Canon[j]]
            BY DEF Canon
        <3>6. QED
            BY <3>4, <3>5
    <2>5. Owed' = Owed \cup {k}
        <3>1. \A d \in Callers \ {c} : call'[d] = call[d]
            BY <1>0, <1>3 DEF Insert, Reply, GoTo, TypeOK
        <3>2. /\ InPhase(c, "reply")'
              /\ call'[c].answer.first
              /\ call'[c].system = k
            <4>1. TypeOK'
                BY <1>0, TypeStep
            <4>2. QED
                BY <1>0, <1>3, <4>1, GoToInsert
        <3>3. ~InPhase(c, "reply")
            BY <1>3 DEF Insert, InPhase
        <3>4. QED
            BY <3>1, <3>2, <3>3 DEF Owed, InPhase
    <2>6. Register!Claim(k, s, p)
        BY <1>3, <2>3, <2>4, <2>5 DEF Register!Claim, Insert
    <2>7. QED
        BY <2>2, <2>6 DEF Register!Next
<1>4. ASSUME NEW c \in Callers, FindLocked(c) \/ Select(c) \/ Conflict(c)
      PROVE  FALSE
    <2>1. Owed' = Owed
        <3>1. \A d \in Callers \ {c} : call'[d] = call[d]
            BY <1>0, <1>4 DEF FindLocked, Select, Conflict, Reply, GoTo, TypeOK
        <3>2. ~InPhase(c, "reply")
            BY <1>4 DEF FindLocked, Select, Conflict, InPhase
        <3>3. ~(InPhase(c, "reply")' /\ call'[c].answer.first)
            BY <1>0, <1>4
               DEF FindLocked, Select, Conflict, Existing, Reply, GoTo, InPhase, TypeOK
        <3>4. QED
            BY <1>0, <3>1, <3>2, <3>3, OwedUnchanged
    <2>2. QED
        BY <1>1, <1>4, <2>1 DEF FindLocked, Select, Conflict
<1>5. ASSUME NEW c \in Callers, Deliver(c) PROVE Register!Next
    <2> DEFINE a == call[c].answer k == call[c].system
    <2>1. /\ call[c] # Idle /\ call[c] \in Call /\ InPhase(c, "reply")
          /\ a.system = k /\ rows[k] # NoRow /\ rows[k].seed = a.seed /\ rows[k].by = a.by
        BY <1>0, <1>5 DEF Deliver, InPhase, TypeOK, IInv, CallFollowsRow
    <2>2. k \in Systems /\ a \in Answer
        BY <1>0, <2>1 DEF Call, TypeOK, InPhase
    <2>3. Canon[k] # NoRow /\ Canon[k].seed = a.seed /\ Canon[k].by = a.by
        <3>1. [seed |-> rows[k].seed, by |-> rows[k].by] # NoRow
            BY <2>1, <2>2, NoneDistinct DEF Answer
        <3>2. QED
            BY <2>1, <2>2, <3>1 DEF Canon
    <2>4. /\ a.first => k \in Owed
          /\ Owed' = IF a.first THEN Owed \ {k} ELSE Owed
        <3>1. CASE a.first
            BY <1>5, <2>1, <3>1, OwedLeaves DEF Deliver
        <3>2. CASE ~a.first
            BY <1>0, <1>5, <3>2, OwedUnchanged DEF Deliver, InPhase, TypeOK
        <3>3. QED
            BY <3>1, <3>2
    <2>5. a.first \in BOOLEAN
        BY <2>2 DEF Answer
    <2>6. Register!Tell(k, a.first)
        BY <1>1, <1>5, <2>1, <2>3, <2>4 DEF Register!Tell, Deliver, Said
    <2>7. QED
        BY <2>2, <2>5, <2>6 DEF Register!Next
<1>6. ASSUME NEW c \in Callers, Fail(c) PROVE Register!Next
    <2>1. CASE InPhase(c, "reply") /\ call[c].answer.first
        <3>1. call[c].system \in Systems
            BY <1>0, <2>1 DEF InPhase, TypeOK, Call
        <3>2. Register!LoseCredit(call[c].system)
            BY <1>1, <1>6, <2>1, OwedLeaves DEF Fail, Register!LoseCredit
        <3>3. QED
            BY <3>1, <3>2 DEF Register!Next
    <2>2. CASE ~(InPhase(c, "reply") /\ call[c].answer.first)
        <3>1. Owed' = Owed
            BY <1>0, <1>6, <2>2, OwedUnchanged DEF Fail, InPhase, TypeOK
        <3>2. QED
            BY <1>1, <1>6, <3>1 DEF Fail
    <2>3. QED
        BY <2>1, <2>2
<1>7. ASSUME NEW k \in Systems, NEW d \in SUBSET Fields, Modify(k, d) PROVE FALSE
    <2>1. \A j \in Systems : /\ rows'[j] = NoRow <=> rows[j] = NoRow
                             /\ rows'[j].seed = rows[j].seed
                             /\ rows'[j].by = rows[j].by
        <3> DEFINE row == [seed |-> rows[k].seed, by |-> rows[k].by,
                           diffs |-> rows[k].diffs \cup d]
        <3>1. rows[k] \in Row
            BY <1>0, <1>7 DEF Modify, TypeOK
        <3>2. row \in Row
            BY <3>1 DEF Row
        <3>3. row # NoRow /\ rows' = [rows EXCEPT ![k] = row] /\ rows[k] # NoRow
            BY <1>7, <3>2, NoneDistinct DEF Modify
        <3>4. QED
            BY <1>0, <3>3 DEF TypeOK
    <2>2. Canon' = Canon
        BY <2>1 DEF Canon
    <2>3. Owed' = Owed
        BY <1>0, <1>7, OwedUnchanged DEF Modify
    <2>4. QED
        BY <1>7, <2>2, <2>3 DEF Modify
<1>8. CASE UNCHANGED vars
    BY <1>8 DEF vars, Canon, Owed, InPhase
<1>9. QED
    BY <1>2, <1>3, <1>4, <1>5, <1>6, <1>7, <1>8 DEF Next

\* The ledger, with any number of callers overlapping and dying, implements
\* the write-once register that credits each discovery at most once.
THEOREM Refinement == Spec => ImplementsRegister
<1>1. Init => Register!Init
    BY DEF Init, Register!Init, Canon, Owed, InPhase
<1>2. QED
    BY <1>1, RefinementStep, Invariance, PTL DEF Spec, ImplementsRegister, Register!Spec

-------------------------------------------------------------------------------
\* What the argument needs of the types; a snapshot is written after a tick that is due.
Shape ==
    /\ tick \in Nat /\ file \in Nat \cup {Missing, Torn} /\ missed \in BOOLEAN
    /\ server \in {"waiting", "sending", "writing", "emptied", "down"}
    /\ server \in {"writing", "emptied"} => Due(tick)

\* Unless a snapshot was missed the one that counts is of the last tick that was due,
\* or of the one before while this one's is not written yet.
SnapshotKept ==
    ~missed =>
        /\ server = "emptied" => file = Torn
        /\ server # "emptied" => Due(Loaded)
        /\ server \in {"waiting", "down"} => tick < Loaded + SnapshotEvery
        /\ server \in {"sending", "writing"} => tick <= Loaded + SnapshotEvery

SnapshotInv == Shape /\ Loaded <= tick /\ SnapshotKept

-------------------------------------------------------------------------------
LEMMA LoadedType == Shape => Loaded \in Nat
  BY DEF Shape, Loaded

LEMMA DueZero == Due(0)
  <1>1. \A s \in Nat \ {0} : 0 % s = 0
    OBVIOUS
  <1>2. QED
    BY <1>1, PeriodAssumption DEF Due

LEMMA SmallMultiple ==
    ASSUME NEW s \in Nat \ {0}, NEW k \in Int, s * k \in 0..(s - 1)
    PROVE s * k = 0
  <1>1. k < 1 /\ k > -1
    OBVIOUS
  <1>2. QED
    BY <1>1

\* The tick a period after one that is due is due.
LEMMA DueAgain ==
    ASSUME NEW n \in Nat, Due(n)
    PROVE Due(n + SnapshotEvery)
  <1>1. PICK s \in Nat \ {0} : s = SnapshotEvery
    BY PeriodAssumption
  <1>2. n = s * (n \div s) /\ n + s = s * ((n + s) \div s) + ((n + s) % s)
    <2>1. n = s * (n \div s) + (n % s) /\ n + s = s * ((n + s) \div s) + ((n + s) % s)
      OBVIOUS
    <2>2. n % s = 0
      BY <1>1 DEF Due
    <2>3. QED
      BY <2>1, <2>2
  <1>3. PICK k \in Int : k = (n \div s) + 1 - ((n + s) \div s)
    <2>1. (n \div s) \in Int /\ ((n + s) \div s) \in Int
      OBVIOUS
    <2>2. QED
      BY <2>1
  <1>4. (n + s) % s = s * k /\ (n + s) % s \in 0..(s - 1)
    <2>1. (n \div s) \in Int /\ ((n + s) \div s) \in Int /\ (n + s) % s \in 0..(s - 1)
      OBVIOUS
    <2>2. QED
      BY <1>2, <1>3, <2>1
  <1>5. (n + s) % s = 0
    BY <1>4, SmallMultiple
  <1>6. QED
    BY <1>1, <1>5 DEF Due

LEMMA SnapshotInit == TicksInit => SnapshotInv
  <1> SUFFICES ASSUME TicksInit PROVE SnapshotInv
    OBVIOUS
  <1>1. Loaded = 0 /\ Due(Loaded)
    BY DueZero DEF TicksInit, Loaded
  <1>2. SnapshotEvery > 0
    BY PeriodAssumption
  <1>3. Shape
    BY DEF TicksInit, Shape
  <1>4. server = "waiting" /\ tick < Loaded + SnapshotEvery /\ Loaded <= tick
    BY <1>1, <1>2, PeriodAssumption DEF TicksInit
  <1>5. QED
    BY <1>1, <1>3, <1>4 DEF SnapshotInv, SnapshotKept

\* A step that leaves the snapshot alone leaves what a restart would load.
LEMMA SameLoaded == file' = file => Loaded' = Loaded
  BY DEF Loaded

LEMMA AdvanceInv == SnapshotInv /\ Advance => SnapshotInv'
  <1> SUFFICES ASSUME SnapshotInv, Advance PROVE SnapshotInv'
    OBVIOUS
  <1>1. /\ server = "waiting" /\ server' = "sending" /\ tick' = tick + 1
        /\ file' = file /\ missed' = missed /\ Loaded' = Loaded
    BY SameLoaded DEF Advance
  <1>2. tick \in Nat /\ Loaded \in Nat /\ Loaded <= tick /\ SnapshotEvery \in Nat
    BY LoadedType, PeriodAssumption DEF SnapshotInv, Shape
  <1>3. Shape'
    BY <1>1, <1>2 DEF SnapshotInv, Shape
  <1>4. SnapshotKept'
    BY <1>1, <1>2 DEF SnapshotInv, SnapshotKept, Due
  <1>5. QED
    BY <1>1, <1>2, <1>3, <1>4 DEF SnapshotInv

LEMMA SendInv == SnapshotInv /\ Send => SnapshotInv'
  <1> SUFFICES ASSUME SnapshotInv, Send PROVE SnapshotInv'
    OBVIOUS
  <1>1. /\ server = "sending" /\ tick' = tick /\ file' = file /\ missed' = missed
        /\ Loaded' = Loaded
        /\ \/ server' = "sending"
           \/ server' = "writing" /\ Due(tick)
           \/ server' = "waiting" /\ ~Due(tick)
    BY SameLoaded DEF Send
  <1>2. tick \in Nat /\ Loaded \in Nat /\ Loaded <= tick /\ SnapshotEvery \in Nat
    BY LoadedType, PeriodAssumption DEF SnapshotInv, Shape
  <1>3. Shape'
    BY <1>1 DEF SnapshotInv, Shape, Due
  <1>4. ASSUME ~missed, ~Due(tick) PROVE tick < Loaded + SnapshotEvery
    <2>1. Due(Loaded) /\ tick <= Loaded + SnapshotEvery
      BY <1>1, <1>4 DEF SnapshotInv, SnapshotKept
    <2>2. tick # Loaded + SnapshotEvery
      BY <1>2, <1>4, <2>1, DueAgain
    <2>3. QED
      BY <1>2, <2>1, <2>2
  <1>5. SnapshotKept'
    BY <1>1, <1>4 DEF SnapshotInv, SnapshotKept, Due
  <1>6. QED
    BY <1>1, <1>2, <1>3, <1>5 DEF SnapshotInv

LEMMA WriteSnapshotInv == SnapshotInv /\ WriteSnapshot => SnapshotInv'
  <1> SUFFICES ASSUME SnapshotInv, WriteSnapshot PROVE SnapshotInv'
    OBVIOUS
  <1>1. tick \in Nat /\ tick' = tick /\ Due(tick) /\ SnapshotEvery \in Nat \ {0}
    BY PeriodAssumption DEF SnapshotInv, Shape, WriteSnapshot
  <1>2. CASE server = "writing" /\ server' = "emptied" /\ file' = Torn /\ UNCHANGED missed
    <2>1. Loaded' = 0
      BY <1>2 DEF Loaded
    <2>2. QED
      BY <1>1, <1>2, <2>1 DEF SnapshotInv, Shape, SnapshotKept, Due
  <1>3. CASE server = "emptied" /\ server' = "waiting" /\ file' = tick /\ missed' = FALSE
    <2>1. Loaded' = tick
      BY <1>1, <1>3, FileAssumption DEF Loaded
    <2>2. Due(tick)'
      BY <1>1 DEF Due
    <2>3. Due(Loaded)'
      BY <1>1, <2>1 DEF Due
    <2>4. Shape'
      BY <1>1, <1>3, <2>2 DEF Shape
    <2>5. (tick < Loaded + SnapshotEvery /\ Loaded <= tick)'
      BY <1>1, <2>1
    <2>6. QED
      BY <1>3, <2>3, <2>4, <2>5 DEF SnapshotInv, SnapshotKept
  <1>4. CASE server' = "waiting" /\ missed' = TRUE /\ UNCHANGED file
    BY <1>1, <1>4, SameLoaded DEF SnapshotInv, Shape, SnapshotKept
  <1>5. QED
    BY <1>2, <1>3, <1>4 DEF WriteSnapshot

LEMMA CrashInv == SnapshotInv /\ Crash => SnapshotInv'
  <1> SUFFICES ASSUME SnapshotInv, Crash PROVE SnapshotInv'
    OBVIOUS
  <1>1. /\ server' = "down" /\ tick' = tick /\ file' = file /\ Loaded' = Loaded
        /\ missed' = (missed \/ (server # "waiting" /\ Due(tick))) /\ server # "down"
    BY SameLoaded DEF Crash
  <1>2. tick \in Nat /\ Loaded \in Nat /\ Loaded <= tick /\ SnapshotEvery \in Nat
    BY LoadedType, PeriodAssumption DEF SnapshotInv, Shape
  <1>3. Shape'
    BY <1>1 DEF SnapshotInv, Shape, Due
  <1>4. ASSUME ~missed' PROVE Due(Loaded) /\ tick < Loaded + SnapshotEvery
    <2>1. ~missed /\ (server = "waiting" \/ ~Due(tick))
      BY <1>1, <1>4
    <2>2. CASE server = "waiting"
      BY <2>1, <2>2 DEF SnapshotInv, SnapshotKept
    <2>3. CASE ~Due(tick)
      <3>1. server \in {"waiting", "sending"}
        BY <1>1, <2>3 DEF SnapshotInv, Shape
      <3>2. Due(Loaded) /\ tick <= Loaded + SnapshotEvery
        BY <1>2, <2>1, <3>1 DEF SnapshotInv, SnapshotKept
      <3>3. tick # Loaded + SnapshotEvery
        BY <1>2, <2>3, <3>2, DueAgain
      <3>4. QED
        BY <1>2, <3>2, <3>3
    <2>4. QED
      BY <2>1, <2>2, <2>3
  <1>5. SnapshotKept'
    BY <1>1, <1>4 DEF SnapshotKept, Due
  <1>6. QED
    BY <1>1, <1>2, <1>3, <1>5 DEF SnapshotInv

LEMMA RestartInv == SnapshotInv /\ Restart => SnapshotInv'
  <1> SUFFICES ASSUME SnapshotInv, Restart PROVE SnapshotInv'
    OBVIOUS
  <1>1. /\ server = "down" /\ server' = "waiting" /\ tick' = Loaded /\ file' = file
        /\ missed' = missed /\ Loaded' = Loaded
    BY SameLoaded DEF Restart
  <1>2. Loaded \in Nat /\ SnapshotEvery \in Nat \ {0}
    BY LoadedType, PeriodAssumption DEF SnapshotInv
  <1>3. QED
    BY <1>1, <1>2 DEF SnapshotInv, Shape, SnapshotKept, Due

LEMMA SnapshotNext == SnapshotInv /\ [TicksNext]_ticksVars => SnapshotInv'
  <1> SUFFICES ASSUME SnapshotInv, [TicksNext]_ticksVars PROVE SnapshotInv'
    OBVIOUS
  <1>1. CASE UNCHANGED task
    BY <1>1, SameLoaded DEF task, SnapshotInv, Shape, SnapshotKept, Due
  <1>2. CASE \E c \in Clients : \/ Connect(c) \/ Subscribe(c) \/ Forward(c) \/ Break(c)
                                \/ Poll(c) \/ OwnTick(c)
    BY <1>1, <1>2 DEF Connect, Subscribe, Forward, Break, Poll, OwnTick
  <1>3. CASE UNCHANGED ticksVars
    BY <1>1, <1>3 DEF ticksVars
  <1>4. QED
    BY <1>2, <1>3, AdvanceInv, SendInv, WriteSnapshotInv, CrashInv, RestartInv DEF TicksNext

\* Whatever fails or crashes, a restart never runs ahead, and it loses less than a
\* period of complete ticks unless the last snapshot that was due was missed.
THEOREM Rewind == TicksSpec => []RewindBounded
  <1>1. SnapshotInv => RewindBounded
    <2> SUFFICES ASSUME SnapshotInv PROVE RewindBounded
      OBVIOUS
    <2>1. tick \in Nat /\ Loaded \in Nat /\ Loaded <= tick /\ SnapshotEvery \in Nat
      BY LoadedType, PeriodAssumption DEF SnapshotInv, Shape
    <2>2. QED
      BY <2>1 DEF SnapshotInv, Shape, SnapshotKept, RewindBounded
  <1>2. QED
    BY <1>1, SnapshotInit, SnapshotNext, PTL DEF TicksSpec

-------------------------------------------------------------------------------
\* The events a tick sends, and what the task is at with them.
TickEvents == [kind : {"economy tick", "other"}, tick : 1..MaxTicks]

TaskTypes ==
    /\ server \in {"waiting", "sending", "writing", "emptied", "down"}
    /\ tick \in 0..MaxTicks /\ file \in 0..MaxTicks \cup {Missing, Torn}
    /\ missed \in BOOLEAN /\ crashes \in 0..MaxCrashes
    /\ sending \in {<<>>, <<EconomyTick(tick)>>, <<OtherEvent(tick)>>,
                    <<EconomyTick(tick), OtherEvent(tick)>>}
    /\ server = "sending" <=> sending # <<>>
    /\ sending # <<>> => tick > 0

\* Which events there are, and which of them is a tick.
LEMMA EventFacts ==
    /\ TickEvents \subseteq Events /\ Opened \in Events /\ Closed \in Events /\ Opened # Closed
    /\ \A e \in TickEvents : e # Opened /\ e # Closed
    /\ \A e \in Events : e \in EconomyTicks <=> e.kind = "economy tick"
    /\ \A n \in 1..MaxTicks : /\ EconomyTick(n) \in TickEvents /\ OtherEvent(n) \in TickEvents
                              /\ EconomyTick(n) \in EconomyTicks /\ OtherEvent(n) \notin EconomyTicks
                              /\ EconomyTick(n) # OtherEvent(n) /\ EconomyTick(n).tick = n
    /\ Opened \notin EconomyTicks /\ Closed \notin EconomyTicks
    /\ Opened.kind # "economy tick" /\ Closed.kind # "economy tick"
  <1> USE DEF EconomyTicks, Events, TickEvents, Opened, Closed, EconomyTick, OtherEvent
  <1>1. 1..MaxTicks \subseteq Nat
    BY BoundsAssumption
  <1>2. TickEvents \subseteq Events /\ Opened \in Events /\ Closed \in Events
    OBVIOUS
  <1>3. /\ Opened.kind = "opened" /\ Closed.kind = "closed"
        /\ \A e \in TickEvents : e.kind \in {"economy tick", "other"} /\ e.tick \in 1..MaxTicks
        /\ \A e \in EconomyTicks : e.kind = "economy tick"
        /\ \A n \in 1..MaxTicks : /\ EconomyTick(n).kind = "economy tick" /\ EconomyTick(n).tick = n
                                  /\ OtherEvent(n).kind = "other"
    OBVIOUS
  <1>4. ASSUME NEW e \in TickEvents, e.kind = "economy tick" PROVE e \in EconomyTicks
    <2>1. e = [kind |-> e.kind, tick |-> e.tick] /\ e.tick \in Nat
      BY <1>1
    <2>2. QED
      BY <1>4, <2>1
  <1>5. \A n \in 1..MaxTicks : /\ EconomyTick(n) \in TickEvents /\ OtherEvent(n) \in TickEvents
                               /\ EconomyTick(n) \in EconomyTicks
    BY <1>1
  <1>6. \A e \in Events : e = Opened \/ e = Closed \/ e \in TickEvents
    OBVIOUS
  <1> HIDE DEF EconomyTicks, Events, TickEvents, Opened, Closed, EconomyTick, OtherEvent
  <1>7. \A e \in TickEvents : e # Opened /\ e # Closed
    BY <1>3
  <1>8. \A e \in Events : e \in EconomyTicks <=> e.kind = "economy tick"
    BY <1>3, <1>4, <1>6
  <1>9. QED
    BY <1>2, <1>3, <1>5, <1>7, <1>8

\* What the task has still to send, and after one event of it.
LEMMA Sendings ==
    ASSUME TaskTypes
    PROVE /\ sending \in Seq(TickEvents)
          /\ EconomyTick(tick) \in ToSet(sending) <=>
                sending # <<>> /\ Head(sending) = EconomyTick(tick)
          /\ sending # <<>> =>
                /\ tick \in 1..MaxTicks
                /\ Head(sending) \in {EconomyTick(tick), OtherEvent(tick)}
                /\ Tail(sending) \in {<<>>, <<OtherEvent(tick)>>}
                /\ EconomyTick(tick) \notin ToSet(Tail(sending))
  <1> DEFINE e == EconomyTick(tick)
             o == OtherEvent(tick)
  <1>1. sending # <<>> => tick \in 1..MaxTicks
    BY BoundsAssumption DEF TaskTypes
  <1>2. sending # <<>> => e \in TickEvents /\ o \in TickEvents /\ e # o
    BY <1>1, EventFacts
  <1>3. sending \in {<<>>, <<e>>, <<o>>, <<e, o>>}
    BY DEF TaskTypes
  <1> HIDE DEF e, o
  <1>4. /\ ToSet(<<>>) = {} /\ ToSet(<<e>>) = {e} /\ ToSet(<<o>>) = {o} /\ ToSet(<<e, o>>) = {e, o}
    <2>1. /\ DOMAIN <<>> = {} /\ DOMAIN <<e>> = {1} /\ DOMAIN <<o>> = {1} /\ DOMAIN <<e, o>> = {1, 2}
          /\ <<e>>[1] = e /\ <<o>>[1] = o /\ <<e, o>>[1] = e /\ <<e, o>>[2] = o
      OBVIOUS
    <2>2. QED
      BY <2>1, Zenon DEF ToSet
  <1>5. /\ Head(<<e>>) = e /\ Head(<<o>>) = o /\ Head(<<e, o>>) = e
        /\ Tail(<<e>>) = <<>> /\ Tail(<<o>>) = <<>> /\ Tail(<<e, o>>) = <<o>>
    OBVIOUS
  <1>6. sending \in Seq(TickEvents)
    <2>1. <<>> \in Seq(TickEvents)
      BY EmptySeq
    <2>2. sending # <<>> => <<e>> \in Seq(TickEvents) /\ <<o>> \in Seq(TickEvents) /\ <<e, o>> \in Seq(TickEvents)
      BY <1>2
    <2>3. QED
      BY <1>3, <2>1, <2>2
  <1>7. e \in ToSet(sending) <=> sending # <<>> /\ Head(sending) = e
    BY <1>2, <1>3, <1>4, <1>5
  <1>8. sending # <<>> => /\ Head(sending) \in {e, o} /\ Tail(sending) \in {<<>>, <<o>>}
                          /\ e \notin ToSet(Tail(sending))
    BY <1>2, <1>3, <1>4, <1>5
  <1>9. QED
    BY <1>1, <1>6, <1>7, <1>8 DEF e, o

LEMMA InitTask == TicksInit => TaskTypes
  <1>1. MaxTicks \in Nat /\ MaxCrashes \in Nat
    BY BoundsAssumption
  <1>2. 0 \in 0..MaxTicks /\ 0 \in 0..MaxCrashes
    BY <1>1
  <1>3. QED
    BY <1>2 DEF TicksInit, TaskTypes

LEMMA NextTask == TaskTypes /\ [TicksNext]_ticksVars => TaskTypes'
  <1> SUFFICES ASSUME TaskTypes, [TicksNext]_ticksVars PROVE TaskTypes'
    OBVIOUS
  <1>1. CASE Advance
    <2>1. tick' = tick + 1 /\ tick \in 0..MaxTicks /\ tick < MaxTicks /\ MaxTicks \in Nat
      BY <1>1, BoundsAssumption DEF Advance, TaskTypes
    <2>2. sending' \in {<<EconomyTick(tick')>>, <<EconomyTick(tick'), OtherEvent(tick')>>}
      BY <1>1 DEF Advance
    <2>3. sending' # <<>>
      BY <2>2
    <2>4. QED
      BY <1>1, <2>1, <2>2, <2>3 DEF Advance, TaskTypes
  <1>2. CASE Send
    <2>1. sending # <<>> /\ tick' = tick /\ sending' = Tail(sending)
      BY <1>2 DEF Send, TaskTypes
    <2>2. sending' \in {<<>>, <<OtherEvent(tick')>>} /\ tick' > 0
      BY <2>1, Sendings
    <2>3. QED
      BY <1>2, <2>1, <2>2 DEF Send, TaskTypes
  <1>3. CASE WriteSnapshot
    BY <1>3 DEF WriteSnapshot, TaskTypes
  <1>4. CASE Crash
    BY <1>4, BoundsAssumption DEF Crash, TaskTypes
  <1>5. CASE Restart
    <2>1. Loaded \in 0..MaxTicks
      BY BoundsAssumption DEF Loaded, TaskTypes
    <2>2. sending = <<>> /\ sending' = <<>>
      BY <1>5 DEF Restart, TaskTypes
    <2>3. QED
      BY <1>5, <2>1, <2>2 DEF Restart, TaskTypes
  <1>6. CASE UNCHANGED task
    BY <1>6 DEF task, TaskTypes
  <1>7. CASE \E c \in Clients : \/ Connect(c) \/ Subscribe(c) \/ Forward(c) \/ Break(c)
                                \/ Poll(c) \/ OwnTick(c)
    BY <1>6, <1>7 DEF Connect, Subscribe, Forward, Break, Poll, OwnTick
  <1>8. CASE UNCHANGED ticksVars
    BY <1>6, <1>8 DEF ticksVars
  <1>9. QED
    BY <1>1, <1>2, <1>3, <1>4, <1>5, <1>7, <1>8 DEF TicksNext

-------------------------------------------------------------------------------
MapTypes ==
    /\ session \in [Clients -> {"none", "accepted", "forwarding", "silent"}]
    /\ backlog \in [Clients -> Seq(TickEvents)] /\ wire \in [Clients -> Seq(Events)]
    /\ online \in [Clients -> BOOLEAN]
    /\ own \in [Clients -> Nat] /\ from \in [Clients -> Nat] /\ since \in [Clients -> 0..MaxTicks]
    /\ connects \in [Clients -> 0..MaxConnects]

LEMMA InitMaps == TicksInit => MapTypes
  <1> SUFFICES ASSUME TicksInit PROVE MapTypes
    OBVIOUS
  <1>1. 0 \in 0..MaxTicks /\ 0 \in 0..MaxConnects
    BY BoundsAssumption
  <1>2. <<>> \in Seq(TickEvents) /\ <<>> \in Seq(Events)
    BY EmptySeq
  <1>3. QED
    BY <1>1, <1>2 DEF TicksInit, MapTypes

LEMMA AnnouncedType == TaskTypes => Announced \in 0..MaxTicks
  <1> SUFFICES ASSUME TaskTypes PROVE Announced \in 0..MaxTicks
    OBVIOUS
  <1>1. EconomyTick(tick) \in ToSet(sending) => tick \in 1..MaxTicks
    BY Sendings
  <1>2. tick \in 0..MaxTicks /\ MaxTicks \in Nat
    BY BoundsAssumption DEF TaskTypes
  <1>3. QED
    BY <1>1, <1>2 DEF Announced

LEMMA ServerMaps == TaskTypes /\ MapTypes /\ (Send \/ Crash) => MapTypes'
  <1> SUFFICES ASSUME TaskTypes, MapTypes, Send \/ Crash PROVE MapTypes'
    OBVIOUS
  <1>1. CASE Send
    <2>1. /\ backlog' = [c \in Clients |-> IF session[c] = "forwarding"
                                           THEN Append(backlog[c], Head(sending)) ELSE backlog[c]]
          /\ session' = session /\ wire' = wire /\ since' = since /\ connects' = connects
          /\ online' = online /\ own' = own /\ from' = from
      BY <1>1 DEF Send, universes
    <2>2. sending # <<>>
      BY <1>1 DEF Send, TaskTypes
    <2>3. Head(sending) \in TickEvents
      BY <2>2, Sendings, HeadTailProperties
    <2>4. \A c \in Clients : Append(backlog[c], Head(sending)) \in Seq(TickEvents)
      BY <2>3, AppendProperties DEF MapTypes
    <2>5. backlog' \in [Clients -> Seq(TickEvents)]
      BY <2>1, <2>4 DEF MapTypes
    <2>6. QED
      BY <2>1, <2>5 DEF MapTypes
  <1>2. CASE Crash
    <2>1. <<>> \in Seq(TickEvents)
      BY EmptySeq
    <2>2. QED
      BY <1>2, <2>1 DEF Crash, MapTypes, universes
  <1>3. QED
    BY <1>1, <1>2

LEMMA ConnectMaps == ASSUME TaskTypes, MapTypes, NEW c \in Clients, Connect(c) PROVE MapTypes'
  <1>1. <<Opened>> \in Seq(Events)
    <2>1. \A e \in Events : <<e>> \in Seq(Events)
      OBVIOUS
    <2>2. QED
      BY <2>1, EventFacts
  <1>2. connects[c] + 1 \in 0..MaxConnects
    BY BoundsAssumption DEF Connect, MapTypes
  <1>3. QED
    BY <1>1, <1>2 DEF Connect, MapTypes, universes

LEMMA SubscribeMaps == ASSUME TaskTypes, MapTypes, NEW c \in Clients, Subscribe(c) PROVE MapTypes'
  BY AnnouncedType DEF Subscribe, MapTypes, universes

LEMMA ForwardMaps == ASSUME TaskTypes, MapTypes, NEW c \in Clients, Forward(c) PROVE MapTypes'
  <1>1. /\ backlog[c] # <<>> /\ since' = since /\ connects' = connects
        /\ online' = online /\ own' = own /\ from' = from
    BY DEF Forward, universes
  <1>2. CASE Len(backlog[c]) > Capacity
    <2>1. <<>> \in Seq(TickEvents)
      BY EmptySeq
    <2>2. QED
      BY <1>1, <1>2, <2>1 DEF Forward, MapTypes
  <1>3. CASE ~(Len(backlog[c]) > Capacity)
    <2>1. Head(backlog[c]) \in Events /\ Tail(backlog[c]) \in Seq(TickEvents)
      BY <1>1, HeadTailProperties, EventFacts DEF MapTypes
    <2>2. Append(wire[c], Head(backlog[c])) \in Seq(Events)
      BY <2>1, AppendProperties DEF MapTypes
    <2>3. QED
      BY <1>1, <1>3, <2>1, <2>2 DEF Forward, MapTypes
  <1>4. QED
    BY <1>2, <1>3

LEMMA BreakMaps == ASSUME TaskTypes, MapTypes, NEW c \in Clients, Break(c) PROVE MapTypes'
  <1>1. PICK n \in 0..Len(wire[c]) : wire' = [wire EXCEPT ![c] = Append(SubSeq(wire[c], 1, n), Closed)]
    BY DEF Break
  <1>2. SubSeq(wire[c], 1, n) \in Seq(Events)
    <2>1. \A i \in 1..n : wire[c][i] \in Events
      BY ElementOfSeq, LenProperties DEF MapTypes
    <2>2. n \in Int
      BY LenProperties DEF MapTypes
    <2>3. QED
      BY <2>1, <2>2, SubSeqProperties
  <1>3. Append(SubSeq(wire[c], 1, n), Closed) \in Seq(Events)
    BY <1>2, AppendProperties, EventFacts
  <1>4. <<>> \in Seq(TickEvents)
    BY EmptySeq
  <1>5. QED
    BY <1>1, <1>3, <1>4 DEF Break, Ended, MapTypes, universes

LEMMA PollMaps == ASSUME TaskTypes, MapTypes, NEW c \in Clients, Poll(c) PROVE MapTypes'
  <1>1. Tail(wire[c]) \in Seq(Events)
    BY HeadTailProperties DEF Poll, MapTypes
  <1>2. own' \in [Clients -> Nat] /\ from' \in [Clients -> Nat]
    <2>1. /\ own' = own \/ own' = [own EXCEPT ![c] = own[c] + 1]
          /\ from' = from \/ from' = [from EXCEPT ![c] = own[c]]
      BY DEF Poll
    <2>2. own \in [Clients -> Nat] /\ from \in [Clients -> Nat] /\ own[c] \in Nat /\ own[c] + 1 \in Nat
      BY DEF MapTypes
    <2>3. QED
      BY <2>1, <2>2
  <1>3. online' \in [Clients -> BOOLEAN]
    BY DEF Poll, MapTypes
  <1>4. QED
    BY <1>1, <1>2, <1>3 DEF Poll, MapTypes

LEMMA NextMaps == TaskTypes /\ MapTypes /\ [TicksNext]_ticksVars => MapTypes'
  <1> SUFFICES ASSUME TaskTypes, MapTypes, [TicksNext]_ticksVars PROVE MapTypes'
    OBVIOUS
  <1>1. CASE UNCHANGED <<link, universes>>
    BY <1>1 DEF link, universes, MapTypes
  <1>2. CASE Advance \/ WriteSnapshot \/ Restart
    BY <1>1, <1>2 DEF Advance, WriteSnapshot, Restart
  <1>3. CASE UNCHANGED ticksVars
    BY <1>1, <1>3 DEF ticksVars
  <1>4. CASE \E c \in Clients : OwnTick(c)
    BY <1>4 DEF OwnTick, MapTypes, link
  <1>5. QED
    BY <1>2, <1>3, <1>4, ServerMaps, ConnectMaps, SubscribeMaps, ForwardMaps, BreakMaps, PollMaps DEF TicksNext

-------------------------------------------------------------------------------
\* Opened comes first and to a client that is offline, Closed last and when the session
\* is over; a session's client is online or about to see that it is.
Connection(c) ==
    /\ \A i \in 1..Len(wire[c]) : /\ wire[c][i] = Opened => i = 1 /\ ~online[c]
                                  /\ wire[c][i] = Closed => i = Len(wire[c]) /\ session[c] = "none"
    /\ session[c] # "none" => server # "down" /\ (online[c] \/ (wire[c] # <<>> /\ wire[c][1] = Opened))
    /\ session[c] # "forwarding" => backlog[c] = <<>>

\* What the property says of one client; before it subscribes nothing is under way.
Flow(c) ==
    /\ session[c] = "accepted" => UnderWay(c) = <<>> /\ Replayed(c) = 0
    /\ session[c] = "forwarding" => Replayed(c) + Len(UnderWay(c)) = Announced - since[c]
    /\ session[c] # "none" => \A i \in 1..Len(UnderWay(c)) :
                                 UnderWay(c)[i].tick = since[c] + Replayed(c) + i

Types == TaskTypes /\ MapTypes

LEMMA SameConnection ==
    ASSUME NEW c \in Clients, Connection(c), server' = "down" => server = "down",
           wire'[c] = wire[c], session'[c] = session[c], backlog'[c] = backlog[c], online'[c] = online[c]
    PROVE Connection(c)'
  BY DEF Connection

\* Steps of the task.
LEMMA TaskConnection ==
    ASSUME Types, NEW c \in Clients, Connection(c),
           Advance \/ Send \/ WriteSnapshot \/ Crash \/ Restart
    PROVE Connection(c)'
  <1>1. CASE Advance \/ WriteSnapshot \/ Restart
    <2>1. server' # "down" /\ UNCHANGED <<link, universes>>
      BY <1>1 DEF Advance, WriteSnapshot, Restart
    <2>2. QED
      BY <2>1, SameConnection DEF link, universes
  <1>2. CASE Send
    <2>1. /\ server' # "down" /\ session' = session /\ wire' = wire /\ online' = online
          /\ session[c] # "forwarding" => backlog'[c] = backlog[c]
      BY <1>2 DEF Send, universes
    <2>2. QED
      BY <2>1 DEF Connection
  <1>3. CASE Crash
    <2>1. session'[c] = "none" /\ backlog'[c] = <<>> /\ wire' = wire /\ online' = online
      BY <1>3 DEF Crash, universes
    <2>2. QED
      BY <2>1 DEF Connection
  <1>4. QED
    BY <1>1, <1>2, <1>3

LEMMA ConnectConnection == ASSUME Types, NEW c \in Clients, Connection(c), Connect(c) PROVE Connection(c)'
  <1>1. /\ server' # "down" /\ session'[c] = "accepted" /\ wire'[c] = <<Opened>> /\ online' = online
        /\ ~online[c] /\ backlog' = backlog /\ session[c] = "none"
    BY DEF Connect, task, universes, Types, MapTypes
  <1>2. /\ Len(<<Opened>>) = 1 /\ <<Opened>> # <<>> /\ <<Opened>>[1] = Opened
        /\ <<Opened>>[1] # Closed
    <2>1. \A e : Len(<<e>>) = 1 /\ <<e>> # <<>> /\ <<e>>[1] = e
      OBVIOUS
    <2>2. Opened # Closed
      BY EventFacts
    <2>3. QED
      BY <2>1, <2>2, Zenon
  <1>3. wire'[c] # <<>> /\ wire'[c][1] = Opened /\ Len(wire'[c]) = 1 /\ wire'[c][1] # Closed
    BY <1>1, <1>2
  <1>4. QED
    BY <1>1, <1>3 DEF Connection

LEMMA ForwardConnection == ASSUME Types, NEW c \in Clients, Connection(c), Forward(c) PROVE Connection(c)'
  <1>1. /\ session[c] = "forwarding" /\ backlog[c] # <<>> /\ server' = server /\ online' = online
    BY DEF Forward, task, universes
  <1>2. wire[c] \in Seq(Events) /\ backlog[c] \in Seq(TickEvents)
    BY DEF Types, MapTypes
  <1>3. CASE Len(backlog[c]) > Capacity
    <2>1. session'[c] = "silent" /\ backlog'[c] = <<>> /\ wire' = wire
      BY <1>3 DEF Forward, Types, MapTypes
    <2>2. QED
      BY <1>1, <2>1 DEF Connection
  <1>4. CASE ~(Len(backlog[c]) > Capacity)
    <2>1. session' = session /\ wire'[c] = Append(wire[c], Head(backlog[c]))
      BY <1>4 DEF Forward, Types, MapTypes
    <2>2. PICK e \in TickEvents : e = Head(backlog[c])
      BY <1>1, <1>2, HeadTailProperties
    <2>3. e \in Events /\ e # Opened /\ e # Closed
      BY EventFacts
    <2>4. PICK l \in Nat : l = Len(wire[c])
      BY <1>2, LenProperties
    <2> DEFINE w == wire'[c]
    <2>5. Len(w) = l + 1 /\ w[l + 1] = e /\ \A i \in 1..l : w[i] = wire[c][i]
      BY <1>2, <2>1, <2>2, <2>3, <2>4, AppendProperties
    <2>6. wire[c] # <<>> => 1 \in 1..l
      BY <1>2, <2>4, EmptySeq
    <2>7. w # <<>>
      BY <1>2, <2>1, <2>2, <2>3, AppendProperties
    <2> HIDE DEF w
    <2>8. ASSUME NEW i \in 1..(l + 1)
          PROVE (w[i] = Opened => i = 1 /\ ~online[c]) /\ w[i] # Closed
      <3>1. CASE i = l + 1
        BY <2>3, <2>5, <3>1
      <3>2. CASE i \in 1..l
        BY <1>1, <2>4, <2>5, <3>2 DEF Connection
      <3>3. QED
        BY <3>1, <3>2
    <2>9. server # "down" /\ (online[c] \/ w[1] = Opened)
      BY <1>1, <2>5, <2>6 DEF Connection
    <2>10. QED
      BY <1>1, <2>1, <2>5, <2>7, <2>8, <2>9 DEF Connection, w
  <1>5. QED
    BY <1>3, <1>4

LEMMA BreakConnection == ASSUME Types, NEW c \in Clients, Connection(c), Break(c) PROVE Connection(c)'
  <1>1. PICK n \in 0..Len(wire[c]) : /\ n = 0 => online[c]
                                     /\ wire' = [wire EXCEPT ![c] = Append(SubSeq(wire[c], 1, n), Closed)]
    BY DEF Break
  <1>2. /\ Closed \notin ToSet(wire[c]) /\ session'[c] = "none" /\ backlog'[c] = <<>> /\ online' = online
    BY DEF Break, Ended, universes, Types, MapTypes
  <1>3. wire[c] \in Seq(Events)
    BY DEF Types, MapTypes
  <1>4. PICK l \in Nat : l = Len(wire[c])
    BY <1>3, LenProperties
  <1> DEFINE u == SubSeq(wire[c], 1, n)
             w == wire'[c]
  <1>5. u \in Seq(Events) /\ Len(u) = n /\ \A i \in 1..n : u[i] = wire[c][i]
    <2>1. \A i \in 1..n : wire[c][i] \in Events
      BY <1>3, <1>4, ElementOfSeq
    <2>2. n \in Nat /\ n - 1 + 1 = n
      BY <1>4
    <2>3. \A i \in 1..n : u[i] = wire[c][1 + i - 1] /\ 1 + i - 1 = i
      BY <2>1, <2>2, SubSeqProperties
    <2>4. QED
      BY <2>1, <2>2, <2>3, SubSeqProperties
  <1>6. w = Append(u, Closed)
    BY <1>1 DEF Types, MapTypes
  <1>7. Len(w) = n + 1 /\ w[n + 1] = Closed /\ \A i \in 1..n : w[i] = wire[c][i]
    <2>1. PICK e \in Events : e = Closed
      BY EventFacts
    <2>2. w = Append(u, e)
      BY <1>6, <2>1
    <2> HIDE DEF u, w
    <2>3. QED
      BY <1>5, <2>1, <2>2, AppendProperties
  <1>8. \A i \in 1..l : wire[c][i] # Closed
    BY <1>2, <1>3, <1>4, LenProperties DEF ToSet
  <1> HIDE DEF u, w
  <1>9. ASSUME NEW i \in 1..(n + 1)
        PROVE (w[i] = Opened => i = 1 /\ ~online[c]) /\ (w[i] = Closed => i = n + 1)
    <2>1. n \in Nat /\ n <= l
      BY <1>4
    <2>2. CASE i = n + 1
      BY <1>7, <2>2, EventFacts
    <2>3. CASE i \in 1..n
      <3>1. i \in 1..l
        BY <2>1, <2>3
      <3>2. QED
        BY <1>4, <1>7, <1>8, <2>3, <3>1 DEF Connection
    <2>4. QED
      BY <2>1, <2>2, <2>3
  <1>10. QED
    BY <1>2, <1>7, <1>9 DEF Connection, w

LEMMA PollConnection == ASSUME Types, NEW c \in Clients, Connection(c), Poll(c) PROVE Connection(c)'
  <1>1. /\ wire[c] # <<>> /\ wire'[c] = Tail(wire[c]) /\ session' = session /\ backlog' = backlog
        /\ server' = server
        /\ online'[c] = IF Head(wire[c]) = Opened THEN TRUE
                        ELSE IF Head(wire[c]) = Closed THEN FALSE ELSE online[c]
    BY DEF Poll, task, Types, MapTypes
  <1>2. wire[c] \in Seq(Events)
    BY DEF Types, MapTypes
  <1>3. PICK l \in Nat \ {0} : l = Len(wire[c])
    BY <1>1, <1>2, EmptySeq
  <1> DEFINE t == Tail(wire[c])
  <1>4. Len(t) = l - 1 /\ (\A i \in 1..(l - 1) : t[i] = wire[c][i + 1]) /\ Head(wire[c]) = wire[c][1]
    BY <1>1, <1>2, <1>3, HeadTailProperties
  <1> HIDE DEF t
  <1>5. ASSUME NEW i \in 1..(l - 1)
        PROVE t[i] # Opened /\ (t[i] = Closed => i = l - 1 /\ session[c] = "none")
    <2>1. i + 1 \in 1..l /\ i + 1 # 1 /\ t[i] = wire[c][i + 1]
      BY <1>4
    <2>2. QED
      BY <1>3, <2>1 DEF Connection
  <1>6. ASSUME session[c] # "none" PROVE online'[c]
    <2>1. 1 \in 1..l
      OBVIOUS
    <2>2. Head(wire[c]) # Closed
      BY <1>3, <1>4, <1>6, <2>1 DEF Connection
    <2>3. online[c] \/ Head(wire[c]) = Opened
      BY <1>4, <1>6 DEF Connection
    <2>4. QED
      BY <1>1, <2>2, <2>3
  <1>7. QED
    BY <1>1, <1>4, <1>5, <1>6 DEF Connection, t

LEMMA NextConnection ==
    ASSUME Types, \A d \in Clients : Connection(d), [TicksNext]_ticksVars, NEW c \in Clients
    PROVE Connection(c)'
  <1>1. CASE UNCHANGED ticksVars
    BY <1>1, SameConnection DEF ticksVars, task, link, universes
  <1>2. ASSUME NEW d \in Clients, Connect(d) \/ Subscribe(d) \/ Forward(d) \/ Break(d) \/ Poll(d) \/ OwnTick(d), d # c
        PROVE Connection(c)'
    <2>1. /\ wire'[c] = wire[c] /\ session'[c] = session[c] /\ backlog'[c] = backlog[c]
          /\ online'[c] = online[c] /\ server' = server
      <3>1. CASE Connect(d) \/ Subscribe(d) \/ Poll(d) \/ OwnTick(d)
        BY <1>2, <3>1 DEF Connect, Subscribe, Poll, OwnTick, task, link, universes, Types, MapTypes
      <3>2. CASE Forward(d)
        BY <1>2, <3>2 DEF Forward, task, universes, Types, MapTypes
      <3>3. CASE Break(d)
        BY <1>2, <3>3 DEF Break, Ended, task, universes, Types, MapTypes
      <3>4. QED
        BY <1>2, <3>1, <3>2, <3>3
    <2>2. QED
      BY <2>1, SameConnection
  <1>3. CASE Subscribe(c)
    <2>1. /\ session[c] = "accepted" /\ session'[c] = "forwarding" /\ wire' = wire /\ backlog' = backlog
          /\ online' = online /\ server' = server
      BY <1>3 DEF Subscribe, task, universes, Types, MapTypes
    <2>2. QED
      BY <2>1 DEF Connection
  <1>4. CASE OwnTick(c)
    BY <1>4, SameConnection DEF OwnTick, task, link
  <1>5. QED
    BY <1>1, <1>2, <1>3, <1>4, TaskConnection, ConnectConnection, ForwardConnection, BreakConnection,
       PollConnection DEF TicksNext

-------------------------------------------------------------------------------
\* What is under way to a client.
LEMMA UnderWayType ==
    ASSUME Types, NEW c \in Clients
    PROVE /\ wire[c] \in Seq(Events) /\ backlog[c] \in Seq(Events)
          /\ UnderWay(c) \in Seq(Events)
          /\ \A i \in 1..Len(UnderWay(c)) : UnderWay(c)[i].tick \in Nat
          /\ Replayed(c) \in Int /\ since[c] \in Nat
  <1>1. wire[c] \in Seq(Events) /\ backlog[c] \in Seq(Events)
    BY EventFacts, SeqMonotonic DEF Types, MapTypes
  <1> DEFINE s == wire[c] \o backlog[c]
  <1>2. s \in Seq(Events)
    BY <1>1, ConcatProperties
  <1>3. UnderWay(c) \in Seq(Events)
    BY <1>2, OnlyType DEF UnderWay
  <1>4. \A i \in 1..Len(UnderWay(c)) : UnderWay(c)[i] \in EconomyTicks
    <2>1. \E f : Places(s, EconomyTicks, Only(s, EconomyTicks), f)
      BY <1>2, OnlyPlaces
    <2>2. QED
      BY <2>1 DEF Places, UnderWay
  <1>5. \A e \in EconomyTicks : e.tick \in Nat
    BY DEF EconomyTicks
  <1>6. Replayed(c) \in Int /\ since[c] \in Nat
    BY BoundsAssumption DEF Replayed, Types, MapTypes
  <1>7. QED
    BY <1>1, <1>3, <1>4, <1>5, <1>6

\* Steps that change nothing of what c has to come.
LEMMA SameFlow ==
    ASSUME NEW c \in Clients, Flow(c), session'[c] = session[c], wire'[c] = wire[c],
           backlog'[c] = backlog[c], since'[c] = since[c], Replayed(c)' = Replayed(c),
           Announced' = Announced
    PROVE Flow(c)'
  BY DEF Flow, UnderWay

LEMMA SameReplayed ==
    ASSUME NEW c \in Clients, online'[c] = online[c], own'[c] = own[c], from'[c] = from[c]
    PROVE Replayed(c)' = Replayed(c)
  BY DEF Replayed

LEMMA SameAnnounced == UNCHANGED <<tick, sending>> => Announced' = Announced
  BY DEF Announced

LEMMA AdvanceFlow == ASSUME Types, NEW c \in Clients, Flow(c), Advance PROVE Flow(c)'
  <1>1. /\ sending = <<>> /\ tick' = tick + 1 /\ tick \in Nat
        /\ sending' \in {<<EconomyTick(tick')>>, <<EconomyTick(tick'), OtherEvent(tick')>>}
        /\ UNCHANGED <<link, universes>>
    BY BoundsAssumption DEF Advance, Types, TaskTypes
  <1>2. Announced = tick
    BY <1>1, Sendings DEF Announced, Types
  <1>3. EconomyTick(tick') \in ToSet(sending')
    <2>1. \A e, o : e \in ToSet(<<e>>) /\ e \in ToSet(<<e, o>>)
      BY DEF ToSet
    <2>2. QED
      BY <1>1, <2>1, Zenon
  <1>4. Announced' = Announced
    BY <1>1, <1>2, <1>3 DEF Announced
  <1>5. QED
    BY <1>1, <1>4, SameFlow, SameReplayed DEF link, universes

LEMMA SendFlow == ASSUME Types, NEW c \in Clients, Flow(c), Send PROVE Flow(c)'
  <1>1. /\ server = "sending" /\ sending' = Tail(sending) /\ tick' = tick
        /\ session' = session /\ wire' = wire /\ since' = since
        /\ backlog'[c] = IF session[c] = "forwarding" THEN Append(backlog[c], Head(sending)) ELSE backlog[c]
    BY DEF Send
  <1>2. Replayed(c)' = Replayed(c)
    BY SameReplayed DEF Send, universes
  <1>3. sending # <<>> /\ tick \in Nat /\ tick \in 1..MaxTicks
    BY <1>1, Sendings, BoundsAssumption DEF Types, TaskTypes
  <1>4. Announced' = tick
    BY <1>1, <1>3, Sendings DEF Announced, Types
  <1>5. CASE session[c] # "forwarding"
    BY <1>1, <1>2, <1>5 DEF Flow, UnderWay
  <1>6. CASE session[c] = "forwarding"
    <2>1. PICK e : e = Head(sending)
      OBVIOUS
    <2>2. e \in Events /\ e \in {EconomyTick(tick), OtherEvent(tick)}
      BY <1>3, <2>1, Sendings, EventFacts DEF Types
    <2>3. UnderWay(c)' = IF e \in EconomyTicks THEN Append(UnderWay(c), e) ELSE UnderWay(c)
      <3>1. wire[c] \o Append(backlog[c], e) = Append(wire[c] \o backlog[c], e)
        <4>1. PICK x \in Seq(Events), y \in Seq(Events) : x = wire[c] /\ y = backlog[c]
          BY UnderWayType
        <4>2. x \o Append(y, e) = Append(x \o y, e)
          BY <2>2, AppendToConcat
        <4>3. QED
          BY <4>1, <4>2
      <3>2. Only(Append(wire[c] \o backlog[c], e), EconomyTicks)
                = IF e \in EconomyTicks THEN Append(Only(wire[c] \o backlog[c], EconomyTicks), e)
                  ELSE Only(wire[c] \o backlog[c], EconomyTicks)
        <4>1. wire[c] \o backlog[c] \in Seq(Events)
          BY UnderWayType, ConcatProperties
        <4>2. QED
          BY <2>2, <4>1, OnlyAppend
      <3>3. QED
        BY <1>1, <1>6, <2>1, <3>1, <3>2, Zenon DEF UnderWay
    <2>4. CASE e = OtherEvent(tick)
      <3>1. e \notin EconomyTicks /\ e # EconomyTick(tick)
        BY <1>3, <2>4, EventFacts
      <3>2. Announced = tick
        BY <2>1, <3>1, Sendings DEF Announced, Types
      <3>3. UnderWay(c)' = UnderWay(c)
        BY <2>3, <3>1
      <3>4. QED
        BY <1>1, <1>2, <1>4, <3>2, <3>3 DEF Flow
    <2>5. CASE e = EconomyTick(tick)
      <3>1. e \in EconomyTicks /\ e.tick = tick
        BY <1>3, <2>5, EventFacts
      <3>2. Announced = tick - 1
        BY <1>3, <2>1, <2>5, Sendings DEF Announced, Types
      <3>3. PICK l \in Nat : l = Len(UnderWay(c))
        BY UnderWayType, LenProperties
      <3>4. PICK r \in Int, n \in Nat : r = Replayed(c) /\ n = since[c]
        BY UnderWayType
      <3> DEFINE u == UnderWay(c)'
      <3>5. /\ Len(u) = l + 1 /\ u[l + 1] = e
            /\ \A i \in 1..l : u[i] = UnderWay(c)[i]
        BY <2>2, <2>3, <3>1, <3>3, UnderWayType, AppendProperties
      <3> HIDE DEF u
      <3>6. r + l = tick - 1 - n
        BY <1>6, <3>2, <3>3, <3>4 DEF Flow
      <3>7. ASSUME NEW i \in 1..(l + 1) PROVE u[i].tick = n + r + i
        <4>1. CASE i = l + 1
          BY <1>3, <3>1, <3>5, <3>6, <4>1
        <4>2. CASE i \in 1..l
          BY <1>6, <3>3, <3>4, <3>5, <4>2 DEF Flow
        <4>3. QED
          BY <4>1, <4>2
      <3>8. r + (l + 1) = tick - n
        BY <1>3, <3>6
      <3>9. /\ session'[c] = "forwarding" /\ since'[c] = n /\ Replayed(c)' = r /\ Announced' = tick
        BY <1>1, <1>2, <1>4, <1>6, <3>4
      <3>10. QED
        BY <3>5, <3>7, <3>8, <3>9 DEF Flow, u
    <2>6. QED
      BY <2>2, <2>4, <2>5
  <1>7. QED
    BY <1>5, <1>6

LEMMA TaskFlow ==
    ASSUME Types, NEW c \in Clients, Connection(c), Flow(c),
           Advance \/ Send \/ WriteSnapshot \/ Crash \/ Restart
    PROVE Flow(c)'
  <1>1. CASE WriteSnapshot
    BY <1>1, SameFlow, SameReplayed, SameAnnounced DEF WriteSnapshot, link, universes
  <1>2. CASE Crash
    <2>1. session'[c] = "none"
      BY <1>2 DEF Crash
    <2>2. QED
      BY <2>1 DEF Flow
  <1>3. CASE Restart
    <2>1. session'[c] = "none"
      BY <1>3 DEF Restart, link, Connection
    <2>2. QED
      BY <2>1 DEF Flow
  <1>4. QED
    BY <1>1, <1>2, <1>3, AdvanceFlow, SendFlow

LEMMA ConnectFlow == ASSUME Types, NEW c \in Clients, Connection(c), Connect(c) PROVE Flow(c)'
  <1>1. /\ session'[c] = "accepted" /\ wire'[c] = <<Opened>> /\ backlog'[c] = <<>> /\ ~online'[c]
    BY DEF Connect, universes, Types, MapTypes, Connection
  <1>2. Only(<<Opened>> \o <<>>, EconomyTicks) = <<>>
    <2>1. PICK e \in Events : e = Opened /\ e \notin EconomyTicks
      BY EventFacts
    <2>2. <<e>> = Append(<<>>, e) /\ <<>> \in Seq(Events) /\ <<e>> \in Seq(Events)
      OBVIOUS
    <2>3. <<e>> \o <<>> = <<e>>
      BY <2>2, ConcatEmptySeq
    <2>4. Only(<<e>>, EconomyTicks) = <<>>
      <3>1. Only(Append(<<>>, e), EconomyTicks) = Only(<<>>, EconomyTicks)
        BY <2>1, <2>2, OnlyAppend, ZenonT(30)
      <3>2. Only(<<>>, EconomyTicks) = <<>>
        BY OnlyEmpty
      <3>3. QED
        BY <2>2, <3>1, <3>2
    <2>5. QED
      BY <2>1, <2>3, <2>4
  <1>3. UnderWay(c)' = <<>> /\ Replayed(c)' = 0
    BY <1>1, <1>2 DEF UnderWay, Replayed
  <1>4. Len(UnderWay(c)') = 0
    BY <1>3, EmptySeq
  <1>5. QED
    BY <1>1, <1>3, <1>4 DEF Flow

LEMMA SubscribeFlow == ASSUME Types, NEW c \in Clients, Flow(c), Subscribe(c) PROVE Flow(c)'
  <1>1. /\ session[c] = "accepted" /\ session'[c] = "forwarding" /\ since'[c] = Announced
        /\ UNCHANGED <<task, wire, backlog, universes>>
    BY DEF Subscribe, Types, MapTypes
  <1>2. UnderWay(c)' = <<>> /\ Replayed(c)' = 0 /\ Announced' = Announced
    BY <1>1, SameReplayed, SameAnnounced DEF Flow, UnderWay, task, universes
  <1>3. Len(UnderWay(c)') = 0 /\ Announced \in Nat
    BY <1>2, EmptySeq, AnnouncedType, BoundsAssumption DEF Types
  <1>4. QED
    BY <1>1, <1>2, <1>3 DEF Flow

LEMMA ForwardFlow == ASSUME Types, NEW c \in Clients, Flow(c), Forward(c) PROVE Flow(c)'
  <1>1. /\ session[c] = "forwarding" /\ backlog[c] # <<>> /\ since' = since
        /\ Replayed(c)' = Replayed(c) /\ Announced' = Announced
    BY SameReplayed, SameAnnounced DEF Forward, task, universes
  <1>2. PICK w \in Seq(Events), b \in Seq(Events) : w = wire[c] /\ b = backlog[c]
    BY UnderWayType
  <1>3. CASE Len(backlog[c]) > Capacity
    <2>1. session'[c] = "silent" /\ backlog'[c] = <<>> /\ wire'[c] = w
      BY <1>2, <1>3 DEF Forward, Types, MapTypes
    <2>2. PICK u \in Seq(Events), v \in Seq(Events) :
              u = Only(w, EconomyTicks) /\ v = Only(b, EconomyTicks)
      BY <1>2, OnlyType
    <2>3. UnderWay(c) = u \o v
      <3>1. Only(w \o b, EconomyTicks) = Only(w, EconomyTicks) \o Only(b, EconomyTicks)
        BY OnlyConcat, SMTT(30)
      <3>2. QED
        BY <1>2, <2>2, <3>1, Zenon DEF UnderWay
    <2>4. UnderWay(c)' = u
      <3>1. w \o <<>> = w
        BY ConcatEmptySeq
      <3>2. QED
        BY <2>1, <2>2, <3>1 DEF UnderWay
    <2>5. PICK k \in Nat, l \in Nat : k = Len(u) /\ l = Len(u \o v) /\ k <= l
      <3>1. PICK k \in Nat, m \in Nat : k = Len(u) /\ m = Len(v)
        BY LenProperties
      <3>2. Len(u \o v) = k + m
        BY <3>1, ConcatProperties
      <3>3. k + m \in Nat /\ k <= k + m
        OBVIOUS
      <3>4. QED
        BY <3>1, <3>2, <3>3
    <2>6. \A i \in 1..k : i \in 1..l /\ UnderWay(c)'[i] = UnderWay(c)[i]
      BY <2>3, <2>4, <2>5, ConcatProperties
    <2>7. QED
      BY <1>1, <2>1, <2>3, <2>4, <2>5, <2>6 DEF Flow
  <1>4. CASE ~(Len(backlog[c]) > Capacity)
    <2>1. session' = session /\ wire'[c] = Append(w, Head(b)) /\ backlog'[c] = Tail(b)
      BY <1>2, <1>4 DEF Forward, Types, MapTypes
    <2>2. Append(w, Head(b)) \o Tail(b) = w \o b
      BY <1>1, <1>2, HeadMoves
    <2>3. UnderWay(c)' = UnderWay(c)
      BY <1>2, <2>1, <2>2 DEF UnderWay
    <2>4. QED
      BY <1>1, <2>1, <2>3 DEF Flow
  <1>5. QED
    BY <1>3, <1>4

LEMMA PollFlow == ASSUME Types, NEW c \in Clients, Connection(c), Flow(c), Poll(c) PROVE Flow(c)'
  <1>1. PICK w \in Seq(Events), b \in Seq(Events) : w = wire[c] /\ b = backlog[c]
    BY UnderWayType
  <1>2. PICK e \in Events : e = Head(w)
    BY <1>1, HeadTailProperties DEF Poll
  <1>3. /\ w # <<>> /\ wire'[c] = Tail(w) /\ backlog' = backlog /\ session' = session /\ since' = since
        /\ Announced' = Announced
        /\ online'[c] = IF e = Opened THEN TRUE ELSE IF e = Closed THEN FALSE ELSE online[c]
        /\ from'[c] = IF e = Opened THEN own[c] ELSE from[c]
        /\ own'[c] = IF e.kind = "economy tick" THEN own[c] + 1 ELSE own[c]
    BY <1>1, <1>2, SameAnnounced DEF Poll, task, Types, MapTypes
  <1>4. PICK o \in Seq(Events) : o = UnderWay(c)'
    <2>1. Tail(w) \o b \in Seq(Events)
      BY <1>3, HeadTailProperties, ConcatProperties
    <2>2. QED
      BY <1>1, <1>3, <2>1, OnlyType DEF UnderWay
  <1>5. UnderWay(c) = IF e \in EconomyTicks THEN <<e>> \o o ELSE o
    <2>1. /\ w \o b \in Seq(Events) /\ Head(w \o b) = e /\ Tail(w \o b) = Tail(w) \o b /\ w \o b # <<>>
      BY <1>2, <1>3, TailOfConcat, ConcatProperties
    <2>2. o = Only(Tail(w \o b), EconomyTicks)
      BY <1>1, <1>3, <1>4, <2>1 DEF UnderWay
    <2>3. QED
      BY <1>1, <2>1, <2>2, OnlyHead DEF UnderWay
  <1>6. CASE session[c] = "none"
    BY <1>3, <1>6 DEF Flow
  <1>7. CASE session[c] # "none"
    <2>1. PICK l \in Nat : l = Len(w) /\ 1 \in 1..l /\ e = w[1]
      <3>1. PICK l \in Nat : l = Len(w)
        BY LenProperties
      <3>2. l # 0
        BY <1>3, <3>1, EmptySeq
      <3>3. e = w[1]
        <4>1. w \in Seq(Events) /\ w # <<>>
          BY <1>3
        <4>2. Head(w) = w[1]
          BY <4>1
        <4>3. QED
          BY <1>2, <4>2
      <3>4. 1 \in 1..l
        BY <3>2
      <3>5. QED
        BY <3>1, <3>3, <3>4
    <2>2. e # Closed /\ (e = Opened => ~online[c]) /\ (e = Opened \/ online[c])
      BY <1>1, <1>7, <2>1 DEF Connection
    <2>3. CASE e \in EconomyTicks
      <3>1. e # Opened /\ e.kind = "economy tick" /\ online[c] /\ online'[c]
        BY <1>3, <2>2, <2>3, EventFacts
      <3>2. PICK r \in Int, n \in Nat : r = Replayed(c) /\ n = since[c]
        BY UnderWayType
      <3>3. Replayed(c)' = r + 1
        <4>1. PICK x \in Nat, y \in Nat : x = own[c] /\ y = from[c]
          BY DEF Types, MapTypes
        <4>2. own'[c] = x + 1 /\ from'[c] = y
          BY <1>3, <3>1, <4>1
        <4>3. r = x - y
          BY <3>1, <3>2, <4>1 DEF Replayed
        <4>4. Replayed(c)' = (x + 1) - y
          BY <3>1, <4>2 DEF Replayed
        <4>5. QED
          BY <4>3, <4>4
      <3>4. PICK k \in Nat : k = Len(o)
        BY LenProperties
      <3> DEFINE u == UnderWay(c)
      <3>5. Len(u) = k + 1 /\ u # <<>> /\ \A i \in 1..k : u[i + 1] = o[i]
        <4>1. <<e>> \in Seq(Events) /\ Len(<<e>>) = 1
          OBVIOUS
        <4>2. u = <<e>> \o o
          BY <1>5, <2>3
        <4> HIDE DEF u
        <4>3. Len(u) = 1 + k /\ \A i \in 1..Len(u) : u[i] = IF i <= 1 THEN <<e>>[i] ELSE o[i - 1]
          BY <3>4, <4>1, <4>2, ConcatProperties
        <4>4. \A i \in 1..k : i + 1 \in 1..(1 + k) /\ ~(i + 1 <= 1) /\ (i + 1) - 1 = i
          OBVIOUS
        <4>5. Len(u) # 0
          BY <4>3
        <4>6. QED
          BY <4>3, <4>4, <4>5, EmptySeq
      <3> HIDE DEF u
      <3>6. session[c] # "accepted"
        BY <3>5 DEF Flow, u
      <3>7. session[c] = "forwarding" => (r + 1) + k = Announced - n
        <4>1. Announced \in Int
          BY AnnouncedType, BoundsAssumption DEF Types
        <4>2. QED
          BY <3>2, <3>5, <4>1 DEF Flow, u
      <3>8. ASSUME NEW i \in 1..k PROVE o[i].tick = n + (r + 1) + i
        <4>1. i + 1 \in 1..(k + 1)
          OBVIOUS
        <4>2. u[i + 1].tick = n + r + (i + 1)
          BY <1>7, <3>2, <3>5, <4>1 DEF Flow, u
        <4>3. QED
          BY <3>5, <4>2
      <3>9. QED
        BY <1>3, <1>4, <3>2, <3>3, <3>4, <3>6, <3>7, <3>8 DEF Flow
    <2>4. CASE e \notin EconomyTicks
      <3>1. e.kind # "economy tick" /\ own'[c] = own[c] /\ UnderWay(c)' = UnderWay(c)
        BY <1>3, <1>4, <1>5, <2>4, EventFacts
      <3>2. Replayed(c)' = Replayed(c)
        <4>1. CASE e = Opened
          <5>1. ~online[c] /\ online'[c] /\ from'[c] = own'[c] /\ own'[c] \in Nat
            BY <1>3, <2>2, <3>1, <4>1 DEF Types, MapTypes
          <5>2. QED
            BY <5>1 DEF Replayed
        <4>2. CASE e # Opened
          <5>1. online'[c] = online[c] /\ from'[c] = from[c]
            BY <1>3, <2>2, <4>2
          <5>2. QED
            BY <3>1, <5>1, SameReplayed
        <4>3. QED
          BY <4>1, <4>2
      <3>3. QED
        BY <1>3, <3>1, <3>2 DEF Flow
    <2>5. QED
      BY <2>3, <2>4
  <1>8. QED
    BY <1>6, <1>7

LEMMA OwnTickFlow == ASSUME Types, NEW c \in Clients, Flow(c), OwnTick(c) PROVE Flow(c)'
  <1>1. Replayed(c)' = Replayed(c)
    BY DEF OwnTick, TicksItself, Replayed
  <1>2. QED
    BY <1>1, SameFlow, SameAnnounced DEF OwnTick, task, link

LEMMA NextFlow ==
    ASSUME Types, \A d \in Clients : Connection(d) /\ Flow(d), [TicksNext]_ticksVars, NEW c \in Clients
    PROVE Flow(c)'
  <1>1. CASE UNCHANGED ticksVars
    BY <1>1, SameFlow, SameReplayed, SameAnnounced DEF ticksVars, task, link, universes
  <1>2. ASSUME NEW d \in Clients, Connect(d) \/ Subscribe(d) \/ Forward(d) \/ Break(d) \/ Poll(d) \/ OwnTick(d), d # c
        PROVE Flow(c)'
    <2>1. /\ wire'[c] = wire[c] /\ session'[c] = session[c] /\ backlog'[c] = backlog[c]
          /\ online'[c] = online[c] /\ own'[c] = own[c] /\ from'[c] = from[c] /\ since'[c] = since[c]
          /\ task' = task
      <3>1. CASE Connect(d) \/ Subscribe(d)
        BY <1>2, <3>1 DEF Connect, Subscribe, universes, Types, MapTypes
      <3>2. CASE OwnTick(d)
        BY <1>2, <3>2 DEF OwnTick, link, Types, MapTypes
      <3>3. CASE Poll(d)
        BY <1>2, <3>3 DEF Poll, Types, MapTypes
      <3>4. CASE Forward(d)
        BY <1>2, <3>4 DEF Forward, universes, Types, MapTypes
      <3>5. CASE Break(d)
        BY <1>2, <3>5 DEF Break, Ended, universes, Types, MapTypes
      <3>6. QED
        BY <1>2, <3>1, <3>2, <3>3, <3>4, <3>5
    <2>2. QED
      BY <2>1, SameFlow, SameReplayed, SameAnnounced DEF task
  <1>3. CASE Break(c)
    <2>1. session'[c] = "none"
      BY <1>3 DEF Break, Ended, Types, MapTypes
    <2>2. QED
      BY <2>1 DEF Flow
  <1>4. QED
    BY <1>1, <1>2, <1>3, TaskFlow, ConnectFlow, SubscribeFlow, ForwardFlow, PollFlow, OwnTickFlow DEF TicksNext

-------------------------------------------------------------------------------
\* The inductive invariant of the broadcast.
Broadcast == Types /\ \A c \in Clients : Connection(c) /\ Flow(c)

LEMMA InitBroadcast == TicksInit => Broadcast
  <1> SUFFICES ASSUME TicksInit PROVE Broadcast
    OBVIOUS
  <1>1. Types
    BY InitTask, InitMaps DEF Types
  <1>2. ASSUME NEW c \in Clients PROVE Connection(c) /\ Flow(c)
    <2>1. session[c] = "none" /\ wire[c] = <<>> /\ backlog[c] = <<>>
      BY DEF TicksInit
    <2>2. Len(wire[c]) = 0
      BY <2>1, EmptySeq
    <2>3. QED
      BY <2>1, <2>2 DEF Connection, Flow
  <1>3. QED
    BY <1>1, <1>2 DEF Broadcast

LEMMA NextBroadcast == Broadcast /\ [TicksNext]_ticksVars => Broadcast'
  <1> SUFFICES ASSUME Broadcast, [TicksNext]_ticksVars PROVE Broadcast'
    OBVIOUS
  <1>1. TaskTypes' /\ MapTypes'
    BY NextTask, NextMaps DEF Broadcast, Types
  <1>2. \A c \in Clients : Connection(c)'
    BY NextConnection DEF Broadcast
  <1>3. \A c \in Clients : Flow(c)'
    BY NextFlow DEF Broadcast
  <1>4. QED
    BY <1>1, <1>2, <1>3 DEF Broadcast, Types

LEMMA BroadcastHolds == TicksSpec => []Broadcast
  BY InitBroadcast, NextBroadcast, PTL DEF TicksSpec

LEMMA BroadcastTypes == Broadcast => TicksTypeOK
  <1> SUFFICES ASSUME Broadcast PROVE TicksTypeOK
    OBVIOUS
  <1>1. TaskTypes /\ MapTypes
    BY DEF Broadcast, Types
  <1>2. \A s \in Seq(Events) : ToSet(s) \subseteq Events
    BY ElementOfSeq, LenProperties DEF ToSet
  <1>3. ToSet(sending) \subseteq Events
    BY <1>1, <1>2, Sendings, EventFacts, SeqMonotonic
  <1>4. ASSUME NEW c \in Clients
        PROVE /\ ToSet(backlog[c]) \cup ToSet(wire[c]) \subseteq Events
              /\ \A i \in 1..Len(wire[c]) : /\ wire[c][i] = Opened => i = 1 /\ ~online[c]
                                            /\ wire[c][i] = Closed => i = Len(wire[c])
              /\ session[c] # "none" => online[c] \/ Opened \in ToSet(wire[c])
    <2>1. wire[c] \in Seq(Events) /\ backlog[c] \in Seq(Events)
      BY UnderWayType DEF Broadcast
    <2>2. Connection(c)
      BY DEF Broadcast
    <2>3. wire[c] # <<>> => wire[c][1] \in ToSet(wire[c])
      BY <2>1, EmptySeq, LenProperties DEF ToSet
    <2>4. QED
      BY <1>2, <2>1, <2>2, <2>3 DEF Connection
  <1>5. QED
    BY <1>1, <1>3, <1>4 DEF TicksTypeOK, TaskTypes, MapTypes

\* Types; and every connection a client sees is its only one: Opened comes first and to a
\* client that is offline, nothing follows Closed.
THEOREM TicksTyping == TicksSpec => []TicksTypeOK
  BY BroadcastHolds, BroadcastTypes, PTL

\* One authority per mode: online, a client replays the ticks broadcast since its session
\* subscribed, in order, none twice and, while the session forwards, none left out but those
\* still under way.
THEOREM TicksReplayedOnce == TicksSpec => []EveryTickReplayedOnce
  <1>1. Broadcast => EveryTickReplayedOnce
    BY DEF Broadcast, Flow, EveryTickReplayedOnce
  <1>2. QED
    BY <1>1, BroadcastHolds, PTL
=================================================================================
