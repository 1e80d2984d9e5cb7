------------------------------ MODULE SeedLedger ------------------------------
(***************************************************************************)
(* The seed ledger of reachlock-server (services/seed.rs): concurrent      *)
(* callers (WebSocket sessions and the HTTP route) discover and modify     *)
(* systems in one store.  The store is the mutex-guarded map of            *)
(* MemorySeedStore or the two statements of PgSeedStore, between which     *)
(* other callers run.  A behaviour is one lifetime of the store: that of   *)
(* the process for the memory store, that of the database for Postgres,    *)
(* whose callers may die at any point (Fail).                              *)
(***************************************************************************)
CONSTANTS
    Callers,   \* tasks that may have one store call in flight
    Systems,   \* (universe, system_id) keys
    Seeds,     \* tentative seeds
    Players,   \* player ids
    Nobody,    \* the discoverer the HTTP route passes (None)
    Fields,    \* keys of the diffs object
    NoRow,     \* no entry for this system
    NoAnswer,  \* no Discovery computed yet
    Idle       \* a caller with no discover call in flight

Discoverers == Players \cup {Nobody}
Row == [seed : Seeds, by : Discoverers, diffs : SUBSET Fields]
Answer == [system : Systems, seed : Seeds, by : Discoverers,
           first : BOOLEAN, diffs : SUBSET Fields]

\* seen is a history field: the diffs recorded when the call began.
Call == [phase : {"insert", "select", "reply"}, system : Systems, seed : Seeds,
         by : Discoverers, seen : SUBSET Fields, answer : Answer \cup {NoAnswer}]

\* What the code writes as None is none of the values it may take.
ASSUME NoneDistinct ==
    /\ NoRow \notin Row \cup [seed : Seeds, by : Discoverers]
    /\ NoAnswer \notin Answer
    /\ Idle \notin Call

VARIABLES
    backend,  \* the store AppState was built with
    rows,     \* the store's entries
    call,     \* each caller's discover call: its arguments and its progress
    answers   \* history: every Discovery handed back, without its diffs

vars == <<backend, rows, call, answers>>

InPhase(c, phase) == call[c] # Idle /\ call[c].phase = phase

Known(k) == IF rows[k] = NoRow THEN {} ELSE rows[k].diffs

Init ==
    /\ backend \in {"memory", "postgres"}
    /\ rows = [k \in Systems |-> NoRow]
    /\ call = [c \in Callers |-> Idle]
    /\ answers = {}

\* SeedStore::discover is entered: route (by a player) or seed_discover (by nobody).
Discover(c, k, s, p) ==
    /\ call[c] = Idle
    /\ call' = [call EXCEPT ![c] =
                    [phase |-> "insert", system |-> k, seed |-> s, by |-> p,
                     seen |-> Known(k), answer |-> NoAnswer]]
    /\ UNCHANGED <<backend, rows, answers>>

\* The call of c goes on to a phase, with the answer computed so far.
GoTo(c, phase, a) ==
    call' = [call EXCEPT ![c] =
                [phase |-> phase, system |-> @.system, seed |-> @.seed,
                 by |-> @.by, seen |-> @.seen, answer |-> a]]

Reply(c, a) == GoTo(c, "reply", a)

\* A mutant: the row is written whether or not there is one.
InsertUnguarded(c) ==
    LET k == call[c].system IN
    /\ InPhase(c, "insert")
    /\ rows' = [rows EXCEPT ![k] = [seed |-> call[c].seed, by |-> call[c].by,
                                    diffs |-> {}]]
    /\ Reply(c, [system |-> k, seed |-> call[c].seed, by |-> call[c].by,
                 first |-> TRUE, diffs |-> {}])
    /\ UNCHANGED <<backend, answers>>

\* INSERT ... RETURNING, or the None arm under the mutex: the row is ours.
Insert(c) ==
    LET k == call[c].system IN
    /\ InPhase(c, "insert")
    /\ rows[k] = NoRow
    /\ rows' = [rows EXCEPT ![k] = [seed |-> call[c].seed, by |-> call[c].by,
                                    diffs |-> {}]]
    /\ Reply(c, [system |-> k, seed |-> call[c].seed, by |-> call[c].by,
                 first |-> TRUE, diffs |-> {}])
    /\ UNCHANGED <<backend, answers>>

\* Mutants: a later discoverer is credited too; its answer has no diffs.
ExistingCredited(k) == [system |-> k, seed |-> rows[k].seed, by |-> rows[k].by,
                        first |-> TRUE, diffs |-> rows[k].diffs]
ExistingWithoutDiffs(k) == [system |-> k, seed |-> rows[k].seed, by |-> rows[k].by,
                            first |-> FALSE, diffs |-> {}]

\* What a later discoverer is told of an existing row.
Existing(k) == [system |-> k, seed |-> rows[k].seed, by |-> rows[k].by,
                first |-> FALSE, diffs |-> rows[k].diffs]

\* The Some arm of MemorySeedStore, in the critical section of the lookup.
FindLocked(c) ==
    /\ backend = "memory"
    /\ InPhase(c, "insert")
    /\ rows[call[c].system] # NoRow
    /\ Reply(c, Existing(call[c].system))
    /\ UNCHANGED <<backend, rows, answers>>

\* A mutant: the memory store, too, reads the row after its critical section.
ConflictAnyBackend(c) ==
    /\ InPhase(c, "insert")
    /\ rows[call[c].system] # NoRow
    /\ GoTo(c, "select", NoAnswer)
    /\ UNCHANGED <<backend, rows, answers>>

\* ON CONFLICT DO NOTHING returned no row: a second statement will read it.
Conflict(c) ==
    /\ backend = "postgres"
    /\ InPhase(c, "insert")
    /\ rows[call[c].system] # NoRow
    /\ GoTo(c, "select", NoAnswer)
    /\ UNCHANGED <<backend, rows, answers>>

Select(c) ==
    /\ InPhase(c, "select")
    /\ rows[call[c].system] # NoRow
    /\ Reply(c, Existing(call[c].system))
    /\ UNCHANGED <<backend, rows, answers>>

\* The part of an answer the history keeps.
Said(a) == [system |-> a.system, seed |-> a.seed, by |-> a.by, first |-> a.first]

Deliver(c) ==
    /\ InPhase(c, "reply")
    /\ answers' = answers \cup {Said(call[c].answer)}
    /\ call' = [call EXCEPT ![c] = Idle]
    /\ UNCHANGED <<backend, rows>>

\* The caller dies: a database error panics it between two statements, the
\* server stops, or (either store) the session is gone when the answer is ready.
Fail(c) ==
    /\ call[c] # Idle
    /\ backend = "postgres" \/ InPhase(c, "reply")
    /\ call' = [call EXCEPT ![c] = Idle]
    /\ UNCHANGED <<backend, rows, answers>>

\* SeedStore::modify: one UPDATE or one critical section; nothing to do for a
\* system that was never discovered.  Diffs are JSON objects, told apart by
\* their keys: merging adds the keys of the new one.
Modify(k, d) ==
    /\ rows[k] # NoRow
    /\ rows' = [rows EXCEPT ![k] = [seed |-> @.seed, by |-> @.by,
                                    diffs |-> @.diffs \cup d]]
    /\ UNCHANGED <<backend, call, answers>>

Next ==
    \/ \E c \in Callers :
        \/ \E k \in Systems, s \in Seeds, p \in Discoverers : Discover(c, k, s, p)
        \/ Insert(c)
        \/ FindLocked(c)
        \/ Conflict(c)
        \/ Select(c)
        \/ Deliver(c)
        \/ Fail(c)
    \/ \E k \in Systems, d \in (SUBSET Fields) \ {{}} : Modify(k, d)

Spec == Init /\ [][Next]_vars

-------------------------------------------------------------------------------
\* The mapping to the abstract register: a row without its diffs is the
\* canonical entry, and a discoverer is owed the credit while its answer waits.
Canon == [k \in Systems |-> IF rows[k] = NoRow THEN NoRow
                            ELSE [seed |-> rows[k].seed, by |-> rows[k].by]]
Owed == {call[c].system : c \in {d \in Callers : InPhase(d, "reply") /\ call[d].answer.first}}

Register == INSTANCE CanonicalSeeds
            WITH canon <- Canon, owed <- Owed, told <- answers, Unclaimed <- NoRow

\* The ledger's state has the shape the code gives it, phase by phase: an
\* answer exists exactly while one waits to be delivered, and only a Postgres
\* call is ever between its two statements.
TypeOK ==
    /\ backend \in {"memory", "postgres"}
    /\ rows \in [Systems -> Row \cup {NoRow}]
    /\ call \in [Callers -> Call \cup {Idle}]
    /\ answers \subseteq Register!Told
    /\ \A c \in Callers :
        call[c] # Idle => /\ call[c].phase = "reply" <=> call[c].answer # NoAnswer
                          /\ call[c].phase = "select" => backend = "postgres"

\* Answers computed but not handed back yet, and with them all the others.
Pending == {Said(call[c].answer) : c \in {d \in Callers : InPhase(d, "reply")}}
AllAnswers == answers \cup Pending

\* No two callers ever hear different canonical seeds, or different
\* discoverers, for one system, however their calls interleave and whoever
\* dies half way (seed.rs: "Whatever the store answers IS canonical").
NoConflictingCanonical ==
    \A a, b \in AllAnswers :
        a.system = b.system => a.seed = b.seed /\ a.by = b.by

\* An answer is not stale: it carries every diff that was recorded before its
\* call began, although Postgres reads the row in a later statement than the
\* one that found the conflict.
AnswersCoverEarlierDiffs ==
    \A c \in Callers :
        InPhase(c, "reply") => call[c].seen \subseteq call[c].answer.diffs

\* The ledger implements the write-once register: in particular the discovery
\* of a system is credited at most once.
ImplementsRegister == Register!Spec
===============================================================================
