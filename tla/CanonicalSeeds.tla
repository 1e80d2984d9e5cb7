---------------------------- MODULE CanonicalSeeds ----------------------------
(***************************************************************************)
(* What the seed ledger promises its callers, with no callers' protocol in *)
(* it: each (universe, system) has one write-once canonical entry, every   *)
(* answer ever given about it repeats that entry, and the credit for the   *)
(* discovery is handed out at most once (it may be lost, never doubled).   *)
(* SeedLedger implements this specification.                               *)
(***************************************************************************)

CONSTANTS
    Systems,     \* the (universe, system_id) pairs of the ledger
    Seeds,       \* tentative seeds
    Discoverers, \* player ids, and the nameless caller of the HTTP route
    Unclaimed    \* the entry of a system nobody has discovered

VARIABLES
    canon,   \* the canonical entry of each system
    owed,    \* systems whose discoverer has not been told so
    told     \* every answer given so far

Entry == [seed : Seeds, by : Discoverers]

Told == [system : Systems, seed : Seeds, by : Discoverers, first : BOOLEAN]

Init ==
    /\ canon = [k \in Systems |-> Unclaimed]
    /\ owed = {}
    /\ told = {}

Claim(k, s, p) ==
    /\ canon[k] = Unclaimed
    /\ canon' = [canon EXCEPT ![k] = [seed |-> s, by |-> p]]
    /\ owed' = owed \cup {k}
    /\ UNCHANGED told

Tell(k, first) ==
    /\ canon[k] # Unclaimed
    /\ first => k \in owed
    /\ owed' = IF first THEN owed \ {k} ELSE owed
    /\ told' = told \cup {[system |-> k, seed |-> canon[k].seed,
                           by |-> canon[k].by, first |-> first]}
    /\ UNCHANGED canon

LoseCredit(k) ==
    /\ k \in owed
    /\ owed' = owed \ {k}
    /\ UNCHANGED <<canon, told>>

Next ==
    \E k \in Systems :
        \/ \E s \in Seeds, p \in Discoverers : Claim(k, s, p)
        \/ \E first \in BOOLEAN : Tell(k, first)
        \/ LoseCredit(k)

Spec == Init /\ [][Next]_<<canon, owed, told>>
===============================================================================
