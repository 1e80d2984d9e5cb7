SPECIFICATION Spec
CONSTANTS
    Callers = {c1, c2, c3}
    Systems = {k1}
    Seeds = {s1, s2}
    Players = {p1}
    Nobody = Nobody
    Fields = {f1}
    NoRow = NoRow
    NoAnswer = NoAnswer
    Idle = Idle
INVARIANTS
    TypeOK
    NoConflictingCanonical
    AnswersCoverEarlierDiffs
PROPERTIES
    ImplementsRegister
