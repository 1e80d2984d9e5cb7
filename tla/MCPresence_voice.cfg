SPECIFICATION Spec
CONSTANTS
    s1 = s1
    s2 = s2
    s3 = s3
    p1 = p1
    p2 = p2
    Sessions = {s1, s2, s3}
    Players = {p1, p2}
    u1 = u1
    u2 = u2
    PlayerOf <- Owner
    Universes = {u1, u2}
    UniverseOf <- Token
    Named <- Played
    Systems = {k1, k2}
    Nowhere = Nowhere
    Nobody = Nobody
INVARIANTS
    PlayersShareTheRoom
CHECK_DEADLOCK FALSE
