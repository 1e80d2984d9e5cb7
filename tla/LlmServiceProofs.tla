---------------------------- MODULE LlmServiceProofs ----------------------------
(***************************************************************************)
(* What LlmService does for any quota, bucket and timeout: its types; that *)
(* a refused call costs its account nothing; and, although nothing counts  *)
(* them, how many calls an account has in flight and how far they carry it *)
(* past its quota.                                                         *)
(***************************************************************************)
EXTENDS LlmService, DataLemmas

\* A bucket holds at least one token.
LEMMA FullHoldsAToken == Full \in Nat /\ Refill \in Nat \ {0} /\ Refill <= Full
  <1>1. Capacity \in Nat \ {0} /\ Refill \in Nat \ {0}
    BY Limits
  <1>2. QED
    BY <1>1 DEF Full

\* An account's credit covers what it has waited for since it took a token.
Credit == \A a \in Accounts : idle[a] <= Refilled(a)

IInv == TypeOK /\ Credit

LEMMA RefilledType ==
    ASSUME TypeOK, NEW a \in Accounts
    PROVE Refilled(a) \in 0..Full
  BY FullHoldsAToken DEF TypeOK, Refilled, Least

\* A list of samples cut to the window is one, no longer than the window.
LEMMA LatestType ==
    ASSUME NEW s \in Seq(BOOLEAN), NEW ok \in BOOLEAN, Len(s) <= Window
    PROVE /\ Latest(Append(s, ok)) \in Seq(BOOLEAN)
          /\ Len(Latest(Append(s, ok))) = Least(Len(s) + 1, Window)
  <1> DEFINE t == Append(s, ok)
  <1>1. Window \in Nat \ {0}
    BY Samples
  <1>2. t \in Seq(BOOLEAN) /\ Len(t) = Len(s) + 1 /\ Len(s) \in Nat
    OBVIOUS
  <1>3. CASE Len(t) > Window
    <2>1. Latest(t) = SubSeq(t, Len(t) - Window + 1, Len(t))
      BY <1>3 DEF Latest
    <2>2. QED
      BY <1>1, <1>2, <1>3, <2>1, SMTT(30) DEF Least
  <1>4. CASE ~(Len(t) > Window)
    BY <1>1, <1>2, <1>4 DEF Latest, Least
  <1>5. QED
    BY <1>3, <1>4

LEMMA InitInv == Init => IInv
  <1> SUFFICES ASSUME Init PROVE IInv
    OBVIOUS
  <1> USE FullHoldsAToken
  <1>1. TypeOK
    BY Samples, Limits DEF Init, TypeOK, Ages
  <1>2. Credit
    <2>1. \A a \in Accounts : tokens[a] = Full /\ stale[a] = 0 /\ idle[a] = Refill
      BY DEF Init
    <2>2. Full + 0 = Full
      OBVIOUS
    <2>3. QED
      BY <2>1, <2>2 DEF Credit, Refilled, Least
  <1>3. QED
    BY <1>1, <1>2 DEF IInv

-------------------------------------------------------------------------------
\* try_acquire, with or without a token: the bucket keeps its type, and the
\* credit its promise when the account's wait starts over.
LEMMA SetBucketType ==
    ASSUME IInv, NEW a \in Accounts, NEW n \in 0..Full, SetBucket(a, n),
           \/ n = Refilled(a) /\ UNCHANGED idle
           \/ idle' = [idle EXCEPT ![a] = 0]
    PROVE /\ tokens' \in [Accounts -> 0..Full]
          /\ stale' \in [Accounts -> 0..Full]
          /\ idle' \in [Accounts -> 0..Refill]
          /\ Credit'
  <1> USE FullHoldsAToken
  <1>1. tokens' = [tokens EXCEPT ![a] = n] /\ stale' = [stale EXCEPT ![a] = 0]
    BY DEF SetBucket
  <1>2. /\ tokens' \in [Accounts -> 0..Full] /\ stale' \in [Accounts -> 0..Full]
        /\ idle' \in [Accounts -> 0..Refill]
    <2>1. /\ tokens \in [Accounts -> 0..Full] /\ stale \in [Accounts -> 0..Full]
          /\ idle \in [Accounts -> 0..Refill]
      BY DEF IInv, TypeOK
    <2>2. 0 \in 0..Full /\ 0 \in 0..Refill
      OBVIOUS
    <2>3. tokens' \in [Accounts -> 0..Full] /\ stale' \in [Accounts -> 0..Full]
      BY <1>1, <2>1, <2>2
    <2>4. idle' \in [Accounts -> 0..Refill]
      BY <2>1, <2>2
    <2>5. QED
      BY <2>3, <2>4
  <1>3. ASSUME NEW b \in Accounts PROVE idle'[b] <= Refilled(b)'
    <2>1. CASE b = a
      <3>1. Refilled(b)' = n
        BY <1>1, <2>1 DEF IInv, TypeOK, Refilled, Least
      <3>2. idle'[b] <= n
        BY <2>1 DEF IInv, TypeOK, Credit
      <3>3. QED
        BY <3>1, <3>2
    <2>2. CASE b # a
      BY <1>1, <2>2 DEF IInv, TypeOK, Credit, Refilled, Least
    <2>3. QED
      BY <2>1, <2>2
  <1>4. QED
    BY <1>2, <1>3 DEF Credit

LEMMA NextInv == IInv /\ [Next]_vars => IInv'
  <1> SUFFICES ASSUME IInv, [Next]_vars PROVE IInv'
    OBVIOUS
  <1> USE FullHoldsAToken
  <1>0. TypeOK /\ Credit /\ CallTimeout \in Nat /\ 0 \in Ages
    BY Limits DEF IInv, Ages
  <1>1. ASSUME NEW a \in Accounts, RateLimited(a) PROVE IInv'
    <2>1. Refilled(a) \in 0..Full
      BY <1>0, RefilledType
    <2>2. QED
      BY <1>0, <1>1, <2>1, SetBucketType DEF RateLimited, IInv, TypeOK
  <1>2. ASSUME NEW a \in Accounts, Exhausted(a) PROVE IInv'
    <2>1. Spent(a) \in 0..Full
      BY <1>0, <1>2, RefilledType DEF Exhausted, HasToken, Spent
    <2>2. QED
      BY <1>0, <1>2, <2>1, SetBucketType DEF Exhausted, IInv, TypeOK
  <1>3. ASSUME NEW a \in Accounts, Start(a) PROVE IInv'
    <2>1. Spent(a) \in 0..Full
      BY <1>0, <1>3, RefilledType DEF Start, HasToken, Spent
    <2>2. calls' \in [Accounts -> [Ages -> Nat]]
      BY <1>0, <1>3 DEF Start, TypeOK
    <2>3. QED
      BY <1>0, <1>3, <2>1, <2>2, SetBucketType DEF Start, IInv, TypeOK
  <1>4. ASSUME NEW a \in Accounts, NEW g \in Ages, NEW ok \in BOOLEAN, Finish(a, g, ok)
        PROVE IInv'
    <2>1. calls' \in [Accounts -> [Ages -> Nat]] /\ usage' \in [Accounts -> Nat]
      BY <1>0, <1>4 DEF Finish, TypeOK
    <2>2. health' \in Seq(BOOLEAN) /\ Len(health') <= Window
      <3>1. CASE health' = Latest(Append(health, Sample(ok)))
        <4>1. Sample(ok) \in BOOLEAN /\ health \in Seq(BOOLEAN) /\ Len(health) <= Window
          BY <1>0 DEF Sample, TypeOK
        <4>2. health' \in Seq(BOOLEAN) /\ Len(health') = Least(Len(health) + 1, Window)
          BY <3>1, <4>1, LatestType
        <4>3. Len(health) \in Nat /\ Window \in Nat
          BY <4>1, Samples
        <4>4. QED
          BY <4>1, <4>2, <4>3 DEF Least
      <3>2. CASE UNCHANGED health
        BY <1>0, <3>2 DEF TypeOK
      <3>3. QED
        BY <1>4, <3>1, <3>2 DEF Finish
    <2>3. UNCHANGED <<tokens, stale, idle>>
      BY <1>4 DEF Finish
    <2>4. QED
      BY <1>0, <2>1, <2>2, <2>3 DEF IInv, TypeOK, Credit, Refilled
  <1>5. CASE Tick
    <2>1. /\ stale' = [a \in Accounts |-> Least(stale[a] + 1, Full)]
          /\ idle' = [a \in Accounts |-> Least(idle[a] + 1, Refill)]
          /\ UNCHANGED <<tokens, usage, health>>
      BY <1>5 DEF Tick
    <2>2. calls' \in [Accounts -> [Ages -> Nat]]
      BY <1>0, <1>5 DEF Tick, TypeOK, Ages
    <2>3. stale' \in [Accounts -> 0..Full] /\ idle' \in [Accounts -> 0..Refill]
      BY <1>0, <2>1, SMTT(30) DEF TypeOK, Least
    <2>4. Credit'
      BY <1>0, <2>1 DEF TypeOK, Credit, Refilled, Least
    <2>5. QED
      BY <1>0, <2>1, <2>2, <2>3, <2>4 DEF IInv, TypeOK
  <1>6. CASE UNCHANGED vars
    BY <1>0, <1>6 DEF vars, IInv, TypeOK, Credit, Refilled
  <1>7. QED
    BY <1>1, <1>2, <1>3, <1>4, <1>5, <1>6 DEF Next

LEMMA Inductive == Spec => []IInv
  BY InitInv, NextInv, PTL DEF Spec

-------------------------------------------------------------------------------
\* The state of the service has its types for any quota, bucket and timeout; no
\* bucket ever holds more than its capacity.
THEOREM TypeCorrect == Spec => []TypeOK
  <1>1. IInv => TypeOK
    BY DEF IInv
  <1>2. QED
    BY Inductive, <1>1, PTL

\* Whatever the capacity and the refill rate, asking in vain never delays the
\* next token of an account.
THEOREM Generosity == Spec => []RefusalsAreFree
  <1>1. IInv => RefusalsAreFree
    BY FullHoldsAToken, RefilledType DEF IInv, Credit, RefusalsAreFree, HasToken
  <1>2. QED
    BY Inductive, <1>1, PTL

-------------------------------------------------------------------------------
\* Induction over the ages.
LEMMA AgeInduction ==
    ASSUME NEW P, 0 \in P, \A g \in Ages \ {0} : g - 1 \in P => g \in P
    PROVE \A g \in Ages : g \in P
  <1> DEFINE Q == {n \in Nat : n \in Ages => n \in P}
  <1>1. CallTimeout \in Nat
    BY Limits
  <1>2. 0 \in Q
    OBVIOUS
  <1>3. ASSUME NEW n \in Nat, n \in Q PROVE n + 1 \in Q
    BY <1>1, <1>3 DEF Ages
  <1> HIDE DEF Q
  <1>4. \A n \in Nat : n \in Q
    BY <1>2, <1>3, Induction
  <1>5. QED
    BY <1>1, <1>4 DEF Ages, Q

\* The totals of a count by age, up to age n.
TotalsUpTo(count, t, n) ==
    /\ t \in [0..n -> Nat]
    /\ t[0] = count[0]
    /\ \A g \in 1..n : t[g] = count[g] + t[g - 1]

LEMMA TotalsUpToExists ==
    ASSUME NEW count \in [Ages -> Nat]
    PROVE \E t : TotalsUpTo(count, t, CallTimeout)
  <1> DEFINE P == {n \in Ages : \E t : TotalsUpTo(count, t, n)}
  <1>1. CallTimeout \in Nat /\ 0 \in Ages /\ CallTimeout \in Ages
    BY Limits DEF Ages
  <1>2. 0 \in P
    <2>1. count[0] \in Nat
      BY <1>1
    <2>2. TotalsUpTo(count, [g \in 0..0 |-> count[0]], 0)
      BY <2>1 DEF TotalsUpTo
    <2>3. QED
      BY <1>1, <2>2
  <1>3. ASSUME NEW n \in Ages \ {0}, n - 1 \in P PROVE n \in P
    <2>1. PICK m \in Nat : m = n - 1 /\ n = m + 1 /\ n \in Nat
      BY <1>1 DEF Ages
    <2>2. PICK t : TotalsUpTo(count, t, m)
      BY <1>3, <2>1
    <2> DEFINE u == [g \in 0..n |-> IF g = n THEN count[n] + t[m] ELSE t[g]]
    <2>3. /\ t \in [0..m -> Nat] /\ t[0] = count[0] /\ t[m] \in Nat /\ count[n] \in Nat
          /\ \A g \in 1..m : t[g] = count[g] + t[g - 1]
      BY <2>1, <2>2 DEF TotalsUpTo
    <2>4. u \in [0..n -> Nat]
      BY <2>1, <2>3
    <2>5. u[0] = count[0] /\ \A g \in 1..n : u[g] = count[g] + u[g - 1]
      BY <2>1, <2>3
    <2>6. TotalsUpTo(count, u, n)
      BY <2>4, <2>5 DEF TotalsUpTo
    <2>7. QED
      BY <2>6
  <1> HIDE DEF P
  <1>4. CallTimeout \in P
    BY <1>1, <1>2, <1>3, AgeInduction
  <1>5. QED
    BY <1>4 DEF P

LEMMA TotalsType ==
    ASSUME NEW count \in [Ages -> Nat]
    PROVE TotalsUpTo(count, Totals(count), CallTimeout)
  <1> DEFINE Eq(f) == f = [g \in Ages |-> count[g] + IF g = 0 THEN 0 ELSE f[g - 1]]
  <1>1. CallTimeout \in Nat
    BY Limits
  <1>2. PICK t : TotalsUpTo(count, t, CallTimeout)
    BY TotalsUpToExists
  <1>3. Eq(t)
    <2>1. t = [g \in Ages |-> t[g]]
      BY <1>2 DEF TotalsUpTo, Ages
    <2>2. ASSUME NEW g \in Ages PROVE t[g] = count[g] + IF g = 0 THEN 0 ELSE t[g - 1]
      <3>1. CASE g = 0
        BY <1>2, <3>1 DEF TotalsUpTo
      <3>2. CASE g # 0
        BY <1>1, <1>2, <3>2 DEF TotalsUpTo, Ages
      <3>3. QED
        BY <3>1, <3>2
    <2>3. QED
      BY <2>1, <2>2
  <1>4. Totals(count) = CHOOSE f : Eq(f)
    BY DEF Totals
  <1>5. Eq(Totals(count))
    <2> HIDE DEF Eq
    <2>1. QED
      BY <1>3, <1>4
  <1> DEFINE f == Totals(count)
  <1>6. f = [g \in Ages |-> f[g]]
    BY <1>5
  <1>7. ASSUME NEW g \in Ages PROVE f[g] = count[g] + IF g = 0 THEN 0 ELSE f[g - 1]
    <2>1. Eq(f)
      BY <1>5
    <2> HIDE DEF f
    <2>2. QED
      BY <2>1
  <1> HIDE DEF f
  <1> DEFINE P == {g \in Ages : f[g] \in Nat}
  <1>8. 0 \in P
    BY <1>1, <1>7 DEF Ages
  <1>9. ASSUME NEW g \in Ages \ {0}, g - 1 \in P PROVE g \in P
    BY <1>7, <1>9
  <1>10. \A g \in Ages : f[g] \in Nat
    <2> HIDE DEF P
    <2>1. \A g \in Ages : g \in P
      BY <1>8, <1>9, AgeInduction
    <2>2. QED
      BY <2>1 DEF P
  <1>11. f \in [0..CallTimeout -> Nat]
    BY <1>6, <1>10 DEF Ages
  <1>12. f[0] = count[0] /\ \A g \in 1..CallTimeout : f[g] = count[g] + f[g - 1]
    BY <1>1, <1>7 DEF Ages
  <1>13. QED
    BY <1>11, <1>12 DEF TotalsUpTo, f

\* What a total is, without the function that computes it.
LEMMA TotalsFacts ==
    ASSUME NEW count \in [Ages -> Nat]
    PROVE /\ \A g \in Ages : Totals(count)[g] \in Nat
          /\ Totals(count)[0] = count[0]
          /\ \A g \in Ages \ {0} : g - 1 \in Ages /\ Totals(count)[g] = count[g] + Totals(count)[g - 1]
  <1>1. CallTimeout \in Nat
    BY Limits
  <1>2. TotalsUpTo(count, Totals(count), CallTimeout)
    BY TotalsType
  <1>3. \A g \in Ages \ {0} : g \in 1..CallTimeout /\ g - 1 \in Ages
    BY <1>1 DEF Ages
  <1>4. QED
    BY <1>1, <1>2, <1>3 DEF TotalsUpTo, Ages

\* A call more, or less, of one age.
LEMMA TotalsChange ==
    ASSUME NEW count \in [Ages -> Nat], NEW h \in Ages, NEW d \in Int,
           NEW other \in [Ages -> Nat], other = [count EXCEPT ![h] = count[h] + d]
    PROVE \A g \in Ages : Totals(other)[g] = Totals(count)[g] + IF h <= g THEN d ELSE 0
  <1> DEFINE P == {g \in Ages : Totals(other)[g] = Totals(count)[g] + IF h <= g THEN d ELSE 0}
  <1>1. CallTimeout \in Nat /\ 0 \in Ages /\ h \in Nat /\ \A g \in Ages : g \in Nat
    BY Limits DEF Ages
  <1>2. 0 \in P
    <2>1. other[0] = count[0] + IF h <= 0 THEN d ELSE 0
      BY <1>1
    <2>2. QED
      BY <1>1, <2>1, TotalsFacts
  <1>3. ASSUME NEW g \in Ages \ {0}, g - 1 \in P PROVE g \in P
    <2>1. PICK x \in Nat, y \in Nat, t \in Nat, m \in Nat :
              /\ x = count[g] /\ y = other[g] /\ t = Totals(count)[g - 1] /\ m = g - 1 /\ g = m + 1
      <3>1. g - 1 \in Nat /\ g - 1 \in Ages
        BY <1>1 DEF Ages
      <3>2. Totals(count)[g - 1] \in Nat
        BY <3>1, TotalsFacts
      <3>3. g = (g - 1) + 1 /\ count[g] \in Nat /\ other[g] \in Nat
        BY <1>1
      <3>4. QED
        BY <3>1, <3>2, <3>3, Zenon
    <2>2. /\ Totals(count)[g] = x + t /\ Totals(other)[g] = y + Totals(other)[g - 1]
          /\ Totals(other)[g - 1] = t + IF h <= g - 1 THEN d ELSE 0
      <3>1. Totals(count)[g] = count[g] + Totals(count)[g - 1]
        BY TotalsFacts
      <3>2. Totals(other)[g] = other[g] + Totals(other)[g - 1]
        BY TotalsFacts
      <3>3. QED
        BY <1>3, <2>1, <3>1, <3>2
    <2>3. y = x + IF h = g THEN d ELSE 0
      BY <2>1
    <2>4. (h <= g) <=> (h <= m \/ h = g)
      BY <1>1, <2>1
    <2>5. ~(h <= m /\ h = g)
      BY <1>1, <2>1
    <2>6. Totals(other)[g] = Totals(count)[g] + IF h <= g THEN d ELSE 0
      BY <2>1, <2>2, <2>3, <2>4, <2>5
    <2>7. QED
      BY <2>6
  <1> HIDE DEF P
  <1>4. \A g \in Ages : g \in P
    BY <1>2, <1>3, AgeInduction
  <1>5. QED
    BY <1>4 DEF P

\* Every call a tick older, and those of age 0 none.
Older(count) == [g \in Ages |-> IF g = 0 THEN 0 ELSE count[g - 1]]

LEMMA TotalsOlder ==
    ASSUME NEW count \in [Ages -> Nat]
    PROVE /\ Older(count) \in [Ages -> Nat]
          /\ Totals(Older(count))[0] = 0
          /\ \A g \in Ages \ {0} : Totals(Older(count))[g] = Totals(count)[g - 1]
  <1> DEFINE older == Older(count)
             P == {g \in Ages : Totals(older)[g] = IF g = 0 THEN 0 ELSE Totals(count)[g - 1]}
  <1>1. CallTimeout \in Nat /\ 0 \in Ages /\ \A g \in Ages \ {0} : g - 1 \in Ages
    BY Limits DEF Ages
  <1>2. /\ older \in [Ages -> Nat] /\ older[0] = 0
        /\ \A g \in Ages \ {0} : older[g] = count[g - 1]
    BY <1>1 DEF Older
  <1> HIDE DEF older
  <1>3. 0 \in P
    BY <1>1, <1>2, TotalsFacts
  <1>4. ASSUME NEW g \in Ages \ {0}, g - 1 \in P PROVE g \in P
    <2>1. g - 1 \in Ages /\ Totals(older)[g] = count[g - 1] + Totals(older)[g - 1]
      BY <1>1, <1>2, TotalsFacts
    <2>2. CASE g - 1 = 0
      <3>1. Totals(older)[g] = count[0] + 0 /\ Totals(count)[0] = count[0] /\ count[0] \in Nat
        BY <1>1, <1>4, <2>1, <2>2, TotalsFacts
      <3>2. QED
        BY <2>2, <3>1
    <2>3. CASE g - 1 # 0
      <3>1. PICK m \in Ages \ {0} : m = g - 1
        BY <2>1, <2>3
      <3>2. Totals(older)[m] = Totals(count)[m - 1] /\ Totals(count)[m] = count[m] + Totals(count)[m - 1]
        BY <1>4, <3>1, TotalsFacts
      <3>3. Totals(older)[g] = Totals(count)[g - 1]
        BY <2>1, <3>1, <3>2
      <3>4. QED
        BY <3>3
    <2>4. QED
      BY <2>2, <2>3
  <1> HIDE DEF P
  <1>5. \A g \in Ages : g \in P
    BY <1>3, <1>4, AgeInduction
  <1>6. QED
    BY <1>1, <1>2, <1>5 DEF P, older

-------------------------------------------------------------------------------
\* The calls sent in the last g ticks have been paid for by a full bucket and what it
\* gained since, and what is left of that is in the bucket.
PaidFor(a) == \A g \in Ages : Refilled(a) + Refill * Totals(calls[a])[g] <= Full + g
Throttled == \A a \in Accounts : PaidFor(a)

\* A quotient is the greatest number of periods that fit.
LEMMA Quotient ==
    ASSUME NEW r \in Nat \ {0}, NEW t \in Nat, NEW y \in Int, r * y <= t
    PROVE y <= t \div r
  <1>1. PICK q \in Int : q = t \div r
    OBVIOUS
  <1>2. PICK m \in 0..(r - 1) : t = r * q + m
    <2>1. t = r * (t \div r) + (t % r) /\ t % r \in 0..(r - 1)
      OBVIOUS
    <2>2. QED
      BY <1>1, <2>1
  <1>3. r * (y - q) < r
    BY <1>2
  <1>4. y - q < 1
    BY <1>3
  <1>5. QED
    BY <1>1, <1>4

LEMMA ThrottledBounds == IInv /\ Throttled => InFlightBounded
  <1> SUFFICES ASSUME IInv, Throttled, NEW a \in Accounts PROVE InFlight(a) <= Burst
    BY DEF InFlightBounded
  <1>1. PICK r \in Nat \ {0}, k \in Nat, t \in Nat : r = Refill /\ k = Capacity /\ t = CallTimeout
    BY Limits
  <1>2. CallTimeout \in Ages
    BY <1>1 DEF Ages
  <1>3. PICK x \in Nat : x = InFlight(a)
    BY <1>2, TotalsFacts DEF IInv, TypeOK, InFlight
  <1>4. Refilled(a) + r * x <= k * r + t
    BY <1>1, <1>2, <1>3 DEF Throttled, PaidFor, InFlight, Full
  <1>5. Refilled(a) \in Nat
    BY RefilledType, FullHoldsAToken DEF IInv
  <1>6. r * x <= k * r + t
    BY <1>4, <1>5
  <1>7. r * (x - k) <= t
    BY <1>6
  <1>8. x - k <= t \div r
    BY <1>7, Quotient
  <1>9. (t \div r) \in Int
    OBVIOUS
  <1>10. QED
    BY <1>1, <1>3, <1>8, <1>9 DEF Burst

Bounds == Throttled /\ OvershootBounded

LEMMA BurstType == Burst \in Nat
  <1>1. \A r \in Nat \ {0}, t \in Nat : t \div r \in Nat
    OBVIOUS
  <1>2. CallTimeout \div Refill \in Nat
    BY <1>1, Limits
  <1>3. QED
    BY <1>2, Limits DEF Burst

LEMMA InFlightType == ASSUME TypeOK, NEW a \in Accounts PROVE InFlight(a) \in Nat
  <1>1. CallTimeout \in Ages
    BY Limits DEF Ages
  <1>2. QED
    BY <1>1, TotalsFacts DEF TypeOK, InFlight

LEMMA InitBounds == Init => Bounds
  <1> SUFFICES ASSUME Init PROVE Bounds
    OBVIOUS
  <1> DEFINE none == [g \in Ages |-> 0]
             P == {g \in Ages : Totals(none)[g] = 0}
  <1>1. 0 \in Ages /\ CallTimeout \in Ages /\ \A g \in Ages : g \in Nat
    BY Limits DEF Ages
  <1>2. none \in [Ages -> Nat] /\ \A g \in Ages : none[g] = 0
    OBVIOUS
  <1> HIDE DEF none
  <1>3. 0 \in P
    BY <1>1, <1>2, TotalsFacts
  <1>4. ASSUME NEW g \in Ages \ {0}, g - 1 \in P PROVE g \in P
    BY <1>2, <1>4, TotalsFacts
  <1> HIDE DEF P
  <1>5. \A g \in Ages : Totals(none)[g] = 0
    <2>1. \A g \in Ages : g \in P
      BY <1>3, <1>4, AgeInduction
    <2>2. QED
      BY <2>1 DEF P
  <1>6. ASSUME NEW a \in Accounts
        PROVE calls[a] = none /\ usage[a] = 0 /\ tokens[a] = Full /\ stale[a] = 0
    BY DEF Init, none
  <1>7. ASSUME NEW a \in Accounts PROVE PaidFor(a)
    <2>1. Refilled(a) = Full
      BY <1>6, FullHoldsAToken DEF Refilled, Least
    <2>2. Refill \in Nat /\ Full \in Nat
      BY FullHoldsAToken
    <2>3. \A g \in Ages : Full + Refill * 0 <= Full + g
      BY <1>1, <2>2
    <2>4. QED
      BY <1>5, <1>6, <2>1, <2>3 DEF PaidFor
  <1>8. ASSUME NEW a \in Accounts PROVE usage[a] + InFlight(a) <= Budget - 1 + Burst
    <2>1. InFlight(a) = 0 /\ usage[a] = 0
      BY <1>1, <1>5, <1>6 DEF InFlight
    <2>2. QED
      BY <2>1, BurstType, Limits
  <1>9. QED
    BY <1>7, <1>8 DEF Bounds, Throttled, OvershootBounded

\* try_acquire leaves n, whatever time had to be credited.
LEMMA RefilledAfter ==
    ASSUME TypeOK, NEW a \in Accounts, NEW n \in 0..Full, SetBucket(a, n)
    PROVE /\ Refilled(a)' = n
          /\ \A b \in Accounts \ {a} : Refilled(b)' = Refilled(b)
  BY FullHoldsAToken DEF SetBucket, TypeOK, Refilled, Least

\* A step that takes from a bucket and adds no call to those in flight.
LEMMA StillPaidFor ==
    ASSUME IInv, NEW a \in Accounts, PaidFor(a), calls'[a] = calls[a],
           Refilled(a)' \in Nat, Refilled(a)' <= Refilled(a)
    PROVE PaidFor(a)'
  <1>1. PICK r \in Nat, f \in Nat : r = Refill /\ f = Full
    BY FullHoldsAToken
  <1>2. Refilled(a) \in Nat
    BY RefilledType, FullHoldsAToken DEF IInv
  <1>3. SUFFICES ASSUME NEW g \in Ages PROVE Refilled(a)' + r * Totals(calls'[a])[g] <= f + g
    BY <1>1 DEF PaidFor, Full
  <1>4. PICK x \in Nat, y \in Nat : x = Totals(calls[a])[g] /\ y = r * x
    <2>1. Totals(calls[a])[g] \in Nat
      BY TotalsFacts DEF IInv, TypeOK
    <2>2. \A x \in Nat : r * x \in Nat
      OBVIOUS
    <2>3. QED
      BY <2>1, <2>2
  <1>5. Refilled(a) + y <= f + g
    BY <1>1, <1>4 DEF PaidFor
  <1>6. g \in Nat
    BY Limits DEF Ages
  <1>7. Refilled(a)' + y <= f + g
    BY <1>2, <1>5, <1>6
  <1>8. QED
    BY <1>4, <1>7

\* A call that is refused.
LEMMA RefusedBounds ==
    ASSUME IInv, Bounds, NEW a \in Accounts, RateLimited(a) \/ Exhausted(a)
    PROVE Bounds'
  <1>1. UNCHANGED <<calls, usage>>
    BY DEF RateLimited, Exhausted
  <1>2. OvershootBounded'
    BY <1>1 DEF Bounds, OvershootBounded, InFlight
  <1>3. PICK n \in 0..Full : SetBucket(a, n) /\ n <= Refilled(a)
    <2>1. Refilled(a) \in 0..Full /\ Full \in Nat /\ Refill \in Nat
      BY RefilledType, FullHoldsAToken DEF IInv
    <2>2. CASE RateLimited(a)
      BY <2>1, <2>2 DEF RateLimited
    <2>3. CASE Exhausted(a)
      BY <2>1, <2>3 DEF Exhausted, HasToken, Spent
    <2>4. QED
      BY <2>2, <2>3
  <1>4. ASSUME NEW b \in Accounts PROVE Refilled(b)' \in Nat /\ Refilled(b)' <= Refilled(b)
    BY <1>3, RefilledAfter, RefilledType, FullHoldsAToken DEF IInv
  <1>5. ASSUME NEW b \in Accounts PROVE PaidFor(b)'
    BY <1>1, <1>4, StillPaidFor DEF Bounds, Throttled
  <1>6. QED
    BY <1>2, <1>5 DEF Bounds, Throttled

LEMMA StartBounds ==
    ASSUME IInv, Bounds, NEW a \in Accounts, Start(a), IInv'
    PROVE Bounds'
  <1>1. /\ Refilled(a) >= Refill /\ usage[a] < Budget /\ usage' = usage
        /\ SetBucket(a, Refilled(a) - Refill)
        /\ calls' = [calls EXCEPT ![a] = [calls[a] EXCEPT ![0] = calls[a][0] + 1]]
    BY DEF Start, HasToken, WithinQuota, Spent
  <1>2. calls \in [Accounts -> [Ages -> Nat]] /\ calls' \in [Accounts -> [Ages -> Nat]]
        /\ TypeOK
    BY DEF IInv, TypeOK
  <1>3. PICK r \in Nat \ {0}, f \in Nat, n \in Nat :
            /\ r = Refill /\ f = Full /\ n \in 0..Full
            /\ Refilled(a) = n + r /\ n = Refilled(a) - Refill
    <2>1. Refilled(a) \in 0..Full /\ Full \in Nat /\ Refill \in Nat \ {0}
      BY RefilledType, FullHoldsAToken DEF IInv
    <2>2. Refilled(a) - Refill \in 0..Full /\ Refilled(a) = (Refilled(a) - Refill) + Refill
      BY <1>1, <2>1
    <2>3. Refilled(a) - Refill \in Nat
      BY <2>1, <2>2
    <2>4. QED
      BY <2>1, <2>2, <2>3, Zenon
  <1>4. Refilled(a)' = n /\ \A b \in Accounts \ {a} : Refilled(b)' = Refilled(b)
    BY <1>1, <1>2, <1>3, RefilledAfter
  <1>5. ASSUME NEW b \in Accounts, b # a PROVE PaidFor(b)'
    <2>1. calls'[b] = calls[b] /\ Refilled(b)' = Refilled(b) /\ Refilled(b) \in Nat
      BY <1>1, <1>2, <1>4, <1>5, RefilledType, FullHoldsAToken
    <2>2. QED
      BY <2>1, StillPaidFor DEF Bounds, Throttled
  <1>6. PaidFor(a)'
    <2>1. SUFFICES ASSUME NEW g \in Ages PROVE n + r * Totals(calls'[a])[g] <= f + g
      BY <1>3, <1>4 DEF PaidFor, Full
    <2>2. PICK x \in Nat : x = Totals(calls[a])[g]
      BY <1>2, TotalsFacts
    <2>3. Totals(calls'[a])[g] = x + 1
      <3>1. 0 \in Ages /\ 0 <= g /\ 1 \in Int
        BY Limits DEF Ages
      <3>2. calls[a] \in [Ages -> Nat] /\ calls'[a] \in [Ages -> Nat]
            /\ calls'[a] = [calls[a] EXCEPT ![0] = calls[a][0] + 1]
        BY <1>1, <1>2
      <3>3. Totals(calls'[a])[g] = Totals(calls[a])[g] + IF 0 <= g THEN 1 ELSE 0
        BY <3>1, <3>2, TotalsChange
      <3>4. QED
        BY <2>2, <3>1, <3>3
    <2>4. (n + r) + r * x <= f + g
      BY <1>3, <2>2 DEF Bounds, Throttled, PaidFor
    <2>5. g \in Nat
      BY Limits DEF Ages
    <2>6. n + r * (x + 1) <= f + g
      BY <2>4, <2>5
    <2>7. QED
      BY <2>3, <2>6
  <1>7. Throttled'
    BY <1>5, <1>6 DEF Throttled
  <1>8. InFlightBounded'
    <2>1. (IInv /\ Throttled => InFlightBounded)'
      BY ThrottledBounds, PTL
    <2>2. QED
      BY <1>7, <2>1
  <1>9. ASSUME NEW b \in Accounts PROVE (usage[b] + InFlight(b) <= Budget - 1 + Burst)'
    <2>1. CASE b = a
      <3>1. PICK i \in Nat, u \in Nat, k \in Nat : i = InFlight(a)' /\ u = usage'[a] /\ k = Burst
        <4>1. InFlight(a)' \in Nat
          <5>1. calls'[a] \in [Ages -> Nat] /\ CallTimeout \in Ages
            BY <1>2, Limits DEF Ages
          <5>2. Totals(calls'[a])[CallTimeout] \in Nat
            BY <5>1, TotalsFacts
          <5>3. QED
            BY <5>2 DEF InFlight
        <4>2. QED
          BY <4>1, BurstType DEF IInv, TypeOK
      <3>2. i <= k /\ u < Budget /\ Budget \in Nat
        BY <1>1, <1>8, <3>1, Limits DEF InFlightBounded, Burst
      <3>3. QED
        BY <2>1, <3>1, <3>2 DEF Burst
    <2>2. CASE b # a
      BY <1>1, <1>2, <2>2 DEF Bounds, OvershootBounded, InFlight, Burst
    <2>3. QED
      BY <2>1, <2>2
  <1>10. QED
    BY <1>7, <1>9 DEF Bounds, OvershootBounded

LEMMA FinishBounds ==
    ASSUME IInv, Bounds, NEW a \in Accounts, NEW h \in Ages, NEW ok \in BOOLEAN, Finish(a, h, ok),
           IInv'
    PROVE Bounds'
  <1>1. /\ calls[a][h] > 0 /\ UNCHANGED <<tokens, stale>>
        /\ calls' = [calls EXCEPT ![a] = [calls[a] EXCEPT ![h] = calls[a][h] - 1]]
        /\ usage' = [usage EXCEPT ![a] = usage[a] + 1]
    BY DEF Finish
  <1>2. /\ calls \in [Accounts -> [Ages -> Nat]] /\ calls' \in [Accounts -> [Ages -> Nat]]
        /\ usage \in [Accounts -> Nat]
    BY DEF IInv, TypeOK
  <1>3. \A b \in Accounts : Refilled(b)' = Refilled(b) /\ Refilled(b) \in Nat
    BY <1>1, RefilledType, FullHoldsAToken DEF Refilled, IInv
  <1>4. \A b \in Accounts \ {a} : calls'[b] = calls[b] /\ usage'[b] = usage[b]
    BY <1>1, <1>2
  <1>5. \A g \in Ages : Totals(calls'[a])[g] = Totals(calls[a])[g] + IF h <= g THEN -1 ELSE 0
    <2>1. /\ calls[a] \in [Ages -> Nat] /\ calls'[a] \in [Ages -> Nat]
          /\ calls'[a] = [calls[a] EXCEPT ![h] = calls[a][h] + (-1)]
      BY <1>1, <1>2
    <2>2. -1 \in Int
      OBVIOUS
    <2>3. QED
      BY <2>1, <2>2, TotalsChange
  <1>6. PaidFor(a)'
    <2>1. PICK r \in Nat, f \in Nat, n \in Nat : r = Refill /\ f = Full /\ n = Refilled(a)
      BY <1>3, FullHoldsAToken
    <2>2. SUFFICES ASSUME NEW g \in Ages PROVE n + r * Totals(calls'[a])[g] <= f + g
      BY <1>3, <2>1 DEF PaidFor, Full
    <2>3. PICK x \in Nat : x = Totals(calls[a])[g]
      BY <1>2, TotalsFacts
    <2>4. n + r * x <= f + g /\ g \in Nat
      BY <2>1, <2>3, Limits DEF Bounds, Throttled, PaidFor, Ages
    <2>5. CASE h <= g
      <3>1. r * (x - 1) <= r * x
        OBVIOUS
      <3>2. n + r * (x - 1) <= f + g
        BY <2>4, <3>1
      <3>3. Totals(calls'[a])[g] = x - 1
        BY <1>5, <2>3, <2>5
      <3>4. QED
        BY <3>2, <3>3
    <2>6. CASE ~(h <= g)
      <3>1. Totals(calls'[a])[g] = x
        BY <1>5, <2>3, <2>6
      <3>2. QED
        BY <2>4, <3>1
    <2>7. QED
      BY <2>5, <2>6
  <1>7. Throttled'
    <2>1. \A b \in Accounts \ {a} : PaidFor(b)'
      BY <1>3, <1>4, StillPaidFor DEF Bounds, Throttled
    <2>2. QED
      BY <1>6, <2>1 DEF Throttled
  <1>8. ASSUME NEW b \in Accounts PROVE (usage[b] + InFlight(b) <= Budget - 1 + Burst)'
    <2>1. usage[b] + InFlight(b) <= Budget - 1 + Burst
      BY DEF Bounds, OvershootBounded
    <2>2. usage'[b] + InFlight(b)' = usage[b] + InFlight(b)
      <3>1. CASE b = a
        <4>1. PICK x \in Nat, u \in Nat : x = InFlight(a) /\ u = usage[a]
          BY <1>2, InFlightType DEF IInv
        <4>2. CallTimeout \in Ages /\ h <= CallTimeout
          BY Limits DEF Ages
        <4>3. InFlight(a)' = x - 1
          BY <1>5, <4>1, <4>2 DEF InFlight
        <4>4. usage'[a] = u + 1
          BY <1>1, <1>2, <4>1
        <4>5. QED
          BY <3>1, <4>1, <4>3, <4>4
      <3>2. CASE b # a
        BY <1>4, <3>2 DEF InFlight
      <3>3. QED
        BY <3>1, <3>2
    <2>3. QED
      BY <2>1, <2>2 DEF Burst
  <1>9. QED
    BY <1>7, <1>8 DEF Bounds, OvershootBounded

LEMMA TickBounds == ASSUME IInv, Bounds, Tick, IInv' PROVE Bounds'
  <1>1. /\ \A a \in Accounts : calls[a][CallTimeout] = 0
        /\ \A a \in Accounts : stale'[a] = Least(stale[a] + 1, Full) /\ calls'[a] = Older(calls[a])
        /\ tokens' = tokens /\ usage' = usage
    BY DEF Tick, Older
  <1>2. ASSUME NEW a \in Accounts
        PROVE PaidFor(a)' /\ (usage[a] + InFlight(a) <= Budget - 1 + Burst)'
    <2>1. PICK r \in Nat, f \in Nat, n \in Nat, m \in Nat :
              r = Refill /\ f = Full /\ n = Refilled(a) /\ m = Refilled(a)' /\ m <= n + 1 /\ m <= f
      <3>1. Refilled(a)' <= Refilled(a) + 1 /\ Refilled(a)' <= Full /\ Refilled(a)' \in Nat
        BY <1>1, FullHoldsAToken DEF IInv, TypeOK, Refilled, Least, Full
      <3>2. Refilled(a) \in Nat
        BY RefilledType, FullHoldsAToken DEF IInv
      <3>3. QED
        BY <3>1, <3>2, FullHoldsAToken
    <2>2. calls[a] \in [Ages -> Nat]
      BY DEF IInv, TypeOK
    <2>3. /\ Totals(calls'[a])[0] = 0
          /\ \A g \in Ages \ {0} : Totals(calls'[a])[g] = Totals(calls[a])[g - 1]
      BY <1>1, <2>2, TotalsOlder
    <2>4. ASSUME NEW g \in Ages PROVE m + r * Totals(calls'[a])[g] <= f + g
      <3>1. CASE g = 0
        BY <2>1, <2>3, <3>1
      <3>2. CASE g # 0
        <4>1. PICK e \in Ages : g - 1 = e /\ g = e + 1 /\ e \in Nat
          BY <3>2, Limits DEF Ages
        <4>2. PICK x \in Nat, y \in Nat : x = Totals(calls[a])[e] /\ y = r * x
          <5>1. Totals(calls[a])[e] \in Nat
            BY <2>2, TotalsFacts
          <5>2. \A x \in Nat : r * x \in Nat
            OBVIOUS
          <5>3. QED
            BY <5>1, <5>2
        <4>3. n + y <= f + e
          BY <2>1, <4>2 DEF Bounds, Throttled, PaidFor
        <4>4. m + y <= f + g
          BY <2>1, <4>1, <4>3
        <4>5. QED
          BY <2>3, <3>2, <4>1, <4>2, <4>4
      <3>3. QED
        BY <3>1, <3>2
    <2>5. PaidFor(a)'
      BY <2>1, <2>4 DEF PaidFor, Full
    <2>6. InFlight(a)' = InFlight(a)
      <3>1. CallTimeout \in Ages /\ calls[a][CallTimeout] = 0
        BY <1>1, Limits DEF Ages
      <3>2. CASE CallTimeout = 0
        BY <2>2, <2>3, <3>1, <3>2, TotalsFacts DEF InFlight
      <3>3. CASE CallTimeout # 0
        <4>1. CallTimeout - 1 \in Ages
              /\ Totals(calls[a])[CallTimeout] = 0 + Totals(calls[a])[CallTimeout - 1]
          BY <2>2, <3>1, <3>3, TotalsFacts
        <4>2. Totals(calls[a])[CallTimeout - 1] \in Nat
          BY <2>2, <4>1, TotalsFacts
        <4>3. QED
          BY <2>3, <3>1, <3>3, <4>1, <4>2 DEF InFlight
      <3>4. QED
        BY <3>2, <3>3
    <2>7. (usage[a] + InFlight(a) <= Budget - 1 + Burst)'
      BY <1>1, <2>6 DEF Bounds, OvershootBounded, Burst
    <2>8. QED
      BY <2>5, <2>7
  <1>3. QED
    BY <1>2 DEF Bounds, Throttled, OvershootBounded

LEMMA NextBounds == IInv /\ Bounds /\ [Next]_vars /\ IInv' => Bounds'
  <1>1. ASSUME Bounds, UNCHANGED vars PROVE Bounds'
    BY <1>1 DEF vars, Bounds, Throttled, OvershootBounded, PaidFor, Refilled, InFlight
  <1>2. QED
    BY <1>1, RefusedBounds, StartBounds, FinishBounds, TickBounds DEF Next

LEMMA BoundsHold == Spec => [](IInv /\ Bounds)
  BY Inductive, InitBounds, NextBounds, PTL DEF Spec

\* Slow calls of earlier bursts cannot pile up: a bucket bounds the calls of its account
\* that are under way at any moment, for any capacity, refill rate and timeout.
THEOREM CallsInFlight == Spec => []InFlightBounded
  <1>1. IInv /\ Bounds => InFlightBounded
    BY ThrottledBounds DEF Bounds
  <1>2. QED
    BY <1>1, BoundsHold, PTL

\* However calls race with the count of those that have ended, an account gets past its
\* quota by less than one burst.
THEOREM Overshoot == Spec => []OvershootBounded
  <1>1. IInv /\ Bounds => OvershootBounded
    BY DEF Bounds
  <1>2. QED
    BY <1>1, BoundsHold, PTL
===============================================================================
