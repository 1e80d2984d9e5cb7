------------------------------- MODULE LinkProofs -------------------------------
(***************************************************************************)
(* Theorems about the client's link, for any systems and seeds, and any    *)
(* number of sockets, arrivals and timeouts: the wires stay short, the     *)
(* link is never stuck, and once everything sent over a live link has      *)
(* arrived the two sides agree on where the client is and on its seed.     *)
(***************************************************************************)
EXTENDS Link, DataLemmas

Hellos == [system : Systems, seed : Seeds]
Events == Answers \cup {Opened, Lost}

States ==
    /\ location \in Systems
    /\ conn \in {"connecting", "connected", "errored"}
    /\ transport \in {NoSocket} \cup Sockets
    /\ adopted \in Seeds \cup {NoSeed}
    /\ jumps \in 0..MaxJumps /\ timeouts \in 0..MaxTimeouts
    /\ task \in [Sockets -> {"unused", "dialled", "reading", "deaf", "ended"}]
    /\ at \in [Sockets -> Systems \cup {Nowhere}]
    /\ cut \in [Sockets -> BOOLEAN]
    /\ canon \in [Systems -> Seeds \cup {NoSeed}]
    /\ outbox \in Seq(Hellos)
    /\ up \in [Sockets -> Seq(Hellos)] /\ down \in [Sockets -> Seq(Events)]

\* A socket's wires are empty before it opens, and a session that does not read has no system.
Silent ==
    \A s \in Sockets :
        /\ task[s] \in {"unused", "dialled"} => up[s] = <<>> /\ down[s] = <<>>
        /\ task[s] # "reading" => up[s] = <<>> /\ at[s] = Nowhere

\* A socket carries what is queued, one more for its opening or its failure, which the
\* greeting replaces, and one for its end.
Queued(s) == IF s = transport THEN Len(outbox) ELSE 0
Ending(s) == IF cut[s] THEN 1 ELSE 0

Short ==
    /\ Len(outbox) <= jumps
    /\ \A s \in Sockets : Len(up[s]) + Len(down[s]) + Queued(s) <= jumps + 1 + Ending(s)

\* A link that is connected has been dialled and opened.
Dialled == conn = "connected" => task[transport] \notin {"unused", "dialled"}

\* The latest arrival is queued last.
QueuedLast == outbox # <<>> => outbox[Len(outbox)] = Discover(location)

\* Over a live link, what is on its way to the server ends with where the client is; when
\* nothing is, the session is there, and the last answer on its way back is the canonical
\* seed, or the client has adopted it.
Live == conn = "connected" /\ task[transport] = "reading" /\ ~cut[transport]
Pending == up[transport] \o outbox
Told ==
    Live => IF Pending = <<>>
            THEN /\ at[transport] = location
                 /\ canon[location] # NoSeed
                 /\ AdoptedAfter(down[transport]) = canon[location]
            ELSE Pending[Len(Pending)] = Discover(location)

LinkInv == States /\ Silent /\ Short /\ LinkNeverStuck /\ Dialled /\ QueuedLast /\ Told

-------------------------------------------------------------------------------
\* What travels is of its type, and says what it says.
LEMMA DiscoverFacts == \A k \in Systems : Discover(k) \in Hellos /\ Discover(k).system = k
  BY LocalSeeds DEF Discover, Hellos

LEMMA EventFacts ==
    /\ Opened \in Events \ Answers /\ Lost \in Events \ Answers
    /\ \A k \in Systems, x \in Seeds : Canonical(k, x) \in Answers /\ Canonical(k, x).seed = x
    /\ \A e \in Events : e.seed \in Seeds \cup {NoSeed}
  BY DEF Events, Answers, Opened, Lost, Canonical

\* The last element of two sequences, one after the other.
LEMMA LastOfConcat ==
    ASSUME NEW T, NEW s \in Seq(T), NEW t \in Seq(T), t # <<>>
    PROVE (s \o t) # <<>> /\ (s \o t)[Len(s \o t)] = t[Len(t)]
  <1>1. PICK m \in Nat, n \in Nat : m = Len(s) /\ n = Len(t)
    BY LenProperties
  <1>2. n > 0
    BY <1>1, EmptySeq
  <1>3. /\ s \o t \in Seq(T) /\ Len(s \o t) = m + n
        /\ \A i \in 1..(m + n) : (s \o t)[i] = IF i <= m THEN s[i] ELSE t[i - m]
    BY <1>1, ConcatProperties
  <1>4. m + n \in 1..(m + n) /\ ~(m + n <= m) /\ m + n - m = n
    BY <1>2
  <1>5. (s \o t)[m + n] = t[n]
    BY <1>3, <1>4
  <1>6. s \o t # <<>>
    BY <1>2, <1>3, EmptySeq
  <1>7. QED
    BY <1>1, <1>3, <1>5, <1>6

\* What is adopted is a seed; of an answer that comes last, its seed.
LEMMA AdoptedType ==
    ASSUME adopted \in Seeds \cup {NoSeed}, NEW s \in Seq(Events)
    PROVE AdoptedAfter(s) \in Seeds \cup {NoSeed}
  <1>1. PICK o \in Seq(Events) : o = Only(s, Answers)
    BY OnlyType
  <1>2. CASE o = <<>>
    BY <1>1, <1>2 DEF AdoptedAfter
  <1>3. CASE o # <<>>
    <2>1. Len(o) \in Nat /\ Len(o) \in 1..Len(o)
      BY <1>3, EmptySeq
    <2>2. o[Len(o)] \in Events
      BY <2>1, ElementOfSeq
    <2>3. AdoptedAfter(s) = o[Len(o)].seed
      BY <1>1, <1>3 DEF AdoptedAfter, Last
    <2>4. QED
      BY <2>2, <2>3, EventFacts
  <1>4. QED
    BY <1>2, <1>3

LEMMA AdoptedLast ==
    ASSUME NEW s \in Seq(Events), NEW k \in Systems, NEW x \in Seeds
    PROVE AdoptedAfter(Append(s, Canonical(k, x))) = x
  <1>1. PICK e \in Answers : e = Canonical(k, x) /\ e.seed = x
    BY EventFacts
  <1>2. e \in Events
    BY DEF Events
  <1>3. PICK o \in Seq(Events) : o = Only(s, Answers)
    BY OnlyType
  <1>4. Only(Append(s, e), Answers) = Append(o, e)
    BY <1>2, <1>3, OnlyAppend
  <1>5. /\ Append(o, e) # <<>> /\ Len(Append(o, e)) = Len(o) + 1
        /\ Append(o, e)[Len(o) + 1] = e
    BY <1>2, AppendProperties
  <1>6. QED
    BY <1>1, <1>4, <1>5 DEF AdoptedAfter, Last

\* Handling some answers, and then the rest, adopts what handling all of them does.
LEMMA AdoptedInTurn ==
    ASSUME NEW s \in Seq(Events), NEW t \in Seq(Events), adopted' = AdoptedAfter(s)
    PROVE AdoptedAfter(t)' = AdoptedAfter(s \o t)
  <1>1. PICK o \in Seq(Events), p \in Seq(Events) : o = Only(s, Answers) /\ p = Only(t, Answers)
    BY OnlyType
  <1>2. Only(s \o t, Answers) = o \o p
    <2>1. Only(s \o t, Answers) = Only(s, Answers) \o Only(t, Answers)
      BY OnlyConcat, SMTT(30)
    <2>2. QED
      BY <1>1, <2>1
  <1>3. AdoptedAfter(t)' = IF p = <<>> THEN adopted' ELSE p[Len(p)].seed
    BY <1>1 DEF AdoptedAfter, Last
  <1>4. AdoptedAfter(s \o t) = IF o \o p = <<>> THEN adopted ELSE (o \o p)[Len(o \o p)].seed
    BY <1>2 DEF AdoptedAfter, Last
  <1>5. AdoptedAfter(s) = IF o = <<>> THEN adopted ELSE o[Len(o)].seed
    BY <1>1 DEF AdoptedAfter, Last
  <1>6. CASE p = <<>>
    <2>1. o \o p = o
      BY <1>6, ConcatEmptySeq
    <2>2. QED
      BY <1>3, <1>4, <1>5, <1>6, <2>1
  <1>7. CASE p # <<>>
    BY <1>3, <1>4, <1>7, LastOfConcat
  <1>8. QED
    BY <1>6, <1>7

\* What a broken socket still delivers.
LEMMA CutShort ==
    ASSUME NEW T, NEW s \in Seq(T), NEW n \in 0..Len(s)
    PROVE SubSeq(s, 1, n) \in Seq(T) /\ Len(SubSeq(s, 1, n)) = n
  <1>1. PICK l \in Nat : l = Len(s)
    BY LenProperties
  <1>2. n \in Int /\ n <= l /\ 1 \in Int /\ n >= 0
    BY <1>1
  <1>3. \A i \in 1..n : s[i] \in T
    BY <1>1, <1>2, ElementOfSeq
  <1>4. SubSeq(s, 1, n) \in Seq(T) /\ Len(SubSeq(s, 1, n)) = IF 1 <= n THEN n - 1 + 1 ELSE 0
    BY <1>2, <1>3, SubSeqProperties
  <1>5. QED
    BY <1>2, <1>4

LEMMA EmptyPrefix ==
    ASSUME NEW s, s = <<>>, NEW n \in 0..Len(s)
    PROVE SubSeq(s, 1, n) = <<>>
  <1>1. n = 0
    BY EmptySeq
  <1>2. QED
    BY <1>1, SubSeqEmpty

\* A discovery is answered with the canonical seed, which it may have set.
Served(s, d, x) ==
    /\ d = Head(up[s]) /\ d.system \in Systems /\ d.seed \in Seeds
    /\ Tail(up[s]) \in Seq(Hellos) /\ Len(up[s]) = Len(Tail(up[s])) + 1
    /\ up[s] = <<d>> \o Tail(up[s])
    /\ x = Answer(d) /\ canon' = [canon EXCEPT ![d.system] = x]
    /\ canon[d.system] \in {NoSeed, x}

LEMMA ServeFacts ==
    ASSUME LinkInv, NEW s \in Sockets, Serve(s)
    PROVE \E d \in Hellos, x \in Seeds : Served(s, d, x)
  <1>1. up[s] \in Seq(Hellos) /\ up[s] # <<>>
    BY DEF Serve, LinkInv, States
  <1>2. PICK d \in Hellos : d = Head(up[s])
    BY <1>1, HeadTailProperties
  <1>3. d.system \in Systems /\ d.seed \in Seeds
    BY DEF Hellos
  <1>4. Tail(up[s]) \in Seq(Hellos) /\ Len(Tail(up[s])) = Len(up[s]) - 1 /\ Len(up[s]) \in Nat
    BY <1>1, HeadTailProperties, LenProperties
  <1>5. up[s] = <<d>> \o Tail(up[s])
    BY <1>1, <1>2, HeadAndTail
  <1>6. canon' = Claimed(d.system, d.seed)
    BY <1>2 DEF Serve
  <1>7. CASE canon[d.system] = NoSeed
    <2>1. canon' = [canon EXCEPT ![d.system] = d.seed] /\ Answer(d) = d.seed
      BY <1>3, <1>6, <1>7 DEF Claimed, Answer, LinkInv, States
    <2>2. Served(s, d, d.seed)
      BY <1>2, <1>3, <1>4, <1>5, <1>7, <2>1 DEF Served
    <2>3. QED
      BY <1>3, <2>2
  <1>8. CASE canon[d.system] # NoSeed
    <2>1. canon' = canon /\ Answer(d) = canon[d.system] /\ canon[d.system] \in Seeds
      BY <1>3, <1>6, <1>8 DEF Claimed, Answer, LinkInv, States
    <2>2. canon = [canon EXCEPT ![d.system] = canon[d.system]]
      BY <1>3 DEF LinkInv, States
    <2>3. Served(s, d, canon[d.system])
      BY <1>2, <1>3, <1>4, <1>5, <2>1, <2>2 DEF Served
    <2>4. QED
      BY <2>1, <2>3
  <1>9. QED
    BY <1>7, <1>8

-------------------------------------------------------------------------------
\* What a poll takes from the wire, what it leaves there, and what it sends: no more than
\* was queued, and a greeting for the opening.
Polled(n, events, rest, sent) ==
    /\ transport \in Sockets /\ task[transport] \notin {"unused", "dialled"}
    /\ down[transport] = events \o rest /\ Len(down[transport]) = n + Len(rest)
    /\ adopted' = AdoptedAfter(events) /\ adopted' \in Seeds \cup {NoSeed}
    /\ up' = IF task[transport] = "reading" /\ ~cut[transport]
             THEN [up EXCEPT ![transport] = up[transport] \o sent] ELSE up
    /\ UNCHANGED <<location, jumps, task, at, canon, timeouts, cut>>
    /\ \/ /\ conn' = "errored" /\ transport' = NoSocket
          /\ outbox' = outbox /\ Len(sent) <= n
          /\ down' = [down EXCEPT ![transport] = <<>>]
       \/ /\ conn' = "connected" /\ transport' = transport
          /\ outbox' = <<>> /\ Len(sent) <= n + Len(outbox)
          /\ down' = [down EXCEPT ![transport] = rest]
          /\ \/ sent = <<Discover(location)>> \o outbox
             \/ conn = "connected" /\ sent = outbox
       \/ /\ conn' = conn /\ conn # "connected" /\ transport' = transport
          /\ outbox' = outbox /\ sent = <<>>
          /\ down' = [down EXCEPT ![transport] = rest]

LEMMA PollFacts ==
    ASSUME LinkInv, NEW arrived \in 0..MaxArrived, Poll(arrived)
    PROVE \E n \in Nat, events \in Seq(Events), rest \in Seq(Events), sent \in Seq(Hellos) :
            Polled(n, events, rest, sent)
  <1> DEFINE d == down[transport]
             e == SubSeq(d, 1, arrived)
             q == SubSeq(d, arrived + 1, Len(d))
  <1>1. /\ transport # NoSocket /\ arrived \in 0..Len(d)
        /\ arrived > 0 \/ (conn = "connected" /\ outbox # <<>>)
    BY DEF Poll
  <1>2. transport \in Sockets /\ d \in Seq(Events) /\ outbox \in Seq(Hellos)
    BY <1>1 DEF LinkInv, States
  <1>3. PICK l \in Nat : l = Len(d)
    BY <1>2, LenProperties
  <1>4. arrived \in Nat /\ arrived <= l /\ l \in 0..l /\ arrived + 1 \in Int /\ 1 \in 1..(l + 1)
        /\ arrived \in (1 - 1)..l /\ l \in arrived..l
    BY <1>1, <1>3
  <1>5. e \o q = d
    <2>1. SubSeq(d, 1, arrived) \o SubSeq(d, arrived + 1, l) = SubSeq(d, 1, l)
      BY <1>2, <1>3, <1>4, ConcatAdjacentSubSeq
    <2>2. QED
      BY <1>2, <1>3, <2>1, SubSeqFull
  <1>6. e \in Seq(Events) /\ Len(e) = arrived /\ q \in Seq(Events) /\ Len(q) = l - arrived
    <2>1. \A i \in 1..l : d[i] \in Events
      BY <1>2, <1>3, ElementOfSeq
    <2>2. (\A i \in 1..arrived : d[i] \in Events) /\ (\A i \in (arrived + 1)..l : d[i] \in Events)
      BY <1>4, <2>1
    <2>3. e \in Seq(Events) /\ Len(e) = IF 1 <= arrived THEN arrived - 1 + 1 ELSE 0
      BY <1>4, <2>2, SubSeqProperties
    <2>4. SubSeq(d, arrived + 1, l) \in Seq(Events)
          /\ Len(SubSeq(d, arrived + 1, l)) = IF arrived + 1 <= l THEN l - (arrived + 1) + 1 ELSE 0
      BY <1>4, <2>2, SubSeqProperties
    <2>5. QED
      BY <1>3, <1>4, <2>3, <2>4
  <1>7. task[transport] \notin {"unused", "dialled"}
    <2>1. arrived > 0 => d # <<>>
      BY <1>3, <1>4, EmptySeq
    <2>2. QED
      BY <1>1, <1>2, <2>1 DEF LinkInv, Silent, Dialled
  <1>8. \A kind : Has(e, kind) => arrived > 0
    BY <1>4, <1>6 DEF Has
  <1>9. /\ conn' = CASE Has(e, "lost") -> "errored"
                     [] Has(e, "opened") /\ ~Has(e, "lost") -> "connected"
                     [] OTHER -> conn
        /\ adopted' = AdoptedAfter(e)
        /\ outbox' = IF Flushes(e) THEN <<>> ELSE outbox
        /\ transport' = TransportAfter(e)
        /\ up' = IF task[transport] = "reading" /\ ~cut[transport]
                 THEN [up EXCEPT ![transport] = up[transport] \o Sent(e)] ELSE up
        /\ down' = [down EXCEPT ![transport] = IF Has(e, "lost") THEN <<>> ELSE q]
        /\ UNCHANGED <<location, jumps, task, at, canon, timeouts, cut>>
    BY DEF Poll, server
  <1>10. adopted' \in Seeds \cup {NoSeed}
    BY <1>6, <1>9, AdoptedType DEF LinkInv, States
  <1>11. l = arrived + Len(q)
    BY <1>4, <1>6
  <1> HIDE DEF e, q
  <1>12. PICK h \in Seq(Hellos) : /\ h = <<Discover(location)>> /\ Len(h) = 1
    <2>1. PICK x \in Hellos : x = Discover(location)
      BY DiscoverFacts DEF LinkInv, States
    <2>2. <<x>> \in Seq(Hellos) /\ Len(<<x>>) = 1
      OBVIOUS
    <2>3. QED
      BY <2>1, <2>2
  <1>13. PICK b \in Nat : b = Len(outbox)
    BY <1>2, LenProperties
  <1>14. /\ h \o outbox \in Seq(Hellos) /\ Len(h \o outbox) = 1 + b
         /\ h \o <<>> = h /\ <<>> \o outbox = outbox /\ <<>> \o <<>> = <<>>
         /\ <<>> \in Seq(Hellos) /\ Len(<<>>) = 0
    BY <1>2, <1>12, <1>13, ConcatProperties, ConcatEmptySeq, EmptySeq
  <1>15. Sent(e) = (IF Has(e, "opened") THEN h ELSE <<>>) \o (IF Flushes(e) THEN outbox ELSE <<>>)
    BY <1>12 DEF Sent
  <1>16. Sent(e) \in Seq(Hellos)
    BY <1>2, <1>12, <1>14, <1>15
  <1>17. CASE Has(e, "lost")
    <2>1. conn' = "errored" /\ transport' = NoSocket /\ outbox' = outbox /\ ~Flushes(e)
      BY <1>9, <1>17 DEF Flushes, TransportAfter
    <2>2. Sent(e) = h \/ Sent(e) = <<>>
      BY <1>14, <1>15, <2>1
    <2>3. Len(Sent(e)) <= arrived
      <3>1. arrived > 0
        BY <1>8, <1>17
      <3>2. PICK m \in {0, 1} : m = Len(Sent(e))
        BY <1>12, <1>14, <2>2
      <3>3. m <= arrived
        BY <1>4, <3>1
      <3>4. QED
        BY <3>2, <3>3
    <2>4. Polled(arrived, e, q, Sent(e))
      BY <1>2, <1>3, <1>5, <1>7, <1>9, <1>10, <1>11, <1>17, <2>1, <2>3 DEF Polled, d
    <2>5. QED
      BY <1>4, <1>6, <1>16, <2>4
  <1>18. CASE ~Has(e, "lost") /\ Flushes(e)
    <2>1. conn' = "connected" /\ transport' = transport /\ outbox' = <<>>
      BY <1>9, <1>18 DEF Flushes, TransportAfter
    <2>2. \/ Has(e, "opened") /\ Sent(e) = h \o outbox
          \/ conn = "connected" /\ Sent(e) = outbox
      BY <1>14, <1>15, <1>18 DEF Flushes
    <2>3. Len(Sent(e)) <= arrived + b
      BY <1>4, <1>8, <1>13, <1>14, <2>2
    <2>4. Polled(arrived, e, q, Sent(e))
      BY <1>2, <1>3, <1>5, <1>7, <1>9, <1>10, <1>11, <1>12, <1>13, <1>18, <2>1, <2>2, <2>3
      DEF Polled, d
    <2>5. QED
      BY <1>4, <1>6, <1>16, <2>4
  <1>19. CASE ~Has(e, "lost") /\ ~Flushes(e)
    <2>1. conn' = conn /\ conn # "connected" /\ transport' = transport /\ outbox' = outbox
      BY <1>9, <1>19 DEF Flushes, TransportAfter
    <2>2. Sent(e) = <<>>
      BY <1>14, <1>15, <1>19, <2>1 DEF Flushes
    <2>3. Polled(arrived, e, q, Sent(e))
      BY <1>2, <1>3, <1>5, <1>7, <1>9, <1>10, <1>11, <1>19, <2>1, <2>2 DEF Polled, d
    <2>4. QED
      BY <1>4, <1>6, <1>16, <2>3
  <1>20. QED
    BY <1>17, <1>18, <1>19

-------------------------------------------------------------------------------
\* Where the client is, and what it has, when it starts.
LEMMA InitLink == Init => LinkInv
  <1> SUFFICES ASSUME Init PROVE LinkInv
    OBVIOUS
  <1>1. <<>> \in Seq(Hellos) /\ <<>> \in Seq(Events) /\ Len(<<>>) = 0
    BY EmptySeq
  <1>2. 1 \in Sockets /\ 0 \in 0..MaxJumps /\ 0 \in 0..MaxTimeouts
    BY Bounds DEF Sockets
  <1>3. States
    BY <1>1, <1>2, HomeIsSystem DEF Init, States
  <1>4. Silent
    BY DEF Init, Silent
  <1>5. Short
    BY <1>1, <1>2 DEF Init, Short, Queued, Ending
  <1>6. LinkNeverStuck /\ Dialled /\ QueuedLast /\ Told
    BY <1>2 DEF Init, LinkNeverStuck, Dialled, QueuedLast, Told, Live, NoSocket
  <1>7. QED
    BY <1>3, <1>4, <1>5, <1>6 DEF LinkInv

\* A poll keeps the types.
LEMMA PollStates ==
    ASSUME LinkInv, NEW arrived \in 0..MaxArrived, Poll(arrived)
    PROVE States' /\ Silent'
  <1>1. PICK n \in Nat, events \in Seq(Events), rest \in Seq(Events), sent \in Seq(Hellos) :
            Polled(n, events, rest, sent)
    BY PollFacts
  <1>2. /\ transport \in Sockets /\ task[transport] \notin {"unused", "dialled"}
        /\ adopted' \in Seeds \cup {NoSeed}
        /\ up' = IF task[transport] = "reading" /\ ~cut[transport]
                 THEN [up EXCEPT ![transport] = up[transport] \o sent] ELSE up
        /\ UNCHANGED <<location, jumps, task, at, canon, timeouts, cut>>
        /\ conn' \in {"errored", "connected", conn} /\ transport' \in {NoSocket, transport}
        /\ outbox' \in {outbox, <<>>}
        /\ \/ down' = [down EXCEPT ![transport] = <<>>]
           \/ down' = [down EXCEPT ![transport] = rest]
    BY <1>1 DEF Polled
  <1>3. <<>> \in Seq(Hellos) /\ <<>> \in Seq(Events)
    BY EmptySeq
  <1>4. up[transport] \o sent \in Seq(Hellos)
    BY <1>2, ConcatProperties DEF LinkInv, States
  <1>5. up' \in [Sockets -> Seq(Hellos)] /\ down' \in [Sockets -> Seq(Events)]
    BY <1>2, <1>3, <1>4 DEF LinkInv, States
  <1>6. States'
    BY <1>2, <1>3, <1>5 DEF LinkInv, States
  <1>7. Silent'
    <2>1. ASSUME NEW s \in Sockets, s # transport PROVE up'[s] = up[s] /\ down'[s] = down[s]
      BY <1>2, <2>1 DEF LinkInv, States
    <2>2. task[transport] # "reading" => up'[transport] = up[transport]
      BY <1>2
    <2>3. QED
      BY <1>2, <2>1, <2>2 DEF LinkInv, Silent
  <1>8. QED
    BY <1>6, <1>7

\* So does every step.
LEMMA NextStates == LinkInv /\ [Next]_vars => States' /\ Silent'
  <1> SUFFICES ASSUME LinkInv, [Next]_vars PROVE States' /\ Silent'
    OBVIOUS
  <1>1. <<>> \in Seq(Hellos) /\ <<>> \in Seq(Events)
    BY EmptySeq
  <1>2. ASSUME NEW k \in Systems, Arrive(k) PROVE States' /\ Silent'
    <2>1. Append(outbox, Discover(k)) \in Seq(Hellos)
      BY DiscoverFacts, AppendProperties DEF LinkInv, States
    <2>2. jumps + 1 \in 0..MaxJumps
      BY <1>2, Bounds DEF Arrive, LinkInv, States
    <2>3. QED
      BY <1>2, <2>1, <2>2 DEF Arrive, LinkInv, States, Silent, server, net
  <1>3. ASSUME PollSome PROVE States' /\ Silent'
    BY <1>3, PollStates DEF PollSome
  <1>4. ASSUME NEW s \in Sockets, Reconnect(s) PROVE States' /\ Silent'
    BY <1>4 DEF Reconnect, LinkInv, States, Silent, net
  <1>5. ASSUME NEW s \in Sockets, NEW x \in Events, NEW t \in {"reading", "ended"},
               task[s] = "dialled", task' = [task EXCEPT ![s] = t], down' = [down EXCEPT ![s] = <<x>>],
               UNCHANGED <<client, at, canon, timeouts, up, cut>>
        PROVE States' /\ Silent'
    <2>1. <<x>> \in Seq(Events)
      OBVIOUS
    <2>2. States'
      BY <1>5, <2>1 DEF LinkInv, States, client
    <2>3. Silent'
      BY <1>5 DEF LinkInv, States, Silent, client
    <2>4. QED
      BY <2>2, <2>3
  <1>6. ASSUME NEW s \in Sockets, Establish(s) \/ Refuse(s) PROVE States' /\ Silent'
    BY <1>5, <1>6, EventFacts DEF Establish, Refuse
  <1>7. ASSUME NEW s \in Sockets, NEW read \in 0..MaxArrived, NEW polled \in 0..MaxArrived,
               Break(s, read, polled)
        PROVE States' /\ Silent'
    <2>1. PICK u, d : u = SubSeq(up[s], 1, read) /\ d = SubSeq(down[s], 1, polled)
      OBVIOUS
    <2>2. u \in Seq(Hellos) /\ d \in Seq(Events)
      BY <1>7, <2>1, CutShort DEF Break, LinkInv, States
    <2>3. Append(d, Lost) \in Seq(Events)
      BY <2>2, EventFacts, AppendProperties
    <2>4. /\ up' = [up EXCEPT ![s] = u] /\ down' = [down EXCEPT ![s] = Append(d, Lost)]
          /\ cut' = [cut EXCEPT ![s] = TRUE] /\ task[s] \in {"reading", "deaf"}
          /\ UNCHANGED <<client, server>>
      BY <1>7, <2>1 DEF Break
    <2>5. States'
      BY <2>2, <2>3, <2>4 DEF LinkInv, States, client, server
    <2>6. task[s] # "reading" => u = <<>>
      <3>1. task[s] # "reading" => up[s] = <<>>
        BY DEF LinkInv, Silent
      <3>2. up[s] = <<>> => u = <<>>
        BY <1>7, <2>1, EmptyPrefix DEF Break
      <3>3. QED
        BY <3>1, <3>2
    <2>7. Silent'
      BY <2>4, <2>6 DEF LinkInv, States, Silent, client, server
    <2>8. QED
      BY <2>5, <2>7
  <1>8. ASSUME NEW s \in Sockets, Serve(s) PROVE States' /\ Silent'
    <2>1. PICK d \in Hellos, x \in Seeds : Served(s, d, x)
      BY <1>8, ServeFacts
    <2>2. Append(down[s], Canonical(d.system, x)) \in Seq(Events)
      BY <2>1, EventFacts, AppendProperties DEF LinkInv, States, Events, Served
    <2>3. /\ task[s] = "reading" /\ at' = [at EXCEPT ![s] = d.system] /\ up' = [up EXCEPT ![s] = Tail(up[s])]
          /\ down' \in {down, [down EXCEPT ![s] = Append(down[s], Canonical(d.system, x))]}
          /\ UNCHANGED <<client, task, timeouts, cut>>
      BY <1>8, <2>1 DEF Serve, Served
    <2>4. States'
      <3>1. canon' \in [Systems -> Seeds \cup {NoSeed}] /\ at' \in [Sockets -> Systems \cup {Nowhere}]
        BY <2>1, <2>3 DEF LinkInv, States, Served
      <3>2. up' \in [Sockets -> Seq(Hellos)] /\ down' \in [Sockets -> Seq(Events)]
        BY <2>1, <2>2, <2>3, ZenonT(30) DEF LinkInv, States, Served
      <3>3. QED
        BY <2>3, <3>1, <3>2 DEF LinkInv, States, client
    <2>5. Silent'
      BY <2>3 DEF LinkInv, States, Silent, client
    <2>6. QED
      BY <2>4, <2>5
  <1>9. ASSUME NEW s \in Sockets, EndSession(s) PROVE States' /\ Silent'
    BY <1>9 DEF EndSession, Departed, LinkInv, States, Silent, client, net
  <1>10. ASSUME NEW s \in Sockets, TimeOut(s) PROVE States' /\ Silent'
    <2>1. timeouts + 1 \in 0..MaxTimeouts
      BY <1>10, Bounds DEF TimeOut, LinkInv, States
    <2>2. QED
      BY <1>1, <1>10, <2>1 DEF TimeOut, Departed, LinkInv, States, Silent, client
  <1>11. ASSUME NEW k \in Systems, NEW x \in Seeds, OtherDiscovers(k, x) PROVE States' /\ Silent'
    BY <1>11 DEF OtherDiscovers, LinkInv, States, Silent, client, net
  <1>12. CASE UNCHANGED vars
    BY <1>12 DEF vars, client, server, net, LinkInv, States, Silent
  <1>13. QED
    BY <1>2, <1>3, <1>4, <1>6, <1>7, <1>8, <1>9, <1>10, <1>11, <1>12 DEF Next

-------------------------------------------------------------------------------
\* What the wires hold, in numbers.
Measured(s, u, d, o, q, j, e) ==
    /\ u = Len(up[s]) /\ d = Len(down[s]) /\ o = Len(outbox) /\ j = jumps
    /\ q = Queued(s) /\ q = (IF s = transport THEN o ELSE 0)
    /\ e = Ending(s) /\ o <= j /\ u + d + q <= j + 1 + e

LEMMA Lengths ==
    ASSUME LinkInv, NEW s \in Sockets
    PROVE \E u \in Nat, d \in Nat, o \in Nat, q \in Nat, j \in Nat, e \in Nat :
            Measured(s, u, d, o, q, j, e)
  <1>1. up[s] \in Seq(Hellos) /\ down[s] \in Seq(Events) /\ outbox \in Seq(Hellos) /\ jumps \in Nat
    BY Bounds DEF LinkInv, States
  <1>2. PICK u \in Nat, d \in Nat, o \in Nat : u = Len(up[s]) /\ d = Len(down[s]) /\ o = Len(outbox)
    BY <1>1, LenProperties
  <1>3. PICK q \in Nat : q = Queued(s) /\ q = (IF s = transport THEN o ELSE 0)
    BY <1>2 DEF Queued
  <1>4. PICK e \in Nat : e = Ending(s)
    BY DEF Ending
  <1>5. o <= jumps /\ u + d + q <= jumps + 1 + e
    BY <1>2, <1>3, <1>4 DEF LinkInv, Short
  <1>6. Measured(s, u, d, o, q, jumps, e)
    BY <1>2, <1>3, <1>4, <1>5 DEF Measured
  <1>7. QED
    BY <1>1, <1>6

\* A socket within its limit after the step.
Within(s) == Len(up[s]) + Len(down[s]) + Queued(s) <= jumps + 1 + Ending(s)

\* The wires stay short: a socket that the step leaves alone does not carry more ...
LEMMA Untouched ==
    ASSUME LinkInv, NEW s \in Sockets, NEW p \in Nat, p = Len(outbox'), p <= Len(outbox),
           jumps' = jumps, up'[s] = up[s], down'[s] = down[s], cut'[s] = cut[s],
           transport' = s => transport = s
    PROVE Within(s)'
  <1>1. PICK u \in Nat, d \in Nat, o \in Nat, q \in Nat, j \in Nat, e \in Nat :
            Measured(s, u, d, o, q, j, e)
    BY Lengths
  <1>2. Ending(s)' = e
    BY <1>1 DEF Ending, Measured
  <1>3. PICK r \in Nat : r = Queued(s)' /\ r <= q
    BY <1>1 DEF Queued, Measured
  <1>4. u + d + r <= j + 1 + e
    <2>1. u + d + q <= j + 1 + e
      BY <1>1 DEF Measured
    <2>2. QED
      BY <1>3, <2>1
  <1>5. QED
    BY <1>1, <1>2, <1>3, <1>4 DEF Measured, Within

\* ... nor does one that is polled, dialled, opened, refused, broken or served.
LEMMA PollShort ==
    ASSUME LinkInv, NEW arrived \in 0..MaxArrived, Poll(arrived)
    PROVE Short'
  <1>1. PICK n \in Nat, events \in Seq(Events), rest \in Seq(Events), sent \in Seq(Hellos) :
            Polled(n, events, rest, sent)
    BY PollFacts
  <1> DEFINE t == transport
  <1>2. t \in Sockets /\ 0 \notin Sockets /\ cut' = cut /\ jumps' = jumps
    BY <1>1, Bounds DEF Polled, Sockets
  <1>3. PICK u \in Nat, d \in Nat, o \in Nat, q \in Nat, j \in Nat, e \in Nat :
            Measured(t, u, d, o, q, j, e)
    BY <1>2, Lengths
  <1>4. PICK b \in Nat, m \in Nat : b = Len(rest) /\ m = Len(sent) /\ d = n + b
    BY <1>1, <1>3, LenProperties DEF Polled, Measured
  <1>5. PICK p \in Nat : p = Len(outbox') /\ p <= o /\ o = Len(outbox)
    BY <1>1, <1>3, EmptySeq DEF Polled, Measured
  <1>6. /\ up[t] \in Seq(Hellos) /\ up' \in {up, [up EXCEPT ![t] = up[t] \o sent]}
        /\ down' \in {[down EXCEPT ![t] = <<>>], [down EXCEPT ![t] = rest]}
        /\ up \in [Sockets -> Seq(Hellos)] /\ down \in [Sockets -> Seq(Events)]
    BY <1>1, <1>2 DEF Polled, LinkInv, States
  <1>7. PICK v \in {u, u + m} : v = Len(up'[t])
    <2>1. Len(up[t] \o sent) = u + m
      BY <1>3, <1>4, <1>6, ConcatProperties DEF Measured
    <2>2. up'[t] \in {up[t], up[t] \o sent}
      BY <1>2, <1>6
    <2>3. QED
      BY <1>3, <2>1, <2>2 DEF Measured
  <1>8. ASSUME NEW r \in Sockets, r # t PROVE Within(r)'
    <2>1. up'[r] = up[r] /\ down'[r] = down[r] /\ cut'[r] = cut[r] /\ transport' # r
      BY <1>1, <1>2, <1>6, <1>8 DEF Polled, NoSocket
    <2>2. QED
      BY <1>2, <1>5, <2>1, Untouched
  <1>9. ASSUME NEW r \in Sockets, r = t PROVE Within(r)'
    <2>1. Ending(r)' = e
      BY <1>2, <1>3, <1>9 DEF Ending, Measured
    <2>2. \/ Queued(r)' = 0 /\ Len(down'[r]) = 0 /\ m <= n
          \/ Queued(r)' = 0 /\ Len(down'[r]) = b /\ m <= n + o
          \/ Queued(r)' = o /\ Len(down'[r]) = b /\ m = 0
      BY <1>1, <1>2, <1>3, <1>4, <1>5, <1>6, <1>9, EmptySeq DEF Polled, Measured, Queued, NoSocket
    <2>3. q = o /\ u + d + q <= j + 1 + e /\ j = jumps /\ Len(up'[r]) = v
      BY <1>3, <1>7, <1>9 DEF Measured
    <2>4. PICK y \in {0, o}, z \in {0, b} : /\ y = Queued(r)' /\ z = Len(down'[r])
                                            /\ v + z + y <= j + 1 + e
      <3>1. v <= u + m
        BY <1>7
      <3>2. CASE Queued(r)' = 0 /\ Len(down'[r]) = 0 /\ m <= n
        BY <1>4, <2>3, <3>1, <3>2
      <3>3. CASE Queued(r)' = 0 /\ Len(down'[r]) = b /\ m <= n + o
        BY <1>4, <2>3, <3>1, <3>3
      <3>4. CASE Queued(r)' = o /\ Len(down'[r]) = b /\ m = 0
        BY <1>4, <2>3, <3>1, <3>4
      <3>5. QED
        BY <2>2, <3>2, <3>3, <3>4
    <2>5. QED
      BY <1>2, <2>1, <2>3, <2>4 DEF Within
  <1>10. p <= j /\ j = jumps'
    BY <1>2, <1>3, <1>5 DEF Measured
  <1>11. QED
    BY <1>5, <1>8, <1>9, <1>10 DEF Short, Within

LEMMA NextShort == LinkInv /\ [Next]_vars => Short'
  <1> SUFFICES ASSUME LinkInv, [Next]_vars PROVE Short'
    OBVIOUS
  <1>1. PICK o \in Nat, j \in Nat : o = Len(outbox) /\ j = jumps /\ o <= j
    <2>1. Len(outbox) \in Nat /\ jumps \in Nat
      BY Bounds, LenProperties DEF LinkInv, States
    <2>2. QED
      BY <2>1 DEF LinkInv, Short
  <1>2. ASSUME UNCHANGED <<outbox, jumps>>, NEW s \in Sockets, Within(s)',
               transport' = transport \/ transport' = s,
               \A r \in Sockets \ {s} : up'[r] = up[r] /\ down'[r] = down[r] /\ cut'[r] = cut[r]
        PROVE Short'
    <2>1. ASSUME NEW r \in Sockets, r # s PROVE Within(r)'
      BY <1>1, <1>2, <2>1, Untouched
    <2>2. QED
      BY <1>1, <1>2, <2>1 DEF Short, Within
  <1>3. ASSUME UNCHANGED <<outbox, jumps, up, down, cut, transport>> PROVE Short'
    <2>1. ASSUME NEW r \in Sockets PROVE Within(r)'
      BY <1>1, <1>3, Untouched
    <2>2. QED
      BY <1>1, <1>3, <2>1 DEF Short, Within
  <1>4. ASSUME NEW k \in Systems, Arrive(k) PROVE Short'
    <2>1. Len(outbox') = o + 1 /\ jumps' = j + 1 /\ UNCHANGED <<up, down, cut, transport>>
      <3>1. outbox' = Append(outbox, Discover(k)) /\ Discover(k) \in Hellos /\ outbox \in Seq(Hellos)
        BY <1>4, DiscoverFacts DEF Arrive, LinkInv, States
      <3>2. Len(outbox') = Len(outbox) + 1
        BY <3>1, AppendProperties
      <3>3. QED
        BY <1>1, <1>4, <3>2 DEF Arrive, server, net
    <2>2. ASSUME NEW s \in Sockets PROVE Within(s)'
      <3>1. PICK u \in Nat, d \in Nat, q \in Nat, e \in Nat : Measured(s, u, d, o, q, j, e)
        BY <1>1, Lengths DEF Measured
      <3>2. Ending(s)' = e /\ Len(up'[s]) = u /\ Len(down'[s]) = d
        BY <2>1, <3>1 DEF Ending, Measured
      <3>3. PICK r \in Nat : r = Queued(s)' /\ r <= q + 1
        BY <2>1, <3>1 DEF Queued, Measured
      <3>4. u + d + r <= (j + 1) + 1 + e
        <4>1. u + d + q <= j + 1 + e
          BY <3>1 DEF Measured
        <4>2. QED
          BY <3>3, <4>1
      <3>5. QED
        BY <2>1, <3>2, <3>3, <3>4 DEF Within
    <2>3. o + 1 <= j + 1
      BY <1>1
    <2>4. QED
      BY <2>1, <2>2, <2>3 DEF Short, Within
  <1>5. ASSUME PollSome PROVE Short'
    BY <1>5, PollShort DEF PollSome
  <1>6. ASSUME NEW s \in Sockets, Reconnect(s) PROVE Short'
    <2>1. UNCHANGED <<outbox, jumps, up, down, cut>> /\ transport' = s
      BY <1>6 DEF Reconnect, net
    <2>2. Within(s)'
      <3>1. up[s] = <<>> /\ down[s] = <<>>
        BY <1>6 DEF Reconnect, LinkInv, Silent
      <3>2. PICK e \in Nat : e = Ending(s)'
        BY DEF Ending
      <3>3. Len(up'[s]) = 0 /\ Len(down'[s]) = 0 /\ Queued(s)' = o
        BY <1>1, <2>1, <3>1, EmptySeq DEF Queued
      <3>4. 0 + 0 + o <= j + 1 + e
        BY <1>1
      <3>5. QED
        BY <1>1, <2>1, <3>2, <3>3, <3>4 DEF Within
    <2>3. QED
      BY <1>2, <2>1, <2>2
  <1>7. ASSUME NEW s \in Sockets, task[s] = "dialled", NEW x, down' = [down EXCEPT ![s] = <<x>>],
               UNCHANGED <<client, up, cut>>
        PROVE Short'
    <2>1. /\ UNCHANGED <<outbox, jumps, transport>>
          /\ \A r \in Sockets \ {s} : up'[r] = up[r] /\ down'[r] = down[r] /\ cut'[r] = cut[r]
      BY <1>7 DEF client, LinkInv, States
    <2>2. Within(s)'
      <3>1. up'[s] = <<>> /\ down'[s] = <<x>>
        BY <1>7 DEF LinkInv, Silent, States
      <3>2. PICK e \in Nat : e = Ending(s)'
        BY DEF Ending
      <3>3. PICK q \in Nat : q = Queued(s)' /\ q <= o
        BY <1>1, <2>1 DEF Queued
      <3>4. Len(up'[s]) = 0 /\ Len(down'[s]) = 1
        BY <3>1, EmptySeq
      <3>5. 0 + 1 + q <= j + 1 + e
        BY <1>1, <3>3
      <3>6. QED
        BY <1>1, <2>1, <3>2, <3>3, <3>4, <3>5 DEF Within
    <2>3. QED
      BY <1>2, <2>1, <2>2
  <1>8. ASSUME NEW s \in Sockets, Establish(s) \/ Refuse(s) PROVE Short'
    <2>1. PICK x \in {Opened, Lost} : down' = [down EXCEPT ![s] = <<x>>]
      BY <1>8 DEF Establish, Refuse
    <2>2. task[s] = "dialled" /\ UNCHANGED <<client, up, cut>>
      BY <1>8 DEF Establish, Refuse
    <2>3. QED
      BY <1>7, <2>1, <2>2
  <1>9. ASSUME NEW s \in Sockets, NEW read \in 0..MaxArrived, NEW polled \in 0..MaxArrived,
               Break(s, read, polled)
        PROVE Short'
    <2>1. /\ UNCHANGED <<outbox, jumps, transport>> /\ cut'[s] = TRUE /\ cut[s] = FALSE
          /\ \A r \in Sockets \ {s} : up'[r] = up[r] /\ down'[r] = down[r] /\ cut'[r] = cut[r]
      BY <1>9 DEF Break, client, LinkInv, States
    <2>2. /\ up[s] \in Seq(Hellos) /\ read \in 0..Len(up[s])
          /\ down[s] \in Seq(Events) /\ polled \in 0..Len(down[s])
      BY <1>9 DEF Break, LinkInv, States
    <2>3. Len(SubSeq(up[s], 1, read)) = read
      BY <2>2, CutShort
    <2>4. PICK x : x = SubSeq(down[s], 1, polled) /\ x \in Seq(Events) /\ Len(x) = polled
      BY <2>2, CutShort
    <2>5. Len(Append(x, Lost)) = polled + 1
      BY <2>4, EventFacts, AppendProperties
    <2>6. Len(up'[s]) = read /\ Len(down'[s]) = polled + 1
      BY <1>9, <2>3, <2>4, <2>5 DEF Break, LinkInv, States
    <2>7. PICK u \in Nat, d \in Nat, q \in Nat : Measured(s, u, d, o, q, j, 0)
      BY <1>1, <2>1, Lengths DEF Measured, Ending
    <2>8. Within(s)'
      <3>1. Ending(s)' = 1 /\ Queued(s)' = q
        BY <2>1, <2>7 DEF Ending, Measured, Queued
      <3>2. read \in Nat /\ polled \in Nat /\ read <= u /\ polled <= d
        <4>1. u = Len(up[s]) /\ d = Len(down[s])
          BY <2>7 DEF Measured
        <4>2. read \in 0..u /\ polled \in 0..d
          BY <2>2, <4>1
        <4>3. QED
          BY <4>2
      <3>3. u + d + q <= j + 1 + 0
        BY <2>7 DEF Measured
      <3>4. read + (polled + 1) + q <= j + 1 + 1
        BY <3>2, <3>3
      <3>5. QED
        BY <1>1, <2>1, <2>6, <3>1, <3>4 DEF Within
    <2>9. QED
      BY <1>2, <2>1, <2>8
  <1>10. ASSUME NEW s \in Sockets, Serve(s) PROVE Short'
    <2>1. PICK h \in Hellos, x \in Seeds : Served(s, h, x)
      BY <1>10, ServeFacts
    <2>2. /\ UNCHANGED <<outbox, jumps, transport, cut>>
          /\ \A r \in Sockets \ {s} : up'[r] = up[r] /\ down'[r] = down[r]
      BY <1>10 DEF Serve, client, LinkInv, States
    <2>3. PICK u \in Nat, d \in Nat, q \in Nat, e \in Nat : Measured(s, u, d, o, q, j, e)
      BY <1>1, Lengths DEF Measured
    <2>4. PICK t \in Nat : t = Len(up'[s]) /\ u = t + 1
      <3>1. up'[s] = Tail(up[s])
        BY <1>10 DEF Serve, LinkInv, States
      <3>2. Len(Tail(up[s])) \in Nat /\ u = Len(Tail(up[s])) + 1
        BY <2>1, <2>3, LenProperties DEF Served, Measured
      <3>3. QED
        BY <3>1, <3>2
    <2>5. PICK w \in Nat : w = Len(down'[s]) /\ w <= d + 1
      <3>1. \/ down'[s] = down[s]
            \/ down'[s] = Append(down[s], Canonical(h.system, x))
        BY <1>10, <2>1 DEF Serve, Served, LinkInv, States
      <3>2. Canonical(h.system, x) \in Events
        BY <2>1, EventFacts DEF Served, Events
      <3>3. Len(Append(down[s], Canonical(h.system, x))) = d + 1
        BY <2>3, <3>2, AppendProperties DEF LinkInv, States, Measured
      <3>4. Len(down'[s]) = d \/ Len(down'[s]) = d + 1
        BY <2>3, <3>1, <3>3 DEF Measured
      <3>5. QED
        BY <3>4
    <2>6. Within(s)'
      <3>1. Ending(s)' = e /\ Queued(s)' = q
        BY <2>2, <2>3 DEF Ending, Measured, Queued
      <3>2. u + d + q <= j + 1 + e
        BY <2>3 DEF Measured
      <3>3. t + w + q <= j + 1 + e
        <4>1. u = t + 1 /\ w <= d + 1
          BY <2>4, <2>5
        <4>2. QED
          BY <3>2, <4>1
      <3>4. QED
        BY <1>1, <2>2, <2>4, <2>5, <3>1, <3>3 DEF Within
    <2>7. QED
      BY <1>2, <2>2, <2>6
  <1>11. ASSUME NEW s \in Sockets, EndSession(s) PROVE Short'
    BY <1>3, <1>11 DEF EndSession, client, net
  <1>12. ASSUME NEW s \in Sockets, TimeOut(s) PROVE Short'
    <2>1. /\ UNCHANGED <<outbox, jumps, transport, cut, down>>
          /\ \A r \in Sockets \ {s} : up'[r] = up[r]
          /\ up'[s] = <<>>
      BY <1>12 DEF TimeOut, client, LinkInv, States
    <2>2. Within(s)'
      <3>1. PICK u \in Nat, d \in Nat, q \in Nat, e \in Nat : Measured(s, u, d, o, q, j, e)
        BY <1>1, Lengths DEF Measured
      <3>2. Len(up'[s]) = 0 /\ Len(down'[s]) = d /\ Queued(s)' = q /\ Ending(s)' = e
        BY <2>1, <3>1, EmptySeq DEF Measured, Queued, Ending
      <3>3. u + d + q <= j + 1 + e
        BY <3>1 DEF Measured
      <3>4. 0 + d + q <= j + 1 + e
        BY <3>3
      <3>5. QED
        BY <1>1, <2>1, <3>2, <3>4 DEF Within
    <2>3. QED
      BY <1>2, <2>1, <2>2
  <1>13. ASSUME NEW k \in Systems, NEW x \in Seeds, OtherDiscovers(k, x) PROVE Short'
    BY <1>3, <1>13 DEF OtherDiscovers, client, net
  <1>14. CASE UNCHANGED vars
    BY <1>3, <1>14 DEF vars, client, net
  <1>15. QED
    BY <1>4, <1>5, <1>6, <1>8, <1>9, <1>10, <1>11, <1>12, <1>13, <1>14 DEF Next

\* A link without a transport is the one that reconnects, a connected one has been dialled
\* and opened, and the latest arrival is queued last.
LEMMA NextDialled == LinkInv /\ [Next]_vars => LinkNeverStuck' /\ Dialled' /\ QueuedLast'
  <1> SUFFICES ASSUME LinkInv, [Next]_vars PROVE LinkNeverStuck' /\ Dialled' /\ QueuedLast'
    OBVIOUS
  <1>1. 0 \notin Sockets
    BY Bounds DEF Sockets
  <1>2. ASSUME UNCHANGED client,
               \A s \in Sockets : task[s] \notin {"unused", "dialled"} => task'[s] \notin {"unused", "dialled"}
        PROVE LinkNeverStuck' /\ Dialled' /\ QueuedLast'
    <2>1. conn = "connected" => transport \in Sockets
      BY DEF LinkInv, States, LinkNeverStuck
    <2>2. QED
      BY <1>2, <2>1 DEF client, LinkInv, LinkNeverStuck, Dialled, QueuedLast
  <1>3. ASSUME NEW k \in Systems, Arrive(k) PROVE LinkNeverStuck' /\ Dialled' /\ QueuedLast'
    <2>1. /\ UNCHANGED <<conn, transport, task>> /\ location' = k
          /\ outbox' = Append(outbox, Discover(k))
      BY <1>3 DEF Arrive, server
    <2>2. QueuedLast'
      <3>1. Discover(k) \in Hellos /\ outbox \in Seq(Hellos)
        BY DiscoverFacts DEF LinkInv, States
      <3>2. PICK n \in Nat : n = Len(outbox)
        BY <3>1, LenProperties
      <3>3. Len(outbox') = n + 1 /\ outbox'[n + 1] = Discover(k)
        BY <2>1, <3>1, <3>2, AppendProperties
      <3>4. QED
        BY <2>1, <3>3 DEF QueuedLast, Discover
    <2>3. QED
      BY <2>1, <2>2 DEF LinkInv, LinkNeverStuck, Dialled
  <1>4. ASSUME PollSome PROVE LinkNeverStuck' /\ Dialled' /\ QueuedLast'
    <2>1. PICK n \in Nat, events \in Seq(Events), rest \in Seq(Events), sent \in Seq(Hellos) :
            Polled(n, events, rest, sent)
      BY <1>4, PollFacts DEF PollSome
    <2>2. transport \in Sockets /\ conn # "errored"
      BY <1>1, <2>1 DEF Polled, LinkInv, LinkNeverStuck, NoSocket
    <2>3. QED
      BY <1>1, <2>1, <2>2 DEF Polled, LinkInv, LinkNeverStuck, Dialled, QueuedLast, NoSocket, Discover
  <1>5. ASSUME NEW s \in Sockets, Reconnect(s) PROVE LinkNeverStuck' /\ Dialled' /\ QueuedLast'
    BY <1>1, <1>5 DEF Reconnect, LinkInv, LinkNeverStuck, Dialled, QueuedLast, NoSocket, Discover
  <1>6. ASSUME NEW s \in Sockets, NEW read \in 0..MaxArrived, NEW polled \in 0..MaxArrived,
               \/ Establish(s) \/ Refuse(s) \/ Break(s, read, polled) \/ Serve(s)
               \/ EndSession(s) \/ TimeOut(s)
        PROVE LinkNeverStuck' /\ Dialled' /\ QueuedLast'
    <2>1. UNCHANGED client /\ task' \in {task, [task EXCEPT ![s] = "reading"],
                                         [task EXCEPT ![s] = "ended"], [task EXCEPT ![s] = "deaf"]}
      BY <1>6 DEF Establish, Refuse, Break, Serve, EndSession, TimeOut, server
    <2>2. QED
      BY <1>2, <2>1 DEF LinkInv, States
  <1>7. ASSUME NEW k \in Systems, NEW x \in Seeds, OtherDiscovers(k, x)
        PROVE LinkNeverStuck' /\ Dialled' /\ QueuedLast'
    BY <1>2, <1>7 DEF OtherDiscovers
  <1>8. CASE UNCHANGED vars
    BY <1>2, <1>8 DEF vars, server
  <1>9. 0 \in 0..MaxArrived
    BY Bounds DEF MaxArrived
  <1>10. QED
    BY <1>3, <1>4, <1>5, <1>6, <1>7, <1>8, <1>9 DEF Next

-------------------------------------------------------------------------------
\* A step that does not touch the live link, and changes no canonical seed once it is set.
LEMMA ToldKept ==
    ASSUME LinkInv, UNCHANGED client,
           Live' => /\ task'[transport] = task[transport] /\ cut'[transport] = cut[transport]
                    /\ up'[transport] = up[transport] /\ down'[transport] = down[transport]
                    /\ at'[transport] = at[transport],
           canon[location] # NoSeed => canon'[location] = canon[location]
    PROVE Told'
  <1> SUFFICES ASSUME Live' PROVE Told'
    BY DEF Told
  <1>1. /\ conn' = conn /\ transport' = transport /\ location' = location /\ outbox' = outbox
        /\ adopted' = adopted
    BY DEF client
  <1>2. Live
    BY <1>1 DEF Live
  <1>3. Pending' = Pending
    BY <1>1 DEF Pending
  <1>4. AdoptedAfter(down[transport])' = AdoptedAfter(down[transport])
    BY <1>1 DEF AdoptedAfter
  <1>5. CASE Pending = <<>>
    <2>1. at[transport] = location /\ canon[location] # NoSeed
          /\ AdoptedAfter(down[transport]) = canon[location]
      BY <1>2, <1>5 DEF LinkInv, Told
    <2>2. at'[transport'] = location' /\ canon'[location'] = canon[location]
      BY <1>1, <2>1
    <2>3. QED
      BY <1>3, <1>4, <1>5, <2>1, <2>2 DEF Told
  <1>6. CASE Pending # <<>>
    <2>1. Pending[Len(Pending)] = Discover(location)
      BY <1>2, <1>6 DEF LinkInv, Told
    <2>2. QED
      BY <1>1, <1>3, <1>6, <2>1 DEF Told, Discover
  <1>7. QED
    BY <1>5, <1>6

\* A poll greets, or passes on what was pending; and adopts what has arrived.
LEMMA PollTold ==
    ASSUME LinkInv, NEW arrived \in 0..MaxArrived, Poll(arrived)
    PROVE Told'
  <1> SUFFICES ASSUME Live' PROVE Told'
    BY DEF Told
  <1>1. PICK n \in Nat, events \in Seq(Events), rest \in Seq(Events), sent \in Seq(Hellos) :
            Polled(n, events, rest, sent)
    BY PollFacts
  <1> DEFINE t == transport
  <1>2. /\ t \in Sockets /\ transport' = t /\ outbox' = <<>> /\ location' = location
        /\ task[t] = "reading" /\ ~cut[t] /\ at' = at /\ canon' = canon
        /\ down' = [down EXCEPT ![t] = rest] /\ up' = [up EXCEPT ![t] = up[t] \o sent]
        /\ down[t] = events \o rest /\ adopted' = AdoptedAfter(events)
        /\ \/ sent = <<Discover(location)>> \o outbox
           \/ conn = "connected" /\ sent = outbox
    BY <1>1 DEF Polled, Live
  <1>3. up[t] \in Seq(Hellos) /\ outbox \in Seq(Hellos) /\ up'[t] = up[t] \o sent /\ down'[t] = rest
    BY <1>2 DEF LinkInv, States
  <1>4. Pending' = up[t] \o sent
    <2>1. up[t] \o sent \in Seq(Hellos)
      BY <1>3, ConcatProperties
    <2>2. (up[t] \o sent) \o <<>> = up[t] \o sent
      BY <2>1, ConcatEmptySeq
    <2>3. QED
      BY <1>2, <1>3, <2>2 DEF Pending
  <1>5. CASE sent = <<Discover(location)>> \o outbox
    <2>1. PICK h \in Seq(Hellos) : h = <<Discover(location)>> /\ h # <<>> /\ h[Len(h)] = Discover(location)
      <3>1. PICK x \in Hellos : x = Discover(location)
        BY DiscoverFacts DEF LinkInv, States
      <3>2. <<x>> \in Seq(Hellos) /\ <<x>> # <<>> /\ <<x>>[Len(<<x>>)] = x
        OBVIOUS
      <3>3. QED
        BY <3>1, <3>2
    <2>2. sent # <<>> /\ sent[Len(sent)] = Discover(location)
      <3>1. CASE outbox = <<>>
        BY <1>5, <2>1, <3>1, ConcatEmptySeq
      <3>2. CASE outbox # <<>>
        <4>1. outbox[Len(outbox)] = Discover(location)
          BY <3>2 DEF LinkInv, QueuedLast
        <4>2. QED
          BY <1>3, <1>5, <2>1, <3>2, <4>1, LastOfConcat
      <3>3. QED
        BY <3>1, <3>2
    <2>3. Pending' # <<>> /\ Pending'[Len(Pending')] = Discover(location)
      BY <1>3, <1>4, <2>2, LastOfConcat
    <2>4. QED
      BY <1>2, <2>3 DEF Told, Discover
  <1>6. CASE conn = "connected" /\ sent = outbox
    <2>1. Live /\ Pending' = Pending
      BY <1>2, <1>4, <1>6 DEF Live, Pending
    <2>2. CASE Pending = <<>>
      <3>1. at[t] = location /\ canon[location] # NoSeed /\ AdoptedAfter(down[t]) = canon[location]
        BY <2>1, <2>2 DEF LinkInv, Told
      <3>2. AdoptedAfter(rest)' = AdoptedAfter(down[t])
        BY <1>2, AdoptedInTurn
      <3>3. AdoptedAfter(down[transport])' = AdoptedAfter(rest)'
        BY <1>2, <1>3 DEF AdoptedAfter
      <3>4. QED
        BY <1>2, <2>1, <2>2, <3>1, <3>2, <3>3 DEF Told
    <2>3. CASE Pending # <<>>
      <3>1. Pending[Len(Pending)] = Discover(location)
        BY <2>1, <2>3 DEF LinkInv, Told
      <3>2. QED
        BY <1>2, <2>1, <2>3, <3>1 DEF Told, Discover
    <2>4. QED
      BY <2>2, <2>3
  <1>7. QED
    BY <1>2, <1>5, <1>6

\* The session takes the next discovery, and answers the last one with what is adopted then.
LEMMA ServeTold ==
    ASSUME LinkInv, NEW s \in Sockets, Serve(s), s = transport
    PROVE Told'
  <1> SUFFICES ASSUME Live' PROVE Told'
    BY DEF Told
  <1>1. PICK d \in Hellos, x \in Seeds : Served(s, d, x)
    BY ServeFacts
  <1> DEFINE u == Tail(up[s])
  <1>2. UNCHANGED client /\ UNCHANGED <<task, cut>> /\ up[s] # <<>> /\ up' = [up EXCEPT ![s] = u]
        /\ at' = [at EXCEPT ![s] = d.system]
    BY <1>1 DEF Serve, Served
  <1>3. conn' = conn /\ transport' = s /\ location' = location /\ outbox' = outbox /\ adopted' = adopted
    BY <1>2 DEF client
  <1>4. Live
    BY <1>2, <1>3 DEF Live
  <1>5. down' = [down EXCEPT ![s] = Append(down[s], Canonical(d.system, x))]
    BY <1>1, <1>4 DEF Serve, Served, Live
  <1>6. u \in Seq(Hellos) /\ outbox \in Seq(Hellos) /\ <<d>> \in Seq(Hellos) /\ up[s] = <<d>> \o u
    BY <1>1 DEF Served, LinkInv, States
  <1>7. up'[s] = u /\ at'[s] = d.system /\ down'[s] = Append(down[s], Canonical(d.system, x))
        /\ down[s] \in Seq(Events)
    BY <1>2, <1>5 DEF LinkInv, States
  <1> HIDE DEF u
  <1>8. PICK p \in Seq(Hellos) : p = u \o outbox /\ Pending' = p
    BY <1>3, <1>6, <1>7, ConcatProperties DEF Pending
  <1>9. Pending = <<d>> \o p
    BY <1>6, <1>8, ConcatAssociative DEF Pending
  <1>10. Pending # <<>>
    BY <1>2, <1>6, <1>9, ConcatEqualIffEmpty DEF LinkInv, States
  <1>11. Pending[Len(Pending)] = Discover(location)
    BY <1>4, <1>10 DEF LinkInv, Told
  <1>12. CASE p = <<>>
    <2>1. PICK h \in Seq(Hellos) : h = <<d>> /\ h[Len(h)] = d
      BY <1>6
    <2>2. Pending = h
      BY <1>9, <1>12, <2>1, ConcatEmptySeq
    <2>3. d = Discover(location) /\ d.system = location /\ location \in Systems
      BY <1>11, <2>1, <2>2, DiscoverFacts DEF LinkInv, States
    <2>4. canon'[location] = x /\ x # NoSeed
      BY <1>1, <2>3, LocalSeeds DEF Served, LinkInv, States
    <2>5. AdoptedAfter(down[transport])' = x
      <3>1. PICK e \in Seq(Events) : e = down'[s]
        <4>1. Canonical(d.system, x) \in Events
          BY <2>3, EventFacts DEF Events
        <4>2. QED
          BY <1>7, <4>1, AppendProperties
      <3>2. AdoptedAfter(down[transport])' = AdoptedAfter(e)
        BY <1>3, <3>1 DEF AdoptedAfter
      <3>3. AdoptedAfter(Append(down[s], Canonical(location, x))) = x
        BY <1>7, <2>3, AdoptedLast
      <3>4. QED
        BY <1>7, <2>3, <3>1, <3>2, <3>3
    <2>6. QED
      BY <1>3, <1>7, <1>8, <1>12, <2>3, <2>4, <2>5 DEF Told
  <1>13. CASE p # <<>>
    <2>1. p[Len(p)] = Discover(location)
      BY <1>6, <1>9, <1>11, <1>13, LastOfConcat
    <2>2. QED
      BY <1>3, <1>8, <1>13, <2>1 DEF Told, Discover
  <1>14. QED
    BY <1>12, <1>13

LEMMA NextTold == LinkInv /\ [Next]_vars => Told'
  <1> SUFFICES ASSUME LinkInv, [Next]_vars PROVE Told'
    OBVIOUS
  <1>1. conn = "connected" => transport \in Sockets /\ task[transport] \notin {"unused", "dialled"}
    BY DEF LinkInv, States, LinkNeverStuck, Dialled
  <1>2. ASSUME NEW s \in Sockets, UNCHANGED client, Live' => transport # s,
               \A r \in Sockets \ {s} : /\ task'[r] = task[r] /\ at'[r] = at[r] /\ cut'[r] = cut[r]
                                        /\ up'[r] = up[r] /\ down'[r] = down[r],
               canon[location] # NoSeed => canon'[location] = canon[location]
        PROVE Told'
    <2>1. Live' => conn = "connected"
      BY <1>2 DEF Live, client
    <2>2. QED
      BY <1>1, <1>2, <2>1, ToldKept
  <1>3. ASSUME NEW k \in Systems, Arrive(k) PROVE Told'
    <2>1. /\ conn' = conn /\ transport' = transport /\ location' = k /\ up' = up
          /\ outbox' = Append(outbox, Discover(k))
      BY <1>3 DEF Arrive, net
    <2>2. SUFFICES ASSUME transport \in Sockets
                   PROVE Pending' # <<>> /\ Pending'[Len(Pending')] = Discover(k)
      BY <1>1, <2>1 DEF Told, Live, Discover
    <2>3. Discover(k) \in Hellos /\ outbox \in Seq(Hellos) /\ up[transport] \in Seq(Hellos)
      BY <2>2, DiscoverFacts DEF LinkInv, States
    <2>4. PICK o \in Seq(Hellos), n \in Nat :
                o = outbox' /\ o # <<>> /\ n + 1 = Len(o) /\ o[n + 1] = Discover(k)
      BY <2>1, <2>3, AppendProperties, LenProperties
    <2>5. Pending' = up[transport] \o o
      BY <2>1, <2>4 DEF Pending
    <2>6. QED
      BY <2>3, <2>4, <2>5, LastOfConcat
  <1>4. ASSUME PollSome PROVE Told'
    BY <1>4, PollTold DEF PollSome
  <1>5. ASSUME NEW s \in Sockets, Reconnect(s) PROVE Told'
    BY <1>5 DEF Reconnect, Told, Live
  <1>6. ASSUME NEW s \in Sockets, Establish(s) \/ Refuse(s) PROVE Told'
    <2>1. task[s] = "dialled" /\ UNCHANGED <<client, at, canon, up, cut>>
      BY <1>6 DEF Establish, Refuse
    <2>2. \A r \in Sockets \ {s} : task'[r] = task[r] /\ down'[r] = down[r]
      BY <1>6 DEF Establish, Refuse, LinkInv, States
    <2>3. Live' => transport # s
      BY <1>1, <2>1 DEF Live, client
    <2>4. QED
      BY <1>2, <2>1, <2>2, <2>3
  <1>7. ASSUME NEW s \in Sockets, NEW read \in 0..MaxArrived, NEW polled \in 0..MaxArrived,
               Break(s, read, polled)
        PROVE Told'
    <2>1. UNCHANGED <<client, task, at, canon>> /\ cut'[s]
      BY <1>7 DEF Break, server, LinkInv, States
    <2>2. \A r \in Sockets \ {s} : up'[r] = up[r] /\ down'[r] = down[r] /\ cut'[r] = cut[r]
      BY <1>7 DEF Break, LinkInv, States
    <2>3. Live' => transport # s
      BY <2>1 DEF Live, client
    <2>4. QED
      BY <1>2, <2>1, <2>2, <2>3
  <1>8. ASSUME NEW s \in Sockets, Serve(s) PROVE Told'
    <2>1. CASE s = transport
      BY <1>8, <2>1, ServeTold
    <2>2. CASE s # transport
      <3>1. PICK d \in Hellos, x \in Seeds : Served(s, d, x)
        BY <1>8, ServeFacts
      <3>2. canon[location] # NoSeed => canon'[location] = canon[location]
        BY <3>1 DEF Served, LinkInv, States
      <3>3. UNCHANGED <<client, task, cut>>
        BY <1>8 DEF Serve
      <3>4. \A r \in Sockets \ {s} : at'[r] = at[r] /\ up'[r] = up[r] /\ down'[r] = down[r]
        BY <1>8 DEF Serve, LinkInv, States
      <3>5. QED
        BY <1>2, <2>2, <3>2, <3>3, <3>4
    <2>3. QED
      BY <2>1, <2>2
  <1>9. ASSUME NEW s \in Sockets, EndSession(s) \/ TimeOut(s) PROVE Told'
    <2>1. UNCHANGED <<client, canon, down, cut>> /\ (cut[s] \/ task'[s] = "deaf")
      BY <1>9 DEF EndSession, TimeOut, net, LinkInv, States
    <2>2. \A r \in Sockets \ {s} : task'[r] = task[r] /\ at'[r] = at[r] /\ up'[r] = up[r]
      BY <1>9 DEF EndSession, TimeOut, Departed, net, LinkInv, States
    <2>3. Live' => transport # s
      BY <2>1 DEF Live, client
    <2>4. QED
      BY <1>2, <2>1, <2>2, <2>3
  <1>10. ASSUME NEW k \in Systems, NEW x \in Seeds, OtherDiscovers(k, x) PROVE Told'
    <2>1. canon[location] # NoSeed => canon'[location] = canon[location]
      BY <1>10 DEF OtherDiscovers, LinkInv, States
    <2>2. QED
      BY <1>10, <2>1, ToldKept DEF OtherDiscovers, net
  <1>11. CASE UNCHANGED vars
    BY <1>11, ToldKept DEF vars, server, net
  <1>12. QED
    BY <1>3, <1>4, <1>5, <1>6, <1>7, <1>8, <1>9, <1>10, <1>11 DEF Next

-------------------------------------------------------------------------------
LEMMA LinkHolds == Spec => []LinkInv
  <1>1. LinkInv /\ [Next]_vars => LinkInv'
    BY NextStates, NextShort, NextDialled, NextTold DEF LinkInv
  <1>2. QED
    BY InitLink, <1>1, PTL DEF Spec

\* The types of the link's state; and the wires never hold more than MaxArrived, the most a
\* poll is checked with: what is queued is one per arrival, and what a socket carries is what
\* was queued, the greeting or its opening, and its end.
THEOREM LinkTyping == Spec => []TypeOK
  <1>1. ASSUME LinkInv, NEW s \in Sockets PROVE Len(up[s]) <= MaxArrived /\ Len(down[s]) <= MaxArrived
    <2>1. PICK u \in Nat, d \in Nat, o \in Nat, q \in Nat, j \in Nat, e \in Nat :
                Measured(s, u, d, o, q, j, e)
      BY <1>1, Lengths
    <2>2. u = Len(up[s]) /\ d = Len(down[s]) /\ u + d + q <= j + 1 + e /\ j = jumps
      BY <2>1 DEF Measured
    <2>3. e <= 1 /\ j <= MaxJumps
      BY <1>1, <2>1, <2>2, Bounds DEF Measured, Ending, LinkInv, States
    <2>4. u <= MaxJumps + 4 /\ d <= MaxJumps + 4
      <3>1. u + d + q <= j + 1 + e
        BY <2>2
      <3>2. QED
        BY <2>3, <3>1, Bounds
    <2>5. QED
      BY <2>2, <2>4 DEF MaxArrived
  <1>2. LinkInv => TypeOK
    BY <1>1 DEF LinkInv, States, Silent, TypeOK
  <1>3. QED
    BY LinkHolds, <1>2, PTL

\* reconnect_backoff always has something to wait for: the link has no transport exactly in
\* the state that redials, so no sequence of refusals and breaks leaves it without either.
THEOREM NeverStuck == Spec => []LinkNeverStuck
  <1>1. LinkInv => LinkNeverStuck
    BY DEF LinkInv
  <1>2. QED
    BY LinkHolds, <1>1, PTL

\* When everything sent over a live link has arrived, the session is in the client's system
\* and the client holds its canonical seed, whatever was queued, lost or answered before.
THEOREM Quiescent == Spec => []QuiescentAgreement
  <1>1. ASSUME LinkInv PROVE QuiescentAgreement
    <2>1. SUFFICES ASSUME conn = "connected", outbox = <<>>, task[transport] = "reading",
                          ~cut[transport], up[transport] = <<>>, down[transport] = <<>>
                   PROVE at[transport] = location /\ adopted = canon[location]
      BY DEF QuiescentAgreement
    <2>2. Live /\ Pending = <<>>
      BY <2>1, ConcatEmptySeq, EmptySeq DEF Live, Pending
    <2>3. at[transport] = location /\ AdoptedAfter(down[transport]) = canon[location]
      BY <1>1, <2>2 DEF LinkInv, Told
    <2>4. AdoptedAfter(<<>>) = adopted
      BY OnlyEmpty DEF AdoptedAfter
    <2>5. QED
      BY <2>1, <2>3, <2>4
  <1>2. QED
    BY LinkHolds, <1>1, PTL
===============================================================================
