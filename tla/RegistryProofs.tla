--------------------------- MODULE RegistryProofs ---------------------------
(***************************************************************************)
(* Proofs about Registry, for any names, streams and bounds.               *)
(***************************************************************************)
EXTENDS Registry, FiniteSetTheorems, TLAPS

-----------------------------------------------------------------------------
(* Sequences that are queues: what is in them, and that nothing is twice. *)

Elems(seq) == {seq[i] : i \in DOMAIN seq}
Distinct(seq) == \A i, j \in DOMAIN seq : seq[i] = seq[j] => i = j

\* What is appended is in the sequence, last.
LEMMA AppendElems ==
    ASSUME NEW S, NEW seq \in Seq(S), NEW e \in S
    PROVE  /\ Append(seq, e) \in Seq(S)
           /\ Elems(Append(seq, e)) = Elems(seq) \cup {e}
           /\ Distinct(seq) /\ e \notin Elems(seq) => Distinct(Append(seq, e))
<1> DEFINE more == Append(seq, e)
<1>1. /\ more \in Seq(S) /\ DOMAIN more = 1 .. Len(seq) + 1
      /\ \A i \in 1 .. Len(seq) : more[i] = seq[i]
      /\ more[Len(seq) + 1] = e
      /\ DOMAIN seq = 1 .. Len(seq) /\ Len(seq) \in Nat
  OBVIOUS
<1> HIDE DEF more
<1>2. Elems(more) = Elems(seq) \cup {e}
  <2>1. ASSUME NEW x \in Elems(more) PROVE x \in Elems(seq) \cup {e}
    BY <1>1 DEF Elems
  <2>2. ASSUME NEW x \in Elems(seq) \cup {e} PROVE x \in Elems(more)
    <3>1. CASE x = e
      BY <3>1, <1>1 DEF Elems
    <3>2. CASE x \in Elems(seq)
      <4>1. PICK i \in 1 .. Len(seq) : x = seq[i]
        BY <3>2, <1>1 DEF Elems
      <4>2. x = more[i] /\ i \in DOMAIN more
        BY <4>1, <1>1
      <4> QED
        BY <4>2 DEF Elems
    <3> QED
      BY <3>1, <3>2
  <2> QED
    BY <2>1, <2>2
<1>3. Distinct(seq) /\ e \notin Elems(seq) => Distinct(more)
  BY <1>1 DEF Distinct, Elems
<1> QED
  BY <1>1, <1>2, <1>3 DEF more

\* The head leaves, the rest stays.
LEMMA TailElems ==
    ASSUME NEW S, NEW seq \in Seq(S), seq # <<>>
    PROVE  /\ Head(seq) \in S /\ Tail(seq) \in Seq(S)
           /\ Head(seq) \in Elems(seq)
           /\ Elems(seq) = Elems(Tail(seq)) \cup {Head(seq)}
           /\ Distinct(seq) => Distinct(Tail(seq)) /\ Head(seq) \notin Elems(Tail(seq))
<1> DEFINE rest == Tail(seq)
<1>1. /\ rest \in Seq(S) /\ DOMAIN rest = 1 .. Len(seq) - 1
      /\ \A i \in 1 .. Len(seq) - 1 : rest[i] = seq[i + 1]
      /\ Head(seq) = seq[1] /\ Head(seq) \in S
      /\ DOMAIN seq = 1 .. Len(seq) /\ Len(seq) \in Nat \ {0}
  OBVIOUS
<1> HIDE DEF rest
<1>2. Head(seq) \in Elems(seq)
  BY <1>1 DEF Elems
<1>3. Elems(seq) = Elems(rest) \cup {Head(seq)}
  <2>1. ASSUME NEW x \in Elems(seq) PROVE x \in Elems(rest) \cup {Head(seq)}
    <3>1. PICK i \in 1 .. Len(seq) : x = seq[i]
      BY <1>1 DEF Elems
    <3>2. CASE i = 1
      BY <3>1, <3>2, <1>1
    <3>3. CASE i # 1
      <4>1. i - 1 \in DOMAIN rest /\ rest[i - 1] = x
        BY <3>1, <3>3, <1>1
      <4> QED
        BY <4>1 DEF Elems
    <3> QED
      BY <3>2, <3>3
  <2>2. ASSUME NEW x \in Elems(rest) PROVE x \in Elems(seq)
    <3>1. PICK i \in DOMAIN rest : x = rest[i]
      BY DEF Elems
    <3>2. i + 1 \in DOMAIN seq /\ seq[i + 1] = x
      BY <3>1, <1>1
    <3> QED
      BY <3>2 DEF Elems
  <2> QED
    BY <2>1, <2>2, <1>2
<1>4. Distinct(seq) => Distinct(rest) /\ Head(seq) \notin Elems(rest)
  <2> SUFFICES ASSUME Distinct(seq) PROVE Distinct(rest) /\ Head(seq) \notin Elems(rest)
    OBVIOUS
  <2>1. ASSUME NEW i \in DOMAIN rest, NEW j \in DOMAIN rest, rest[i] = rest[j] PROVE i = j
    <3>1. i + 1 \in DOMAIN seq /\ j + 1 \in DOMAIN seq /\ seq[i + 1] = seq[j + 1]
      BY <2>1, <1>1
    <3>2. i + 1 = j + 1
      BY <3>1 DEF Distinct
    <3> QED
      BY <3>2, <1>1
  <2>2. ASSUME NEW i \in DOMAIN rest, rest[i] = Head(seq) PROVE FALSE
    <3>1. i + 1 \in DOMAIN seq /\ 1 \in DOMAIN seq /\ seq[i + 1] = seq[1]
      BY <2>2, <1>1
    <3>2. i + 1 = 1
      BY <3>1 DEF Distinct
    <3> QED
      BY <3>2, <1>1
  <2> QED
    BY <2>1, <2>2 DEF Distinct, Elems
<1> QED
  BY <1>1, <1>2, <1>3, <1>4 DEF rest

\* A waiter that is spliced out is gone, and nobody else is.
LEMMA SpliceElems ==
    ASSUME NEW S, NEW seq \in Seq(S), Distinct(seq), NEW e \in Elems(seq)
    PROVE  /\ Splice(seq, e) \in Seq(S)
           /\ Elems(Splice(seq, e)) = Elems(seq) \ {e}
           /\ Distinct(Splice(seq, e))
<1> DEFINE at == CHOOSE i \in DOMAIN seq : seq[i] = e
           rest == [i \in 1 .. Len(seq) - 1 |-> IF i < at THEN seq[i] ELSE seq[i + 1]]
<1>1. Splice(seq, e) = rest
  BY DEF Splice
<1>2. at \in DOMAIN seq /\ seq[at] = e
  BY DEF Elems
<1>3. /\ DOMAIN seq = 1 .. Len(seq) /\ Len(seq) \in Nat \ {0}
      /\ \A i \in 1 .. Len(seq) : seq[i] \in S
  BY <1>2
<1> HIDE DEF at
<1>4. /\ DOMAIN rest = 1 .. Len(seq) - 1
      /\ \A i \in DOMAIN rest : rest[i] = IF i < at THEN seq[i] ELSE seq[i + 1]
  OBVIOUS
<1>5. rest \in Seq(S)
  <2>1. \A i \in 1 .. Len(seq) - 1 : rest[i] \in S
    BY <1>2, <1>3, <1>4
  <2>2. Len(seq) - 1 \in Nat
    BY <1>3
  <2>3. rest \in [1 .. Len(seq) - 1 -> S]
    BY <2>1
  <2> HIDE DEF rest
  <2> QED
    BY <2>2, <2>3
<1> HIDE DEF rest
<1>6. Elems(rest) = Elems(seq) \ {e}
  <2>1. ASSUME NEW x \in Elems(rest) PROVE x \in Elems(seq) \ {e}
    <3>1. PICK i \in DOMAIN rest : x = rest[i]
      BY DEF Elems
    <3>2. PICK j \in DOMAIN seq : x = seq[j] /\ j # at
      BY <3>1, <1>2, <1>3, <1>4
    <3>3. x # e
      BY <3>2, <1>2 DEF Distinct
    <3> QED
      BY <3>2, <3>3 DEF Elems
  <2>2. ASSUME NEW x \in Elems(seq), x # e PROVE x \in Elems(rest)
    <3>1. PICK j \in DOMAIN seq : x = seq[j]
      BY DEF Elems
    <3>2. j # at
      BY <3>1, <2>2, <1>2
    <3>3. CASE j < at
      <4>1. j \in DOMAIN rest /\ rest[j] = x
        BY <3>1, <3>3, <1>2, <1>3, <1>4
      <4> QED
        BY <4>1 DEF Elems
    <3>4. CASE j > at
      <4>1. j - 1 \in DOMAIN rest /\ rest[j - 1] = x
        BY <3>1, <3>4, <1>2, <1>3, <1>4
      <4> QED
        BY <4>1 DEF Elems
    <3> QED
      BY <3>2, <3>3, <3>4, <1>2, <1>3
  <2> QED
    BY <2>1, <2>2
<1>7. Distinct(rest)
  <2> SUFFICES ASSUME NEW i \in DOMAIN rest, NEW j \in DOMAIN rest, rest[i] = rest[j]
               PROVE  i = j
    BY DEF Distinct
  <2> DEFINE from(k) == IF k < at THEN k ELSE k + 1
  <2>1. /\ from(i) \in DOMAIN seq /\ from(j) \in DOMAIN seq
        /\ seq[from(i)] = rest[i] /\ seq[from(j)] = rest[j]
    BY <1>2, <1>3, <1>4
  <2>2. from(i) = from(j)
    BY <2>1 DEF Distinct
  <2> QED
    BY <2>2, <1>2, <1>3, <1>4
<1> QED
  BY <1>1, <1>5, <1>6, <1>7

-----------------------------------------------------------------------------
(* Types and wake-ups.  What a push hands to the head of the waiters is well  *)
(* typed because that head is a stream that waits, so the two go together.    *)

Waiting(q) == {s \in Streams : streams[s].phase = "waiting" /\ streams[s].queue = q}

\* A known name was registered, and only a known name is about to expire.
KnownLived == timers \subseteq known /\ \A n \in known : lives[n] \in 1..MaxLives

WakeupsOK ==
    \A q \in Queues :
        /\ items[q] = <<>> \/ waiters[q] = <<>>
        /\ Elems(waiters[q]) = Waiting(q)
        /\ Distinct(waiters[q])

TInv == RegistryTypeOK /\ KnownLived /\ WakeupsOK

LEMMA WakeupsAreThose == WakeupsOK <=> NoLostWakeup
  BY DEF WakeupsOK, NoLostWakeup, Elems, Distinct, Waiting

\* The steps that leave the streams alone, and the queues of the names that stay.
RosterStep ==
    \E n \in Names : Post(n) \/ StaleFire(n) \/ RemoveAgent(n)

LEMMA CountsAreCounts ==
    ASSUME RegistryTypeOK, NEW n \in Names
    PROVE  /\ Connections(n, 0) \in Nat /\ Connections(n, 1) \in Nat
           /\ Disconnected(n) \in Nat
  BY DEF RegistryTypeOK, Connections, Disconnected

LEMMA RosterStepTyped ==
    ASSUME TInv, RosterStep
    PROVE  /\ UNCHANGED <<waiters, got, pushed, streams>>
           /\ known' \in SUBSET Names /\ lives' \in [Names -> 0..MaxLives]
           /\ conns' \in [Names -> Nat \cup {Unset}] /\ timers' \in SUBSET Names
           /\ evicted' \in SUBSET Names
           /\ KnownLived'
<1> PICK n \in Names : Post(n) \/ StaleFire(n) \/ RemoveAgent(n)
  BY DEF RosterStep
<1>1. CASE Post(n) /\ n \notin known
  <2>1. Register(n) /\ UNCHANGED <<queueVars, streams>>
    BY <1>1 DEF Post
  <2>2. lives[n] + 1 \in 1..MaxLives /\ lives \in [Names -> 0..MaxLives]
    BY <2>1, RegistryAssumption DEF Register, TInv, RegistryTypeOK
  <2>3. lives' \in [Names -> 0..MaxLives] /\ \A m \in known' : lives'[m] \in 1..MaxLives
    BY <2>1, <2>2, RegistryAssumption DEF Register, TInv, KnownLived, RegistryTypeOK
  <2> QED
    BY <2>1, <2>3 DEF Register, queueVars, TInv, RegistryTypeOK, KnownLived
<1>2. CASE Post(n) /\ n \in known
  BY <1>2 DEF Post, Revive, queueVars, TInv, RegistryTypeOK, KnownLived
<1>3. CASE RemoveAgent(n)
  BY <1>3 DEF RemoveAgent, Unregister, TInv, RegistryTypeOK, KnownLived
<1>4. CASE StaleFire(n)
  BY <1>4 DEF StaleFire, Unregister, TInv, RegistryTypeOK, KnownLived
<1> QED
  BY <1>1, <1>2, <1>3, <1>4

\* What a removal does to the queues: no connection that is up reads what goes.
Emptied ==
    /\ items' \in [Queues -> Seq(1..MaxEntries)]
    /\ \A q \in Queues :
          \/ items'[q] = items[q]
          \/ /\ items'[q] = <<>> /\ Unread(q)
             /\ \E n \in known \ known' : q = QueueOf(n)

LEMMA UnregisterEmpties ==
    ASSUME TInv, Settled, NEW n \in known, Unregister(n)
    PROVE  Emptied
<1> DEFINE p == QueueOf(n)
<1>1. /\ items \in [Queues -> Seq(1..MaxEntries)] /\ n \in Names
      /\ streams \in [Streams -> Stream \cup {Unopened}]
  BY DEF TInv, RegistryTypeOK
<1>2. items' = [items EXCEPT ![p] = <<>>] /\ n \in known \ known'
  BY DEF Unregister
<1>3. <<>> \in Seq(1..MaxEntries)
  OBVIOUS
<1>4. items' \in [Queues -> Seq(1..MaxEntries)]
  BY <1>1, <1>2, <1>3
<1>5. ASSUME NEW q \in Queues, q # p PROVE items'[q] = items[q]
  BY <1>1, <1>2, <1>5
<1>6. ASSUME NEW q \in Queues, q = p, items[q] # <<>>
      PROVE  items'[q] = <<>> /\ Unread(q)
  <2>1. items'[q] = <<>>
    BY <1>1, <1>2, <1>6
  <2>2. waiters[q] = <<>> /\ Elems(waiters[q]) = Waiting(q)
    BY <1>6 DEF TInv, WakeupsOK
  <2>3. Waiting(q) = {}
    BY <2>2 DEF Elems
  <2>4. ASSUME NEW s \in Streams, streams[s].phase \in {"pulling", "waiting"}
        PROVE  streams[s].queue # q
    BY <2>3, <2>4 DEF Waiting, Settled
  <2> QED
    BY <2>1, <2>4 DEF Unread
<1>7. ASSUME NEW q \in Queues, q = p, items[q] = <<>> PROVE items'[q] = items[q]
  BY <1>1, <1>2, <1>7
<1> QED
  BY <1>2, <1>4, <1>5, <1>6, <1>7 DEF Emptied

LEMMA RosterStepEmpties ==
    ASSUME TInv, RosterStep
    PROVE  Emptied
<1> PICK n \in Names : Post(n) \/ StaleFire(n) \/ RemoveAgent(n)
  BY DEF RosterStep
<1>1. CASE items' = items
  BY <1>1 DEF Emptied, TInv, RegistryTypeOK
<1>2. CASE n \in known /\ Unregister(n) /\ Settled
  BY <1>2, UnregisterEmpties
<1>3. Post(n) => items' = items
  BY DEF Post, queueVars
<1>4. RemoveAgent(n) => n \in known /\ Unregister(n) /\ Settled
  BY DEF RemoveAgent
<1>5. StaleFire(n) => items' = items \/ (n \in known /\ Unregister(n) /\ Settled)
  BY DEF StaleFire, TInv, KnownLived
<1> QED
  BY <1>1, <1>2, <1>3, <1>4, <1>5

LEMMA InitTyped == Init => TInv
<1> SUFFICES ASSUME Init PROVE TInv
  OBVIOUS
<1>1. RegistryTypeOK
  BY RegistryAssumption DEF Init, RegistryTypeOK
<1>2. KnownLived
  BY RegistryAssumption DEF Init, KnownLived
<1>3. WakeupsOK
  BY DEF Init, WakeupsOK, Elems, Distinct, Waiting, Unopened
<1> QED
  BY <1>1, <1>2, <1>3 DEF TInv

LEMMA OpenStreamTyped ==
    ASSUME TInv, NEW s \in Streams, NEW n \in Names, OpenStream(s, n)
    PROVE  TInv' /\ streams'[s] \in Stream /\ \A q \in Queues : Waiting(q)' = Waiting(q)
<1> USE RegistryAssumption
<1>1. /\ lives' \in [Names -> 0..MaxLives] /\ lives'[n] \in 1..MaxLives
      /\ known' = known \cup {n} /\ \A m \in known : lives'[m] \in 1..MaxLives
  BY DEF OpenStream, TInv, RegistryTypeOK, KnownLived
<1>2. conns' \in [Names -> Nat \cup {Unset}]
  BY CountsAreCounts DEF OpenStream, TInv, RegistryTypeOK
<1>3. <<n, lives'[n]>> \in Queues
  BY <1>1 DEF Queues
<1>4. /\ streams' \in [Streams -> Stream \cup {Unopened}] /\ streams'[s] \in Stream
      /\ streams'[s].phase = "pulling"
      /\ \A t \in Streams \ {s} : streams'[t] = streams[t]
      /\ streams[s].phase = "unopened"
  BY <1>3 DEF OpenStream, TInv, RegistryTypeOK, Stream, Unopened
<1>5. ASSUME NEW q \in Queues PROVE Waiting(q)' = Waiting(q)
  BY <1>4 DEF Waiting
<1>6. RegistryTypeOK'
  BY <1>1, <1>2, <1>4 DEF OpenStream, queueVars, TInv, RegistryTypeOK
<1>7. KnownLived'
  <2>1. timers \subseteq known /\ timers' = timers \ {n}
    BY DEF OpenStream, TInv, KnownLived
  <2> QED
    BY <1>1, <2>1 DEF KnownLived
<1>8. WakeupsOK'
  BY <1>5 DEF WakeupsOK, OpenStream, queueVars, TInv, Elems, Distinct
<1> QED
  BY <1>4, <1>5, <1>6, <1>7, <1>8 DEF TInv

LEMMA CloseStreamTyped ==
    ASSUME TInv, NEW s \in Streams, CloseStream(s)
    PROVE  TInv'
<1>0. streams[s] \in Stream /\ streams[s].phase = "waiting"
  BY DEF CloseStream, TInv, RegistryTypeOK, Stream, Unopened
<1> PICK n \in Names, q \in Queues : n = streams[s].name /\ q = streams[s].queue
  BY <1>0 DEF Stream
<1>1. streams[s] \in Stream /\ n = streams[s].name /\ q = streams[s].queue
      /\ streams[s].phase = "waiting"
  BY <1>0
<1>2. /\ streams' = [streams EXCEPT ![s].phase = "closed"]
      /\ waiters' = [waiters EXCEPT ![q] = Splice(@, s)]
      /\ conns' = [conns EXCEPT ![n] = Disconnected(n)]
      /\ timers' = TimersAfter(n, Disconnected(n))
      /\ UNCHANGED <<known, lives, evicted, items, got, pushed>>
  BY DEF CloseStream
<1>3. /\ waiters \in [Queues -> Seq(Streams)] /\ waiters[q] \in Seq(Streams)
      /\ Elems(waiters[q]) = Waiting(q) /\ Distinct(waiters[q])
      /\ s \in Elems(waiters[q])
  BY <1>1 DEF TInv, WakeupsOK, RegistryTypeOK, Waiting
<1>4. /\ waiters'[q] \in Seq(Streams) /\ Elems(waiters'[q]) = Waiting(q) \ {s}
      /\ Distinct(waiters'[q])
  BY <1>1, <1>2, <1>3, SpliceElems
<1>5. /\ streams' \in [Streams -> Stream \cup {Unopened}]
      /\ streams'[s].phase = "closed"
      /\ \A t \in Streams \ {s} : streams'[t] = streams[t]
  BY <1>1, <1>2 DEF TInv, RegistryTypeOK, Stream
<1>6. conns' \in [Names -> Nat \cup {Unset}]
  BY <1>1, <1>2, CountsAreCounts DEF TInv, RegistryTypeOK
<1>7. timers' \in SUBSET Names
  BY <1>1, <1>2 DEF TimersAfter, TInv, RegistryTypeOK
<1>8. waiters' \in [Queues -> Seq(Streams)] /\ \A r \in Queues \ {q} : waiters'[r] = waiters[r]
  BY <1>1, <1>2, <1>3, <1>4
<1>9. RegistryTypeOK'
  BY <1>2, <1>5, <1>6, <1>7, <1>8 DEF TInv, RegistryTypeOK
<1>10. KnownLived'
  BY <1>2 DEF TimersAfter, TInv, KnownLived
<1>11. WakeupsOK'
  <2>1. Waiting(q)' = Waiting(q) \ {s} /\ \A r \in Queues \ {q} : Waiting(r)' = Waiting(r)
    BY <1>1, <1>5 DEF Waiting
  <2>2. items[q] = <<>>
    <3>1. waiters[q] # <<>>
      BY <1>3 DEF Elems
    <3> QED
      BY <3>1, <1>1 DEF TInv, WakeupsOK
  <2>3. Elems(waiters'[q]) = Waiting(q)'
    BY <2>1, <1>4
  <2>4. ASSUME NEW r \in Queues \ {q} PROVE /\ items'[r] = <<>> \/ waiters'[r] = <<>>
                                            /\ Elems(waiters'[r]) = Waiting(r)'
                                            /\ Distinct(waiters'[r])
    BY <2>1, <1>2, <1>8 DEF TInv, WakeupsOK
  <2>5. ASSUME NEW r \in Queues PROVE /\ items'[r] = <<>> \/ waiters'[r] = <<>>
                                      /\ Elems(waiters'[r]) = Waiting(r)'
                                      /\ Distinct(waiters'[r])
    BY <2>2, <2>3, <2>4, <1>2, <1>4
  <2> QED
    BY <2>5 DEF WakeupsOK, Elems, Distinct
<1> QED
  BY <1>9, <1>10, <1>11 DEF TInv

\* The steps of a push and of a pull, said of one queue and at most one stream.
Delivers(q, s, e) ==
    /\ waiters[q] # <<>> /\ s = Head(waiters[q])
    /\ waiters' = [waiters EXCEPT ![q] = Tail(@)]
    /\ got' = [got EXCEPT ![s] = Append(@, e)]
    /\ streams' = [streams EXCEPT ![s].phase = "pulling"]
    /\ UNCHANGED items
Keeps(q, e) ==
    /\ waiters[q] = <<>>
    /\ items' = [items EXCEPT ![q] = Append(IF Len(@) >= QueueMax THEN Tail(@) ELSE @, e)]
    /\ UNCHANGED <<waiters, got, streams>>
Takes(q, s) ==
    /\ streams[s].phase = "pulling" /\ streams[s].queue = q /\ items[q] # <<>>
    /\ got' = [got EXCEPT ![s] = Append(@, Head(items[q]))]
    /\ items' = [items EXCEPT ![q] = Tail(@)]
    /\ UNCHANGED <<waiters, streams, pushed>>
Waits(q, s) ==
    /\ streams[s].phase = "pulling" /\ streams[s].queue = q /\ items[q] = <<>>
    /\ waiters' = [waiters EXCEPT ![q] = Append(@, s)]
    /\ streams' = [streams EXCEPT ![s].phase = "waiting"]
    /\ UNCHANGED <<items, got, pushed>>
PushSteps(q) ==
    /\ pushed < MaxEntries /\ pushed' = pushed + 1
    /\ Keeps(q, pushed + 1) \/ \E s \in Streams : Delivers(q, s, pushed + 1)

LEMMA PushIsThose ==
    ASSUME TInv, NEW n \in Names, PushToAgent(n)
    PROVE  UNCHANGED rosterVars /\ \E q \in Queues : PushSteps(q)
<1>1. QueueOf(n) \in Queues
  BY DEF PushToAgent, QueueOf, Queues, TInv, KnownLived
<1> PICK q \in Queues : q = QueueOf(n)
  BY <1>1
<1>2. /\ UNCHANGED rosterVars /\ pushed < MaxEntries /\ pushed' = pushed + 1
      /\ DropQueuePush(q, pushed + 1)
  BY DEF PushToAgent
<1>3. CASE waiters[q] = <<>>
  BY <1>2, <1>3 DEF DropQueuePush, PushSteps, Keeps
<1>4. CASE waiters[q] # <<>>
  <2>1. Head(waiters[q]) \in Streams
    BY <1>4 DEF TInv, RegistryTypeOK
  <2>2. Delivers(q, Head(waiters[q]), pushed + 1)
    BY <1>2, <1>4 DEF DropQueuePush, Delivers
  <2> QED
    BY <1>2, <2>1, <2>2 DEF PushSteps
<1> QED
  BY <1>3, <1>4

LEMMA PullIsThose ==
    ASSUME TInv, NEW s \in Streams, Pull(s)
    PROVE  UNCHANGED rosterVars /\ \E q \in Queues : Takes(q, s) \/ Waits(q, s)
<1>1. streams[s].queue \in Queues /\ streams[s].phase = "pulling"
  BY DEF Pull, TInv, RegistryTypeOK, Stream, Unopened
<1> PICK q \in Queues : q = streams[s].queue
  BY <1>1
<1>2. CASE items[q] # <<>>
  BY <1>1, <1>2 DEF Pull, Takes
<1>3. CASE items[q] = <<>>
  BY <1>1, <1>3 DEF Pull, Waits
<1> QED
  BY <1>2, <1>3 DEF Pull

\* A head that waits is woken: it belongs to the queue it is taken from.
LEMMA HeadWaits ==
    ASSUME TInv, NEW q \in Queues, NEW s \in Streams, waiters[q] # <<>>, s = Head(waiters[q])
    PROVE  /\ streams[s] \in Stream /\ streams[s].phase = "waiting" /\ streams[s].queue = q
           /\ items[q] = <<>>
           /\ Elems(Tail(waiters[q])) = Waiting(q) \ {s} /\ Distinct(Tail(waiters[q]))
           /\ Tail(waiters[q]) \in Seq(Streams)
<1>1. /\ waiters[q] \in Seq(Streams) /\ Elems(waiters[q]) = Waiting(q) /\ Distinct(waiters[q])
      /\ items[q] = <<>>
  BY DEF TInv, RegistryTypeOK, WakeupsOK
<1>2. /\ s \in Elems(waiters[q])
      /\ Elems(waiters[q]) = Elems(Tail(waiters[q])) \cup {s}
      /\ s \notin Elems(Tail(waiters[q])) /\ Distinct(Tail(waiters[q]))
      /\ Tail(waiters[q]) \in Seq(Streams)
  BY <1>1, TailElems
<1>3. Elems(Tail(waiters[q])) = Waiting(q) \ {s}
  BY <1>1, <1>2
<1>4. streams[s].phase = "waiting" /\ streams[s].queue = q
  BY <1>1, <1>2 DEF Waiting
<1>5. streams[s] \in Stream
  BY <1>4 DEF TInv, RegistryTypeOK, Stream, Unopened
<1> QED
  BY <1>1, <1>2, <1>3, <1>4, <1>5

\* A step that touches the waiters of one queue keeps the wake-ups right if it does there.
LEMMA WakeupsElsewhere ==
    ASSUME TInv, NEW q \in Queues,
           \A r \in Queues \ {q} : /\ items'[r] = items[r] /\ waiters'[r] = waiters[r]
                                   /\ Waiting(r)' = Waiting(r),
           items'[q] = <<>> \/ waiters'[q] = <<>>,
           Elems(waiters'[q]) = Waiting(q)', Distinct(waiters'[q])
    PROVE  WakeupsOK'
<1>1. ASSUME NEW r \in Queues PROVE /\ items'[r] = <<>> \/ waiters'[r] = <<>>
                                    /\ Elems(waiters'[r]) = Waiting(r)'
                                    /\ Distinct(waiters'[r])
  BY DEF TInv, WakeupsOK
<1> QED
  BY <1>1 DEF WakeupsOK, Elems, Distinct

\* What a push or a pull leaves alone of the types.
LEMMA RosterKept ==
    ASSUME TInv, UNCHANGED rosterVars,
           streams' \in [Streams -> Stream \cup {Unopened}],
           items' \in [Queues -> Seq(1..MaxEntries)],
           waiters' \in [Queues -> Seq(Streams)],
           got' \in [Streams -> Seq(1..MaxEntries)],
           pushed' \in 0..MaxEntries
    PROVE  RegistryTypeOK' /\ KnownLived'
  BY DEF TInv, RegistryTypeOK, KnownLived, rosterVars

\* What Append and Tail do to a queue and to what a stream has sent.
LEMMA EntriesTyped ==
    ASSUME TInv, NEW q \in Queues, NEW s \in Streams
    PROVE  /\ items[q] \in Seq(1..MaxEntries) /\ got[s] \in Seq(1..MaxEntries)
           /\ items[q] # <<>> => /\ Head(items[q]) \in 1..MaxEntries
                                 /\ Tail(items[q]) \in Seq(1..MaxEntries)
           /\ \A e \in 1..MaxEntries : Append(got[s], e) \in Seq(1..MaxEntries)
<1>1. items[q] \in Seq(1..MaxEntries) /\ got[s] \in Seq(1..MaxEntries)
  BY DEF TInv, RegistryTypeOK
<1>2. items[q] # <<>> => /\ Head(items[q]) \in 1..MaxEntries
                         /\ Tail(items[q]) \in Seq(1..MaxEntries)
  BY <1>1, TailElems
<1>3. \A e \in 1..MaxEntries : Append(got[s], e) \in Seq(1..MaxEntries)
  BY <1>1, AppendElems
<1> QED
  BY <1>1, <1>2, <1>3

LEMMA PushTyped ==
    ASSUME TInv, NEW q \in Queues, PushSteps(q), UNCHANGED rosterVars
    PROVE  TInv'
<1>1. pushed + 1 \in 1..MaxEntries /\ pushed' = pushed + 1 /\ pushed' \in 0..MaxEntries
  BY RegistryAssumption DEF PushSteps, TInv, RegistryTypeOK
<1>2. CASE Keeps(q, pushed + 1)
  <2> DEFINE rest == IF Len(items[q]) >= QueueMax THEN Tail(items[q]) ELSE items[q]
  <2>1. items[q] \in Seq(1..MaxEntries) /\ QueueMax \in Nat \ {0}
    BY RegistryAssumption DEF TInv, RegistryTypeOK
  <2>2. rest \in Seq(1..MaxEntries)
    <3>1. Len(items[q]) >= QueueMax => items[q] # <<>>
      BY <2>1
    <3> QED
      BY <2>1, <3>1, TailElems
  <2>3. Append(rest, pushed + 1) \in Seq(1..MaxEntries)
    BY <1>1, <2>2, AppendElems
  <2>4. items' = [items EXCEPT ![q] = Append(rest, pushed + 1)] /\ UNCHANGED <<waiters, got, streams>>
        /\ waiters[q] = <<>>
    BY <1>2 DEF Keeps
  <2> HIDE DEF rest
  <2>5. items' \in [Queues -> Seq(1..MaxEntries)]
    BY <2>3, <2>4 DEF TInv, RegistryTypeOK
  <2>6. RegistryTypeOK' /\ KnownLived'
    BY <2>4, <2>5, <1>1, RosterKept DEF TInv, RegistryTypeOK
  <2>7. \A r \in Queues : Waiting(r)' = Waiting(r)
    BY <2>4 DEF Waiting
  <2>8. Elems(waiters'[q]) = Waiting(q)' /\ Distinct(waiters'[q])
    BY <2>4, <2>7 DEF TInv, WakeupsOK
  <2>9. \A r \in Queues \ {q} : items'[r] = items[r] /\ waiters'[r] = waiters[r]
    BY <2>4 DEF TInv, RegistryTypeOK
  <2>10. WakeupsOK'
    BY <2>4, <2>7, <2>8, <2>9, WakeupsElsewhere
  <2> QED
    BY <2>6, <2>10 DEF TInv
<1>3. CASE \E s \in Streams : Delivers(q, s, pushed + 1)
  <2> PICK s \in Streams : Delivers(q, s, pushed + 1)
    BY <1>3
  <2>1. /\ streams[s] \in Stream /\ streams[s].phase = "waiting" /\ streams[s].queue = q
        /\ items[q] = <<>>
        /\ Elems(Tail(waiters[q])) = Waiting(q) \ {s} /\ Distinct(Tail(waiters[q]))
        /\ Tail(waiters[q]) \in Seq(Streams)
    BY HeadWaits DEF Delivers
  <2>2. /\ waiters' = [waiters EXCEPT ![q] = Tail(@)]
        /\ got' = [got EXCEPT ![s] = Append(@, pushed + 1)]
        /\ streams' = [streams EXCEPT ![s].phase = "pulling"]
        /\ items' = items
    BY DEF Delivers
  <2>3. /\ streams' \in [Streams -> Stream \cup {Unopened}] /\ streams'[s].phase = "pulling"
        /\ \A t \in Streams \ {s} : streams'[t] = streams[t]
    BY <2>1, <2>2 DEF TInv, RegistryTypeOK, Stream
  <2>4. /\ waiters' \in [Queues -> Seq(Streams)] /\ waiters'[q] = Tail(waiters[q])
        /\ \A r \in Queues \ {q} : waiters'[r] = waiters[r]
    BY <2>1, <2>2 DEF TInv, RegistryTypeOK
  <2>5. got' \in [Streams -> Seq(1..MaxEntries)]
    BY <1>1, <2>2, EntriesTyped DEF TInv, RegistryTypeOK
  <2>6. RegistryTypeOK' /\ KnownLived'
    BY <2>2, <2>3, <2>4, <2>5, <1>1, RosterKept DEF TInv, RegistryTypeOK
  <2>7. Waiting(q)' = Waiting(q) \ {s} /\ \A r \in Queues \ {q} : Waiting(r)' = Waiting(r)
    BY <2>1, <2>3 DEF Waiting
  <2>8. WakeupsOK'
    BY <2>1, <2>2, <2>4, <2>7, WakeupsElsewhere
  <2> QED
    BY <2>6, <2>8 DEF TInv
<1> QED
  BY <1>2, <1>3 DEF PushSteps

LEMMA PullTyped ==
    ASSUME TInv, NEW q \in Queues, NEW s \in Streams, Takes(q, s) \/ Waits(q, s),
           UNCHANGED rosterVars
    PROVE  TInv'
<1>1. streams[s] \in Stream
  BY DEF Takes, Waits, TInv, RegistryTypeOK, Stream, Unopened
<1>2. CASE Takes(q, s)
  <2>1. /\ got' = [got EXCEPT ![s] = Append(@, Head(items[q]))]
        /\ items' = [items EXCEPT ![q] = Tail(@)]
        /\ UNCHANGED <<waiters, streams, pushed>> /\ items[q] # <<>>
    BY <1>2 DEF Takes
  <2>2. got' \in [Streams -> Seq(1..MaxEntries)] /\ items' \in [Queues -> Seq(1..MaxEntries)]
    BY <2>1, EntriesTyped DEF TInv, RegistryTypeOK
  <2>3. RegistryTypeOK' /\ KnownLived'
    BY <2>1, <2>2, RosterKept DEF TInv, RegistryTypeOK
  <2>4. \A r \in Queues : Waiting(r)' = Waiting(r)
    BY <2>1 DEF Waiting
  <2>5. waiters'[q] = <<>> /\ Elems(waiters'[q]) = Waiting(q)' /\ Distinct(waiters'[q])
    BY <2>1, <2>4 DEF TInv, WakeupsOK
  <2>6. \A r \in Queues \ {q} : items'[r] = items[r] /\ waiters'[r] = waiters[r]
    BY <2>1 DEF TInv, RegistryTypeOK
  <2>7. WakeupsOK'
    BY <2>4, <2>5, <2>6, WakeupsElsewhere
  <2> QED
    BY <2>3, <2>7 DEF TInv
<1>3. CASE Waits(q, s)
  <2>1. /\ waiters' = [waiters EXCEPT ![q] = Append(@, s)]
        /\ streams' = [streams EXCEPT ![s].phase = "waiting"]
        /\ UNCHANGED <<items, got, pushed>> /\ items[q] = <<>>
        /\ streams[s].phase = "pulling" /\ streams[s].queue = q
    BY <1>3 DEF Waits
  <2>2. /\ waiters[q] \in Seq(Streams) /\ Elems(waiters[q]) = Waiting(q) /\ Distinct(waiters[q])
        /\ s \notin Waiting(q)
    BY <2>1 DEF TInv, RegistryTypeOK, WakeupsOK, Waiting
  <2>3. /\ waiters' \in [Queues -> Seq(Streams)]
        /\ Elems(waiters'[q]) = Waiting(q) \cup {s} /\ Distinct(waiters'[q])
        /\ \A r \in Queues \ {q} : waiters'[r] = waiters[r]
    <3>1. /\ Append(waiters[q], s) \in Seq(Streams)
          /\ Elems(Append(waiters[q], s)) = Waiting(q) \cup {s}
          /\ Distinct(Append(waiters[q], s))
      BY <2>2, AppendElems
    <3> QED
      BY <3>1, <2>1 DEF TInv, RegistryTypeOK
  <2>4. /\ streams' \in [Streams -> Stream \cup {Unopened}]
        /\ streams'[s].phase = "waiting" /\ streams'[s].queue = q
        /\ \A t \in Streams \ {s} : streams'[t] = streams[t]
    BY <1>1, <2>1 DEF TInv, RegistryTypeOK, Stream
  <2>5. RegistryTypeOK' /\ KnownLived'
    BY <2>1, <2>3, <2>4, RosterKept DEF TInv, RegistryTypeOK
  <2>6. Waiting(q)' = Waiting(q) \cup {s} /\ \A r \in Queues \ {q} : Waiting(r)' = Waiting(r)
    BY <2>1, <2>4 DEF Waiting
  <2>7. WakeupsOK'
    BY <2>1, <2>3, <2>6, WakeupsElsewhere
  <2> QED
    BY <2>5, <2>7 DEF TInv
<1> QED
  BY <1>2, <1>3

LEMMA StepTyped == TInv /\ [Next]_vars => TInv'
<1> SUFFICES ASSUME TInv, [Next]_vars PROVE TInv'
  OBVIOUS
<1>1. CASE UNCHANGED vars
  BY <1>1 DEF vars, rosterVars, queueVars, TInv, RegistryTypeOK, KnownLived, WakeupsOK,
              Waiting, Elems, Distinct
<1>2. CASE RosterStep
  <2>1. UNCHANGED <<waiters, got, pushed, streams>> /\ Emptied /\ KnownLived'
    BY <1>2, RosterStepTyped, RosterStepEmpties
  <2>2. RegistryTypeOK'
    BY <1>2, <2>1, RosterStepTyped DEF Emptied, TInv, RegistryTypeOK
  <2>3. ASSUME NEW q \in Queues
        PROVE  /\ items[q] = <<>> => items'[q] = <<>>
               /\ waiters'[q] = waiters[q] /\ Waiting(q)' = Waiting(q)
               /\ Elems(waiters[q])' = Elems(waiters[q])
               /\ Distinct(waiters[q])' <=> Distinct(waiters[q])
    BY <2>1 DEF Emptied, Waiting, Elems, Distinct
  <2>4. WakeupsOK'
    BY <2>3 DEF WakeupsOK, TInv
  <2> QED
    BY <2>1, <2>2, <2>4 DEF TInv
<1>3. ASSUME NEW n \in Names, PushToAgent(n) PROVE TInv'
  BY <1>3, PushIsThose, PushTyped
<1>4. ASSUME NEW s \in Streams, NEW n \in Names, OpenStream(s, n) PROVE TInv'
  BY <1>4, OpenStreamTyped
<1>5. ASSUME NEW s \in Streams, CloseStream(s) PROVE TInv'
  BY <1>5, CloseStreamTyped
<1>6. ASSUME NEW s \in Streams, Pull(s) PROVE TInv'
  BY <1>6, PullIsThose, PullTyped
<1> QED
  BY <1>1, <1>2, <1>3, <1>4, <1>5, <1>6 DEF Next, RosterStep

LEMMA AlwaysTyped == Spec => []TInv
  BY InitTyped, StepTyped, PTL DEF Spec

\* Every state of the registry, its queues and its streams has the types.
THEOREM RegistryTypeCorrect == Spec => []RegistryTypeOK
  BY AlwaysTyped, PTL DEF TInv

\* However connections drop and pushes fall between pulls, the streams that wait
\* on a queue are exactly its waiters, and none waits while the queue holds an entry
\* (DropQueue, core/sse.ts).
THEOREM NoWakeupIsLost == Spec => []NoLostWakeup
  BY AlwaysTyped, WakeupsAreThose, PTL DEF TInv

-----------------------------------------------------------------------------
(* Counts.  A name that nothing removed under an open connection is either     *)
(* known, its count exact, or has no connection: without the second case a     *)
(* registration could start from a wrong count.                                *)

Honest(n) == Connections(n, 0) <= Cardinality(Opens(n))
Served(n) ==
    n \in known \ evicted =>
        /\ conns[n] = Cardinality(Opens(n))
        /\ \A s \in Opens(n) : streams[s].queue = QueueOf(n)
        /\ n \in timers => Opens(n) = {}
Quiet(n) == n \notin known \cup evicted => Opens(n) = {}

Counted(n) == Honest(n) /\ Served(n) /\ Quiet(n)
CInv == TInv /\ \A n \in Names : Counted(n)

LEMMA OpensCount ==
    ASSUME NEW n \in Names
    PROVE  /\ IsFiniteSet(Opens(n)) /\ Cardinality(Opens(n)) \in Nat
           /\ (Cardinality(Opens(n)) = 0) <=> (Opens(n) = {})
<1>1. Opens(n) \subseteq Streams
  BY DEF Opens
<1>2. IsFiniteSet(Opens(n))
  BY <1>1, RegistryAssumption, FS_Subset
<1> QED
  BY <1>2, FS_CardinalityType, FS_EmptySet

LEMMA CountedInit == Init => \A n \in Names : Counted(n)
<1> SUFFICES ASSUME Init, NEW n \in Names PROVE Counted(n)
  OBVIOUS
<1>1. Opens(n) = {}
  BY DEF Init, Opens, Unopened
<1>2. Cardinality(Opens(n)) = 0
  BY <1>1, FS_EmptySet
<1> QED
  BY <1>1, <1>2, RegistryAssumption
     DEF Init, Counted, Honest, Served, Quiet, Connections

LEMMA CountedOnRoster ==
    ASSUME CInv, RosterStep, NEW m \in Names
    PROVE  Counted(m)'
<1> PICK n \in Names : Post(n) \/ StaleFire(n) \/ RemoveAgent(n)
  BY DEF RosterStep
<1>1. streams' = streams
  BY RosterStepTyped DEF CInv
<1>2. Opens(m)' = Opens(m)
  BY <1>1 DEF Opens
<1>3. /\ Cardinality(Opens(m)) \in Nat
      /\ (Opens(m) = {}) => (Cardinality(Opens(m)) = 0)
      /\ Cardinality(Opens(m)') = Cardinality(Opens(m))
  BY <1>2, OpensCount
<1>4. /\ Honest(m) /\ Served(m) /\ Quiet(m)
      /\ conns \in [Names -> Nat \cup {Unset}] /\ lives \in [Names -> 0..MaxLives]
  BY DEF CInv, Counted, TInv, RegistryTypeOK
<1>5. CASE n = m /\ Post(n) /\ n \notin known
  <2>1. /\ known' = known \cup {m} /\ conns'[m] = 0 /\ UNCHANGED <<timers, evicted>>
    BY <1>4, <1>5 DEF Post, Register
  <2>2. Connections(m, 0)' = 0
    BY <2>1, RegistryAssumption DEF Connections
  <2> QED
    <3>1. Honest(m)'
      BY <1>2, <1>3, <2>2 DEF Honest
    <3>2. Served(m)'
      <4> SUFFICES ASSUME m \notin evicted'
                   PROVE  conns'[m] = Cardinality(Opens(m)') /\ Opens(m)' = {}
        BY DEF Served
      <4>1. Opens(m) = {}
        BY <1>4, <1>5, <2>1 DEF Quiet
      <4> QED
        BY <1>2, <1>3, <2>1, <4>1
    <3>3. Quiet(m)'
      BY <2>1 DEF Quiet
    <3> QED
      BY <3>1, <3>2, <3>3 DEF Counted
<1>6. CASE Post(n) /\ n \in known
  BY <1>1, <1>2, <1>4, <1>6
     DEF Post, Revive, Counted, Honest, Served, Quiet, Connections, QueueOf
<1>7. CASE n = m /\ Unregister(n)
  <2>1. /\ known' = known \ {m} /\ conns'[m] = Unset
        /\ evicted' = IF Opens(m) = {} THEN evicted \ {m} ELSE evicted \cup {m}
    BY <1>4, <1>7 DEF Unregister
  <2>2. Connections(m, 0)' = 0
    BY <2>1 DEF Connections
  <2>3. Honest(m)'
    BY <1>2, <1>3, <2>2 DEF Honest
  <2>4. Served(m)' /\ Quiet(m)'
    BY <1>2, <2>1 DEF Served, Quiet
  <2> QED
    BY <2>3, <2>4 DEF Counted
<1>8. CASE StaleFire(n) /\ UNCHANGED <<known, lives, conns, evicted>>
  <2>1. timers' = timers \ {n} \/ timers' = timers
    BY <1>8 DEF StaleFire, Unregister
  <2> QED
    BY <1>1, <1>2, <1>4, <1>8, <2>1
       DEF Counted, Honest, Served, Quiet, Connections, QueueOf
<1>9. CASE n # m
  <2>1. /\ m \in known' <=> m \in known
        /\ m \in evicted' <=> m \in evicted
        /\ m \in timers' => m \in timers
        /\ conns'[m] = conns[m] /\ lives'[m] = lives[m]
    BY <1>4, <1>9 DEF Post, Register, Revive, StaleFire, RemoveAgent, Unregister
  <2> QED
    BY <1>1, <1>2, <1>4, <2>1 DEF Counted, Honest, Served, Quiet, Connections, QueueOf
<1>10. CASE n = m
  <2>1. CASE Post(n)
    BY <1>5, <1>6, <1>10, <2>1
  <2>2. CASE StaleFire(n)
    BY <1>7, <1>8, <1>10, <2>2 DEF StaleFire
  <2>3. CASE RemoveAgent(n)
    BY <1>7, <1>10, <2>3 DEF RemoveAgent
  <2> QED
    BY <2>1, <2>2, <2>3
<1> QED
  BY <1>9, <1>10

LEMMA CountedOnOpen ==
    ASSUME CInv, NEW s \in Streams, NEW n \in Names, OpenStream(s, n), NEW m \in Names
    PROVE  Counted(m)'
<1>1. /\ Honest(m) /\ Served(m) /\ Quiet(m) /\ TInv
      /\ conns \in [Names -> Nat \cup {Unset}] /\ lives \in [Names -> 0..MaxLives]
      /\ streams \in [Streams -> Stream \cup {Unopened}]
  BY DEF CInv, Counted, TInv, RegistryTypeOK
<1>2. /\ known' = known \cup {n} /\ timers' = timers \ {n} /\ evicted' = evicted
      /\ conns'[n] = IF n \in known THEN Connections(n, 0) + 1 ELSE 1
      /\ n \in known => lives' = lives
      /\ \A k \in Names \ {n} : conns'[k] = conns[k] /\ lives'[k] = lives[k]
      /\ streams'[s] = [name |-> n, queue |-> <<n, lives'[n]>>, phase |-> "pulling"]
      /\ \A t \in Streams \ {s} : streams'[t] = streams[t]
      /\ streams[s].phase = "unopened"
  BY <1>1 DEF OpenStream, Unopened
<1>3. CASE m = n
  <2>1. Opens(n)' = Opens(n) \cup {s} /\ s \notin Opens(n)
    BY <1>2 DEF Opens
  <2>2. /\ Cardinality(Opens(n)') = Cardinality(Opens(n)) + 1
        /\ Cardinality(Opens(n)) \in Nat /\ (Opens(n) = {} => Cardinality(Opens(n)) = 0)
    BY <2>1, OpensCount, FS_AddElement
  <2>3. Connections(n, 0)' = conns'[n]
    BY <1>1, <1>2, CountsAreCounts, RegistryAssumption DEF Connections
  <2>4. Connections(n, 0) \in Nat /\ (conns[n] \in Nat => Connections(n, 0) = conns[n])
    BY <1>1, CountsAreCounts, RegistryAssumption DEF Connections
  <2>5. Honest(n)'
    BY <1>1, <1>2, <1>3, <2>2, <2>3, <2>4 DEF Honest
  <2>6. Served(n)'
    <3> SUFFICES ASSUME n \notin evicted
                 PROVE  /\ conns'[n] = Cardinality(Opens(n)')
                        /\ \A t \in Opens(n)' : streams'[t].queue = QueueOf(n)'
      BY <1>2 DEF Served
    <3>1. CASE n \in known
      <4>1. conns[n] = Cardinality(Opens(n)) /\ \A t \in Opens(n) : streams[t].queue = QueueOf(n)
        BY <1>1, <1>3, <3>1 DEF Served
      <4>2. conns'[n] = Cardinality(Opens(n)')
        BY <1>2, <2>2, <2>4, <3>1, <4>1
      <4>3. ASSUME NEW t \in Opens(n) PROVE streams'[t].queue = QueueOf(n)'
        <5>1. t \in Streams \ {s}
          BY <2>1 DEF Opens
        <5> QED
          BY <1>2, <3>1, <4>1, <5>1 DEF QueueOf
      <4>4. streams'[s].queue = QueueOf(n)'
        BY <1>2 DEF QueueOf
      <4> QED
        BY <2>1, <4>2, <4>3, <4>4
    <3>2. CASE n \notin known
      BY <1>1, <1>2, <1>3, <2>1, <2>2, <3>2 DEF Quiet, QueueOf
    <3> QED
      BY <3>1, <3>2
  <2> QED
    BY <1>2, <1>3, <2>5, <2>6 DEF Counted, Quiet
<1>4. CASE m # n
  <2>1. Opens(m)' = Opens(m) /\ s \notin Opens(m)
    BY <1>2, <1>4 DEF Opens
  <2>2. \A t \in Opens(m) : streams'[t] = streams[t]
    BY <1>2, <2>1 DEF Opens
  <2> QED
    BY <1>1, <1>2, <1>4, <2>1, <2>2 DEF Counted, Honest, Served, Quiet, Connections, QueueOf
<1> QED
  BY <1>3, <1>4

LEMMA CountedOnClose ==
    ASSUME CInv, NEW s \in Streams, CloseStream(s), NEW m \in Names
    PROVE  Counted(m)'
<1>0. streams[s] \in Stream /\ streams[s].phase = "waiting"
  BY DEF CInv, CloseStream, TInv, RegistryTypeOK, Stream, Unopened
<1> PICK n \in Names : n = streams[s].name
  BY <1>0 DEF Stream
<1>1. /\ Honest(m) /\ Served(m) /\ Quiet(m) /\ TInv
      /\ conns \in [Names -> Nat \cup {Unset}]
      /\ streams \in [Streams -> Stream \cup {Unopened}]
  BY DEF CInv, Counted, TInv, RegistryTypeOK
<1>2. /\ known' = known /\ evicted' = evicted /\ lives' = lives
      /\ conns'[n] = Disconnected(n)
      /\ \A k \in Names \ {n} : conns'[k] = conns[k]
      /\ timers' \in {timers, timers \cup {n}} /\ (Disconnected(n) # 0 => timers' = timers)
      /\ streams'[s].phase = "closed"
      /\ \A t \in Streams : streams'[t].queue = streams[t].queue
      /\ \A t \in Streams \ {s} : streams'[t] = streams[t]
  BY <1>0, <1>1 DEF CloseStream, TimersAfter, Stream
<1>3. CASE m = n
  <2>1. Opens(n)' = Opens(n) \ {s} /\ s \in Opens(n)
    BY <1>0, <1>2 DEF Opens
  <2>2. /\ Cardinality(Opens(n)') = Cardinality(Opens(n)) - 1
        /\ Cardinality(Opens(n)) \in Nat \ {0}
    BY <2>1, OpensCount, FS_RemoveElement
  <2>3. (Cardinality(Opens(n)') = 0) => (Opens(n)' = {})
    BY <2>1, <2>2, OpensCount, FS_RemoveElement, FS_EmptySet
  <2>4. /\ Disconnected(n) \in Nat
        /\ conns[n] = Unset => Disconnected(n) = 0
        /\ conns[n] # Unset => Disconnected(n) = IF conns[n] = 0 THEN 0 ELSE conns[n] - 1
    BY <1>1 DEF Disconnected, Connections
  <2>5. Connections(n, 0)' = Disconnected(n)
    BY <1>2, <2>4, RegistryAssumption DEF Connections
  <2>6. Honest(n)'
    BY <1>1, <1>3, <2>2, <2>4, <2>5 DEF Honest, Connections
  <2>7. Served(n)'
    <3> SUFFICES ASSUME n \in known \ evicted
                 PROVE  /\ conns'[n] = Cardinality(Opens(n)')
                        /\ \A t \in Opens(n)' : streams'[t].queue = QueueOf(n)'
                        /\ n \in timers' => Opens(n)' = {}
      BY <1>2 DEF Served
    <3>1. /\ conns[n] = Cardinality(Opens(n)) /\ n \notin timers
          /\ \A t \in Opens(n) : streams[t].queue = QueueOf(n)
      BY <1>1, <1>3, <2>1 DEF Served
    <3>2. Disconnected(n) = Cardinality(Opens(n)')
      BY <2>2, <2>4, <3>1, RegistryAssumption
    <3>3. \A t \in Opens(n)' : streams'[t].queue = QueueOf(n)'
      BY <1>2, <2>1, <3>1 DEF QueueOf, Opens
    <3>4. n \in timers' => Opens(n)' = {}
      BY <1>2, <2>3, <3>1, <3>2
    <3> QED
      BY <1>2, <3>2, <3>3, <3>4
  <2>8. Quiet(n)'
    BY <1>1, <1>2, <1>3, <2>1 DEF Quiet
  <2> QED
    BY <1>3, <2>6, <2>7, <2>8 DEF Counted
<1>4. CASE m # n
  <2>1. Opens(m)' = Opens(m)
    BY <1>0, <1>2, <1>4 DEF Opens
  <2>2. m \in timers' <=> m \in timers
    BY <1>2, <1>4
  <2>3. Connections(m, 0)' = Connections(m, 0) /\ QueueOf(m)' = QueueOf(m)
    BY <1>2, <1>4 DEF Connections, QueueOf
  <2>4. \A t \in Opens(m) : streams'[t].queue = streams[t].queue
    BY <1>2 DEF Opens
  <2> QED
    BY <1>1, <1>2, <1>4, <2>1, <2>2, <2>3, <2>4 DEF Counted, Honest, Served, Quiet
<1> QED
  BY <1>3, <1>4

\* Pushes and pulls open and close nothing.
LEMMA CountedWhileOpen ==
    ASSUME CInv, UNCHANGED rosterVars, NEW m \in Names,
           \A s \in Streams :
              /\ streams'[s].name = streams[s].name /\ streams'[s].queue = streams[s].queue
              /\ (streams'[s].phase \in {"pulling", "waiting"})
                    <=> (streams[s].phase \in {"pulling", "waiting"})
    PROVE  Counted(m)'
<1>1. Opens(m)' = Opens(m)
  BY DEF Opens
<1>2. \A s \in Opens(m) : streams'[s].queue = streams[s].queue
  BY DEF Opens
<1>3. Connections(m, 0)' = Connections(m, 0) /\ QueueOf(m)' = QueueOf(m)
  BY DEF Connections, QueueOf, rosterVars
<1> QED
  BY <1>1, <1>2, <1>3 DEF CInv, Counted, Honest, Served, Quiet, rosterVars

LEMMA CountedOnQueue ==
    ASSUME CInv, NEW q \in Queues, UNCHANGED rosterVars,
           PushSteps(q) \/ \E s \in Streams : Takes(q, s) \/ Waits(q, s),
           NEW m \in Names
    PROVE  Counted(m)'
<1> USE CountedWhileOpen
<1>1. CASE Keeps(q, pushed + 1) \/ \E s \in Streams : Takes(q, s)
  BY <1>1 DEF Keeps, Takes
<1>2. ASSUME NEW s \in Streams, Delivers(q, s, pushed + 1) PROVE Counted(m)'
  <2>1. streams[s] \in Stream /\ streams[s].phase = "waiting"
    BY <1>2, HeadWaits DEF Delivers, CInv
  <2> QED
    BY <1>2, <2>1 DEF Delivers, CInv, TInv, RegistryTypeOK, Stream
<1>3. ASSUME NEW s \in Streams, Waits(q, s) PROVE Counted(m)'
  <2>1. streams[s] \in Stream /\ streams[s].phase = "pulling"
    BY <1>3 DEF Waits, CInv, TInv, RegistryTypeOK, Stream, Unopened
  <2> QED
    BY <1>3, <2>1 DEF Waits, CInv, TInv, RegistryTypeOK, Stream
<1> QED
  BY <1>1, <1>2, <1>3 DEF PushSteps

LEMMA StepCounted == CInv /\ [Next]_vars => CInv'
<1> SUFFICES ASSUME CInv, [Next]_vars PROVE \A m \in Names : Counted(m)'
  BY StepTyped DEF CInv
<1> TAKE m \in Names
<1>1. CASE UNCHANGED vars
  BY <1>1 DEF vars, rosterVars, CInv, Counted, Honest, Served, Quiet, Connections, QueueOf, Opens
<1>2. CASE RosterStep
  BY <1>2, CountedOnRoster
<1>3. ASSUME NEW n \in Names, PushToAgent(n) PROVE Counted(m)'
  BY <1>3, PushIsThose, CountedOnQueue DEF CInv
<1>4. ASSUME NEW s \in Streams, NEW n \in Names, OpenStream(s, n) PROVE Counted(m)'
  BY <1>4, CountedOnOpen
<1>5. ASSUME NEW s \in Streams, CloseStream(s) PROVE Counted(m)'
  BY <1>5, CountedOnClose
<1>6. ASSUME NEW s \in Streams, Pull(s) PROVE Counted(m)'
  BY <1>6, PullIsThose, CountedOnQueue DEF CInv
<1> QED
  BY <1>1, <1>2, <1>3, <1>4, <1>5, <1>6 DEF Next, RosterStep

LEMMA AlwaysCounted == Spec => []CInv
<1>1. Init => CInv
  BY InitTyped, CountedInit DEF CInv
<1> QED
  BY <1>1, StepCounted, PTL DEF Spec

\* Whatever the order of removals, registrations and late disconnects, the count
\* of a name never exceeds its open connections (agentConnections, core/agents.ts).
THEOREM PresenceAlwaysHonest == Spec => []PresenceHonest
<1>1. CInv => PresenceHonest
  BY DEF CInv, Counted, Honest, PresenceHonest
<1> QED
  BY <1>1, AlwaysCounted, PTL

\* A name not removed under an open connection has an exact count, streams that all
\* read the queue the hub pushes to, and no timer while one is open (core/agents.ts).
THEOREM ConnectedAlwaysServed == Spec => []ConnectedIsServed
<1>1. CInv => ConnectedIsServed
  BY DEF CInv, TInv, RegistryTypeOK, Counted, Served, ConnectedIsServed
<1> QED
  BY <1>1, AlwaysCounted, PTL

-----------------------------------------------------------------------------
(* Order and loss.  That no two queues hold the same entry and that none of    *)
(* what a queue holds was sent carries "nothing goes out twice" over a step;   *)
(* a stream that is not open has sent nothing, so a queue that already holds   *)
(* entries may be read by a new one.                                           *)

Ordered ==
    /\ \A q \in Queues : Increasing(items[q]) /\ \A e \in Held(q) : e <= pushed
    /\ \A s \in Streams : Increasing(got[s]) /\ \A d \in Sent(s) : d <= pushed
    /\ \A q, r \in Queues : q # r => Held(q) \cap Held(r) = {}
    /\ \A q \in Queues, s \in Streams : Held(q) \cap Sent(s) = {}
    /\ \A s, t \in Streams : s # t => Sent(s) \cap Sent(t) = {}

Older ==
    \A s \in Streams :
        /\ streams[s] = Unopened => got[s] = <<>>
        /\ streams[s] # Unopened =>
              \A q \in Queues : streams[s].queue = q =>
                 \A e \in Held(q), d \in Sent(s) : d < e

Bounded == \A q \in Queues : Len(items[q]) <= QueueMax

OInv == TInv /\ Ordered /\ Older /\ Bounded

LEMMA IncreasingAppend ==
    ASSUME NEW seq \in Seq(Nat), NEW e \in Nat, Increasing(seq), \A d \in Elems(seq) : d < e
    PROVE  Increasing(Append(seq, e))
<1> DEFINE more == Append(seq, e)
<1>1. /\ DOMAIN more = 1 .. Len(seq) + 1 /\ DOMAIN seq = 1 .. Len(seq) /\ Len(seq) \in Nat
      /\ \A i \in 1 .. Len(seq) : more[i] = seq[i] /\ seq[i] \in Nat
      /\ more[Len(seq) + 1] = e
  OBVIOUS
<1> HIDE DEF more
<1>2. ASSUME NEW i \in DOMAIN more, NEW j \in DOMAIN more, i < j PROVE more[i] < more[j]
  <2>1. i \in DOMAIN seq /\ more[i] = seq[i]
    BY <1>1, <1>2
  <2>2. CASE j = Len(seq) + 1
    BY <1>1, <2>1, <2>2 DEF Elems
  <2>3. CASE j \in DOMAIN seq
    BY <1>1, <1>2, <2>1, <2>3 DEF Increasing
  <2> QED
    BY <1>1, <2>2, <2>3
<1> QED
  BY <1>2 DEF Increasing, more

LEMMA IncreasingTail ==
    ASSUME NEW seq \in Seq(Nat), seq # <<>>, Increasing(seq)
    PROVE  /\ Increasing(Tail(seq)) /\ \A e \in Elems(Tail(seq)) : Head(seq) < e
           /\ Head(seq) \notin Elems(Tail(seq))
<1> DEFINE rest == Tail(seq)
<1>1. /\ DOMAIN rest = 1 .. Len(seq) - 1 /\ DOMAIN seq = 1 .. Len(seq)
      /\ Len(seq) \in Nat \ {0} /\ Head(seq) = seq[1]
      /\ \A i \in 1 .. Len(seq) - 1 : rest[i] = seq[i + 1]
      /\ \A i \in 1 .. Len(seq) : seq[i] \in Nat
  OBVIOUS
<1> HIDE DEF rest
<1>2. Increasing(rest)
  <2> SUFFICES ASSUME NEW i \in DOMAIN rest, NEW j \in DOMAIN rest, i < j
               PROVE  rest[i] < rest[j]
    BY DEF Increasing
  <2>1. i + 1 \in DOMAIN seq /\ j + 1 \in DOMAIN seq /\ i + 1 < j + 1
    BY <1>1
  <2>2. seq[i + 1] < seq[j + 1]
    BY <2>1 DEF Increasing
  <2> QED
    BY <1>1, <2>2
<1>3. ASSUME NEW e \in Elems(rest) PROVE Head(seq) < e /\ e \in Nat
  <2>1. PICK i \in DOMAIN rest : e = rest[i]
    BY DEF Elems
  <2>2. 1 \in DOMAIN seq /\ i + 1 \in DOMAIN seq /\ 1 < i + 1
    BY <1>1
  <2>3. seq[1] < seq[i + 1]
    BY <2>2 DEF Increasing
  <2> QED
    BY <1>1, <2>1, <2>3
<1>4. Head(seq) \notin Elems(rest)
  BY <1>1, <1>3
<1> QED
  BY <1>2, <1>3, <1>4 DEF rest

LEMMA IncreasingDistinct ==
    ASSUME NEW seq \in Seq(Nat), Increasing(seq)
    PROVE  Distinct(seq)
<1>1. ASSUME NEW i \in DOMAIN seq, NEW j \in DOMAIN seq, seq[i] = seq[j] PROVE i = j
  <2>1. i \in Nat /\ j \in Nat /\ seq[i] \in Nat /\ seq[j] \in Nat
    OBVIOUS
  <2>2. i < j => seq[i] < seq[j]
    BY DEF Increasing
  <2>3. j < i => seq[j] < seq[i]
    BY DEF Increasing
  <2> QED
    BY <1>1, <2>1, <2>2, <2>3
<1> QED
  BY <1>1 DEF Distinct

LEMMA HeldAndSent ==
    ASSUME TInv
    PROVE  /\ \A q \in Queues : items[q] \in Seq(Nat) /\ Held(q) = Elems(items[q])
                                /\ Held(q) \subseteq Nat
           /\ \A s \in Streams : got[s] \in Seq(Nat) /\ Sent(s) = Elems(got[s])
                                 /\ Sent(s) \subseteq Nat
           /\ pushed \in Nat /\ QueueMax \in Nat \ {0}
<1>1. ASSUME NEW seq \in Seq(1..MaxEntries) PROVE seq \in Seq(Nat) /\ Elems(seq) \subseteq Nat
  <2> DEFINE S == 1 .. MaxEntries
  <2>1. S \subseteq Nat
    OBVIOUS
  <2> HIDE DEF S
  <2>2. /\ Len(seq) \in Nat /\ DOMAIN seq = 1 .. Len(seq)
        /\ seq \in [1 .. Len(seq) -> Nat]
    <3>1. seq \in Seq(S)
      BY <1>1 DEF S
    <3>2. Len(seq) \in Nat /\ seq \in [1 .. Len(seq) -> S]
      BY <3>1
    <3> QED
      BY <2>1, <3>2
  <2> QED
    BY <2>2 DEF Elems
<1>2. /\ \A q \in Queues : items[q] \in Seq(1..MaxEntries)
      /\ \A s \in Streams : got[s] \in Seq(1..MaxEntries)
      /\ pushed \in Nat /\ QueueMax \in Nat \ {0}
  BY RegistryAssumption DEF TInv, RegistryTypeOK
<1>3. /\ \A q \in Queues : Held(q) = Elems(items[q])
      /\ \A s \in Streams : Sent(s) = Elems(got[s])
  BY DEF Held, Sent, Elems
<1> QED
  BY <1>1, <1>2, <1>3

LEMMA OrderedInit == Init => Ordered /\ Older /\ Bounded
<1> SUFFICES ASSUME Init PROVE Ordered /\ Older /\ Bounded
  OBVIOUS
<1>1. /\ \A q \in Queues : items[q] = <<>> /\ Held(q) = {}
      /\ \A s \in Streams : got[s] = <<>> /\ Sent(s) = {} /\ streams[s] = Unopened
  BY DEF Init, Held, Sent
<1>2. Increasing(<<>>)
  BY DEF Increasing
<1>3. Len(<<>>) = 0 /\ QueueMax \in Nat
  BY RegistryAssumption
<1> QED
  BY <1>1, <1>2, <1>3 DEF Ordered, Older, Bounded

\* What a push that keeps its entry does to the order.
LEMMA KeepsInOrder ==
    ASSUME OInv, NEW q \in Queues, Keeps(q, pushed + 1), pushed' = pushed + 1
    PROVE  /\ Ordered' /\ Older' /\ Bounded'
           /\ pushed' \in Held(q)'
           /\ Held(q) \subseteq Held(q)' \/ /\ Len(items[q]) = QueueMax
                                            /\ Held(q) \ {items[q][1]} \subseteq Held(q)'
           /\ \A r \in Queues \ {q} : items'[r] = items[r] /\ Held(r)' = Held(r)
<1> DEFINE e == pushed + 1
           rest == IF Len(items[q]) >= QueueMax THEN Tail(items[q]) ELSE items[q]
<1> USE HeldAndSent DEF OInv
<1>1. e \in Nat /\ items[q] \in Seq(Nat) /\ Len(items[q]) \in Nat /\ Len(items[q]) <= QueueMax
  BY DEF Bounded
<1>2. /\ rest \in Seq(Nat) /\ Increasing(rest) /\ Elems(rest) \subseteq Held(q)
      /\ Len(rest) + 1 <= QueueMax
      /\ Held(q) = Elems(rest) \/ /\ Len(items[q]) = QueueMax
                                  /\ Held(q) \ {items[q][1]} = Elems(rest)
  <2>1. CASE Len(items[q]) >= QueueMax
    <3>1. items[q] # <<>> /\ Head(items[q]) = items[q][1] /\ Len(items[q]) = QueueMax
      BY <1>1, <2>1
    <3>2. /\ Tail(items[q]) \in Seq(Nat) /\ Increasing(Tail(items[q]))
          /\ Held(q) = Elems(Tail(items[q])) \cup {items[q][1]}
          /\ items[q][1] \notin Elems(Tail(items[q]))
      BY <1>1, <3>1, TailElems, IncreasingTail DEF Ordered
    <3>3. Len(Tail(items[q])) = Len(items[q]) - 1
      BY <1>1, <3>1
    <3> QED
      BY <2>1, <1>1, <3>1, <3>2, <3>3
  <2>2. CASE ~(Len(items[q]) >= QueueMax)
    BY <1>1, <2>2 DEF Ordered
  <2> QED
    BY <2>1, <2>2
<1>3. /\ items' = [items EXCEPT ![q] = Append(rest, e)] /\ UNCHANGED <<waiters, got, streams>>
  BY DEF Keeps
<1> HIDE DEF rest
<1>4. \A d \in Elems(rest) : d < e
  BY <1>1, <1>2 DEF Ordered
<1>5. /\ Append(rest, e) \in Seq(Nat) /\ Increasing(Append(rest, e))
      /\ Elems(Append(rest, e)) = Elems(rest) \cup {e}
      /\ Len(Append(rest, e)) = Len(rest) + 1
  <2>1. rest \in Seq(Nat) /\ e \in Nat
    BY <1>1, <1>2
  <2> HIDE DEF e
  <2>2. Increasing(Append(rest, e))
    BY <2>1, <1>2, <1>4, IncreasingAppend
  <2>3. Append(rest, e) \in Seq(Nat) /\ Elems(Append(rest, e)) = Elems(rest) \cup {e}
    BY <2>1, AppendElems
  <2>4. Len(Append(rest, e)) = Len(rest) + 1
    BY <2>1
  <2> QED
    BY <2>2, <2>3, <2>4
<1>6. items'[q] = Append(rest, e) /\ \A r \in Queues \ {q} : items'[r] = items[r]
  BY <1>3 DEF TInv, RegistryTypeOK
<1>7. /\ Held(q)' = Elems(rest) \cup {e}
      /\ \A r \in Queues \ {q} : Held(r)' = Held(r)
      /\ \A s \in Streams : Sent(s)' = Sent(s) /\ got'[s] = got[s]
  <2>1. \A r \in Queues : Held(r)' = Elems(items'[r]) /\ Held(r) = Elems(items[r])
    BY DEF Held, Elems
  <2>2. \A s \in Streams : Sent(s)' = Sent(s) /\ got'[s] = got[s]
    BY <1>3 DEF Sent
  <2> QED
    BY <1>5, <1>6, <2>1, <2>2
<1>8. /\ \A r \in Queues : Held(r)' \subseteq Held(r) \cup {e}
      /\ \A r \in Queues \ {q} : e \notin Held(r)'
      /\ \A s \in Streams : e \notin Sent(s) /\ \A d \in Sent(s) : d < e
  BY <1>1, <1>2, <1>7 DEF Ordered
<1>9. Ordered'
  <2>1. ASSUME NEW r \in Queues PROVE Increasing(items'[r]) /\ \A d \in Held(r)' : d <= pushed'
    <3>1. Increasing(items'[r])
      BY <1>5, <1>6 DEF Ordered
    <3>2. ASSUME NEW d \in Held(r)' PROVE d <= pushed'
      <4>1. d = e \/ d \in Held(r)
        BY <1>8, <3>2
      <4>2. d \in Held(r) => d \in Nat /\ d <= pushed
        BY DEF Ordered
      <4> QED
        BY <1>1, <4>1, <4>2
    <3> QED
      BY <3>1, <3>2
  <2>2. ASSUME NEW s \in Streams PROVE Increasing(got'[s]) /\ \A d \in Sent(s)' : d <= pushed'
    BY <1>1, <1>7 DEF Ordered
  <2>3. ASSUME NEW r \in Queues, NEW t \in Queues, r # t PROVE Held(r)' \cap Held(t)' = {}
    BY <2>3, <1>7, <1>8 DEF Ordered
  <2>4. ASSUME NEW r \in Queues, NEW s \in Streams PROVE Held(r)' \cap Sent(s)' = {}
    BY <1>7, <1>8 DEF Ordered
  <2> QED
    BY <2>1, <2>2, <2>3, <2>4, <1>7 DEF Ordered, Increasing
<1>10. Older'
  BY <1>3, <1>7, <1>8 DEF Older
<1>11. Bounded'
  BY <1>2, <1>5, <1>6 DEF Bounded
<1>12. \/ Held(q) \subseteq Held(q)'
       \/ /\ Len(items[q]) = QueueMax
          /\ Held(q) \ {items[q][1]} \subseteq Held(q)'
  BY <1>2, <1>7
<1> QED
  BY <1>6, <1>7, <1>9, <1>10, <1>11, <1>12

\* An entry goes down the connection of a stream that reads queue q: it is newer
\* than what the stream sent, older than what the queue still holds, and nobody else's.
Sends(q, s, e) ==
    /\ streams[s] \in Stream /\ streams[s].queue = q
    /\ \A t \in Streams : /\ streams'[t] = Unopened <=> streams[t] = Unopened
                          /\ streams[t] # Unopened => streams'[t].queue = streams[t].queue
    /\ got' = [got EXCEPT ![s] = Append(@, e)]
    /\ pushed' \in Nat /\ pushed <= pushed' /\ e <= pushed'
    /\ Increasing(items'[q]) /\ items'[q] \in Seq(Nat) /\ Len(items'[q]) <= QueueMax
    /\ \A r \in Queues \ {q} : items'[r] = items[r]
    /\ Elems(items'[q]) \subseteq Held(q)
    /\ \A d \in Sent(s) : d < e
    /\ \A d \in Elems(items'[q]) : e < d
    /\ \A r \in Queues \ {q} : e \notin Held(r)
    /\ \A t \in Streams : e \notin Sent(t)

LEMMA SendsInOrder ==
    ASSUME OInv, NEW q \in Queues, NEW s \in Streams, NEW e \in Nat, Sends(q, s, e)
    PROVE  /\ Ordered' /\ Older' /\ Bounded'
           /\ Sent(s)' = Sent(s) \cup {e} /\ \A r \in Queues \ {q} : Held(r)' = Held(r)
<1> USE HeldAndSent DEF OInv
<1>1. /\ got'[s] = Append(got[s], e) /\ \A t \in Streams \ {s} : got'[t] = got[t]
  BY DEF Sends, TInv, RegistryTypeOK
<1>2. /\ Increasing(got'[s]) /\ Elems(got'[s]) = Sent(s) \cup {e}
  <2>1. /\ got[s] \in Seq(Nat) /\ Sent(s) = Elems(got[s]) /\ Increasing(got[s])
        /\ \A d \in Elems(got[s]) : d < e
    BY DEF Ordered, Sends
  <2>2. Increasing(Append(got[s], e))
    BY <2>1, IncreasingAppend
  <2>3. Elems(Append(got[s], e)) = Elems(got[s]) \cup {e}
    BY <2>1, AppendElems
  <2> QED
    BY <1>1, <2>1, <2>2, <2>3
<1>3. /\ Sent(s)' = Sent(s) \cup {e} /\ \A t \in Streams \ {s} : Sent(t)' = Sent(t)
      /\ Held(q)' = Elems(items'[q]) /\ \A r \in Queues \ {q} : Held(r)' = Held(r)
  <2>1. \A r \in Queues : Held(r)' = Elems(items'[r]) /\ Held(r) = Elems(items[r])
    BY DEF Held, Elems
  <2>2. \A t \in Streams : Sent(t)' = Elems(got'[t]) /\ Sent(t) = Elems(got[t])
    BY DEF Sent, Elems
  <2> QED
    BY <1>1, <1>2, <2>1, <2>2 DEF Sends
<1>4. /\ \A r \in Queues : Held(r)' \subseteq Held(r) /\ e \notin Held(r)'
      /\ \A d \in Held(q)' : e < d
  BY <1>3 DEF Sends
<1>5. Ordered'
  <2>1. ASSUME NEW r \in Queues PROVE Increasing(items'[r]) /\ \A d \in Held(r)' : d <= pushed'
    BY <1>4 DEF Ordered, Sends
  <2>2. ASSUME NEW t \in Streams PROVE Increasing(got'[t]) /\ \A d \in Sent(t)' : d <= pushed'
    BY <1>1, <1>2, <1>3 DEF Ordered, Sends
  <2>3. ASSUME NEW r \in Queues, NEW t \in Queues, r # t PROVE Held(r)' \cap Held(t)' = {}
    BY <2>3, <1>4 DEF Ordered
  <2>4. ASSUME NEW r \in Queues, NEW t \in Streams PROVE Held(r)' \cap Sent(t)' = {}
    BY <1>3, <1>4 DEF Ordered
  <2>5. ASSUME NEW u \in Streams, NEW t \in Streams, u # t PROVE Sent(u)' \cap Sent(t)' = {}
    <3>1. Sent(u) \cap Sent(t) = {} /\ e \notin Sent(u) /\ e \notin Sent(t)
      BY <2>5 DEF Ordered, Sends
    <3>2. \/ Sent(u)' = Sent(u) \cup {e} /\ Sent(t)' = Sent(t)
          \/ Sent(u)' = Sent(u) /\ Sent(t)' = Sent(t) \cup {e}
          \/ Sent(u)' = Sent(u) /\ Sent(t)' = Sent(t)
      BY <2>5, <1>3
    <3> QED
      BY <3>1, <3>2
  <2> QED
    BY <2>1, <2>2, <2>3, <2>4, <2>5 DEF Ordered, Increasing
<1>6. Older'
  <2> SUFFICES ASSUME NEW t \in Streams
               PROVE  /\ streams'[t] = Unopened => got'[t] = <<>>
                      /\ streams'[t] # Unopened =>
                            \A r \in Queues : streams'[t].queue = r =>
                               \A d \in Held(r)', c \in Sent(t)' : c < d
    BY DEF Older
  <2>1. streams[s] # Unopened
    BY DEF Stream, Unopened, Sends
  <2>2. CASE t = s
    <3>1. /\ streams'[s] # Unopened /\ streams'[s].queue = q
          /\ Held(q)' \subseteq Held(q) /\ \A d \in Held(q)' : e < d
          /\ \A d \in Held(q), c \in Sent(s) : c < d
      BY <2>1, <1>4 DEF Older, Sends
    <3> QED
      BY <2>2, <3>1, <1>3
  <2>3. CASE t # s
    <3>1. got'[t] = got[t] /\ Sent(t)' = Sent(t)
      BY <2>3, <1>1, <1>3
    <3>2. \A r \in Queues : Held(r)' \subseteq Held(r)
      BY <1>4
    <3> QED
      BY <3>1, <3>2 DEF Older, Sends
  <2> QED
    BY <2>2, <2>3
<1>7. Bounded'
  BY DEF Bounded, Sends
<1> QED
  BY <1>3, <1>5, <1>6, <1>7

LEMMA DeliversSends ==
    ASSUME OInv, NEW q \in Queues, NEW s \in Streams, Delivers(q, s, pushed + 1),
           pushed' = pushed + 1
    PROVE  Sends(q, s, pushed + 1) /\ Held(q) = {}
<1> USE HeldAndSent DEF OInv
<1>1. /\ streams[s] \in Stream /\ streams[s].phase = "waiting" /\ streams[s].queue = q
      /\ items[q] = <<>>
  BY HeadWaits DEF Delivers
<1>2. /\ got' = [got EXCEPT ![s] = Append(@, pushed + 1)]
      /\ streams' = [streams EXCEPT ![s].phase = "pulling"]
      /\ items' = items
  BY DEF Delivers
<1>3. ASSUME NEW t \in Streams
      PROVE  /\ streams'[t] = Unopened <=> streams[t] = Unopened
             /\ streams[t] # Unopened => streams'[t].queue = streams[t].queue
  BY <1>1, <1>2 DEF TInv, RegistryTypeOK, Stream, Unopened
<1>4. Elems(items'[q]) = {} /\ Held(q) = {} /\ Len(items'[q]) = 0
  BY <1>1, <1>2 DEF Elems
<1>5. /\ \A r \in Queues : pushed + 1 \notin Held(r)
      /\ \A t \in Streams : \A d \in Sent(t) : d < pushed + 1
      /\ \A t \in Streams : pushed + 1 \notin Sent(t)
  BY DEF Ordered
<1>6. Increasing(items'[q]) /\ items'[q] \in Seq(Nat)
  BY <1>2 DEF Ordered
<1> QED
  BY <1>1, <1>2, <1>3, <1>4, <1>5, <1>6 DEF Sends

LEMMA TakesSends ==
    ASSUME OInv, NEW q \in Queues, NEW s \in Streams, Takes(q, s)
    PROVE  /\ Sends(q, s, Head(items[q])) /\ Head(items[q]) \in Nat
           /\ Held(q) = Elems(items'[q]) \cup {Head(items[q])}
<1> USE HeldAndSent DEF OInv
<1>1. /\ got' = [got EXCEPT ![s] = Append(@, Head(items[q]))]
      /\ items'[q] = Tail(items[q]) /\ \A r \in Queues \ {q} : items'[r] = items[r]
      /\ UNCHANGED <<streams, pushed>> /\ items[q] # <<>>
      /\ streams[s] \in Stream /\ streams[s].queue = q
  BY DEF Takes, TInv, RegistryTypeOK, Stream, Unopened
<1>2. items[q] \in Seq(Nat) /\ Increasing(items[q]) /\ Held(q) = Elems(items[q])
  BY DEF Ordered
<1>3. /\ Head(items[q]) \in Nat /\ Tail(items[q]) \in Seq(Nat)
      /\ Head(items[q]) \in Held(q)
      /\ Held(q) = Elems(Tail(items[q])) \cup {Head(items[q])}
  BY <1>1, <1>2, TailElems
<1>4. /\ Increasing(Tail(items[q])) /\ \A e \in Elems(Tail(items[q])) : Head(items[q]) < e
  BY <1>1, <1>2, IncreasingTail
<1>5. Len(Tail(items[q])) <= QueueMax
  <2>1. Len(Tail(items[q])) = Len(items[q]) - 1 /\ Len(items[q]) \in Nat
    BY <1>1, <1>2
  <2> QED
    BY <2>1 DEF Bounded
<1>6. streams[s] # Unopened
  BY <1>1 DEF Stream, Unopened
<1>7. /\ \A d \in Sent(s) : d < Head(items[q])
      /\ \A r \in Queues \ {q} : Head(items[q]) \notin Held(r)
      /\ \A t \in Streams : Head(items[q]) \notin Sent(t)
      /\ Head(items[q]) <= pushed
  BY <1>1, <1>3, <1>6 DEF Ordered, Older
<1> QED
  BY <1>1, <1>3, <1>4, <1>5, <1>7 DEF Sends

\* Steps that send nothing, and leave each queue as it is or empty.
LEMMA OrderKept ==
    ASSUME OInv, UNCHANGED <<got, pushed>>,
           \A q \in Queues : items'[q] \in {items[q], <<>>},
           \A s \in Streams :
              \/ /\ streams'[s] = Unopened <=> streams[s] = Unopened
                 /\ streams[s] # Unopened => streams'[s].queue = streams[s].queue
              \/ streams[s] = Unopened /\ streams'[s] # Unopened
    PROVE  Ordered' /\ Older' /\ Bounded'
<1>1. /\ \A q \in Queues : Held(q)' \subseteq Held(q)
      /\ \A s \in Streams : Sent(s)' = Sent(s)
  BY DEF Held, Sent
<1>2. Ordered'
  <2>1. ASSUME NEW q \in Queues PROVE Increasing(items'[q])
    BY DEF OInv, Ordered, Increasing
  <2>2. ASSUME NEW s \in Streams PROVE Increasing(got'[s])
    BY DEF OInv, Ordered
  <2> QED
    BY <1>1, <2>1, <2>2 DEF OInv, Ordered
<1>3. Older'
  <2> SUFFICES ASSUME NEW s \in Streams
               PROVE  /\ streams'[s] = Unopened => got'[s] = <<>>
                      /\ streams'[s] # Unopened =>
                            \A q \in Queues : streams'[s].queue = q =>
                               \A e \in Held(q)', d \in Sent(s)' : d < e
    BY DEF Older
  <2>1. CASE /\ streams'[s] = Unopened <=> streams[s] = Unopened
             /\ streams[s] # Unopened => streams'[s].queue = streams[s].queue
    BY <1>1, <2>1 DEF OInv, Older
  <2>2. CASE streams[s] = Unopened /\ streams'[s] # Unopened
    <3>1. Sent(s)' = {}
      BY <1>1, <2>2 DEF OInv, Older, Sent
    <3> QED
      BY <2>2, <3>1
  <2> QED
    BY <2>1, <2>2
<1>4. Bounded'
  BY RegistryAssumption DEF OInv, Bounded
<1> QED
  BY <1>2, <1>3, <1>4

\* What becomes of the entries of a queue.
Outcome ==
    /\ \A q \in Queues : \A i \in DOMAIN items[q] :
          \/ items[q][i] \in Held(q)'
          \/ \E s \in Streams : items[q][i] \in Sent(s)'
          \/ i = 1 /\ Len(items[q]) = QueueMax /\ pushed' > pushed
          \/ \E n \in known \ known' : q = QueueOf(n) /\ Unread(q)
    /\ pushed' > pushed =>
          \/ \E q \in Queues : pushed' \in Held(q)'
          \/ \E s \in Streams : pushed' \in Sent(s)'

LEMMA NothingMoves ==
    ASSUME OInv, UNCHANGED <<items, pushed>>
    PROVE  Outcome
<1>1. pushed \in Nat /\ \A q \in Queues : Held(q)' = Held(q)
  BY HeldAndSent DEF OInv, Held
<1> QED
  BY <1>1 DEF Outcome, Held

LEMMA RemovalOrdered ==
    ASSUME OInv, RosterStep
    PROVE  Ordered' /\ Older' /\ Bounded' /\ Outcome
<1>1. UNCHANGED <<got, pushed, streams>> /\ Emptied
  BY RosterStepTyped, RosterStepEmpties DEF OInv
<1>2. \A q \in Queues : items'[q] \in {items[q], <<>>}
  BY <1>1 DEF Emptied
<1>3. Ordered' /\ Older' /\ Bounded'
  BY <1>1, <1>2, OrderKept
<1>4. ASSUME NEW q \in Queues, NEW i \in DOMAIN items[q]
      PROVE  \/ items[q][i] \in Held(q)'
             \/ \E n \in known \ known' : q = QueueOf(n) /\ Unread(q)
  <2>1. CASE items'[q] = items[q]
    BY <2>1 DEF Held
  <2> QED
    BY <1>1, <2>1 DEF Emptied
<1>5. pushed \in Nat /\ pushed' = pushed
  BY <1>1, HeldAndSent DEF OInv
<1> QED
  BY <1>3, <1>4, <1>5 DEF Outcome

LEMMA PushOrdered ==
    ASSUME OInv, NEW q \in Queues, PushSteps(q)
    PROVE  Ordered' /\ Older' /\ Bounded' /\ Outcome
<1> USE HeldAndSent DEF OInv
<1>1. pushed' = pushed + 1 /\ pushed \in Nat
  BY DEF PushSteps
<1>2. CASE Keeps(q, pushed + 1)
  <2>1. /\ Ordered' /\ Older' /\ Bounded'
        /\ pushed' \in Held(q)'
        /\ Held(q) \subseteq Held(q)' \/ /\ Len(items[q]) = QueueMax
                                         /\ Held(q) \ {items[q][1]} \subseteq Held(q)'
        /\ \A r \in Queues \ {q} : items'[r] = items[r] /\ Held(r)' = Held(r)
    BY <1>1, <1>2, KeepsInOrder
  <2>2. ASSUME NEW r \in Queues, NEW i \in DOMAIN items[r]
        PROVE  \/ items[r][i] \in Held(r)'
               \/ i = 1 /\ Len(items[r]) = QueueMax
    <3>1. items[r][i] \in Held(r)
      BY DEF Held
    <3>2. CASE r # q
      BY <2>1, <3>1, <3>2
    <3>3. CASE r = q
      <4>1. Distinct(items[q])
        BY IncreasingDistinct DEF Ordered
      <4>2. items[q][i] = items[q][1] => i = 1
        <5>1. 1 \in DOMAIN items[q]
          <6>1. items[q] \in Seq(Nat) /\ i \in DOMAIN items[q]
            BY <3>3
          <6>2. DOMAIN items[q] = 1 .. Len(items[q]) /\ Len(items[q]) \in Nat
            BY <6>1
          <6> QED
            BY <6>1, <6>2
        <5> QED
          BY <4>1, <5>1, <3>3 DEF Distinct
      <4> QED
        BY <2>1, <3>1, <3>3, <4>2
    <3> QED
      BY <3>2, <3>3
  <2> QED
    BY <1>1, <2>1, <2>2 DEF Outcome
<1>3. ASSUME NEW s \in Streams, Delivers(q, s, pushed + 1)
      PROVE  Ordered' /\ Older' /\ Bounded' /\ Outcome
  <2>1. Sends(q, s, pushed + 1) /\ Held(q) = {}
    BY <1>1, <1>3, DeliversSends
  <2>2. pushed + 1 \in Nat
    BY <1>1
  <2>3. /\ Ordered' /\ Older' /\ Bounded'
        /\ Sent(s)' = Sent(s) \cup {pushed + 1} /\ \A r \in Queues \ {q} : Held(r)' = Held(r)
    BY <2>1, <2>2, SendsInOrder
  <2>4. ASSUME NEW r \in Queues, NEW i \in DOMAIN items[r] PROVE items[r][i] \in Held(r)'
    <3>1. items[r][i] \in Held(r)
      BY DEF Held
    <3> QED
      BY <2>1, <2>3, <3>1
  <2>5. pushed' \in Sent(s)'
    BY <1>1, <2>3
  <2> QED
    BY <2>3, <2>4, <2>5 DEF Outcome
<1> QED
  BY <1>2, <1>3 DEF PushSteps

LEMMA PullOrdered ==
    ASSUME OInv, NEW q \in Queues, NEW s \in Streams, Takes(q, s) \/ Waits(q, s)
    PROVE  Ordered' /\ Older' /\ Bounded' /\ Outcome
<1>1. CASE Takes(q, s)
  <2>1. /\ Sends(q, s, Head(items[q])) /\ Head(items[q]) \in Nat
        /\ Held(q) = Elems(items'[q]) \cup {Head(items[q])}
    BY <1>1, TakesSends
  <2>2. /\ Ordered' /\ Older' /\ Bounded'
        /\ Sent(s)' = Sent(s) \cup {Head(items[q])} /\ \A r \in Queues \ {q} : Held(r)' = Held(r)
    BY <2>1, SendsInOrder
  <2>3. Held(q)' = Elems(items'[q])
    BY DEF Held, Elems
  <2>4. pushed' = pushed /\ pushed \in Nat
    BY <1>1, HeldAndSent DEF Takes, OInv
  <2>5. ASSUME NEW r \in Queues, NEW i \in DOMAIN items[r]
        PROVE  items[r][i] \in Held(r)' \/ items[r][i] \in Sent(s)'
    <3>1. items[r][i] \in Held(r)
      BY DEF Held
    <3> QED
      BY <2>1, <2>2, <2>3, <3>1
  <2> QED
    BY <2>2, <2>4, <2>5 DEF Outcome
<1>2. CASE Waits(q, s)
  <2>1. UNCHANGED <<items, got, pushed>> /\ streams' = [streams EXCEPT ![s].phase = "waiting"]
        /\ streams[s] \in Stream
    BY <1>2 DEF Waits, OInv, TInv, RegistryTypeOK, Stream, Unopened
  <2>2. ASSUME NEW t \in Streams
        PROVE  /\ streams'[t] = Unopened <=> streams[t] = Unopened
               /\ streams[t] # Unopened => streams'[t].queue = streams[t].queue
    BY <2>1 DEF OInv, TInv, RegistryTypeOK, Stream, Unopened
  <2> QED
    BY <2>1, <2>2, OrderKept, NothingMoves
<1> QED
  BY <1>1, <1>2

LEMMA StepOrdered ==
    ASSUME OInv, [Next]_vars
    PROVE  OInv' /\ Outcome
<1> SUFFICES Ordered' /\ Older' /\ Bounded' /\ Outcome
  BY StepTyped DEF OInv
<1>1. CASE UNCHANGED vars
  BY <1>1, OrderKept, NothingMoves DEF vars, queueVars
<1>2. CASE RosterStep
  BY <1>2, RemovalOrdered
<1>3. ASSUME NEW n \in Names, PushToAgent(n) PROVE Ordered' /\ Older' /\ Bounded' /\ Outcome
  BY <1>3, PushIsThose, PushOrdered DEF OInv
<1>4. ASSUME NEW s \in Streams, NEW n \in Names, OpenStream(s, n)
      PROVE  Ordered' /\ Older' /\ Bounded' /\ Outcome
  <2>1. streams'[s] \in Stream
    BY <1>4, OpenStreamTyped DEF OInv
  <2>2. UNCHANGED <<items, got, pushed>> /\ streams[s] = Unopened
        /\ \A t \in Streams \ {s} : streams'[t] = streams[t]
    BY <1>4 DEF OpenStream, queueVars, OInv, TInv, RegistryTypeOK
  <2>3. streams'[s] # Unopened
    BY <2>1 DEF Stream, Unopened
  <2> QED
    BY <2>2, <2>3, OrderKept, NothingMoves
<1>5. ASSUME NEW s \in Streams, CloseStream(s)
      PROVE  Ordered' /\ Older' /\ Bounded' /\ Outcome
  <2>1. UNCHANGED <<items, got, pushed>> /\ streams' = [streams EXCEPT ![s].phase = "closed"]
        /\ streams[s] \in Stream
    BY <1>5 DEF CloseStream, OInv, TInv, RegistryTypeOK, Stream, Unopened
  <2>2. ASSUME NEW t \in Streams
        PROVE  /\ streams'[t] = Unopened <=> streams[t] = Unopened
               /\ streams[t] # Unopened => streams'[t].queue = streams[t].queue
    BY <2>1 DEF OInv, TInv, RegistryTypeOK, Stream, Unopened
  <2> QED
    BY <2>1, <2>2, OrderKept, NothingMoves
<1>6. ASSUME NEW s \in Streams, Pull(s) PROVE Ordered' /\ Older' /\ Bounded' /\ Outcome
  BY <1>6, PullIsThose, PullOrdered DEF OInv
<1> QED
  BY <1>1, <1>2, <1>3, <1>4, <1>5, <1>6 DEF Next, RosterStep

LEMMA OrderedFromStart == Init => OInv
  BY InitTyped, OrderedInit DEF OInv

LEMMA AlwaysOrdered == Spec => []OInv
  BY OrderedFromStart, StepOrdered, PTL DEF Spec

\* However many streams of one name compete for its queue, each sends in the order of
\* the pushes, nothing goes out twice, and what a queue holds is newer than what its
\* streams have sent (DropQueue, core/sse.ts).
THEOREM AlwaysDeliveredInOrder == Spec => []DeliveredInOrder
<1>1. OInv => DeliveredInOrder
  <2> SUFFICES ASSUME OInv PROVE DeliveredInOrder
    OBVIOUS
  <2>1. ASSUME NEW s \in Streams, streams[s] # Unopened
        PROVE  streams[s].queue \in Queues
    BY <2>1 DEF OInv, TInv, RegistryTypeOK, Stream
  <2> QED
    BY <2>1 DEF OInv, Ordered, Older, DeliveredInOrder
<1> QED
  BY <1>1, AlwaysOrdered, PTL

\* An entry leaves the hub down a connection, or, the oldest first, because the queue
\* was full, or with the queue of a name that is removed, and then no connection that
\* is up reads that queue; the entry that is pushed is always kept or sent
\* (DropQueue.push, and remove of core/agents.ts).
THEOREM NothingElseIsLost == Spec => LostOnlyByOverflowOrRemoval
<1>1. OInv /\ [Next]_vars => [Outcome]_vars
  BY StepOrdered
<1>2. [Outcome]_vars =>
        [ /\ \A q \in Queues : \A i \in DOMAIN items[q] :
              \/ items[q][i] \in Held(q)'
              \/ \E s \in Streams : items[q][i] \in Sent(s)'
              \/ i = 1 /\ Len(items[q]) = QueueMax /\ pushed' > pushed
              \/ \E n \in known \ known' : q = QueueOf(n) /\ Unread(q)
          /\ pushed' > pushed =>
              \/ \E q \in Queues : pushed' \in Held(q)'
              \/ \E s \in Streams : pushed' \in Sent(s)' ]_vars
  BY DEF Outcome
<1> QED
  BY <1>1, <1>2, AlwaysOrdered, PTL DEF Spec, LostOnlyByOverflowOrRemoval
=============================================================================
