------------------------------ MODULE Registry ------------------------------
(***************************************************************************)
(* The agent registry of the hub and the SSE streams that read from it.    *)
(*                                                                         *)
(* A name the hub hears of gets a roster entry, a DropQueue and a count of *)
(* open connections.  A stream captures the queue of its name once, when   *)
(* it opens, and pulls from it until its connection drops; when the count  *)
(* of a name falls to zero a timer is armed that removes the name.         *)
(*                                                                         *)
(* The hub is single-threaded: a request, a timer or an abort runs to its  *)
(* end, and so do the continuations of the streams it woke, before the     *)
(* next one starts (`Settled`).  One handler may push several entries to   *)
(* one queue before the woken stream pulls again.                          *)
(***************************************************************************)
EXTENDS Integers, Sequences, FiniteSets

CONSTANTS
    Names,          \* names of agents, the human's included
    Permanent,      \* names that never expire: the human
    Streams,        \* /agent-stream connections, each opened once
    QueueMax,       \* AGENT_QUEUE_MAX
    Unset,          \* no key in agentConnections
    MaxLives,       \* bound of the model: registrations of one name
    MaxEntries      \* bound of the model: entries ever pushed

ASSUME RegistryAssumption ==
    /\ Permanent \subseteq Names
    /\ IsFiniteSet(Streams)
    /\ QueueMax \in Nat \ {0}
    /\ MaxLives \in Nat \ {0}
    /\ MaxEntries \in Nat
    /\ Unset \notin Nat

VARIABLES
    known,      \* keys of knownAgents, and of agentQueues
    lives,      \* how often a name was registered: each time with a new queue
    conns,      \* agentConnections
    timers,     \* keys of staleTimers
    streams,    \* the name, the captured queue and the phase of each stream
    items,      \* the entries a queue holds, numbered in the order of their push
    waiters,    \* the streams whose pull of a queue is pending, first come first served
    got,        \* the entries each stream has sent down its connection
    pushed,     \* entries pushed so far
    evicted     \* history: names last removed while one of their streams was open

rosterVars == <<known, lives, conns, timers, evicted>>
queueVars == <<items, waiters, got, pushed>>
vars == <<rosterVars, queueVars, streams>>

Queues == Names \X (1..MaxLives)

\* agentQueues.get(name), of a known name
QueueOf(n) == <<n, lives[n]>>

Unopened == [phase |-> "unopened"]
Stream == [name : Names, queue : Queues, phase : {"pulling", "waiting", "closed"}]

\* The streams of a name whose connection is up.
Opens(n) ==
    {s \in Streams : streams[s].phase \in {"pulling", "waiting"} /\ streams[s].name = n}

\* No handler is running and no woken stream has still to pull.
Settled == \A s \in Streams : streams[s].phase # "pulling"

\* agentConnections.get(name) ?? default
Connections(n, default) == IF conns[n] = Unset THEN default ELSE conns[n]

RegistryTypeOK ==
    /\ known \in SUBSET Names
    /\ lives \in [Names -> 0..MaxLives]
    /\ conns \in [Names -> Nat \cup {Unset}]
    /\ timers \in SUBSET Names
    /\ streams \in [Streams -> Stream \cup {Unopened}]
    /\ items \in [Queues -> Seq(1..MaxEntries)]
    /\ waiters \in [Queues -> Seq(Streams)]
    /\ got \in [Streams -> Seq(1..MaxEntries)]
    /\ pushed \in 0..MaxEntries
    /\ evicted \in SUBSET Names

\* At start the hub registers the permanent names only.
Init ==
    /\ known = Permanent
    /\ lives = [n \in Names |-> IF n \in Permanent THEN 1 ELSE 0]
    /\ conns = [n \in Names |-> IF n \in Permanent THEN 0 ELSE Unset]
    /\ timers = {}
    /\ streams = [s \in Streams |-> Unopened]
    /\ items = [q \in Queues |-> <<>>]
    /\ waiters = [q \in Queues |-> <<>>]
    /\ got = [s \in Streams |-> <<>>]
    /\ pushed = 0
    /\ evicted = {}

-----------------------------------------------------------------------------
(* The methods of the registry. *)

\* ensure(name), for a name that is not known yet: a new queue, no connection.
Register(n) ==
    /\ lives[n] < MaxLives
    /\ known' = known \cup {n}
    /\ lives' = [lives EXCEPT ![n] = @ + 1]
    /\ conns' = [conns EXCEPT ![n] = 0]
    /\ UNCHANGED <<timers, evicted>>

\* ensure(name), for a known name.
Revive(n) ==
    /\ timers' = timers \ {n}
    /\ UNCHANGED <<known, lives, conns, evicted>>

\* remove(name).  Its queue goes with what it holds: nobody can reach the queue
\* any more but a stream that captured it, and such a stream has emptied it.
Unregister(n) ==
    /\ known' = known \ {n}
    /\ items' = [items EXCEPT ![QueueOf(n)] = <<>>]
    /\ conns' = [conns EXCEPT ![n] = Unset]
    /\ timers' = timers \ {n}
    /\ evicted' = IF Opens(n) = {} THEN evicted \ {n} ELSE evicted \cup {n}
    /\ UNCHANGED lives

\* Mutants: the count is not kept at zero or above; it is returned as it was.
DisconnectedUnclamped(n) == Connections(n, 0) - 1
DisconnectedLate(n) == Connections(n, 0)

\* The count disconnect(name) leaves.
Disconnected(n) ==
    LET left == Connections(n, 1) - 1 IN IF left < 0 THEN 0 ELSE left

\* scheduleStaleRemoval: a known name that lost its last connection gets a timer.
TimersAfter(n, count) ==
    IF count = 0 /\ n \in known \ Permanent THEN timers \cup {n} ELSE timers

-----------------------------------------------------------------------------
(* Handlers. *)

\* A POST that names its sender.
Post(n) ==
    /\ Settled
    /\ IF n \in known THEN Revive(n) ELSE Register(n)
    /\ UNCHANGED <<queueVars, streams>>

\* Mutant: a stream opened under a known name does not cancel the timer.
OpenStreamTimed(s, n) ==
    /\ Settled
    /\ streams[s] = Unopened
    /\ n \in known \/ lives[n] < MaxLives
    /\ known' = known \cup {n}
    /\ lives' = IF n \in known THEN lives ELSE [lives EXCEPT ![n] = @ + 1]
    /\ conns' = [conns EXCEPT ![n] = IF n \in known THEN Connections(n, 0) + 1 ELSE 1]
    /\ timers' = timers
    /\ streams' = [streams EXCEPT ![s] =
                     [name |-> n, queue |-> <<n, lives'[n]>>, phase |-> "pulling"]]
    /\ UNCHANGED <<queueVars, evicted>>

\* GET /agent-stream: ensure, connect, subscribe, in one handler.
OpenStream(s, n) ==
    /\ Settled
    /\ streams[s] = Unopened
    /\ n \in known \/ lives[n] < MaxLives
    /\ known' = known \cup {n}
    /\ lives' = IF n \in known THEN lives ELSE [lives EXCEPT ![n] = @ + 1]
    /\ conns' = [conns EXCEPT ![n] = IF n \in known THEN Connections(n, 0) + 1 ELSE 1]
    /\ timers' = timers \ {n}
    /\ streams' = [streams EXCEPT ![s] =
                     [name |-> n, queue |-> <<n, lives'[n]>>, phase |-> "pulling"]]
    /\ UNCHANGED <<queueVars, evicted>>

\* The abort of a pending pull: waiters.splice(waiters.indexOf(s), 1).
Splice(seq, s) ==
    LET at == CHOOSE i \in DOMAIN seq : seq[i] = s
    IN  [i \in 1 .. Len(seq) - 1 |-> IF i < at THEN seq[i] ELSE seq[i + 1]]

\* The connection of a stream drops: its pull is withdrawn and it disconnects.
CloseStream(s) ==
    LET n == streams[s].name
        q == streams[s].queue
    IN  /\ Settled
        /\ streams[s].phase = "waiting"
        /\ streams' = [streams EXCEPT ![s].phase = "closed"]
        /\ waiters' = [waiters EXCEPT ![q] = Splice(@, s)]
        /\ conns' = [conns EXCEPT ![n] = Disconnected(n)]
        /\ timers' = TimersAfter(n, Disconnected(n))
        /\ UNCHANGED <<known, lives, evicted, items, got, pushed>>

\* The stale timer of a name fires.
StaleFire(n) ==
    /\ Settled
    /\ n \in timers
    /\ IF Connections(n, 0) > 0 \/ n \in Permanent
       THEN timers' = timers \ {n} /\ UNCHANGED <<known, lives, conns, evicted, items>>
       ELSE Unregister(n)
    /\ UNCHANGED <<waiters, got, pushed, streams>>

\* POST /remove
RemoveAgent(n) ==
    /\ Settled
    /\ n \in known
    /\ Unregister(n)
    /\ UNCHANGED <<waiters, got, pushed, streams>>

-----------------------------------------------------------------------------
(* The queue. *)

\* Mutants: a pending pull is ignored; the newest entry is dropped.
DropQueuePushNoWaiter(q, e) ==
    /\ items' = [items EXCEPT ![q] = Append(IF Len(@) >= QueueMax THEN Tail(@) ELSE @, e)]
    /\ UNCHANGED <<waiters, got, streams>>
DropQueuePushEarly(q, e) ==
    IF waiters[q] # <<>>
    THEN LET s == Head(waiters[q])
         IN  /\ waiters' = [waiters EXCEPT ![q] = Tail(@)]
             /\ got' = [got EXCEPT ![s] = Append(@, e)]
             /\ streams' = [streams EXCEPT ![s].phase = "pulling"]
             /\ UNCHANGED items
    ELSE /\ items' = [items EXCEPT ![q] = Append(IF Len(@) >= QueueMax - 1 /\ @ # <<>> THEN Tail(@) ELSE @, e)]
         /\ UNCHANGED <<waiters, got, streams>>

\* DropQueue.push
DropQueuePush(q, e) ==
    IF waiters[q] # <<>>
    THEN LET s == Head(waiters[q])
         IN  /\ waiters' = [waiters EXCEPT ![q] = Tail(@)]
             /\ got' = [got EXCEPT ![s] = Append(@, e)]
             /\ streams' = [streams EXCEPT ![s].phase = "pulling"]
             /\ UNCHANGED items
    ELSE /\ items' = [items EXCEPT ![q] = Append(IF Len(@) >= QueueMax THEN Tail(@) ELSE @, e)]
         /\ UNCHANGED <<waiters, got, streams>>

\* pushToAgent: nothing is queued for a permanent or an unknown name.
PushToAgent(n) ==
    /\ n \in known \ Permanent
    /\ pushed < MaxEntries
    /\ pushed' = pushed + 1
    /\ DropQueuePush(QueueOf(n), pushed')
    /\ UNCHANGED rosterVars

\* Mutant: the newest entry is taken first.
PullNewest(s) ==
    LET q == streams[s].queue
    IN  /\ streams[s].phase = "pulling"
        /\ IF items[q] # <<>>
           THEN /\ got' = [got EXCEPT ![s] = Append(@, items[q][Len(items[q])])]
                /\ items' = [items EXCEPT ![q] = SubSeq(@, 1, Len(@) - 1)]
                /\ UNCHANGED <<waiters, streams>>
           ELSE /\ waiters' = [waiters EXCEPT ![q] = Append(@, s)]
                /\ streams' = [streams EXCEPT ![s].phase = "waiting"]
                /\ UNCHANGED <<items, got>>
        /\ UNCHANGED <<pushed, rosterVars>>

\* A stream asks its queue for the next entry (DropQueue.pull).
Pull(s) ==
    LET q == streams[s].queue
    IN  /\ streams[s].phase = "pulling"
        /\ IF items[q] # <<>>
           THEN /\ got' = [got EXCEPT ![s] = Append(@, Head(items[q]))]
                /\ items' = [items EXCEPT ![q] = Tail(@)]
                /\ UNCHANGED <<waiters, streams>>
           ELSE /\ waiters' = [waiters EXCEPT ![q] = Append(@, s)]
                /\ streams' = [streams EXCEPT ![s].phase = "waiting"]
                /\ UNCHANGED <<items, got>>
        /\ UNCHANGED <<pushed, rosterVars>>

Next ==
    \/ \E n \in Names : Post(n) \/ StaleFire(n) \/ RemoveAgent(n) \/ PushToAgent(n)
    \/ \E s \in Streams, n \in Names : OpenStream(s, n)
    \/ \E s \in Streams : CloseStream(s) \/ Pull(s)

Spec == Init /\ [][Next]_vars

-----------------------------------------------------------------------------
\* Presence never overclaims: whatever the order of removals, registrations
\* and late disconnects, the count of a name never exceeds the connections
\* that are up.
PresenceHonest == \A n \in Names : Connections(n, 0) <= Cardinality(Opens(n))

\* A name that was not removed under an open connection has the count of its
\* connections right, every one of them reads the queue the hub pushes to, and
\* it is not about to expire while one is up.
ConnectedIsServed ==
    \A n \in known \ evicted :
        /\ conns[n] = Cardinality(Opens(n))
        /\ \A s \in Opens(n) : streams[s].queue = QueueOf(n)
        /\ n \in timers => Opens(n) = {}

Held(q) == {items[q][i] : i \in DOMAIN items[q]}
Sent(s) == {got[s][i] : i \in DOMAIN got[s]}
Increasing(seq) == \A i, j \in DOMAIN seq : i < j => seq[i] < seq[j]

\* What the streams of a queue have sent is older than what it still holds,
\* each of them sends in the order of the pushes, and no entry goes out twice,
\* however many streams of one name compete for its queue.
DeliveredInOrder ==
    /\ \A q \in Queues : Increasing(items[q])
    /\ \A s \in Streams :
          /\ Increasing(got[s])
          /\ \A t \in Streams \ {s} : Sent(s) \cap Sent(t) = {}
          /\ streams[s] # Unopened =>
                \A e \in Held(streams[s].queue), d \in Sent(s) : d < e

\* No stream waits for an entry while its queue holds one, and exactly the
\* streams that wait are the ones a push will wake, each once: a connection
\* that dropped leaves nothing behind that would swallow an entry.
NoLostWakeup ==
    \A q \in Queues :
        /\ items[q] = <<>> \/ waiters[q] = <<>>
        /\ {waiters[q][i] : i \in DOMAIN waiters[q]} =
              {s \in Streams : streams[s].phase = "waiting" /\ streams[s].queue = q}
        /\ \A i, j \in DOMAIN waiters[q] : waiters[q][i] = waiters[q][j] => i = j

\* No connection that is up pulls from the queue.
Unread(q) ==
    \A s \in Streams : streams[s].phase \in {"pulling", "waiting"} => streams[s].queue # q

\* An entry leaves the hub down a connection, or, the oldest first, because the
\* queue was full when another one came, or with its queue when its name is
\* removed, and then no connection that is up could still have sent it: a
\* removal under an open connection costs that connection nothing it was owed.
\* A new entry is always kept.
LostOnlyByOverflowOrRemoval ==
    [][ /\ \A q \in Queues : \A i \in DOMAIN items[q] :
              \/ items[q][i] \in Held(q)'
              \/ \E s \in Streams : items[q][i] \in Sent(s)'
              \/ i = 1 /\ Len(items[q]) = QueueMax /\ pushed' > pushed
              \/ \E n \in known \ known' : q = QueueOf(n) /\ Unread(q)
        /\ pushed' > pushed =>
              \/ \E q \in Queues : pushed' \in Held(q)'
              \/ \E s \in Streams : pushed' \in Sent(s)' ]_vars

\* CONTEXT.md: entries of the roster are "auto-removed after `STALE_AGENT_MS`
\* of disconnection": a name whose timer runs has no connection that is up and
\* reads its queue.
ExpiresOnlyDisconnected ==
    \A n \in timers : \A s \in Opens(n) : streams[s].queue # QueueOf(n)

=============================================================================
