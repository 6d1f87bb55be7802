--------------------------- MODULE DeliveryProofs ---------------------------
(***************************************************************************)
(* Proofs about Delivery, for any entities, casts, limits and bounds: that *)
(* the page retries, and what the session of an agent is told.  What the   *)
(* page shows is proved in PageProofs.                                     *)
(***************************************************************************)
EXTENDS Delivery, FiniteSetTheorems, TLAPS

USE FanoutAssumption, PageAssumption, SidecarAssumption

-----------------------------------------------------------------------------
(* Both clients. *)

LEMMA ClientStays ==
    ASSUME Next
    PROVE  client' = client
<1>1. ASSUME HubNext PROVE client' = client
  BY <1>1 DEF HubNext, Advance, Say, SayFirst, AgentConnects, AgentLeaves, AgentRemoved,
              ClearTranscript, Listen, AcceptStream, ledgerVars
<1>2. ASSUME PageNext PROVE client' = client
  BY <1>2 DEF PageNext, PageStep, Handle, StreamEnds, RetryFires, Ask, AskInVain, Answer,
              BootConnects, Swap, Notice, ReloadClicked, Killed, ledgerVars
<1>3. ASSUME SidecarNext PROVE client' = client
  BY <1>3 DEF SidecarNext, PeerChanges, AgentConnects, AgentLeaves, AgentRemoved, Create, Resolve,
              Advance, Post, Removed, DebounceFires, Restarted, Killed, Connected, Disconnected,
              HandleEvent, Listen, ledgerVars
<1> QED
  BY <1>1, <1>2, <1>3 DEF Next

-----------------------------------------------------------------------------
(* The page connects again. *)

KindNames == {"handoff", "interrupt", "permission"}
StepNames == KindNames \cup {"roster", "connect", "swap", "notice"}

\* The boot connects at its end.
ConnectsLast(steps) == Len(steps) > 0 => steps[Len(steps)] = "connect"

RetryInv ==
    /\ timers \in Nat
    /\ flows \in [{"boot", "reload"} -> Seq(StepNames)]
    /\ ConnectsLast(flows["boot"])
    /\ RetryDue

LEMMA KindStepsTyped == KindSteps \in Seq(KindNames) /\ ToSet(KindSteps) \subseteq KindNames
<1>1. \A kind \in KindNames : Load(kind) \in Seq(KindNames)
  BY DEF Load
<1>2. KindSteps \in Seq(KindNames)
  BY <1>1 DEF KindSteps, KindNames
<1> QED
  BY <1>2 DEF ToSet

\* A step that is not the last one is done.
LEMMA StepLeaves ==
    ASSUME NEW steps \in Seq(StepNames), steps # <<>>, ConnectsLast(steps)
    PROVE  /\ Tail(steps) \in Seq(StepNames) /\ ConnectsLast(Tail(steps))
           /\ Head(steps) # "connect" => Tail(steps) # <<>>
<1>1. /\ Tail(steps) \in Seq(StepNames) /\ Len(Tail(steps)) = Len(steps) - 1
      /\ Len(steps) \in Nat \ {0} /\ Head(steps) = steps[1]
      /\ \A i \in 1 .. Len(steps) - 1 : Tail(steps)[i] = steps[i + 1]
  OBVIOUS
<1>2. CASE Len(steps) = 1
  <2>1. Len(Tail(steps)) = 0 /\ steps[1] = "connect"
    BY <1>1, <1>2 DEF ConnectsLast
  <2> QED
    BY <1>1, <2>1 DEF ConnectsLast
<1>3. CASE Len(steps) > 1
  <2>1. Len(Tail(steps)) # 0 /\ Len(steps) - 1 \in 1 .. Len(steps) - 1
    BY <1>1, <1>3
  <2>4. Len(<<>>) = 0
    OBVIOUS
  <2>3. Tail(steps) # <<>>
    BY <2>1, <2>4
  <2>2. Tail(steps)[Len(steps) - 1] = steps[Len(steps)]
    BY <1>1, <2>1
  <2> QED
    BY <1>1, <2>1, <2>2, <2>3 DEF ConnectsLast
<1> QED
  BY <1>1, <1>2, <1>3

\* An await of bootstrap or of the click ends without a connect.
LEMMA StepDoneKeepsRetry ==
    ASSUME RetryInv, NEW f \in {"boot", "reload"}, StepDone(f), flows[f] # <<>>,
           Head(flows[f]) \notin {"connect", "swap"},
           UNCHANGED <<client, stream, timers>>
    PROVE  RetryInv'
<1> DEFINE rest == Tail(flows[f])
<1>1. flows' = [flows EXCEPT ![f] = rest]
  BY DEF StepDone
<1>2. flows[f] \in Seq(StepNames)
  BY DEF RetryInv
<1>3. rest \in Seq(StepNames)
  BY <1>2
<1>4. f = "boot" => rest # <<>> /\ ConnectsLast(rest)
  BY <1>2, StepLeaves DEF RetryInv
<1> HIDE DEF rest
<1>5. flows' \in [{"boot", "reload"} -> Seq(StepNames)] /\ ConnectsLast(flows'["boot"])
  BY <1>1, <1>3, <1>4 DEF RetryInv
<1>6. RetryDue'
  <2>1. CASE f = "boot"
    BY <1>1, <1>4, <2>1 DEF RetryInv, RetryDue, Step
  <2>2. CASE f = "reload"
    <3>1. ~Step("reload", "swap") /\ flows'["boot"] = flows["boot"]
      BY <1>1, <2>2 DEF Step, RetryInv
    <3> QED
      BY <3>1 DEF RetryInv, RetryDue
  <2> QED
    BY <2>1, <2>2
<1> QED
  BY <1>5, <1>6 DEF RetryInv

LEMMA RetryStep ==
    ASSUME RetryInv, Next
    PROVE  RetryInv'
<1>c. client' = client
  BY ClientStays
<1>1. ASSUME UNCHANGED <<timers, flows>>,
             client = "page" => stream' = stream \/ stream'.phase # "none"
      PROVE  RetryInv'
  BY <1>c, <1>1 DEF RetryInv, RetryDue, NoStream, Step
<1>2. ASSUME SidecarNext, UNCHANGED pageVars, client = "sidecar" PROVE RetryInv'
  BY <1>1, <1>2 DEF pageVars
<1>3. ASSUME HubNext, UNCHANGED pageVars, client = "page" PROVE RetryInv'
  <2>1. ASSUME NEW ambient, NEW entries, Send(ambient, entries) PROVE stream' = stream
    BY <2>1 DEF Send, streamVars
  <2>2. stream' = stream \/ stream'.phase = "open"
    <3>1. ASSUME NEW c \in Ids, Advance(c) PROVE stream' = stream
      BY <2>1, <3>1 DEF Advance
    <3>2. ASSUME NEW m \in Messages, Say(m) \/ SayFirst(m) PROVE stream' = stream
      BY <2>1, <3>2 DEF Say, SayFirst
    <3>3. ASSUME AgentConnects \/ AgentLeaves \/ AgentRemoved PROVE stream' = stream
      BY <2>1, <3>3 DEF AgentConnects, AgentLeaves, AgentRemoved
    <3>4. ASSUME ClearTranscript \/ Listen PROVE stream' = stream
      BY <3>4 DEF ClearTranscript, Listen, streamVars
    <3>5. ASSUME AcceptStream PROVE stream'.phase = "open"
      <4>1. stream' = [phase |-> "open", bus |-> life]
        BY <3>5 DEF AcceptStream
      <4> QED
        BY <4>1
    <3> QED
      BY <1>3, <3>1, <3>2, <3>3, <3>4, <3>5 DEF HubNext
  <2> QED
    BY <1>1, <1>3, <2>2 DEF pageVars
<1>4. ASSUME Handle PROVE RetryInv'
  BY <1>1, <1>4 DEF Handle
<1>5. ASSUME StreamEnds PROVE RetryInv'
  BY <1>5 DEF StreamEnds, RetryInv, RetryDue
<1>6. ASSUME RetryFires PROVE RetryInv'
  BY <1>6 DEF RetryFires, Connect, RetryInv, RetryDue, NoStream
<1>7. ASSUME NEW f \in DOMAIN flows, Ask(f) PROVE RetryInv'
  BY <1>1, <1>7 DEF Ask, streamVars
<1>8. ASSUME NEW f \in DOMAIN flows, AskInVain(f) \/ Answer(f) PROVE RetryInv'
  <2>1. /\ StepDone(f) /\ flows[f] # <<>> /\ UNCHANGED <<stream, timers>>
        /\ Head(flows[f]) \in {"roster"} \cup ToSet(KindSteps)
    BY <1>8 DEF AskInVain, Answer, Step, streamVars
  <2>2. Head(flows[f]) \notin {"connect", "swap"} /\ f \in {"boot", "reload"}
    BY <2>1, KindStepsTyped DEF KindNames, RetryInv
  <2> QED
    BY <1>c, <2>1, <2>2, StepDoneKeepsRetry
<1>9. ASSUME BootConnects PROVE RetryInv'
  <2>1. /\ flows["boot"] # <<>> /\ flows' = [flows EXCEPT !["boot"] = Tail(@)]
        /\ stream'.phase = "opening" /\ timers' = timers
    BY <1>9 DEF BootConnects, Step, StepDone, Connect
  <2>2. flows["boot"] \in Seq(StepNames)
    BY DEF RetryInv
  <2>3. Tail(flows["boot"]) \in Seq(StepNames) /\ ConnectsLast(Tail(flows["boot"]))
    BY <2>1, <2>2, StepLeaves DEF RetryInv
  <2> QED
    BY <2>1, <2>3 DEF RetryInv, RetryDue, NoStream
<1>10. ASSUME Swap PROVE RetryInv'
  <2>1. /\ flows["reload"] # <<>> /\ flows' = [flows EXCEPT !["reload"] = Tail(@)]
        /\ stream'.phase = "opening" /\ timers' = timers
    BY <1>10 DEF Swap, Step, StepDone, Connect
  <2>2. Tail(flows["reload"]) \in Seq(StepNames)
    <3>1. flows["reload"] \in Seq(StepNames)
      BY DEF RetryInv
    <3> QED
      BY <2>1, <3>1
  <2> QED
    BY <2>1, <2>2 DEF RetryInv, RetryDue, NoStream
<1>11. ASSUME Notice PROVE RetryInv'
  <2>1. /\ StepDone("reload") /\ flows["reload"] # <<>> /\ UNCHANGED <<stream, timers>>
        /\ Head(flows["reload"]) = "notice"
    BY <1>11 DEF Notice, Step, streamVars
  <2> QED
    BY <1>c, <2>1, StepDoneKeepsRetry
<1>12. ASSUME ReloadClicked PROVE RetryInv'
  <2> DEFINE steps == <<"swap">> \o KindSteps \o <<"notice">>
  <2>1. /\ flows["reload"] = <<>>
        /\ flows' = [flows EXCEPT !["reload"] = steps]
        /\ UNCHANGED <<stream, timers>>
    BY <1>12 DEF ReloadClicked, streamVars
  <2>2. steps \in Seq(StepNames)
    BY KindStepsTyped DEF StepNames
  <2>3. ~Step("reload", "swap")
    BY <2>1 DEF Step
  <2> HIDE DEF steps
  <2> QED
    BY <1>c, <2>1, <2>2, <2>3 DEF RetryInv, RetryDue
<1> QED
  BY <1>2, <1>3, <1>4, <1>5, <1>6, <1>7, <1>8, <1>9, <1>10, <1>11, <1>12
     DEF Next, PageNext, PageStep

LEMMA RetryInit ==
    ASSUME Init
    PROVE  RetryInv
<1> USE DEF Init, FanoutInit, PageInit
<1> DEFINE steps == <<"roster">> \o KindSteps \o <<"connect">>
<1>1. steps \in Seq(StepNames) /\ steps # <<>> /\ steps[Len(steps)] = "connect"
  BY KindStepsTyped DEF StepNames
<1> HIDE DEF steps
<1>2. flows = [f \in {"boot", "reload"} |->
                 IF f = "boot" /\ client = "page" THEN steps ELSE <<>>]
  BY DEF steps
<1>3. flows \in [{"boot", "reload"} -> Seq(StepNames)]
  <2>1. <<>> \in Seq(StepNames)
    OBVIOUS
  <2> QED
    BY <1>1, <1>2, <2>1
<1> QED
  BY <1>1, <1>2, <1>3 DEF RetryInv, RetryDue, ConnectsLast

\* A page without a stream has an await or a timer left that will connect, in
\* whatever order errors, timers, bootstrap and Reload settings cross (main.js
\* connect, onerror, bootstrap).
THEOREM RetryAlwaysDue == Spec => []RetryDue
<1>1. RetryInv /\ UNCHANGED vars => RetryInv'
  BY DEF RetryInv, RetryDue, Step, vars, ledgerVars, streamVars, pageVars
<1>2. RetryInv => RetryDue
  BY DEF RetryInv
<1> QED
  BY <1>1, <1>2, RetryInit, RetryStep, PTL DEF Spec

-----------------------------------------------------------------------------
(* The sidecar: what its variables are. *)

Peers == {"absent", "away", "online"}
Briefs == [room : Rooms, peer : Peers]
Items == [type : {"item"}, subject : Ids, version : {1, 2}, room : Rooms]
Briefings == {f \in [type : {"briefing"}, room : Rooms, brief : Briefs] : f.brief.room = f.room}
Frames == Items \cup Briefings

IsItem(f) == f.type = "item"

HubTyped ==
    /\ life \in Nat \ {0}
    /\ ledger \in [Ids -> 0 .. 2]
    /\ agent \in Peers
    /\ client \in {"page", "sidecar"}

\* The queue of an agent holds items only, and nothing while a stream pulls; an
\* agent that is served is registered.
SideInv ==
    /\ HubTyped
    /\ home \in Rooms
    /\ roomOf \in [Ids -> Rooms]
    /\ queue \in Seq(Items) /\ Len(queue) <= AgentQueueMax
    /\ link \in 0 .. life
    /\ pipe \in Seq(Frames)
    /\ debounce \in BOOLEAN
    /\ sig \in Briefs
    /\ told \in [Ids -> 0 .. 2]
    /\ brief \in Briefs /\ brief.room \in {Own, Nowhere}
    /\ cuts \in 0 .. MaxCuts
    /\ link = life => queue = <<>> /\ home # Nowhere
    /\ client = "page" => link = 0

LEMMA FrameKinds ==
    ASSUME NEW f \in Frames
    PROVE  /\ IsItem(f) <=> f \in Items
           /\ f.type = "briefing" <=> f \in Briefings
           /\ IsItem(f) \/ f.type = "briefing"
           /\ IsItem(f) => f.subject \in Ids /\ f.version \in {1, 2} /\ f.room \in Rooms
           /\ f.type = "briefing" => f.brief \in Briefs /\ f.brief.room = f.room /\ f.room \in Rooms
  BY DEF Frames, Items, Briefings, IsItem

LEMMA ItemTyped ==
    ASSUME NEW c \in Ids, NEW version \in {1, 2}, NEW room \in Rooms
    PROVE  /\ ItemFrame(c, version, room) \in Items /\ ItemFrame(c, version, room) \in Frames
           /\ IsItem(ItemFrame(c, version, room)) /\ ItemFrame(c, version, room).subject = c
           /\ ItemFrame(c, version, room).version = version /\ ItemFrame(c, version, room).room = room
  BY DEF ItemFrame, Items, Frames, IsItem

LEMMA BriefTyped ==
    ASSUME NEW b \in Briefs
    PROVE  /\ BriefFrame(b) \in Frames /\ BriefFrame(b).type = "briefing"
           /\ BriefFrame(b).brief = b /\ BriefFrame(b).room = b.room
<1>1. BriefFrame(b) \in [type : {"briefing"}, room : Rooms, brief : Briefs]
  BY DEF BriefFrame, Briefs
<1>2. BriefFrame(b).brief = b /\ BriefFrame(b).room = b.room /\ BriefFrame(b).type = "briefing"
  BY DEF BriefFrame
<1> QED
  BY <1>1, <1>2 DEF Frames, Briefings

LEMMA BriefInTyped ==
    ASSUME agent \in Peers, NEW room \in Rooms
    PROVE  BriefIn(room) \in Briefs /\ BriefIn(room).room = room
  BY DEF BriefIn, Briefs, Peers

LEMMA AppendFacts ==
    ASSUME NEW S, NEW s \in Seq(S), NEW e \in S
    PROVE  /\ Append(s, e) \in Seq(S) /\ Len(Append(s, e)) = Len(s) + 1
           /\ \A i \in 1 .. Len(s) : Append(s, e)[i] = s[i]
           /\ Append(s, e)[Len(s) + 1] = e
  OBVIOUS

LEMMA TailFacts ==
    ASSUME NEW S, NEW s \in Seq(S), s # <<>>
    PROVE  /\ Head(s) = s[1] /\ Head(s) \in S /\ Len(s) \in Nat \ {0}
           /\ Tail(s) \in Seq(S) /\ Len(Tail(s)) = Len(s) - 1
           /\ \A i \in 1 .. Len(s) - 1 : Tail(s)[i] = s[i + 1] /\ i + 1 \in 1 .. Len(s)
  OBVIOUS

\* u is s without some of its first entries.
Behind(u, s) ==
    \E k \in Nat : \A i \in 1 .. Len(u) : i + k \in 1 .. Len(s) /\ u[i] = s[i + k]

\* LastOf drops the first entries, if any.
LEMMA LastOfFacts ==
    ASSUME NEW S, NEW s \in Seq(S), NEW n \in Nat \ {0}
    PROVE  LastOf(s, n) \in Seq(S) /\ Len(LastOf(s, n)) <= n /\ Behind(LastOf(s, n), s)
<1>1. CASE Len(s) <= n
  <2>1. LastOf(s, n) = s
    BY <1>1 DEF LastOf
  <2>2. Behind(s, s)
    <3>1. \A i \in 1 .. Len(s) : i + 0 \in 1 .. Len(s) /\ s[i] = s[i + 0]
      OBVIOUS
    <3> QED
      BY <3>1 DEF Behind
  <2> QED
    BY <1>1, <2>1, <2>2
<1>2. CASE Len(s) > n
  <2> DEFINE k == Len(s) - n
             new == SubSeq(s, Len(s) - n + 1, Len(s))
  <2>1. LastOf(s, n) = new
    BY <1>2 DEF LastOf
  <2>2. k \in Nat /\ new \in Seq(S) /\ Len(new) = n
    BY <1>2
  <2>3. ASSUME NEW i \in 1 .. Len(new) PROVE i + k \in 1 .. Len(s) /\ new[i] = s[i + k]
    <3> DEFINE a == Len(s) - n + 1
               b == Len(s)
    <3>1. /\ i \in 1 .. b - a + 1 /\ a \in Int /\ b \in Int
          /\ i + k = a + i - 1 /\ i + k \in 1 .. Len(s)
      BY <1>2, <2>2
    <3>2. new = SubSeq(s, a, b)
      OBVIOUS
    <3> HIDE DEF a, b, new
    <3>3. new[i] = s[a + i - 1]
      BY <3>1, <3>2
    <3> QED
      BY <3>1, <3>3
  <2> HIDE DEF k, new
  <2>4. Behind(new, s)
    <3> SUFFICES \E m \in Nat : \A i \in 1 .. Len(new) : i + m \in 1 .. Len(s) /\ new[i] = s[i + m]
      BY DEF Behind
    <3> k \in Nat
      BY <2>2
    <3> WITNESS k \in Nat
    <3> QED
      BY <2>3
  <2>5. Len(new) <= n
    BY <2>2
  <2> QED
    BY <2>1, <2>2, <2>4, <2>5
<1> QED
  BY <1>1, <1>2

\* An item is put where the agent is served from.
LEMMA Enqueued ==
    ASSUME SideInv, NEW f \in Items, NEW room, Enqueue(f, room)
    PROVE  /\ pipe' \in Seq(Frames) /\ queue' \in Seq(Items) /\ Len(queue') <= AgentQueueMax
           /\ link = life => queue' = queue
           /\ \/ UNCHANGED <<pipe, queue>> /\ room = Nowhere
              \/ link = life /\ pipe' = Append(pipe, f) /\ queue' = queue
              \/ link # life /\ queue' = LastOf(Append(queue, f), AgentQueueMax) /\ pipe' = pipe
<1>1. pipe \in Seq(Frames) /\ queue \in Seq(Items) /\ f \in Frames /\ Len(queue) <= AgentQueueMax
  BY DEF SideInv, Frames
<1>2. Append(pipe, f) \in Seq(Frames) /\ Append(queue, f) \in Seq(Items)
  BY <1>1
<1>3. /\ LastOf(Append(queue, f), AgentQueueMax) \in Seq(Items)
      /\ Len(LastOf(Append(queue, f), AgentQueueMax)) <= AgentQueueMax
  BY <1>2, LastOfFacts
<1> QED
  BY <1>1, <1>2, <1>3 DEF Enqueue

\* What is replayed on connect: each pending item of the room, once.
Inbox(room) == {c \in Ids : ledger[c] = 1 /\ roomOf[c] = room}

\* s holds the pending items of a room, each of them.
Replays(s, room) ==
    /\ \A i \in 1 .. Len(s) :
          s[i].subject \in Inbox(room) /\ s[i].version = 1 /\ s[i].room = room /\ IsItem(s[i])
    /\ \A c \in Inbox(room) : \E i \in 1 .. Len(s) : s[i].subject = c

LEMMA Replayed ==
    ASSUME NEW room \in Rooms
    PROVE  ReplayFor(room) \in Seq(Items) /\ Replays(ReplayFor(room), room)
<1> DEFINE S == Inbox(room)
           n == Cardinality(S)
           q == SetToSeq(S)
           r == [i \in 1 .. n |-> ItemFrame(q[i], 1, room)]
<1>1. IsFiniteSet(S) /\ S \subseteq Ids
  BY FS_Subset DEF Inbox
<1>2. n \in Nat /\ ExistsBijection(1 .. n, S)
  BY <1>1, FS_CardinalityType
<1>3. \E f \in [1 .. n -> S] : IsInjective(f)
  BY <1>2 DEF ExistsBijection, Bijection, Injection
<1>4. q \in [1 .. n -> S] /\ IsInjective(q)
  BY <1>3 DEF SetToSeq
<1>5. q \in Surjection(1 .. n, S)
  <2>1. q \in Injection(1 .. n, S)
    BY <1>4 DEF Injection
  <2>2. Cardinality(1 .. n) = n
    BY <1>2, FS_Interval
  <2> HIDE DEF q
  <2> QED
    BY <1>1, <2>1, <2>2, FS_Injection
<1>6. \A c \in S : \E i \in 1 .. n : q[i] = c
  BY <1>5 DEF Surjection
<1>7. ReplayFor(room) = r
  BY <1>4 DEF ReplayFor, Inbox
<1> HIDE DEF q
<1>8. \A i \in 1 .. n : r[i] = ItemFrame(q[i], 1, room) /\ q[i] \in S
  BY <1>4
<1>9. r \in Seq(Items) /\ Len(r) = n
  <2>1. \A i \in 1 .. n : r[i] \in Items
    BY <1>1, <1>8, ItemTyped
  <2>2. r \in [1 .. n -> Items]
    BY <2>1
  <2> HIDE DEF r
  <2> QED
    BY <1>2, <2>2
<1>10. \A i \in 1 .. n : r[i].subject = q[i] /\ r[i].version = 1 /\ r[i].room = room /\ IsItem(r[i])
  BY <1>1, <1>8, ItemTyped
<1> HIDE DEF r, S, n
<1> QED
  <2>1. Replays(r, room)
    BY <1>6, <1>8, <1>9, <1>10 DEF S, Replays
  <2> QED
    BY <1>7, <1>9, <2>1

\* The first frames of a connection: the briefing, the replay, the queue.
FirstOnes(new, f, r, q) ==
    /\ new \in Seq(Frames) /\ Len(new) = 1 + Len(r) + Len(q)
    /\ new[1] = f
    /\ \A i \in 1 .. Len(r) : new[1 + i] = r[i]
    /\ \A i \in 1 .. Len(q) : new[1 + Len(r) + i] = q[i]
    /\ Len(r) \in Nat /\ Len(q) \in Nat

LEMMA FirstFrames ==
    ASSUME NEW f \in Frames, NEW r \in Seq(Items), NEW q \in Seq(Items)
    PROVE  FirstOnes(<<f>> \o r \o q, f, r, q)
<1>1. r \in Seq(Frames) /\ q \in Seq(Frames) /\ Len(r) \in Nat /\ Len(q) \in Nat
  BY DEF Frames
<1>2. <<f>> \o r \in Seq(Frames) /\ Len(<<f>> \o r) = 1 + Len(r)
  BY <1>1
<1>3. (<<f>> \o r)[1] = f /\ \A i \in 1 .. Len(r) : (<<f>> \o r)[1 + i] = r[i]
  BY <1>1
<1> DEFINE head == <<f>> \o r
<1> HIDE DEF head
<1>4. head \in Seq(Frames) /\ Len(head) = 1 + Len(r)
  BY <1>2 DEF head
<1>5. /\ head \o q \in Seq(Frames) /\ Len(head \o q) = Len(head) + Len(q)
      /\ \A i \in 1 .. Len(head) : (head \o q)[i] = head[i]
      /\ \A i \in 1 .. Len(q) : (head \o q)[Len(head) + i] = q[i]
  BY <1>1, <1>4
<1>6. /\ (head \o q)[1] = f
      /\ \A i \in 1 .. Len(r) : (head \o q)[1 + i] = r[i]
      /\ \A i \in 1 .. Len(q) : (head \o q)[1 + Len(r) + i] = q[i]
  BY <1>1, <1>3, <1>4, <1>5 DEF head
<1> QED
  BY <1>1, <1>4, <1>5, <1>6 DEF head, FirstOnes

-----------------------------------------------------------------------------
(* The hub under both clients. *)

Grown == /\ life' \in {life, life + 1}
         /\ \A c \in Ids : ledger[c] <= ledger'[c]

LEMMA AdvanceTyped ==
    ASSUME HubTyped, NEW c \in Ids, Advance(c)
    PROVE  /\ ledger' \in [Ids -> 0 .. 2] /\ \A d \in Ids : ledger[d] <= ledger'[d]
           /\ ledger[c] \in {0, 1} /\ ledger' = [ledger EXCEPT ![c] = @ + 1]
           /\ UNCHANGED <<life, agent, client>>
  BY DEF HubTyped, Advance, Commit

LEMMA KilledTyped ==
    ASSUME HubTyped, NEW done \in Halfway, Killed(done)
    PROVE  HubTyped' /\ Grown /\ life' = life + 1
<1>1. \A c \in done : c \in Ids /\ ledger[c] < 2
  BY DEF Halfway
<1>2. ledger' = [c \in Ids |-> IF c \in done THEN ledger[c] + 1 ELSE ledger[c]]
  BY DEF Killed
<1>3. \A c \in Ids : ledger'[c] \in 0 .. 2 /\ ledger[c] <= ledger'[c]
  BY <1>1, <1>2 DEF HubTyped
<1>4. ledger' \in [Ids -> 0 .. 2]
  BY <1>2, <1>3
<1> QED
  BY <1>3, <1>4 DEF HubTyped, Killed, Grown, Peers

LEMMA HubStep ==
    ASSUME HubTyped, Next
    PROVE  HubTyped' /\ Grown
<1>1. ASSUME UNCHANGED <<life, ledger>>, agent' \in Peers, client' = client
      PROVE  HubTyped' /\ Grown
  BY <1>1 DEF HubTyped, Grown
<1>2. ASSUME NEW c \in Ids, Advance(c) PROVE HubTyped' /\ Grown
  BY <1>2, AdvanceTyped DEF HubTyped, Grown
<1>3. ASSUME NEW done \in Halfway, Killed(done) PROVE HubTyped' /\ Grown
  BY <1>3, KilledTyped
<1>4. ASSUME AgentConnects \/ AgentLeaves \/ AgentRemoved PROVE HubTyped' /\ Grown
  BY <1>1, <1>4 DEF AgentConnects, AgentLeaves, AgentRemoved, Peers
<1>5. ASSUME HubNext PROVE HubTyped' /\ Grown
  <2>1. ASSUME NEW m \in Messages, Say(m) \/ SayFirst(m) PROVE HubTyped' /\ Grown
    BY <1>1, <2>1 DEF Say, SayFirst, ledgerVars, HubTyped, Peers
  <2>2. ASSUME ClearTranscript \/ Listen \/ AcceptStream PROVE HubTyped' /\ Grown
    BY <1>1, <2>2 DEF ClearTranscript, Listen, AcceptStream, ledgerVars, hubVars, HubTyped
  <2> QED
    BY <1>2, <1>4, <1>5, <2>1, <2>2 DEF HubNext
<1>6. ASSUME PageNext PROVE HubTyped' /\ Grown
  <2>1. ASSUME PageStep PROVE HubTyped' /\ Grown
    BY <1>1, <2>1 DEF PageStep, Handle, StreamEnds, RetryFires, Ask, AskInVain, Answer,
              BootConnects, Swap, Notice, ledgerVars, hubVars, HubTyped
  <2> QED
    BY <1>3, <1>6, <2>1 DEF PageNext, ReloadClicked
<1>7. ASSUME SidecarNext PROVE HubTyped' /\ Grown
  <2>1. ASSUME Post \/ Removed \/ DebounceFires \/ Connected \/ Disconnected \/ HandleEvent
               \/ Listen
        PROVE  HubTyped' /\ Grown
    BY <1>1, <2>1 DEF Post, Removed, DebounceFires, Connected, Disconnected, HandleEvent, Listen,
              ledgerVars, hubVars, HubTyped
  <2> QED
    BY <1>2, <1>3, <1>4, <1>7, <2>1 DEF SidecarNext, PeerChanges, Create, Resolve, Restarted
<1> QED
  BY <1>5, <1>6, <1>7 DEF Next

-----------------------------------------------------------------------------
(* The types of the sidecar are inductive. *)

LEMMA EmptyTyped == <<>> \in Seq(Items) /\ <<>> \in Seq(Frames) /\ Len(<<>>) <= AgentQueueMax
  OBVIOUS

LEMMA SideInit ==
    ASSUME Init
    PROVE  SideInv
<1>1. HubTyped /\ life = 1
  BY DEF Init, FanoutInit, HubTyped, Peers
<1>2. /\ home = Nowhere /\ roomOf = [c \in Ids |-> Nowhere] /\ queue = <<>> /\ link = 0
      /\ pipe = <<>> /\ debounce = FALSE /\ sig = NoBrief /\ brief = NoBrief /\ cuts = 0
      /\ told = [c \in Ids |-> 0]
  BY DEF Init, SidecarInit
<1>3. NoBrief \in Briefs /\ NoBrief.room = Nowhere /\ Nowhere \in Rooms
  BY DEF NoBrief, Briefs, Peers, Rooms
<1>4. queue \in Seq(Items) /\ Len(queue) <= AgentQueueMax /\ pipe \in Seq(Frames)
  BY <1>2, EmptyTyped
<1>5. roomOf \in [Ids -> Rooms] /\ told \in [Ids -> 0 .. 2] /\ home \in Rooms
  BY <1>2, <1>3
<1>6. cuts \in 0 .. MaxCuts
  BY <1>2
<1>7. link \in 0 .. life /\ link # life
  BY <1>1, <1>2
<1>8. sig \in Briefs /\ brief \in Briefs /\ brief.room = Nowhere /\ debounce \in BOOLEAN
  BY <1>2, <1>3
<1>9. link = 0
  BY <1>2
<1> QED
  BY <1>1, <1>4, <1>5, <1>6, <1>7, <1>8, <1>9 DEF SideInv

\* Nothing of the sidecar changes while the page is attached.
LEMMA PageClient ==
    ASSUME SideInv, Next, client = "page"
    PROVE  UNCHANGED sidecarVars /\ link = 0 /\ link # life
  BY DEF Next, SideInv, HubTyped

LEMMA CreateEffect ==
    ASSUME SideInv, NEW c \in Ids, Create(c)
    PROVE  /\ ledger[c] = 0 /\ ledger' = [ledger EXCEPT ![c] = 1]
           /\ home' \in {Own, Default} /\ (home # Nowhere => home' = home)
           /\ (home = Nowhere => home' = Default /\ debounce')
           /\ (debounce => debounce') /\ debounce' \in BOOLEAN
           /\ roomOf' = [roomOf EXCEPT ![c] = home'] /\ roomOf' \in [Ids -> Rooms]
           /\ ItemFrame(c, 1, home') \in Items
           /\ \/ link = life /\ pipe' = Append(pipe, ItemFrame(c, 1, home')) /\ queue' = queue
              \/ /\ link # life /\ pipe' = pipe
                 /\ queue' = LastOf(Append(queue, ItemFrame(c, 1, home')), AgentQueueMax)
           /\ pipe' \in Seq(Frames) /\ queue' \in Seq(Items) /\ Len(queue') <= AgentQueueMax
           /\ UNCHANGED <<life, agent, sig, link, told, brief, cuts>>
<1>1. HubTyped /\ Advance(c)
  BY DEF SideInv, Create
<1>2. /\ ledger[c] = 0 /\ ledger' = [ledger EXCEPT ![c] = 1]
      /\ UNCHANGED <<life, agent>>
  <2>1. ledger' = [ledger EXCEPT ![c] = @ + 1] /\ ledger[c] = 0
    BY <1>1, AdvanceTyped DEF Create
  <2> QED
    BY <1>1, <2>1, AdvanceTyped
<1>3. home' \in {Own, Default} /\ home' = HomeAfterPost /\ home' # Nowhere /\ home' \in Rooms
  BY DEF Create, HomeAfterPost, SideInv, Rooms
<1>4. roomOf' = [roomOf EXCEPT ![c] = home'] /\ roomOf' \in [Ids -> Rooms]
  BY <1>3 DEF Create, SideInv
<1>5. ItemFrame(c, 1, home') \in Items
  BY <1>3, ItemTyped
<1>6. Enqueue(ItemFrame(c, 1, home'), home')
  BY DEF Create
<1> DEFINE f == ItemFrame(c, 1, home')
<1> HIDE DEF f
<1>7. /\ pipe' \in Seq(Frames) /\ queue' \in Seq(Items) /\ Len(queue') <= AgentQueueMax
      /\ \/ link = life /\ pipe' = Append(pipe, f) /\ queue' = queue
         \/ link # life /\ pipe' = pipe /\ queue' = LastOf(Append(queue, f), AgentQueueMax)
  BY <1>3, <1>5, <1>6, Enqueued DEF f
<1>8. debounce' = (debounce \/ home' # home) /\ UNCHANGED <<sig, link, told, brief, cuts>>
  BY DEF Create, sessionVars
<1> QED
  BY <1>2, <1>3, <1>4, <1>5, <1>7, <1>8 DEF f, HomeAfterPost, SideInv

LEMMA ResolveEffect ==
    ASSUME SideInv, NEW c \in Ids, Resolve(c)
    PROVE  /\ ledger[c] = 1 /\ ledger' = [ledger EXCEPT ![c] = 2]
           /\ ItemFrame(c, 2, roomOf[c]) \in Items
           /\ \/ UNCHANGED <<pipe, queue>>
              \/ link = life /\ pipe' = Append(pipe, ItemFrame(c, 2, roomOf[c])) /\ queue' = queue
              \/ /\ link # life /\ pipe' = pipe
                 /\ queue' = LastOf(Append(queue, ItemFrame(c, 2, roomOf[c])), AgentQueueMax)
           /\ pipe' \in Seq(Frames) /\ queue' \in Seq(Items) /\ Len(queue') <= AgentQueueMax
           /\ UNCHANGED <<life, agent, home, debounce, roomOf, sig, link, told, brief, cuts>>
<1>1. HubTyped /\ Advance(c) /\ ledger[c] = 1
  BY DEF SideInv, Resolve
<1>2. ledger' = [ledger EXCEPT ![c] = 2] /\ UNCHANGED <<life, agent>>
  <2>1. ledger' = [ledger EXCEPT ![c] = @ + 1]
    BY <1>1, AdvanceTyped
  <2> QED
    BY <1>1, <2>1, AdvanceTyped
<1> DEFINE f == ItemFrame(c, 2, roomOf[c])
<1>3. f \in Items
  BY ItemTyped DEF SideInv
<1>4. UNCHANGED <<queue, pipe>> \/ Enqueue(f, home)
  BY DEF Resolve
<1> HIDE DEF f
<1>5. /\ pipe' \in Seq(Frames) /\ queue' \in Seq(Items) /\ Len(queue') <= AgentQueueMax
      /\ \/ UNCHANGED <<pipe, queue>>
         \/ link = life /\ pipe' = Append(pipe, f) /\ queue' = queue
         \/ link # life /\ pipe' = pipe /\ queue' = LastOf(Append(queue, f), AgentQueueMax)
  <2>1. CASE UNCHANGED <<queue, pipe>>
    BY <2>1 DEF SideInv
  <2>2. CASE Enqueue(f, home)
    BY <1>3, <2>2, Enqueued
  <2> QED
    BY <1>4, <2>1, <2>2
<1>6. UNCHANGED <<home, debounce, roomOf, sig, link, told, brief, cuts>>
  BY DEF Resolve, rosterVars, sessionVars
<1> QED
  BY <1>1, <1>2, <1>3, <1>5, <1>6 DEF f

LEMMA DebounceEffect ==
    ASSUME SideInv, DebounceFires
    PROVE  /\ ~debounce' /\ debounce' \in BOOLEAN
           /\ \/ link = life /\ sig' = BriefIn(home) /\ queue' = queue
                 /\ pipe' = Append(pipe, BriefFrame(BriefIn(home)))
              \/ UNCHANGED <<sig, queue, pipe>> /\ (link = life => sig = BriefIn(home))
           /\ UNCHANGED <<life, ledger, agent, home, roomOf, link, told, brief, cuts>>
<1>1. CASE home # Nowhere /\ link = life /\ sig # BriefIn(home)
  <2>1. sig' = BriefIn(home) /\ Enqueue(BriefFrame(BriefIn(home)), home)
    BY <1>1 DEF DebounceFires
  <2>2. pipe' = Append(pipe, BriefFrame(BriefIn(home))) /\ queue' = queue
    BY <1>1, <2>1 DEF Enqueue
  <2> QED
    BY <1>1, <2>1, <2>2 DEF DebounceFires, ledgerVars, hubVars, sessionVars
<1>2. CASE ~(home # Nowhere /\ link = life /\ sig # BriefIn(home))
  BY <1>2 DEF DebounceFires, ledgerVars, hubVars, sessionVars, SideInv
<1> QED
  BY <1>1, <1>2

LEMMA ConnectedEffect ==
    ASSUME SideInv, Connected
    PROVE  /\ link = 0 /\ link' = life /\ home' \in {Own, home} /\ home' \in Rooms \ {Nowhere}
           /\ debounce' = TRUE /\ sig' = BriefIn(home') /\ queue' = <<>>
           /\ BriefFrame(BriefIn(home')) \in Frames /\ BriefIn(home') \in Briefs
           /\ ReplayFor(home') \in Seq(Items)
           /\ pipe' = <<BriefFrame(BriefIn(home'))>> \o ReplayFor(home') \o queue
           /\ pipe' \in Seq(Frames)
           /\ UNCHANGED <<life, ledger, agent, roomOf, told, brief, cuts>>
<1>1. home' \in {Own, home} /\ home' \in Rooms \ {Nowhere}
  BY DEF Connected, SideInv, Rooms
<1>2. BriefIn(home') \in Briefs
  BY <1>1, BriefInTyped DEF SideInv, HubTyped
<1>3. BriefFrame(BriefIn(home')) \in Frames
  BY <1>2, BriefTyped
<1>4. ReplayFor(home') \in Seq(Items) /\ queue \in Seq(Items)
  BY <1>1, Replayed DEF SideInv
<1>5. <<BriefFrame(BriefIn(home'))>> \o ReplayFor(home') \o queue \in Seq(Frames)
  BY <1>3, <1>4, FirstFrames DEF FirstOnes
<1>6. pipe' = <<BriefFrame(BriefIn(home'))>> \o ReplayFor(home') \o queue
  BY DEF Connected
<1>7. /\ link = 0 /\ link' = life /\ debounce' = TRUE /\ sig' = BriefIn(home') /\ queue' = <<>>
      /\ UNCHANGED <<life, ledger, agent, roomOf, told, brief, cuts>>
  BY DEF Connected, ledgerVars, hubVars, sessionVars
<1> QED
  BY <1>1, <1>2, <1>3, <1>4, <1>5, <1>6, <1>7

LEMMA HandleEffect ==
    ASSUME SideInv, HandleEvent
    PROVE  /\ pipe # <<>> /\ Head(pipe) = pipe[1] /\ Head(pipe) \in Frames
           /\ pipe' = Tail(pipe) /\ pipe' \in Seq(Frames)
           /\ \/ Head(pipe).room # Own /\ UNCHANGED <<told, brief>>
              \/ /\ Head(pipe).room = Own /\ ~IsItem(Head(pipe))
                 /\ brief' = Head(pipe).brief /\ brief' \in Briefs /\ brief'.room = Own
                 /\ UNCHANGED told
              \/ /\ Head(pipe).room = Own /\ IsItem(Head(pipe))
                 /\ told' = [told EXCEPT ![Head(pipe).subject] = Head(pipe).version]
                 /\ told' \in [Ids -> 0 .. 2]
                 /\ UNCHANGED brief
           /\ UNCHANGED <<life, ledger, agent, home, debounce, sig, roomOf, queue, link, cuts>>
<1>1. pipe # <<>> /\ pipe \in Seq(Frames) /\ pipe' = Tail(pipe)
  BY DEF HandleEvent, SideInv
<1>2. Head(pipe) = pipe[1] /\ Head(pipe) \in Frames /\ pipe' \in Seq(Frames)
  BY <1>1, TailFacts
<1> DEFINE f == Head(pipe)
<1>3. \/ f.room # Own /\ UNCHANGED sessionVars
      \/ f.room = Own /\ f.type = "briefing" /\ brief' = f.brief /\ UNCHANGED told
      \/ /\ f.room = Own /\ f.type = "item" /\ told' = [told EXCEPT ![f.subject] = f.version]
         /\ UNCHANGED brief
  BY DEF HandleEvent
<1>4. UNCHANGED <<life, ledger, agent, home, debounce, sig, roomOf, queue, link, cuts>>
  BY DEF HandleEvent, ledgerVars, hubVars, rosterVars
<1>5. f \in Frames
  BY <1>2
<1> HIDE DEF f
<1>6. /\ IsItem(f) => f.subject \in Ids /\ f.version \in {1, 2}
      /\ f.type = "briefing" => f.brief \in Briefs /\ f.brief.room = f.room /\ ~IsItem(f)
  BY <1>5, FrameKinds DEF IsItem
<1>7. \/ f.room # Own /\ UNCHANGED <<told, brief>>
      \/ /\ f.room = Own /\ ~IsItem(f) /\ UNCHANGED told
         /\ brief' = f.brief /\ brief' \in Briefs /\ brief'.room = Own
      \/ /\ f.room = Own /\ IsItem(f) /\ told' = [told EXCEPT ![f.subject] = f.version]
         /\ told' \in [Ids -> 0 .. 2] /\ UNCHANGED brief
  BY <1>3, <1>6 DEF IsItem, sessionVars, SideInv
<1> QED
  BY <1>1, <1>2, <1>4, <1>7 DEF f

LEMMA SideStep ==
    ASSUME SideInv, Next
    PROVE  SideInv'
<1>0. HubTyped' /\ life' \in {life, life + 1} /\ client' = client /\ life \in Nat \ {0}
  BY HubStep, ClientStays DEF SideInv, Grown, HubTyped
<1>1. CASE client = "page"
  BY <1>0, <1>1, PageClient DEF SideInv, sidecarVars, rosterVars, sessionVars
<1>2. CASE client = "sidecar" /\ SidecarNext
  <2>1. ASSUME PeerChanges PROVE SideInv'
    BY <1>0, <1>2, <2>1 DEF PeerChanges, AgentConnects, AgentLeaves, AgentRemoved, SideInv, sessionVars
  <2>2. ASSUME NEW c \in Ids, Create(c) PROVE SideInv'
    BY <1>0, <1>2, <2>2, CreateEffect DEF SideInv, Rooms
  <2>3. ASSUME NEW c \in Ids, Resolve(c) PROVE SideInv'
    BY <1>0, <1>2, <2>3, ResolveEffect DEF SideInv
  <2>4. ASSUME Post PROVE SideInv'
    BY <1>0, <1>2, <2>4 DEF Post, HomeAfterPost, SideInv, hubVars, sessionVars, Rooms
  <2>5. ASSUME Removed PROVE SideInv'
    BY <1>0, <1>2, <2>5 DEF Removed, SideInv, hubVars, sessionVars, Rooms
  <2>6. ASSUME DebounceFires PROVE SideInv'
    <3>1. BriefIn(home) \in Briefs
      BY BriefInTyped DEF SideInv, HubTyped
    <3>2. Append(pipe, BriefFrame(BriefIn(home))) \in Seq(Frames)
      BY <3>1, BriefTyped DEF SideInv
    <3> QED
      BY <1>0, <1>2, <2>6, <3>1, <3>2, DebounceEffect DEF SideInv
  <2>7. ASSUME Restarted PROVE SideInv'
    <3>1. /\ life' = life + 1 /\ home' = Nowhere /\ queue' = <<>> /\ debounce' = FALSE
          /\ sig' = NoBrief /\ UNCHANGED <<roomOf, link, pipe, told, brief, cuts>>
      BY <2>7 DEF Restarted, Killed, sessionVars
    <3>2. sig' \in Briefs /\ home' \in Rooms
      BY <3>1 DEF Rooms, NoBrief, Briefs, Peers
    <3>3. queue' \in Seq(Items) /\ Len(queue') <= AgentQueueMax
      BY <3>1, EmptyTyped
    <3>4. life' # link /\ link \in 0 .. life'
      BY <1>0, <3>1 DEF SideInv
    <3> QED
      BY <1>0, <1>2, <3>1, <3>2, <3>3, <3>4 DEF SideInv
  <2>8. ASSUME Connected PROVE SideInv'
    <3>1. queue' \in Seq(Items) /\ Len(queue') <= AgentQueueMax
      BY <2>8, ConnectedEffect, EmptyTyped
    <3>2. /\ link' = life' /\ link' \in 0 .. life' /\ debounce' \in BOOLEAN
          /\ home' \in Rooms /\ home' # Nowhere /\ sig' \in Briefs /\ pipe' \in Seq(Frames)
          /\ UNCHANGED <<roomOf, told, brief, cuts>>
      BY <1>0, <2>8, ConnectedEffect
    <3>3. queue' = <<>>
      BY <2>8, ConnectedEffect
    <3> QED
      BY <1>0, <1>2, <3>1, <3>2, <3>3 DEF SideInv
  <2>9. ASSUME Disconnected PROVE SideInv'
    <3>1. /\ link' = 0 /\ pipe' = <<>> /\ UNCHANGED <<life, home, sig, roomOf, queue>>
          /\ debounce' \in {debounce, TRUE}
      BY <2>9 DEF Disconnected, hubVars
    <3>2. cuts' \in 0 .. MaxCuts
      BY <2>9 DEF Disconnected, SideInv
    <3>3. told' \in [Ids -> 0 .. 2]
      BY <2>9 DEF Disconnected, sessionVars, SideInv
    <3>4. brief' \in Briefs /\ brief'.room \in {Own, Nowhere}
      BY <2>9 DEF Disconnected, sessionVars, SideInv, NoBrief, Briefs, Peers, Rooms
    <3>5. pipe' \in Seq(Frames)
      BY <3>1, EmptyTyped
    <3>6. link' \in 0 .. life' /\ link' # life'
      BY <1>0, <3>1
    <3>8. debounce' \in BOOLEAN
      BY <3>1, Zenon DEF SideInv
    <3>7. /\ home' \in Rooms /\ sig' \in Briefs /\ roomOf' \in [Ids -> Rooms]
          /\ queue' \in Seq(Items) /\ Len(queue') <= AgentQueueMax
      BY <3>1 DEF SideInv
    <3> QED
      BY <1>0, <1>2, <3>2, <3>3, <3>4, <3>5, <3>6, <3>7, <3>8 DEF SideInv
  <2>10. ASSUME HandleEvent PROVE SideInv'
    BY <1>0, <1>2, <2>10, HandleEffect DEF SideInv
  <2>11. ASSUME Listen, UNCHANGED sidecarVars PROVE SideInv'
    BY <1>0, <1>2, <2>11 DEF Listen, SideInv, sidecarVars, rosterVars, sessionVars
  <2> QED
    BY <1>2, <2>1, <2>2, <2>3, <2>4, <2>5, <2>6, <2>7, <2>8, <2>9, <2>10, <2>11 DEF SidecarNext
<1> QED
  BY <1>1, <1>2 DEF Next

LEMMA SideStutters ==
    ASSUME UNCHANGED vars, SideInv
    PROVE  SideInv'
  BY DEF SideInv, HubTyped, vars, ledgerVars, hubVars, sidecarVars, rosterVars, sessionVars

\* The sidecar's variables keep their types and bounds, for any capacity of the
\* queue (registry.ts, streams.ts handleAgentStream, tail.ts).
THEOREM SidecarTypeCorrect == Spec => []SidecarTypeOK
<1>1. SideInv /\ [Next]_vars => SideInv'
  BY SideStep, SideStutters
<1>2. SideInv => SidecarTypeOK
  BY DEF SideInv, SidecarTypeOK
<1> QED
  BY <1>1, <1>2, SideInit, PTL DEF Spec

-----------------------------------------------------------------------------
(* Versions never go back, from the session through the pipe and the queue   *)
(* to the ledger.                                                            *)

Before(f, g) == IsItem(f) /\ IsItem(g) /\ f.subject = g.subject => f.version <= g.version
Ordered(p) == \A i, j \in 1 .. Len(p) : i < j => Before(p[i], p[j])
Leads(p, q) == \A i \in 1 .. Len(p), j \in 1 .. Len(q) : Before(p[i], q[j])
Between(f, t, l) == IsItem(f) => t[f.subject] <= f.version /\ f.version <= l[f.subject]
Current(p, t, l) == \A i \in 1 .. Len(p) : Between(p[i], t, l)

OrderInv ==
    /\ Ordered(pipe) /\ Ordered(queue) /\ Leads(pipe, queue)
    /\ Current(pipe, told, ledger) /\ Current(queue, told, ledger)
    /\ \A c \in Ids : told[c] <= ledger[c]

Versions == [Ids -> 0 .. 2]

\* What the session was told goes back, or the ledger goes forward.
LEMMA CurrentWiden ==
    ASSUME NEW p \in Seq(Frames), NEW t \in Versions, NEW l \in Versions,
           NEW u \in Versions, NEW m \in Versions, Current(p, t, l),
           \A c \in Ids : u[c] <= t[c] /\ l[c] <= m[c]
    PROVE  Current(p, u, m)
<1> SUFFICES ASSUME NEW i \in 1 .. Len(p), IsItem(p[i])
             PROVE  u[p[i].subject] <= p[i].version /\ p[i].version <= m[p[i].subject]
  BY DEF Current, Between
<1>1. p[i] \in Frames
  OBVIOUS
<1>2. p[i].subject \in Ids /\ p[i].version \in {1, 2}
  BY <1>1, FrameKinds
<1>3. t[p[i].subject] <= p[i].version /\ p[i].version <= l[p[i].subject]
  BY DEF Current, Between
<1> QED
  BY <1>2, <1>3 DEF Versions

\* An item with the version the ledger has, or a briefing, goes to the end.
LEMMA AppendInOrder ==
    ASSUME NEW p \in Seq(Frames), NEW f \in Frames, NEW t \in Versions, NEW l \in Versions,
           Ordered(p), Current(p, t, l), \A c \in Ids : t[c] <= l[c],
           IsItem(f) => f.version = l[f.subject]
    PROVE  Ordered(Append(p, f)) /\ Current(Append(p, f), t, l)
<1> DEFINE new == Append(p, f)
<1>1. /\ Len(new) = Len(p) + 1 /\ Len(p) \in Nat /\ new[Len(p) + 1] = f
      /\ \A i \in 1 .. Len(p) : new[i] = p[i]
  OBVIOUS
<1> HIDE DEF new
<1>2. Between(f, t, l)
  BY FrameKinds DEF Between, Versions
<1>3. \A i \in 1 .. Len(p) : Before(p[i], f)
  <2> SUFFICES ASSUME NEW i \in 1 .. Len(p), IsItem(p[i]), IsItem(f), p[i].subject = f.subject
               PROVE  p[i].version <= f.version
    BY DEF Before
  <2> QED
    BY DEF Current, Between
<1>4. Current(new, t, l)
  <2> SUFFICES ASSUME NEW i \in 1 .. Len(new)
               PROVE  Between(new[i], t, l)
    BY DEF Current
  <2>1. CASE i = Len(p) + 1
    BY <1>1, <1>2, <2>1
  <2>2. CASE i # Len(p) + 1
    <3>1. i \in 1 .. Len(p)
      BY <1>1, <2>2
    <3> QED
      BY <1>1, <3>1 DEF Current
  <2> QED
    BY <2>1, <2>2
<1>5. Ordered(new)
  <2> SUFFICES ASSUME NEW i \in 1 .. Len(new), NEW j \in 1 .. Len(new), i < j
               PROVE  Before(new[i], new[j])
    BY DEF Ordered
  <2>1. i \in 1 .. Len(p)
    BY <1>1
  <2>2. CASE j = Len(p) + 1
    BY <1>1, <1>3, <2>1, <2>2
  <2>3. CASE j # Len(p) + 1
    <3>1. j \in 1 .. Len(p)
      BY <1>1, <2>3
    <3> QED
      BY <1>1, <2>1, <3>1 DEF Ordered
  <2> QED
    BY <2>2, <2>3
<1> QED
  BY <1>4, <1>5 DEF new

\* The oldest go.
LEMMA LastInOrder ==
    ASSUME NEW q \in Seq(Frames), NEW n \in Nat \ {0}, NEW t, NEW l,
           Ordered(q), Current(q, t, l)
    PROVE  Ordered(LastOf(q, n)) /\ Current(LastOf(q, n), t, l)
<1> DEFINE r == LastOf(q, n)
<1>0. r \in Seq(Frames) /\ Behind(r, q)
  BY LastOfFacts
<1> HIDE DEF r
<1>1. PICK k \in Nat : \A i \in 1 .. Len(r) : i + k \in 1 .. Len(q) /\ r[i] = q[i + k]
  BY <1>0 DEF Behind
<1>3. Current(r, t, l)
  BY <1>1 DEF Current
<1>4. Ordered(r)
  <2> SUFFICES ASSUME NEW i \in 1 .. Len(r), NEW j \in 1 .. Len(r), i < j
               PROVE  Before(r[i], r[j])
    BY DEF Ordered
  <2>1. i + k < j + k /\ i + k \in 1 .. Len(q) /\ j + k \in 1 .. Len(q)
    BY <1>0, <1>1
  <2> QED
    BY <1>1, <2>1 DEF Ordered
<1> QED
  BY <1>3, <1>4 DEF r

\* The first is handled: what follows is no older.
LEMMA TailInOrder ==
    ASSUME NEW p \in Seq(Frames), p # <<>>, NEW t \in Versions, NEW l \in Versions,
           Ordered(p), Current(p, t, l), NEW u \in Versions,
           \/ u = t
           \/ IsItem(Head(p)) /\ u = [t EXCEPT ![Head(p).subject] = Head(p).version]
    PROVE  Ordered(Tail(p)) /\ Current(Tail(p), u, l)
<1>1. /\ Head(p) = p[1] /\ Head(p) \in Frames /\ Len(p) \in Nat \ {0}
      /\ Tail(p) \in Seq(Frames) /\ Len(Tail(p)) = Len(p) - 1
      /\ \A i \in 1 .. Len(p) - 1 : Tail(p)[i] = p[i + 1] /\ i + 1 \in 1 .. Len(p)
  BY TailFacts
<1>2. Ordered(Tail(p))
  <2> SUFFICES ASSUME NEW i \in 1 .. Len(Tail(p)), NEW j \in 1 .. Len(Tail(p)), i < j
               PROVE  Before(Tail(p)[i], Tail(p)[j])
    BY DEF Ordered
  <2>1. i + 1 < j + 1 /\ i + 1 \in 1 .. Len(p) /\ j + 1 \in 1 .. Len(p)
    BY <1>1
  <2> QED
    BY <1>1, <2>1 DEF Ordered
<1>3. Current(Tail(p), u, l)
  <2> SUFFICES ASSUME NEW i \in 1 .. Len(Tail(p))
               PROVE  Between(Tail(p)[i], u, l)
    BY DEF Current
  <2> DEFINE g == p[i + 1]
  <2>1. g = Tail(p)[i] /\ i + 1 \in 1 .. Len(p) /\ 1 < i + 1 /\ 1 \in 1 .. Len(p)
    BY <1>1
  <2>2. Between(g, t, l) /\ Before(p[1], g)
    BY <2>1 DEF Current, Ordered
  <2>3. g \in Frames
    BY <2>1
  <2> HIDE DEF g
  <2>4. Between(g, u, l)
    <3>1. CASE u = t
      BY <2>2, <3>1
    <3>2. CASE IsItem(Head(p)) /\ u = [t EXCEPT ![Head(p).subject] = Head(p).version]
      BY <1>1, <2>2, <2>3, <3>2, FrameKinds DEF Between, Before, Versions
    <3> QED
      BY <3>1, <3>2
  <2> QED
    BY <2>1, <2>4
<1> QED
  BY <1>2, <1>3

LEMMA EmptyInOrder ==
    ASSUME NEW p, NEW t, NEW l
    PROVE  Ordered(<<>>) /\ Current(<<>>, t, l) /\ Leads(p, <<>>) /\ Leads(<<>>, p)
  BY DEF Ordered, Current, Leads

\* The pipe stays ahead of a queue that grows at its end and loses its oldest.
LEMMA LeadsAppend ==
    ASSUME NEW p \in Seq(Frames), NEW q \in Seq(Frames), NEW f \in Frames,
           NEW t \in Versions, NEW l \in Versions, Leads(p, q), Current(p, t, l),
           IsItem(f), f.version = l[f.subject]
    PROVE  Leads(p, Append(q, f))
<1> DEFINE new == Append(q, f)
<1>1. /\ Len(new) = Len(q) + 1 /\ Len(q) \in Nat /\ new[Len(q) + 1] = f
      /\ \A i \in 1 .. Len(q) : new[i] = q[i]
  OBVIOUS
<1> HIDE DEF new
<1>2. \A i \in 1 .. Len(p) : Before(p[i], f)
  <2> SUFFICES ASSUME NEW i \in 1 .. Len(p), IsItem(p[i]), p[i].subject = f.subject
               PROVE  p[i].version <= f.version
    BY DEF Before
  <2> QED
    BY DEF Current, Between
<1>3. Leads(p, new)
  <2> SUFFICES ASSUME NEW i \in 1 .. Len(p), NEW j \in 1 .. Len(new)
               PROVE  Before(p[i], new[j])
    BY DEF Leads
  <2>1. CASE j = Len(q) + 1
    BY <1>1, <1>2, <2>1
  <2>2. CASE j # Len(q) + 1
    <3>1. j \in 1 .. Len(q)
      BY <1>1, <2>2
    <3> QED
      BY <1>1, <3>1 DEF Leads
  <2> QED
    BY <2>1, <2>2
<1> QED
  BY <1>3 DEF new

LEMMA LeadsLast ==
    ASSUME NEW p, NEW q \in Seq(Frames), NEW n \in Nat \ {0}, Leads(p, q)
    PROVE  Leads(p, LastOf(q, n))
<1> DEFINE r == LastOf(q, n)
<1>0. Behind(r, q)
  BY LastOfFacts
<1> HIDE DEF r
<1>1. PICK k \in Nat : \A i \in 1 .. Len(r) : i + k \in 1 .. Len(q) /\ r[i] = q[i + k]
  BY <1>0 DEF Behind
<1> QED
  BY <1>1 DEF Leads, r

\* The first of the pipe is handled: the queue is still no older.
LEMMA LeadsTail ==
    ASSUME NEW p \in Seq(Frames), p # <<>>, NEW q \in Seq(Frames),
           NEW t \in Versions, NEW l \in Versions, NEW u \in Versions,
           Leads(p, q), Current(p, t, l), Current(q, t, l), \A c \in Ids : t[c] <= l[c],
           \/ u = t
           \/ IsItem(Head(p)) /\ u = [t EXCEPT ![Head(p).subject] = Head(p).version]
    PROVE  Leads(Tail(p), q) /\ Current(q, u, l) /\ \A c \in Ids : u[c] <= l[c]
<1>1. /\ Head(p) = p[1] /\ Head(p) \in Frames /\ Len(p) \in Nat \ {0}
      /\ Tail(p) \in Seq(Frames) /\ Len(Tail(p)) = Len(p) - 1
      /\ \A i \in 1 .. Len(p) - 1 : Tail(p)[i] = p[i + 1] /\ i + 1 \in 1 .. Len(p)
  BY TailFacts
<1>2. Leads(Tail(p), q)
  BY <1>1 DEF Leads
<1>3. Between(p[1], t, l) /\ 1 \in 1 .. Len(p)
  BY <1>1 DEF Current
<1>4. \A c \in Ids : u[c] <= l[c]
  BY <1>1, <1>3, FrameKinds DEF Between, Versions
<1>5. Current(q, u, l)
  <2> SUFFICES ASSUME NEW j \in 1 .. Len(q)
               PROVE  Between(q[j], u, l)
    BY DEF Current
  <2> DEFINE g == q[j]
  <2>1. Between(g, t, l) /\ Before(p[1], g) /\ g \in Frames
    BY <1>3 DEF Current, Leads
  <2> HIDE DEF g
  <2>2. Between(g, u, l)
    <3>1. CASE u = t
      BY <2>1, <3>1
    <3>2. CASE IsItem(Head(p)) /\ u = [t EXCEPT ![Head(p).subject] = Head(p).version]
      BY <1>1, <2>1, <3>2, FrameKinds DEF Between, Before, Versions
    <3> QED
      BY <3>1, <3>2
  <2> QED
    BY <2>2 DEF g
<1> QED
  BY <1>2, <1>4, <1>5

\* On connect: the replay is of pending items, as old as can be, and the queue
\* comes after it.
LEMMA FirstInOrder ==
    ASSUME NEW f \in Frames, ~IsItem(f), NEW r \in Seq(Items), NEW q \in Seq(Items),
           NEW t \in Versions, NEW l \in Versions, Ordered(q), Current(q, t, l),
           \A c \in Ids : t[c] <= l[c],
           \A i \in 1 .. Len(r) : r[i].version = 1 /\ l[r[i].subject] = 1
    PROVE  Ordered(<<f>> \o r \o q) /\ Current(<<f>> \o r \o q, t, l)
<1> DEFINE new == <<f>> \o r \o q
<1>0. FirstOnes(new, f, r, q)
  BY FirstFrames
<1> HIDE DEF new
<1>1. /\ new \in Seq(Frames) /\ Len(new) = 1 + Len(r) + Len(q) /\ new[1] = f
      /\ \A i \in 1 .. Len(r) : new[1 + i] = r[i]
      /\ \A i \in 1 .. Len(q) : new[1 + Len(r) + i] = q[i]
      /\ Len(r) \in Nat /\ Len(q) \in Nat
  BY <1>0 DEF FirstOnes
<1>2. \A i \in 1 .. Len(new) :
        \/ i = 1
        \/ i - 1 \in 1 .. Len(r) /\ new[i] = r[i - 1]
        \/ i - 1 - Len(r) \in 1 .. Len(q) /\ new[i] = q[i - 1 - Len(r)]
  <2> SUFFICES ASSUME NEW i \in 1 .. Len(new), i # 1
               PROVE  \/ i - 1 \in 1 .. Len(r) /\ new[i] = r[i - 1]
                      \/ i - 1 - Len(r) \in 1 .. Len(q) /\ new[i] = q[i - 1 - Len(r)]
    OBVIOUS
  <2>1. CASE i - 1 <= Len(r)
    <3>1. i - 1 \in 1 .. Len(r) /\ 1 + (i - 1) = i
      BY <1>1, <2>1
    <3> QED
      BY <1>1, <3>1
  <2>2. CASE i - 1 > Len(r)
    <3>1. i - 1 - Len(r) \in 1 .. Len(q) /\ 1 + Len(r) + (i - 1 - Len(r)) = i
      BY <1>1, <2>2
    <3> QED
      BY <1>1, <3>1
  <2> QED
    BY <1>1, <2>1, <2>2
<1>3. \A i \in 1 .. Len(r) : /\ IsItem(r[i]) /\ r[i].subject \in Ids
                             /\ r[i].version = 1 /\ l[r[i].subject] = 1
  <2>1. \A i \in 1 .. Len(r) : r[i] \in Items /\ r[i] \in Frames
    BY DEF Frames
  <2> QED
    BY <2>1, FrameKinds
<1>4. \A j \in 1 .. Len(q) : IsItem(q[j]) /\ q[j].version \in {1, 2}
  <2>1. \A j \in 1 .. Len(q) : q[j] \in Items /\ q[j] \in Frames
    BY DEF Frames
  <2> QED
    BY <2>1, FrameKinds
<1>5. Current(new, t, l)
  <2> SUFFICES ASSUME NEW i \in 1 .. Len(new)
               PROVE  Between(new[i], t, l)
    BY DEF Current
  <2>1. CASE i = 1
    BY <1>1, <2>1 DEF Between
  <2>2. CASE i - 1 \in 1 .. Len(r) /\ new[i] = r[i - 1]
    <3>1. t[r[i - 1].subject] <= 1
      BY <1>3, <2>2
    <3> QED
      BY <1>3, <2>2, <3>1 DEF Between
  <2>3. CASE i - 1 - Len(r) \in 1 .. Len(q) /\ new[i] = q[i - 1 - Len(r)]
    BY <2>3 DEF Current
  <2> QED
    BY <1>2, <2>1, <2>2, <2>3
<1>6. Ordered(new)
  <2> SUFFICES ASSUME NEW i \in 1 .. Len(new), NEW j \in 1 .. Len(new), i < j
               PROVE  Before(new[i], new[j])
    BY DEF Ordered
  <2>1. CASE i = 1
    BY <1>1, <2>1 DEF Before
  <2>2. CASE i - 1 \in 1 .. Len(r) /\ new[i] = r[i - 1]
    <3>1. j # 1
      BY <2>2
    <3>2. new[j].version \in {1, 2}
      <4>1. CASE j - 1 \in 1 .. Len(r) /\ new[j] = r[j - 1]
        BY <1>3, <4>1
      <4>2. CASE j - 1 - Len(r) \in 1 .. Len(q) /\ new[j] = q[j - 1 - Len(r)]
        BY <1>4, <4>2
      <4> QED
        BY <1>2, <3>1, <4>1, <4>2
    <3> QED
      BY <1>3, <2>2, <3>2 DEF Before
  <2>3. CASE i - 1 - Len(r) \in 1 .. Len(q) /\ new[i] = q[i - 1 - Len(r)]
    <3>1. j # 1 /\ j - 1 \notin 1 .. Len(r)
      BY <1>1, <2>3
    <3>2. j - 1 - Len(r) \in 1 .. Len(q) /\ new[j] = q[j - 1 - Len(r)]
      BY <1>2, <3>1
    <3>3. i - 1 - Len(r) < j - 1 - Len(r)
      BY <1>1
    <3> QED
      BY <2>3, <3>2, <3>3 DEF Ordered
  <2> QED
    BY <1>2, <2>1, <2>2, <2>3
<1> QED
  BY <1>5, <1>6 DEF new

\* An item with the ledger's version goes where the agent is served from.
LEMMA ItemInOrder ==
    ASSUME SideInv, SideInv', OrderInv, NEW f \in Items, Grown, f.version = ledger'[f.subject],
           \/ link = life /\ pipe' = Append(pipe, f) /\ queue' = queue
           \/ link # life /\ pipe' = pipe /\ queue' = LastOf(Append(queue, f), AgentQueueMax),
           told' = told
    PROVE  OrderInv'
<1>1. /\ pipe \in Seq(Frames) /\ queue \in Seq(Frames) /\ f \in Frames /\ IsItem(f)
      /\ told \in Versions /\ ledger \in Versions /\ ledger' \in Versions
  <2>1. f \in Frames
    BY DEF Frames
  <2>2. IsItem(f)
    BY <2>1, FrameKinds
  <2>3. queue \in Seq(Frames)
    BY DEF SideInv, Frames
  <2> QED
    BY <2>1, <2>2, <2>3 DEF SideInv, HubTyped, Versions
<1>2. \A c \in Ids : told[c] <= ledger[c] /\ ledger[c] <= ledger'[c]
  BY DEF OrderInv, Grown
<1>3. \A c \in Ids : told[c] <= told[c] /\ told[c] <= ledger'[c]
  BY <1>1, <1>2 DEF Versions
<1>4. Current(pipe, told, ledger') /\ Current(queue, told, ledger')
  BY <1>1, <1>2, <1>3, CurrentWiden DEF OrderInv
<1>5. CASE link = life /\ pipe' = Append(pipe, f) /\ queue' = queue
  <2>1. queue = <<>>
    BY <1>5 DEF SideInv
  <2>2. Ordered(pipe') /\ Current(pipe', told, ledger')
    BY <1>1, <1>3, <1>4, <1>5, AppendInOrder DEF OrderInv
  <2> QED
    BY <1>3, <1>4, <1>5, <2>1, <2>2, EmptyInOrder DEF OrderInv
<1>6. CASE link # life /\ pipe' = pipe /\ queue' = LastOf(Append(queue, f), AgentQueueMax)
  <2>1. Ordered(Append(queue, f)) /\ Current(Append(queue, f), told, ledger')
    BY <1>1, <1>3, <1>4, AppendInOrder DEF OrderInv
  <2>2. Leads(pipe, Append(queue, f))
    BY <1>1, <1>4, LeadsAppend DEF OrderInv
  <2>3. Append(queue, f) \in Seq(Frames)
    BY <1>1
  <2>4. Ordered(queue') /\ Current(queue', told, ledger')
    BY <1>6, <2>1, <2>3, LastInOrder
  <2>5. Leads(pipe, queue')
    BY <1>6, <2>2, <2>3, LeadsLast
  <2> QED
    BY <1>3, <1>4, <1>6, <2>4, <2>5 DEF OrderInv
<1> QED
  BY <1>5, <1>6

LEMMA OrderStep ==
    ASSUME SideInv, OrderInv, Next
    PROVE  OrderInv'
<1>0. SideInv' /\ Grown /\ HubTyped'
  BY SideStep, HubStep DEF SideInv
<1>1. /\ pipe \in Seq(Frames) /\ queue \in Seq(Frames) /\ queue \in Seq(Items)
      /\ told \in Versions /\ told' \in Versions /\ ledger \in Versions /\ ledger' \in Versions
  <2>1. queue \in Seq(Frames)
    BY DEF SideInv, Frames
  <2> QED
    BY <1>0, <2>1 DEF SideInv, HubTyped, Versions
<1>2. \A c \in Ids : told[c] <= ledger[c] /\ ledger[c] <= ledger'[c]
  BY <1>0 DEF OrderInv, Grown
<1>3. \A c \in Ids : told[c] <= told[c] /\ told[c] <= ledger'[c]
  BY <1>1, <1>2 DEF Versions
<1>4. Current(pipe, told, ledger') /\ Current(queue, told, ledger')
  BY <1>1, <1>2, <1>3, CurrentWiden DEF OrderInv
<1>5. ASSUME pipe' = pipe, told' = told, queue' = queue \/ queue' = <<>>
      PROVE  OrderInv'
  BY <1>3, <1>4, <1>5, EmptyInOrder DEF OrderInv
<1>6. CASE client = "page"
  BY <1>5, <1>6, PageClient DEF sidecarVars, sessionVars
<1>7. CASE client = "sidecar" /\ SidecarNext
  <2>1. ASSUME PeerChanges \/ Post \/ Removed \/ Restarted \/ UNCHANGED sidecarVars
        PROVE  OrderInv'
    BY <1>5, <2>1 DEF PeerChanges, Post, Removed, Restarted, sidecarVars, sessionVars
  <2>2. ASSUME NEW c \in Ids, Create(c) PROVE OrderInv'
    <3>1. ItemFrame(c, 1, home').version = ledger'[ItemFrame(c, 1, home').subject]
      <4>1. ledger'[c] = 1
        BY <1>1, <2>2, CreateEffect DEF Versions
      <4> QED
        BY <4>1 DEF ItemFrame
    <3> QED
      BY <1>0, <2>2, <3>1, CreateEffect, ItemInOrder
  <2>3. ASSUME NEW c \in Ids, Resolve(c) PROVE OrderInv'
    <3>1. ItemFrame(c, 2, roomOf[c]).version = ledger'[ItemFrame(c, 2, roomOf[c]).subject]
      <4>1. ledger'[c] = 2
        BY <1>1, <2>3, ResolveEffect DEF Versions
      <4> QED
        BY <4>1 DEF ItemFrame
    <3>2. told' = told
      BY <2>3, ResolveEffect
    <3>3. CASE UNCHANGED <<pipe, queue>>
      BY <1>5, <3>2, <3>3
    <3>4. CASE ~UNCHANGED <<pipe, queue>>
      BY <1>0, <2>3, <3>1, <3>4, ResolveEffect, ItemInOrder
    <3> QED
      BY <3>3, <3>4
  <2>4. ASSUME DebounceFires PROVE OrderInv'
    <3>1. ledger' = ledger /\ told' = told /\ queue' = queue
      BY <2>4, DebounceEffect
    <3>2. CASE pipe' = pipe
      BY <1>5, <3>1, <3>2
    <3>3. CASE link = life /\ pipe' = Append(pipe, BriefFrame(BriefIn(home)))
      <4> DEFINE f == BriefFrame(BriefIn(home))
      <4>1. f \in Frames /\ ~IsItem(f)
        <5>1. BriefIn(home) \in Briefs
          BY BriefInTyped DEF SideInv, HubTyped
        <5> QED
          BY <5>1, BriefTyped DEF IsItem
      <4> HIDE DEF f
      <4>2. Ordered(Append(pipe, f)) /\ Current(Append(pipe, f), told, ledger')
        BY <1>1, <1>3, <1>4, <4>1, AppendInOrder DEF OrderInv
      <4>3. queue = <<>>
        BY <3>3 DEF SideInv
      <4> QED
        BY <1>3, <1>4, <3>1, <3>3, <4>2, <4>3, EmptyInOrder DEF OrderInv, f
    <3> QED
      BY <2>4, <3>2, <3>3, DebounceEffect
  <2>5. ASSUME Connected PROVE OrderInv'
    <3> DEFINE f == BriefFrame(BriefIn(home'))
               r == ReplayFor(home')
    <3>1. /\ f \in Frames /\ home' \in Rooms /\ BriefIn(home') \in Briefs /\ r \in Seq(Items)
          /\ pipe' = <<f>> \o r \o queue /\ queue' = <<>>
          /\ told' = told /\ ledger' = ledger
      BY <2>5, ConnectedEffect
    <3>2. ~IsItem(f)
      BY <3>1, BriefTyped DEF IsItem
    <3>3. \A i \in 1 .. Len(r) : r[i].version = 1 /\ ledger'[r[i].subject] = 1
      <4>1. Replays(r, home')
        BY <3>1, Replayed
      <4> HIDE DEF r
      <4> QED
        BY <3>1, <4>1 DEF Inbox, Replays
    <3> HIDE DEF f, r
    <3>4. Ordered(pipe') /\ Current(pipe', told, ledger')
      BY <1>1, <1>3, <1>4, <3>1, <3>2, <3>3, FirstInOrder DEF OrderInv
    <3> QED
      BY <1>3, <3>1, <3>4, EmptyInOrder DEF OrderInv
  <2>6. ASSUME Disconnected PROVE OrderInv'
    <3>1. pipe' = <<>> /\ queue' = queue /\ ledger' = ledger
      BY <2>6 DEF Disconnected, ledgerVars
    <3>2. \A c \in Ids : told'[c] <= told[c]
      BY <1>1, <2>6 DEF Disconnected, sessionVars, Versions
    <3>3. \A c \in Ids : told'[c] <= ledger'[c]
      BY <1>1, <1>3, <3>2 DEF Versions
    <3>4. Current(queue, told', ledger')
      BY <1>1, <1>2, <3>2, CurrentWiden DEF OrderInv
    <3> QED
      BY <3>1, <3>3, <3>4, EmptyInOrder DEF OrderInv
  <2>7. ASSUME HandleEvent PROVE OrderInv'
    <3>1. pipe # <<>> /\ pipe' = Tail(pipe) /\ queue' = queue /\ ledger' = ledger
      BY <2>7, HandleEffect
    <3>2. \/ told' = told
          \/ IsItem(Head(pipe)) /\ told' = [told EXCEPT ![Head(pipe).subject] = Head(pipe).version]
      BY <2>7, HandleEffect
    <3>3. Ordered(pipe') /\ Current(pipe', told', ledger')
      BY <1>1, <3>1, <3>2, TailInOrder DEF OrderInv
    <3>4. /\ Leads(pipe', queue) /\ Current(queue, told', ledger')
          /\ \A c \in Ids : told'[c] <= ledger'[c]
      BY <1>1, <1>2, <3>1, <3>2, LeadsTail DEF OrderInv
    <3> QED
      BY <3>1, <3>3, <3>4 DEF OrderInv
  <2> QED
    BY <1>7, <2>1, <2>2, <2>3, <2>4, <2>5, <2>6, <2>7 DEF SidecarNext
<1> QED
  BY <1>6, <1>7 DEF Next

LEMMA OrderInit ==
    ASSUME Init
    PROVE  OrderInv
<1>1. pipe = <<>> /\ queue = <<>> /\ \A c \in Ids : told[c] = 0 /\ ledger[c] = 0
  BY DEF Init, FanoutInit, SidecarInit
<1> QED
  BY <1>1, EmptyInOrder DEF OrderInv

-----------------------------------------------------------------------------
(* What the session is told. *)

LEMMA OrderStutters ==
    ASSUME UNCHANGED vars, OrderInv
    PROVE  OrderInv'
  BY DEF OrderInv, vars, ledgerVars, sidecarVars, rosterVars, sessionVars

\* A step that tells the session something never goes back on it, unless the
\* session itself starts anew.
LEMMA ToldForwardStep ==
    ASSUME SideInv, OrderInv, Next
    PROVE  \A c \in Ids : told'[c] >= told[c] \/ link' = 0
<1>0. told \in Versions /\ \A c \in Ids : told[c] \in Int
  BY DEF SideInv, Versions
<1>1. ASSUME told' = told PROVE \A c \in Ids : told'[c] >= told[c]
  BY <1>0, <1>1
<1>2. CASE client = "page"
  BY <1>1, <1>2, PageClient DEF sidecarVars, sessionVars
<1>3. CASE client = "sidecar" /\ SidecarNext
  <2>1. ASSUME PeerChanges \/ Post \/ Removed \/ Restarted \/ DebounceFires \/ Connected
               \/ UNCHANGED sidecarVars
        PROVE  told' = told
    BY <2>1 DEF PeerChanges, Post, Removed, Restarted, DebounceFires, Connected, sidecarVars,
                sessionVars
  <2>2. ASSUME NEW c \in Ids, Create(c) \/ Resolve(c) PROVE told' = told
    BY <2>2 DEF Create, Resolve, sessionVars
  <2>3. ASSUME Disconnected PROVE link' = 0
    BY <2>3 DEF Disconnected
  <2>4. ASSUME HandleEvent PROVE \A c \in Ids : told'[c] >= told[c]
    <3>1. CASE told' = told
      BY <1>1, <3>1
    <3>2. CASE IsItem(Head(pipe)) /\ told' = [told EXCEPT ![Head(pipe).subject] = Head(pipe).version]
      <4> DEFINE f == Head(pipe)
      <4>1. f \in Frames /\ Between(f, told, ledger)
        <5>1. /\ pipe \in Seq(Frames) /\ pipe # <<>> /\ Head(pipe) = pipe[1] /\ Head(pipe) \in Frames
          BY <2>4, HandleEffect DEF SideInv
        <5>2. 1 \in 1 .. Len(pipe)
          BY <5>1
        <5> QED
          BY <5>1, <5>2 DEF OrderInv, Current
      <4>2. IsItem(f) /\ told' = [told EXCEPT ![f.subject] = f.version]
        BY <3>2
      <4> HIDE DEF f
      <4>3. f.subject \in Ids /\ told[f.subject] <= f.version /\ f.version \in {1, 2}
        BY <4>1, <4>2, FrameKinds DEF Between
      <4> QED
        BY <1>0, <4>2, <4>3 DEF Versions
    <3> QED
      BY <2>4, <3>1, <3>2, HandleEffect
  <2> QED
    BY <1>1, <1>3, <2>1, <2>2, <2>3, <2>4 DEF SidecarNext
<1> QED
  BY <1>2, <1>3 DEF Next

\* The session is never told that an item is pending after it was told that it
\* is resolved, however replays, queues and connections follow each other
\* (tail.ts, streams.ts handleAgentStream, registry.ts DropQueue).
THEOREM ToldOnlyForward == Spec => ToldForward
<1>1. Init => SideInv /\ OrderInv
  BY SideInit, OrderInit
<1>2. SideInv /\ OrderInv /\ [Next]_vars => (SideInv /\ OrderInv)'
  BY SideStep, OrderStep, SideStutters, OrderStutters
<1>3. SideInv /\ OrderInv /\ [Next]_vars =>
        [ \A c \in Ids : told'[c] >= told[c] \/ link' = 0 ]_told
  BY ToldForwardStep DEF vars, sidecarVars, sessionVars
<1> QED
  BY <1>1, <1>2, <1>3, PTL DEF Spec, ToldForward

-----------------------------------------------------------------------------
(* Every pending item of the room was told, or is on its way.                *)

Carries(p, c) == \E i \in 1 .. Len(p) : IsItem(p[i]) /\ p[i].subject = c /\ p[i].room = Own

InboxInv ==
    link = life /\ home = Own =>
        \A c \in Ids : ledger[c] = 1 /\ roomOf[c] = Own => told[c] > 0 \/ Carries(pipe, c)

LEMMA CarriesAppend ==
    ASSUME NEW p \in Seq(Frames), NEW f \in Frames, NEW c,
           \/ Carries(p, c)
           \/ IsItem(f) /\ f.subject = c /\ f.room = Own
    PROVE  Carries(Append(p, f), c)
<1>1. /\ Len(Append(p, f)) = Len(p) + 1 /\ Len(p) \in Nat /\ Append(p, f)[Len(p) + 1] = f
      /\ \A i \in 1 .. Len(p) : Append(p, f)[i] = p[i]
  OBVIOUS
<1>2. CASE Carries(p, c)
  <2>1. PICK i \in 1 .. Len(p) : IsItem(p[i]) /\ p[i].subject = c /\ p[i].room = Own
    BY <1>2 DEF Carries
  <2>2. i \in 1 .. Len(Append(p, f)) /\ Append(p, f)[i] = p[i]
    BY <1>1
  <2> QED
    BY <2>1, <2>2 DEF Carries
<1>3. CASE IsItem(f) /\ f.subject = c /\ f.room = Own
  <2>1. Len(p) + 1 \in 1 .. Len(Append(p, f))
    BY <1>1
  <2> QED
    BY <1>1, <1>3, <2>1 DEF Carries
<1> QED
  BY <1>2, <1>3

LEMMA CarriesTail ==
    ASSUME NEW p \in Seq(Frames), p # <<>>, NEW c, Carries(p, c),
           ~(IsItem(Head(p)) /\ Head(p).subject = c /\ Head(p).room = Own)
    PROVE  Carries(Tail(p), c)
<1>1. /\ Head(p) = p[1] /\ Len(p) \in Nat \ {0} /\ Len(Tail(p)) = Len(p) - 1
      /\ \A i \in 1 .. Len(p) - 1 : Tail(p)[i] = p[i + 1]
  BY TailFacts
<1>2. PICK i \in 1 .. Len(p) : IsItem(p[i]) /\ p[i].subject = c /\ p[i].room = Own
  BY DEF Carries
<1>3. i # 1
  BY <1>1, <1>2
<1>4. i - 1 \in 1 .. Len(Tail(p)) /\ i - 1 \in 1 .. Len(p) - 1 /\ (i - 1) + 1 = i
  BY <1>1, <1>3
<1>5. Tail(p)[i - 1] = p[i]
  BY <1>1, <1>4
<1> QED
  BY <1>2, <1>4, <1>5 DEF Carries

LEMMA InboxStep ==
    ASSUME SideInv, InboxInv, Next
    PROVE  InboxInv'
<1>0. SideInv' /\ Grown /\ life \in Nat \ {0} /\ link \in 0 .. life
  BY SideStep, HubStep DEF SideInv, HubTyped
<1>1. ASSUME UNCHANGED <<link, life, home, roomOf, told, pipe>>, ledger' = ledger
      PROVE  InboxInv'
  BY <1>1 DEF InboxInv
<1>2. ASSUME link' # life' \/ home' # Own PROVE InboxInv'
  BY <1>2 DEF InboxInv
<1>3. CASE client = "page"
  BY <1>0, <1>2, <1>3, PageClient DEF sidecarVars, Grown
<1>4. CASE client = "sidecar" /\ SidecarNext
  <2>1. ASSUME PeerChanges PROVE InboxInv'
    BY <1>1, <2>1 DEF PeerChanges, AgentConnects, AgentLeaves, AgentRemoved, sessionVars
  <2>11. ASSUME Listen, UNCHANGED sidecarVars PROVE InboxInv'
    BY <1>1, <2>11 DEF Listen, ledgerVars, sidecarVars, rosterVars, sessionVars
  <2>2. ASSUME Post PROVE InboxInv'
    BY <1>2, <2>2 DEF Post, HomeAfterPost
  <2>3. ASSUME Removed PROVE InboxInv'
    BY <1>2, <2>3 DEF Removed, hubVars
  <2>4. ASSUME Restarted PROVE InboxInv'
    BY <1>0, <1>2, <2>4 DEF Restarted, Killed
  <2>5. ASSUME Disconnected PROVE InboxInv'
    BY <1>0, <1>2, <2>5 DEF Disconnected, hubVars
  <2>6. ASSUME NEW c \in Ids, Create(c) PROVE InboxInv'
    <3> DEFINE f == ItemFrame(c, 1, home')
    <3>1. /\ home' \in {Own, Default} /\ (home # Nowhere => home' = home)
          /\ (home = Nowhere => home' = Default) /\ f \in Items
          /\ link = life => pipe' = Append(pipe, f)
          /\ ledger' = [ledger EXCEPT ![c] = 1] /\ roomOf' = [roomOf EXCEPT ![c] = home']
          /\ UNCHANGED <<life, link, told>>
      BY <2>6, CreateEffect
    <3>2. f \in Frames /\ IsItem(f) /\ f.subject = c /\ f.room = home'
      BY <3>1, ItemTyped DEF Rooms
    <3> HIDE DEF f
    <3> SUFFICES ASSUME link = life, home' = Own, NEW d \in Ids, ledger'[d] = 1, roomOf'[d] = Own
                 PROVE  told[d] > 0 \/ Carries(pipe', d)
      BY <3>1 DEF InboxInv
    <3>3. home = Own /\ pipe \in Seq(Frames)
      BY <3>1 DEF SideInv
    <3>4. CASE d = c
      BY <3>1, <3>2, <3>3, <3>4, CarriesAppend
    <3>5. CASE d # c
      <4>1. ledger[d] = 1 /\ roomOf[d] = Own
        BY <3>1, <3>5 DEF SideInv, HubTyped
      <4>2. told[d] > 0 \/ Carries(pipe, d)
        BY <3>3, <4>1 DEF InboxInv
      <4> QED
        BY <3>1, <3>2, <3>3, <4>2, CarriesAppend
    <3> QED
      BY <3>4, <3>5
  <2>7. ASSUME NEW c \in Ids, Resolve(c) PROVE InboxInv'
    <3> DEFINE f == ItemFrame(c, 2, roomOf[c])
    <3>1. /\ f \in Items /\ ledger' = [ledger EXCEPT ![c] = 2]
          /\ link = life => pipe' = pipe \/ pipe' = Append(pipe, f)
          /\ UNCHANGED <<life, home, roomOf, link, told>>
      BY <2>7, ResolveEffect
    <3> HIDE DEF f
    <3> SUFFICES ASSUME link = life, home = Own, NEW d \in Ids, ledger'[d] = 1, roomOf[d] = Own
                 PROVE  told[d] > 0 \/ Carries(pipe', d)
      BY <3>1 DEF InboxInv
    <3>2. pipe \in Seq(Frames) /\ f \in Frames /\ ledger[d] = 1
      BY <3>1 DEF SideInv, HubTyped, Frames
    <3>3. told[d] > 0 \/ Carries(pipe, d)
      BY <3>2 DEF InboxInv
    <3> QED
      BY <3>1, <3>2, <3>3, CarriesAppend
  <2>8. ASSUME DebounceFires PROVE InboxInv'
    <3> DEFINE f == BriefFrame(BriefIn(home))
    <3>1. /\ pipe' = pipe \/ pipe' = Append(pipe, f)
          /\ UNCHANGED <<life, ledger, home, roomOf, link, told>>
      BY <2>8, DebounceEffect
    <3>2. pipe \in Seq(Frames) /\ f \in Frames
      <4>1. BriefIn(home) \in Briefs
        BY BriefInTyped DEF SideInv, HubTyped
      <4> QED
        BY <4>1, BriefTyped DEF SideInv
    <3> HIDE DEF f
    <3> QED
      BY <3>1, <3>2, CarriesAppend DEF InboxInv
  <2>9. ASSUME Connected PROVE InboxInv'
    <3> DEFINE f == BriefFrame(BriefIn(home'))
               r == ReplayFor(home')
               new == <<f>> \o r \o queue
    <3>1. /\ f \in Frames /\ home' \in Rooms /\ r \in Seq(Items) /\ queue \in Seq(Items)
          /\ pipe' = new /\ UNCHANGED <<life, ledger, roomOf, told>>
      BY <2>9, ConnectedEffect DEF SideInv
    <3> SUFFICES ASSUME home' = Own, NEW c \in Ids, ledger[c] = 1, roomOf[c] = Own
                 PROVE  Carries(pipe', c)
      BY <3>1 DEF InboxInv
    <3>2. PICK i \in 1 .. Len(r) : r[i].subject = c /\ r[i].room = Own /\ IsItem(r[i])
      <4>1. c \in Inbox(home')
        BY DEF Inbox
      <4>2. Replays(r, home')
        BY <3>1, Replayed
      <4> HIDE DEF r
      <4> QED
        BY <4>1, <4>2 DEF Replays
    <3> HIDE DEF f, r
    <3>3. FirstOnes(new, f, r, queue)
      BY <3>1, FirstFrames
    <3> HIDE DEF new
    <3>4. 1 + i \in 1 .. Len(new) /\ new[1 + i] = r[i]
      BY <3>3 DEF FirstOnes
    <3> QED
      BY <3>1, <3>2, <3>4 DEF Carries
  <2>10. ASSUME HandleEvent PROVE InboxInv'
    <3> DEFINE f == Head(pipe)
    <3>1. /\ pipe \in Seq(Frames) /\ pipe # <<>> /\ f \in Frames /\ pipe' = Tail(pipe)
          /\ UNCHANGED <<life, ledger, home, roomOf, link>>
      BY <2>10, HandleEffect DEF SideInv
    <3>2. \/ told' = told /\ ~(IsItem(f) /\ f.room = Own)
          \/ /\ IsItem(f) /\ f.room = Own /\ told' = [told EXCEPT ![f.subject] = f.version]
      BY <2>10, HandleEffect
    <3> SUFFICES ASSUME link = life, home = Own, NEW c \in Ids, ledger[c] = 1, roomOf[c] = Own
                 PROVE  told'[c] > 0 \/ Carries(Tail(pipe), c)
      BY <3>1 DEF InboxInv
    <3>3. told[c] > 0 \/ Carries(pipe, c)
      BY DEF InboxInv
    <3>4. CASE IsItem(f) /\ f.subject = c /\ f.room = Own
      <4>1. f.version \in {1, 2}
        BY <3>1, <3>4, FrameKinds
      <4>2. told'[c] = f.version
        BY <3>2, <3>4 DEF SideInv
      <4> QED
        BY <4>1, <4>2
    <3>5. CASE ~(IsItem(f) /\ f.subject = c /\ f.room = Own)
      <4>1. told'[c] = told[c]
        BY <3>2, <3>5 DEF SideInv
      <4> QED
        BY <3>1, <3>3, <3>5, <4>1, CarriesTail
    <3> QED
      BY <3>4, <3>5
  <2> QED
    BY <1>4, <2>1, <2>2, <2>3, <2>4, <2>5, <2>6, <2>7, <2>8, <2>9, <2>10, <2>11 DEF SidecarNext
<1> QED
  BY <1>3, <1>4 DEF Next

\* A sidecar in its room that has handled everything was told of every pending
\* item of that room, whatever was lost with earlier connections, fell out of
\* the queue or was created while nobody listened (streams.ts replay, tail.ts).
THEOREM PendingAlwaysTold == Spec => []PendingTold
<1>1. Init => SideInv /\ InboxInv
  <2>1. Init => link = 0 /\ life = 1
    BY DEF Init, FanoutInit, SidecarInit
  <2> QED
    BY <2>1, SideInit DEF InboxInv
<1>2. SideInv /\ InboxInv /\ [Next]_vars => (SideInv /\ InboxInv)'
  <2>1. SideInv /\ InboxInv /\ UNCHANGED vars => (SideInv /\ InboxInv)'
    BY SideStutters DEF InboxInv, vars, ledgerVars, hubVars, sidecarVars, rosterVars, sessionVars
  <2> QED
    BY <2>1, SideStep, InboxStep
<1>3. SideInv /\ InboxInv => PendingTold
  <2> SUFFICES ASSUME InboxInv, pipe = <<>>, link = life, home = Own,
                      NEW c \in Ids, ledger[c] = 1, roomOf[c] = Own
               PROVE  told[c] > 0
    BY DEF PendingTold, Drained
  <2>1. ~Carries(<<>>, c)
    BY DEF Carries
  <2> QED
    BY <2>1 DEF InboxInv
<1> QED
  BY <1>1, <1>2, <1>3, PTL DEF Spec

-----------------------------------------------------------------------------
(* The last briefing sent is the one the hub has signed.                     *)

OwnBriefs(p) == \A i \in 1 .. Len(p) : ~IsItem(p[i]) => p[i].room = Own

\* The session that was told b is told s in the end, once it has handled p.
EndsWith(p, b, s) ==
    \/ b = s /\ \A i \in 1 .. Len(p) : IsItem(p[i])
    \/ \E i \in 1 .. Len(p) : /\ ~IsItem(p[i]) /\ p[i].brief = s
                              /\ \A j \in 1 .. Len(p) : j > i => IsItem(p[j])

BriefInv ==
    link = life /\ home = Own =>
        OwnBriefs(pipe) /\ EndsWith(pipe, brief, sig) /\ (debounce \/ sig = BriefIn(home))

LEMMA BriefsAppendItem ==
    ASSUME NEW p \in Seq(Frames), NEW f \in Frames, IsItem(f), NEW b, NEW s,
           OwnBriefs(p), EndsWith(p, b, s)
    PROVE  OwnBriefs(Append(p, f)) /\ EndsWith(Append(p, f), b, s)
<1> DEFINE new == Append(p, f)
<1>1. /\ Len(new) = Len(p) + 1 /\ Len(p) \in Nat /\ new[Len(p) + 1] = f
      /\ \A i \in 1 .. Len(p) : new[i] = p[i] /\ i \in 1 .. Len(new)
      /\ \A i \in 1 .. Len(new) : i \in 1 .. Len(p) \/ i = Len(p) + 1
  OBVIOUS
<1> HIDE DEF new
<1>2. OwnBriefs(new)
  BY <1>1 DEF OwnBriefs
<1>3. EndsWith(new, b, s)
  <2>1. CASE b = s /\ \A i \in 1 .. Len(p) : IsItem(p[i])
    BY <1>1, <2>1 DEF EndsWith
  <2>2. ASSUME NEW i \in 1 .. Len(p), ~IsItem(p[i]), p[i].brief = s,
               \A j \in 1 .. Len(p) : j > i => IsItem(p[j])
        PROVE  EndsWith(new, b, s)
    <3>1. i \in 1 .. Len(new) /\ ~IsItem(new[i]) /\ new[i].brief = s
      BY <1>1, <2>2
    <3>2. \A j \in 1 .. Len(new) : j > i => IsItem(new[j])
      BY <1>1, <2>2
    <3> QED
      BY <3>1, <3>2 DEF EndsWith
  <2> QED
    BY <2>1, <2>2 DEF EndsWith
<1> QED
  BY <1>2, <1>3 DEF new

LEMMA BriefsAppendBrief ==
    ASSUME NEW p \in Seq(Frames), NEW f \in Frames, ~IsItem(f), f.room = Own, NEW b,
           OwnBriefs(p)
    PROVE  OwnBriefs(Append(p, f)) /\ EndsWith(Append(p, f), b, f.brief)
<1> DEFINE new == Append(p, f)
<1>1. /\ Len(new) = Len(p) + 1 /\ Len(p) \in Nat /\ new[Len(p) + 1] = f
      /\ \A i \in 1 .. Len(p) : new[i] = p[i]
      /\ \A i \in 1 .. Len(new) : i \in 1 .. Len(p) \/ i = Len(p) + 1
  OBVIOUS
<1> HIDE DEF new
<1>2. OwnBriefs(new)
  BY <1>1 DEF OwnBriefs
<1>3. Len(p) + 1 \in 1 .. Len(new) /\ \A j \in 1 .. Len(new) : ~(j > Len(p) + 1)
  BY <1>1
<1>4. EndsWith(new, b, f.brief)
  BY <1>1, <1>3 DEF EndsWith
<1> QED
  BY <1>2, <1>4 DEF new

LEMMA BriefsTail ==
    ASSUME NEW p \in Seq(Frames), p # <<>>, NEW b, NEW s, NEW new,
           OwnBriefs(p), EndsWith(p, b, s),
           new = IF IsItem(Head(p)) THEN b ELSE Head(p).brief
    PROVE  OwnBriefs(Tail(p)) /\ EndsWith(Tail(p), new, s)
<1> DEFINE t == Tail(p)
<1>1. /\ Head(p) = p[1] /\ Len(p) \in Nat \ {0} /\ Len(t) = Len(p) - 1
      /\ \A i \in 1 .. Len(t) : t[i] = p[i + 1] /\ i + 1 \in 1 .. Len(p) /\ i + 1 > 1
      /\ \A i \in 1 .. Len(p) : i # 1 => (i - 1 \in 1 .. Len(t) /\ t[i - 1] = p[i])
  <2>1. /\ Head(p) = p[1] /\ Len(p) \in Nat \ {0} /\ Len(t) = Len(p) - 1
        /\ \A i \in 1 .. Len(p) - 1 : t[i] = p[i + 1] /\ i + 1 \in 1 .. Len(p)
    BY TailFacts
  <2> HIDE DEF t
  <2>2. ASSUME NEW i \in 1 .. Len(p), i # 1
        PROVE  i - 1 \in 1 .. Len(t) /\ t[i - 1] = p[i]
    <3>1. i - 1 \in 1 .. Len(p) - 1 /\ (i - 1) + 1 = i
      BY <2>1, <2>2
    <3> QED
      BY <2>1, <3>1
  <2>3. \A i \in 1 .. Len(t) : t[i] = p[i + 1] /\ i + 1 \in 1 .. Len(p) /\ i + 1 > 1
    BY <2>1
  <2>4. \A i \in 1 .. Len(p) : i # 1 => (i - 1 \in 1 .. Len(t) /\ t[i - 1] = p[i])
    BY <2>2
  <2> QED
    BY <2>1, <2>3, <2>4, Zenon
<1> HIDE DEF t
<1>2. OwnBriefs(t)
  BY <1>1 DEF OwnBriefs
<1>3. EndsWith(t, new, s)
  <2>1. CASE b = s /\ \A i \in 1 .. Len(p) : IsItem(p[i])
    <3>1. new = s /\ \A i \in 1 .. Len(t) : IsItem(t[i])
      BY <1>1, <2>1
    <3> QED
      BY <3>1 DEF EndsWith
  <2>2. ASSUME NEW i \in 1 .. Len(p), ~IsItem(p[i]), p[i].brief = s,
               \A j \in 1 .. Len(p) : j > i => IsItem(p[j])
        PROVE  EndsWith(t, new, s)
    <3>1. CASE i = 1
      <4>1. new = s
        BY <1>1, <2>2, <3>1
      <4>2. \A j \in 1 .. Len(t) : IsItem(t[j])
        BY <1>1, <2>2, <3>1
      <4> QED
        BY <4>1, <4>2 DEF EndsWith
    <3>2. CASE i # 1
      <4>1. i - 1 \in 1 .. Len(t) /\ t[i - 1] = p[i]
        BY <1>1, <3>2
      <4>2. \A j \in 1 .. Len(t) : j > i - 1 => IsItem(t[j])
        BY <1>1, <2>2
      <4> QED
        BY <2>2, <4>1, <4>2 DEF EndsWith
    <3> QED
      BY <3>1, <3>2
  <2> QED
    BY <2>1, <2>2 DEF EndsWith
<1> QED
  BY <1>2, <1>3 DEF t

LEMMA BriefsFirst ==
    ASSUME NEW f \in Frames, ~IsItem(f), f.room = Own, NEW b,
           NEW r \in Seq(Items), NEW q \in Seq(Items)
    PROVE  OwnBriefs(<<f>> \o r \o q) /\ EndsWith(<<f>> \o r \o q, b, f.brief)
<1> DEFINE new == <<f>> \o r \o q
<1>0. FirstOnes(new, f, r, q)
  BY FirstFrames
<1> HIDE DEF new
<1>1. /\ new \in Seq(Frames) /\ Len(new) = 1 + Len(r) + Len(q) /\ new[1] = f
      /\ \A i \in 1 .. Len(r) : new[1 + i] = r[i]
      /\ \A i \in 1 .. Len(q) : new[1 + Len(r) + i] = q[i]
      /\ Len(r) \in Nat /\ Len(q) \in Nat
  BY <1>0 DEF FirstOnes
<1>a. \A g \in Items : IsItem(g)
  BY DEF Items, IsItem
<1>2. \A i \in 1 .. Len(r) : IsItem(r[i])
  BY <1>a
<1>3. \A i \in 1 .. Len(q) : IsItem(q[i])
  BY <1>a
<1>4. ASSUME NEW i \in 1 .. Len(new), i # 1 PROVE IsItem(new[i])
  <2>1. CASE i - 1 <= Len(r)
    <3>1. i - 1 \in 1 .. Len(r) /\ 1 + (i - 1) = i
      BY <1>1, <1>4, <2>1
    <3> QED
      BY <1>1, <1>2, <3>1
  <2>2. CASE i - 1 > Len(r)
    <3>1. i - 1 - Len(r) \in 1 .. Len(q) /\ 1 + Len(r) + (i - 1 - Len(r)) = i
      BY <1>1, <2>2
    <3> QED
      BY <1>1, <1>3, <3>1
  <2> QED
    BY <1>1, <2>1, <2>2
<1>5. OwnBriefs(new)
  BY <1>1, <1>4 DEF OwnBriefs
<1>6. 1 \in 1 .. Len(new) /\ \A j \in 1 .. Len(new) : j > 1 => IsItem(new[j])
  BY <1>1, <1>4
<1>7. EndsWith(new, b, f.brief)
  BY <1>1, <1>6 DEF EndsWith
<1> QED
  BY <1>5, <1>7 DEF new

LEMMA BriefStep ==
    ASSUME SideInv, BriefInv, Next
    PROVE  BriefInv'
<1>0. SideInv' /\ Grown /\ life \in Nat \ {0} /\ link \in 0 .. life
  BY SideStep, HubStep DEF SideInv, HubTyped
<1>1. ASSUME UNCHANGED <<link, life, home, brief, sig, pipe>>,
             debounce' \/ (agent' = agent /\ (debounce => debounce'))
      PROVE  BriefInv'
  BY <1>1 DEF BriefInv, BriefIn
<1>2. ASSUME link' # life' \/ home' # Own PROVE BriefInv'
  BY <1>2 DEF BriefInv
<1>3. CASE client = "page"
  BY <1>0, <1>2, <1>3, PageClient DEF sidecarVars, Grown
<1>4. CASE client = "sidecar" /\ SidecarNext
  <2>1. ASSUME PeerChanges PROVE BriefInv'
    BY <1>1, <2>1 DEF PeerChanges, AgentConnects, AgentLeaves, AgentRemoved, sessionVars
  <2>2. ASSUME Listen, UNCHANGED sidecarVars PROVE BriefInv'
    BY <1>1, <2>2 DEF Listen, sidecarVars, rosterVars, sessionVars
  <2>3. ASSUME Post PROVE BriefInv'
    BY <1>2, <2>3 DEF Post, HomeAfterPost
  <2>4. ASSUME Removed PROVE BriefInv'
    BY <1>2, <2>4 DEF Removed, hubVars
  <2>5. ASSUME Restarted PROVE BriefInv'
    BY <1>0, <1>2, <2>5 DEF Restarted, Killed
  <2>6. ASSUME Disconnected PROVE BriefInv'
    BY <1>0, <1>2, <2>6 DEF Disconnected, hubVars
  <2>7. ASSUME NEW f \in Items, link = life => pipe' = Append(pipe, f),
               UNCHANGED <<link, life, home, brief, sig, agent>>, debounce => debounce'
        PROVE  BriefInv'
    <3>1. pipe \in Seq(Frames) /\ f \in Frames /\ IsItem(f)
      BY <2>7 DEF SideInv, Frames, Items, IsItem
    <3> SUFFICES ASSUME link = life, home = Own
                 PROVE  /\ OwnBriefs(pipe') /\ EndsWith(pipe', brief, sig)
                        /\ debounce' \/ sig = BriefIn(home)
      BY <2>7 DEF BriefInv, BriefIn
    <3>2. OwnBriefs(Append(pipe, f)) /\ EndsWith(Append(pipe, f), brief, sig)
      BY <3>1, BriefsAppendItem DEF BriefInv
    <3>4. OwnBriefs(pipe') /\ EndsWith(pipe', brief, sig)
      BY <2>7, <3>2
    <3>3. debounce' \/ sig = BriefIn(home)
      BY <2>7 DEF BriefInv
    <3> QED
      BY <3>3, <3>4
  <2>8. ASSUME NEW c \in Ids, Create(c) PROVE BriefInv'
    <3>1. CASE home = Nowhere
      <4>1. home' # Own
        BY <2>8, <3>1, CreateEffect
      <4> QED
        BY <1>2, <4>1
    <3>2. CASE home # Nowhere
      BY <2>7, <2>8, <3>2, CreateEffect
    <3> QED
      BY <3>1, <3>2
  <2>9. ASSUME NEW c \in Ids, Resolve(c) PROVE BriefInv'
    <3>1. CASE UNCHANGED <<pipe, queue>>
      BY <1>1, <2>9, <3>1, ResolveEffect
    <3>2. CASE ~UNCHANGED <<pipe, queue>>
      BY <2>7, <2>9, <3>2, ResolveEffect
    <3> QED
      BY <3>1, <3>2
  <2>10. ASSUME DebounceFires PROVE BriefInv'
    <3> DEFINE f == BriefFrame(BriefIn(home))
    <3> SUFFICES ASSUME link' = life', home' = Own
                 PROVE  OwnBriefs(pipe') /\ EndsWith(pipe', brief', sig') /\ sig' = BriefIn(home)'
      BY DEF BriefInv
    <3>1. /\ UNCHANGED <<life, agent, home, link, brief>> /\ link = life /\ home = Own
          /\ pipe \in Seq(Frames) /\ OwnBriefs(pipe) /\ EndsWith(pipe, brief, sig)
      BY <2>10, DebounceEffect DEF BriefInv, SideInv
    <3>2. BriefIn(home)' = BriefIn(home)
      BY <3>1 DEF BriefIn
    <3>3. CASE sig' = BriefIn(home) /\ pipe' = Append(pipe, f)
      <4>1. f \in Frames /\ ~IsItem(f) /\ f.room = Own /\ f.brief = BriefIn(home)
        <5>1. BriefIn(home) \in Briefs /\ BriefIn(home).room = Own
          BY <3>1, BriefInTyped DEF SideInv, HubTyped
        <5> QED
          BY <5>1, BriefTyped DEF IsItem
      <4> HIDE DEF f
      <4>2. OwnBriefs(Append(pipe, f)) /\ EndsWith(Append(pipe, f), brief, BriefIn(home))
        BY <3>1, <4>1, BriefsAppendBrief
      <4> QED
        BY <3>1, <3>2, <3>3, <4>2
    <3>4. CASE UNCHANGED <<sig, pipe>> /\ sig = BriefIn(home)
      BY <3>1, <3>2, <3>4
    <3> QED
      BY <2>10, <3>1, <3>3, <3>4, DebounceEffect
  <2>11. ASSUME Connected PROVE BriefInv'
    <3> DEFINE f == BriefFrame(BriefIn(home'))
               r == ReplayFor(home')
    <3> SUFFICES ASSUME home' = Own
                 PROVE  /\ OwnBriefs(pipe') /\ EndsWith(pipe', brief', sig') /\ debounce'
      BY DEF BriefInv
    <3>1. /\ f \in Frames /\ BriefIn(home') \in Briefs /\ home' \in Rooms
          /\ r \in Seq(Items) /\ queue \in Seq(Items)
          /\ pipe' = <<f>> \o r \o queue /\ sig' = BriefIn(home') /\ debounce'
      BY <2>11, ConnectedEffect DEF SideInv
    <3>2. ~IsItem(f) /\ f.room = Own /\ f.brief = sig'
      BY <3>1, BriefTyped DEF IsItem, BriefIn
    <3> HIDE DEF f, r
    <3>3. /\ OwnBriefs(<<f>> \o r \o queue)
          /\ EndsWith(<<f>> \o r \o queue, brief', f.brief)
      BY <3>1, <3>2, BriefsFirst
    <3>4. OwnBriefs(pipe') /\ EndsWith(pipe', brief', sig')
      BY <3>1, <3>2, <3>3
    <3> QED
      BY <3>1, <3>4
  <2>12. ASSUME HandleEvent PROVE BriefInv'
    <3>1. /\ pipe \in Seq(Frames) /\ pipe # <<>> /\ Head(pipe) = pipe[1] /\ pipe' = Tail(pipe)
          /\ UNCHANGED <<life, agent, home, debounce, sig, link>>
      BY <2>12, HandleEffect DEF SideInv
    <3> SUFFICES ASSUME link = life, home = Own
                 PROVE  OwnBriefs(Tail(pipe)) /\ EndsWith(Tail(pipe), brief', sig)
      BY <3>1 DEF BriefInv, BriefIn
    <3>2. OwnBriefs(pipe) /\ EndsWith(pipe, brief, sig)
      BY DEF BriefInv
    <3>3. ~IsItem(Head(pipe)) => Head(pipe).room = Own
      <4>1. 1 \in 1 .. Len(pipe)
        BY <3>1
      <4> QED
        BY <3>1, <3>2, <4>1 DEF OwnBriefs
    <3>4. brief' = IF IsItem(Head(pipe)) THEN brief ELSE Head(pipe).brief
      BY <2>12, <3>3, HandleEffect
    <3> QED
      BY <3>1, <3>2, <3>4, BriefsTail
  <2> QED
    BY <1>4, <2>1, <2>2, <2>3, <2>4, <2>5, <2>6, <2>8, <2>9, <2>10, <2>11, <2>12 DEF SidecarNext
<1> QED
  BY <1>3, <1>4 DEF Next

\* Once no re-brief is due, the last briefing the session was told names the
\* peers as the hub knows them (briefing-dispatcher.ts signature and debounce).
THEOREM AlwaysBriefed == Spec => []BriefedOnPeers
<1>1. Init => SideInv /\ BriefInv
  <2>1. Init => link = 0 /\ life = 1
    BY DEF Init, FanoutInit, SidecarInit
  <2> QED
    BY <2>1, SideInit DEF BriefInv
<1>2. SideInv /\ BriefInv /\ [Next]_vars => (SideInv /\ BriefInv)'
  <2>1. SideInv /\ BriefInv /\ UNCHANGED vars => (SideInv /\ BriefInv)'
    BY SideStutters DEF BriefInv, BriefIn, vars, ledgerVars, hubVars, sidecarVars, rosterVars,
                        sessionVars
  <2> QED
    BY <2>1, SideStep, BriefStep
<1>3. SideInv /\ BriefInv => BriefedOnPeers
  <2> SUFFICES ASSUME BriefInv, pipe = <<>>, link = life, home = Own, ~debounce
               PROVE  brief = BriefIn(home)
    BY DEF BriefedOnPeers, Drained
  <2>1. EndsWith(<<>>, brief, sig) /\ sig = BriefIn(home)
    BY DEF BriefInv
  <2> QED
    BY <2>1 DEF EndsWith
<1> QED
  BY <1>1, <1>2, <1>3, PTL DEF Spec

=============================================================================
