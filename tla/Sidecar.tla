------------------------------ MODULE Sidecar -------------------------------
(***************************************************************************)
(* The channel sidecar of one agent and the hub's side of its stream: the  *)
(* room the agent is registered in, its queue, the briefing and the replay *)
(* on connect, the debounced briefings, the gate of the sidecar and what   *)
(* it hands to the Claude session.                                         *)
(*                                                                         *)
(* The sidecar asks for the room Own.  `agent` of Fanout is a peer in that *)
(* room.  Every entity is addressed to the agent; a permission is asked    *)
(* for by it.  POST /remove of a connected agent is left to Registry.      *)
(***************************************************************************)
EXTENDS Fanout

CONSTANTS
    Own,            \* CHATBRIDGE_ROOM, the room of the sidecar's stream request
    Default,        \* the hub's default room
    Nowhere,        \* of an agent that is in no roster, an entity not created
    AgentQueueMax,  \* AGENT_QUEUE_MAX
    MaxCuts         \* bound of the model: connections that break while the hub lives

ASSUME SidecarAssumption ==
    /\ Own # Default /\ Nowhere \notin {Own, Default}
    /\ AgentQueueMax \in Nat \ {0}
    /\ MaxCuts \in Nat

VARIABLES
    home,       \* the agent's room in the registry
    roomOf,     \* the room of each entity, that of its agent when it was created
    queue,      \* its DropQueue while no stream pulls from it
    link,       \* the hub process its stream is connected to, or 0
    pipe,       \* frames sent down the stream and not handled yet
    debounce,   \* the re-brief timer is pending
    sig,        \* lastSig of the agent
    told,       \* the version of each entity the session was told last, or 0
    brief,      \* the briefing the session was told last
    cuts        \* connections that broke

rosterVars == <<home, debounce, sig>>
sessionVars == <<told, brief>>
sidecarVars == <<rosterVars, roomOf, queue, link, pipe, sessionVars, cuts>>

NoBrief == [room |-> Nowhere, peer |-> "absent"]

SidecarInit ==
    /\ home = Nowhere
    /\ roomOf = [c \in Ids |-> Nowhere]
    /\ queue = <<>>
    /\ link = 0
    /\ pipe = <<>>
    /\ debounce = FALSE
    /\ sig = NoBrief
    /\ told = [c \in Ids |-> 0]
    /\ brief = NoBrief
    /\ cuts = 0

-----------------------------------------------------------------------------
(* Of the hub. *)

ItemFrame(c, version, room) ==
    [type |-> "item", subject |-> c, version |-> version, room |-> room]
BriefFrame(b) == [type |-> "briefing", room |-> b.room, brief |-> b]

\* buildBriefing, of an agent registered in `room`: the peers of that room.
BriefIn(room) == [room |-> room, peer |-> IF room = Own THEN agent ELSE "absent"]

\* enqueueFor, when the agent is registered in `room`: a connected stream waits
\* and takes the entry, otherwise the queue keeps the newest.
Enqueue(frame, room) ==
    /\ pipe' = IF room # Nowhere /\ link = life THEN Append(pipe, frame) ELSE pipe
    /\ queue' = IF room # Nowhere /\ link # life
                THEN LastOf(Append(queue, frame), AgentQueueMax) ELSE queue

\* ensure(), of a POST that names the agent: an agent that is in no roster is
\* registered in the default room.
HomeAfterPost == IF home = Nowhere THEN Default ELSE home

\* The peer comes, goes or is removed: onRosterChange, onPresenceChange and
\* broadcastPresence schedule a re-brief.
PeerChanges ==
    /\ AgentConnects \/ AgentLeaves \/ AgentRemoved
    /\ debounce' = TRUE
    /\ UNCHANGED <<home, sig, roomOf, queue, link, pipe, sessionVars, cuts>>

\* A handoff or an interrupt to the agent, which must be registered; or its own
\* permission request.
Create(c) ==
    /\ ledger[c] = 0
    /\ home # Nowhere \/ c \in PermissionIds
    /\ Advance(c)
    /\ home' = HomeAfterPost
    /\ debounce' = (debounce \/ home' # home)
    /\ roomOf' = [roomOf EXCEPT ![c] = home']
    /\ Enqueue(ItemFrame(c, 1, home'), home')
    /\ UNCHANGED <<sig, link, sessionVars, cuts>>

\* Its resolution reaches the agent wherever it is registered; that of a
\* permission, if it is in the room of the permission.
Resolve(c) ==
    /\ ledger[c] = 1
    /\ Advance(c)
    /\ IF c \in PermissionIds /\ roomOf[c] # home
       THEN UNCHANGED <<queue, pipe>>
       ELSE Enqueue(ItemFrame(c, 2, roomOf[c]), home)
    /\ UNCHANGED <<rosterVars, roomOf, link, sessionVars, cuts>>

\* Any other tool call of the session.
Post ==
    /\ up
    /\ home = Nowhere
    /\ home' = HomeAfterPost
    /\ debounce' = TRUE
    /\ UNCHANGED <<ledgerVars, hubVars, streamVars, sig, roomOf, queue, link, pipe,
                   sessionVars, cuts>>

\* The stale timer, or POST /remove of an agent that is not connected.
Removed ==
    /\ up
    /\ home # Nowhere
    /\ link # life
    /\ home' = Nowhere
    /\ queue' = <<>>
    /\ debounce' = TRUE
    /\ UNCHANGED <<ledgerVars, hubVars, streamVars, sig, roomOf, link, pipe, sessionVars,
                   cuts>>

\* Mutant: the signature of the agent is taken although it is not connected.
DebounceFiresBlind ==
    /\ debounce
    /\ debounce' = FALSE
    /\ sig' = IF home # Nowhere THEN BriefIn(home) ELSE sig
    /\ UNCHANGED <<queue, pipe>>
    /\ UNCHANGED <<ledgerVars, hubVars, streamVars, home, roomOf, link, sessionVars, cuts>>

\* broadcastToConnected: a briefing whose signature changed is queued.
DebounceFires ==
    /\ debounce
    /\ debounce' = FALSE
    /\ IF home # Nowhere /\ link = life /\ sig # BriefIn(home)
       THEN sig' = BriefIn(home) /\ Enqueue(BriefFrame(BriefIn(home)), home)
       ELSE UNCHANGED <<sig, queue, pipe>>
    /\ UNCHANGED <<ledgerVars, hubVars, streamVars, home, roomOf, link, sessionVars, cuts>>

\* reload_settings, or the app is started anew.
Restarted ==
    /\ client = "sidecar"
    /\ \E done \in Halfway : Killed(done)
    /\ home' = Nowhere
    /\ queue' = <<>>
    /\ debounce' = FALSE
    /\ sig' = NoBrief
    /\ UNCHANGED <<streamVars, roomOf, link, pipe, sessionVars, cuts>>

\* Mutant: resolved items are replayed as well.
ReplayAll(room) ==
    [i \in 1 .. Cardinality({c \in Ids : ledger[c] > 0 /\ roomOf[c] = room}) |->
        ItemFrame(SetToSeq({c \in Ids : ledger[c] > 0 /\ roomOf[c] = room})[i], 1, room)]
\* Mutant: nothing is replayed to an agent that was registered before.
ReplayFirst(room) ==
    IF home # Nowhere THEN <<>>
    ELSE LET inbox == SetToSeq({c \in Ids : ledger[c] = 1 /\ roomOf[c] = room})
         IN  [i \in DOMAIN inbox |-> ItemFrame(inbox[i], 1, room)]

\* pendingFor of every kind, and the filter by the room of the registry.
ReplayFor(room) ==
    LET inbox == SetToSeq({c \in Ids : ledger[c] = 1 /\ roomOf[c] = room})
    IN  [i \in DOMAIN inbox |-> ItemFrame(inbox[i], 1, room)]

\* handleAgentStream: the room of the request counts for an agent that is in no
\* roster.  Briefing, replay, and then what the queue holds.
Connected ==
    /\ up
    /\ link = 0
    /\ link' = life
    /\ home' = IF home = Nowhere THEN Own ELSE home
    /\ debounce' = TRUE
    /\ sig' = BriefIn(home')
    /\ pipe' = <<BriefFrame(BriefIn(home'))>> \o ReplayFor(home') \o queue
    /\ queue' = <<>>
    /\ UNCHANGED <<ledgerVars, hubVars, streamVars, roomOf, sessionVars, cuts>>

-----------------------------------------------------------------------------
(* Of the sidecar. *)

\* tailHub: the reader ends, since the hub is gone, or the connection broke, or
\* the session was started anew.  It reconnects 2 s later.
Disconnected ==
    /\ link # 0
    /\ link' = 0
    /\ pipe' = <<>>
    /\ \/ /\ link # life
          /\ UNCHANGED <<debounce, cuts, sessionVars>>
       \/ /\ link = life
          /\ cuts < MaxCuts
          /\ cuts' = cuts + 1
          /\ debounce' = TRUE
          /\ \/ UNCHANGED sessionVars
             \/ told' = [c \in Ids |-> 0] /\ brief' = NoBrief
    /\ UNCHANGED <<ledgerVars, hubVars, streamVars, home, sig, roomOf, queue>>

\* Mutant: no gate.
HandleEventUngated ==
    LET frame == Head(pipe)
    IN  /\ link # 0
        /\ pipe # <<>>
        /\ pipe' = Tail(pipe)
        /\ \/ /\ frame.type = "briefing"
              /\ brief' = frame.brief
              /\ UNCHANGED told
           \/ /\ frame.type = "item"
              /\ told' = [told EXCEPT ![frame.subject] = frame.version]
              /\ UNCHANGED brief
        /\ UNCHANGED <<ledgerVars, hubVars, streamVars, rosterVars, roomOf, queue, link, cuts>>

\* handleEvent: what is not of the sidecar's own room is dropped.
HandleEvent ==
    LET frame == Head(pipe)
    IN  /\ link # 0
        /\ pipe # <<>>
        /\ pipe' = Tail(pipe)
        /\ \/ /\ frame.room # Own
              /\ UNCHANGED sessionVars
           \/ /\ frame.room = Own
              /\ frame.type = "briefing"
              /\ brief' = frame.brief
              /\ UNCHANGED told
           \/ /\ frame.room = Own
              /\ frame.type = "item"
              /\ told' = [told EXCEPT ![frame.subject] = frame.version]
              /\ UNCHANGED brief
        /\ UNCHANGED <<ledgerVars, hubVars, streamVars, rosterVars, roomOf, queue, link, cuts>>

SidecarNext ==
    \/ PeerChanges
    \/ \E c \in Ids : Create(c) \/ Resolve(c)
    \/ Post \/ Removed
    \/ DebounceFires
    \/ Restarted
    \/ Connected \/ Disconnected
    \/ HandleEvent
    \/ Listen /\ UNCHANGED sidecarVars

-----------------------------------------------------------------------------
(* Properties. *)

Rooms == {Own, Default, Nowhere}

SidecarTypeOK ==
    /\ home \in Rooms
    /\ roomOf \in [Ids -> Rooms]
    /\ Len(queue) <= AgentQueueMax
    /\ link \in 0 .. life
    /\ told \in [Ids -> 0 .. 2]
    /\ brief.room \in {Own, Nowhere}
    /\ cuts \in 0 .. MaxCuts

\* The sidecar has handled what the hub that runs sent it.
Drained == up /\ link = life /\ pipe = <<>>

\* A sidecar in its room that has handled everything was told of every pending
\* item of that room, whatever was lost with earlier connections, fell out of
\* the queue or was created while nobody listened (streams.ts replay, tail.ts).
PendingTold ==
    Drained /\ home = Own =>
        \A c \in Ids : ledger[c] = 1 /\ roomOf[c] = Own => told[c] > 0

\* A session is never told that an item is pending after it was told that it
\* is resolved, however replays, queues and connections follow each other.
ToldForward ==
    [][ \A c \in Ids : told'[c] >= told[c] \/ link' = 0 ]_told

\* Once no re-brief is due, the last briefing the session was told names the
\* peers as the hub knows them (briefing-dispatcher.ts signature and debounce).
\* After a connection that broke this rests on the briefing of every connect,
\* streams.ts 101-109, which the documents do not promise: see BriefedOnce.
BriefedOnPeers ==
    Drained /\ home = Own /\ ~debounce => brief = BriefIn(home)

\* openspec/specs/agent-onboarding/spec.md 33-38, "Reconnect within same hub
\* process does not re-send briefing": the process that briefed the session
\* does not send it the same briefing again.
BriefedOnce ==
    life = 1 /\ pipe # <<>> /\ Head(pipe).type = "briefing" => Head(pipe).brief # brief

\* PROTOCOL.md 501 and 717: the room is that of the first /agent-stream connect,
\* and on connect every pending item addressed to the agent is replayed.
InboxReplayed ==
    Drained => \A c \in Ids : ledger[c] = 1 /\ roomOf[c] = Own => told[c] > 0

=============================================================================
