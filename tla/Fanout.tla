------------------------------- MODULE Fanout -------------------------------
(***************************************************************************)
(* What the hub sends to its clients, and what it keeps to send it again:  *)
(* the chat log, the transcript of a room and the stream of the webview.   *)
(*                                                                         *)
(* One room and one agent.  The ledger is reduced to the version of each   *)
(* entity: 0 not created, 1 pending, 2 resolved.  A handler runs to its    *)
(* end, with the streams it wakes, before the next one starts; only the    *)
(* SIGKILL of reload_settings can fall between a commit and its emission.  *)
(***************************************************************************)
EXTENDS Integers, Sequences, FiniteSets, SequencesExt

CONSTANTS
    HandoffIds, InterruptIds, PermissionIds,
    Messages,       \* chat messages, each said once
    HistoryLimit,   \* HISTORY_LIMIT: entries of the chat log, lines of a replay
    UiQueueMax,     \* UI_QUEUE_MAX
    RotationLines,  \* ROTATION_LINES
    MaxLives,       \* bound of the model: hub processes
    MaxMoves,       \* bound of the model: arrivals and departures of the agent
    Agent,          \* the agent
    Casts           \* bound of the model: the entities and messages that one
                    \* behaviour is about, with the agent when it comes and goes

Ids == HandoffIds \cup InterruptIds \cup PermissionIds

ASSUME FanoutAssumption ==
    /\ Ids \cap Messages = {} /\ IsFiniteSet(Ids)
    /\ HandoffIds \cap InterruptIds = {} /\ HandoffIds \cap PermissionIds = {}
    /\ InterruptIds \cap PermissionIds = {}
    /\ HistoryLimit \in Nat \ {0}
    /\ UiQueueMax \in Nat \ {0}
    /\ RotationLines \in Nat \ {0}
    /\ MaxLives \in Nat \ {0}
    /\ MaxMoves \in Nat
    /\ \A S \in Casts : S \subseteq Ids \cup Messages \cup {Agent}

VARIABLES
    client,     \* the client that is attached: the two meet only in the hub
    cast,       \* the entities and messages the behaviour is about
    life,       \* which hub process runs: its port, its token, its SESSION_ID
    up,         \* it listens
    ledger,     \* version of each entity; survives the process
    unsent,     \* history: entities whose last commit was never emitted
    agent,      \* roster entry of the agent: absent, away or online
    moves,      \* arrivals and departures of the agent
    said,       \* messages said
    seq,        \* entrySeq
    chatLog,    \* entries kept, with their ids
    optedIn,    \* persist_transcript of the room
    transcript, \* lines of the active chunk; survives the process
    hydrated,   \* the room was hydrated in this process
    stream,     \* the connection the page holds to /stream
    wire,       \* frames sent down that connection and not handled yet
    missed      \* history: an entry with an id went by the page

ledgerVars == <<client, cast, moves, ledger, unsent>>
hubVars == <<life, up, agent, said, seq, chatLog, optedIn, transcript, hydrated>>
streamVars == <<stream, wire, missed>>

\* An entry, which has no id before it is sent.
Entry(subject, version) == [type |-> "entry", subject |-> subject, version |-> version]

NoStream == [phase |-> "none"]
Open == stream.phase = "open"

\* The page's stream is one of the hub that runs, which pushes to it.
Attached == Open /\ stream.bus = life

FanoutInit ==
    /\ client \in {"page", "sidecar"}
    /\ cast \in Casts
    /\ moves = 0
    /\ life = 1
    /\ up = FALSE
    /\ ledger = [c \in Ids |-> 0]
    /\ unsent = {}
    /\ agent = "absent"
    /\ said = {}
    /\ seq = 0
    /\ chatLog = <<>>
    /\ optedIn \in (IF client = "page" /\ Agent \in cast THEN BOOLEAN ELSE {FALSE})
    /\ transcript = <<>>
    /\ hydrated = FALSE
    /\ stream = NoStream
    /\ wire = <<>>
    /\ missed = FALSE

-----------------------------------------------------------------------------
LastOf(s, n) == IF Len(s) <= n THEN s ELSE SubSeq(s, Len(s) - n + 1, Len(s))

(* Frames that carry no id, and are kept nowhere. *)
SessionFrame == [type |-> "session", life |-> life]
RosterFrame(state) == [type |-> "roster", known |-> state # "absent"]
PresenceFrame(state) == [type |-> "presence", online |-> state = "online"]

\* Entries stamped with the next ids.
Numbered(entries) ==
    [i \in DOMAIN entries |->
        [type |-> "entry", id |-> seq + i,
         subject |-> entries[i].subject, version |-> entries[i].version]]

\* appendEntry: a chunk that is full is renamed, and the next line starts a new one.
AppendLine(lines, entry) ==
    IF Len(lines) + 1 >= RotationLines THEN <<>> ELSE Append(lines, entry)

\* What reaches the page of the frames one handler pushes: its stream waits and
\* takes the first, the queue keeps the newest of the others.
Queued(frames) ==
    IF frames = <<>> THEN <<>>
    ELSE <<Head(frames)>> \o LastOf(Tail(frames), UiQueueMax)

\* Mutant: what is replayed keeps the ids it was recorded with.
SendUnnumbered(ambient, entries) ==
    LET numbered == [i \in DOMAIN entries |-> [Numbered(entries)[i] EXCEPT !.id = i]]
        frames == ambient \o numbered
    IN  IF client # "page" THEN UNCHANGED <<seq, chatLog, transcript, streamVars>>
        ELSE /\ seq' = seq + Len(entries)
             /\ chatLog' = LastOf(chatLog \o numbered, HistoryLimit)
             /\ transcript' = IF optedIn THEN FoldLeft(AppendLine, transcript, entries)
                              ELSE transcript
             /\ wire' = IF Attached THEN wire \o Queued(frames) ELSE wire
             /\ missed' = (missed \/ (Attached /\ Queued(frames) # frames))
             /\ UNCHANGED stream

\* fanout.send, for the frames of one handler: ambient ones, then entries that
\* get an id, a place in the chat log and, in a room that opted in, a line.
Send(ambient, entries) ==
    LET numbered == Numbered(entries)
        frames == ambient \o numbered
    IN  IF client # "page" THEN UNCHANGED <<seq, chatLog, transcript, streamVars>>
        ELSE /\ seq' = seq + Len(entries)
             /\ chatLog' = LastOf(chatLog \o numbered, HistoryLimit)
             /\ transcript' = IF optedIn THEN FoldLeft(AppendLine, transcript, entries)
                              ELSE transcript
             /\ wire' = IF Attached THEN wire \o Queued(frames) ELSE wire
             /\ missed' = (missed \/ (Attached /\ Queued(frames) # frames))
             /\ UNCHANGED stream

-----------------------------------------------------------------------------
(* Handlers, as far as both clients see them. *)

\* An entity is created or resolved, and the entry of the commit goes out.
Commit(c) ==
    /\ c \in cast
    /\ ledger[c] < 2
    /\ ledger' = [ledger EXCEPT ![c] = @ + 1]
    /\ unsent' = unsent \ {c}

Advance(c) ==
    /\ up
    /\ Commit(c)
    /\ Send(<<>>, <<Entry(c, ledger'[c])>>)
    /\ UNCHANGED <<client, cast, moves, life, up, agent, said, optedIn, hydrated>>

\* POST /send, or /post of an agent in the roster.
Say(m) ==
    /\ up
    /\ m \in cast \ said
    /\ said' = said \cup {m}
    /\ Send(<<>>, <<Entry(m, 1)>>)
    /\ UNCHANGED <<ledgerVars, life, up, agent, optedIn, hydrated>>

\* POST /post of an agent that is in no roster: registered, then heard.
SayFirst(m) ==
    /\ up
    /\ agent = "absent"
    /\ m \in cast \ said
    /\ agent' = "away"
    /\ said' = said \cup {m}
    /\ Send(<<RosterFrame(agent')>>, <<Entry(m, 1)>>)
    /\ UNCHANGED <<ledgerVars, life, up, optedIn, hydrated>>

\* What the room's first connect of a process replays.
Replay == IF hydrated \/ ~optedIn THEN <<>> ELSE LastOf(transcript, HistoryLimit)

\* The agent comes or goes.
Moves == Agent \in cast /\ moves < MaxMoves /\ moves' = moves + 1

\* GET /agent-stream, as the page sees it: roster, presence, hydration.
AgentConnects ==
    /\ up
    /\ Moves
    /\ agent # "online"
    /\ agent' = "online"
    /\ hydrated' = TRUE
    /\ Send((IF agent = "absent" THEN <<RosterFrame(agent')>> ELSE <<>>)
              \o <<PresenceFrame(agent')>>, Replay)
    /\ UNCHANGED <<client, cast, ledger, unsent, life, up, said, optedIn>>

\* Mutant: its end is not announced.
AgentLeavesUnseen ==
    /\ up
    /\ Moves
    /\ agent = "online"
    /\ agent' = "away"
    /\ Send(<<>>, <<>>)
    /\ UNCHANGED <<client, cast, ledger, unsent, life, up, said, optedIn, hydrated>>

\* Its last connection closes.
AgentLeaves ==
    /\ up
    /\ Moves
    /\ agent = "online"
    /\ agent' = "away"
    /\ Send(<<PresenceFrame(agent')>>, <<>>)
    /\ UNCHANGED <<client, cast, ledger, unsent, life, up, said, optedIn, hydrated>>

\* Its stale timer, or POST /remove while nothing of it is connected.
AgentRemoved ==
    /\ up
    /\ Moves
    /\ agent = "away"
    /\ agent' = "absent"
    /\ Send(<<RosterFrame(agent'), PresenceFrame(agent')>>, <<>>)
    /\ UNCHANGED <<client, cast, ledger, unsent, life, up, said, optedIn, hydrated>>

\* POST /rooms/:room/clear-transcript
ClearTranscript ==
    /\ up
    /\ chatLog # <<>>
    /\ chatLog' = <<>>
    /\ transcript' = <<>>
    /\ UNCHANGED <<ledgerVars, life, up, agent, said, seq, optedIn, hydrated, streamVars>>

-----------------------------------------------------------------------------
(* The hub process. *)

\* reload_settings kills the hub, between two handlers or after the commit of
\* the entities in `done`, and starts the next one on another port.
Killed(done) ==
    /\ life < MaxLives
    /\ life' = life + 1
    /\ up' = FALSE
    /\ ledger' = [c \in Ids |-> IF c \in done THEN ledger[c] + 1 ELSE ledger[c]]
    /\ unsent' = unsent \cup done
    /\ agent' = "absent"
    /\ seq' = 0
    /\ chatLog' = <<>>
    /\ hydrated' = FALSE
    /\ UNCHANGED <<client, cast, moves, said, optedIn, transcript>>

\* What one handler can have committed: nothing, or one entity.
Halfway == {{}} \cup {{c} : c \in {d \in Ids \cap cast : up /\ ledger[d] < 2}}

\* It listens: Bun.serve.
Listen ==
    /\ ~up
    /\ up' = TRUE
    /\ UNCHANGED <<ledgerVars, life, agent, said, seq, chatLog, optedIn, transcript,
                   hydrated, streamVars>>

\* What the chat log holds after an id.
LogAfter(id) ==
    FoldLeft(LAMBDA es, e : IF e.id > id THEN Append(es, e) ELSE es, <<>>, chatLog)

\* Mutant: the id the page saw last counts in every process.
AcceptStreamUnscoped ==
    LET lastId == IF stream.session = life THEN stream.lastId ELSE 0
        replay == LogAfter(stream.lastId)
    IN  /\ up
        /\ stream.phase = "opening"
        /\ stream.bus = life
        /\ stream' = [phase |-> "open", bus |-> life]
        /\ wire' = <<SessionFrame, RosterFrame(agent), PresenceFrame(agent)>> \o replay
        /\ missed' = (missed \/ Len(chatLog) < seq - lastId)
        /\ UNCHANGED <<ledgerVars, hubVars>>

\* handleStream: the page's request is answered.  The chat log is replayed from
\* the id the page saw last in this process.
AcceptStream ==
    LET lastId == IF stream.session = life THEN stream.lastId ELSE 0
        replay == LogAfter(lastId)
    IN  /\ up
        /\ stream.phase = "opening"
        /\ stream.bus = life
        /\ stream' = [phase |-> "open", bus |-> life]
        /\ wire' = <<SessionFrame, RosterFrame(agent), PresenceFrame(agent)>> \o replay
        /\ missed' = (missed \/ Len(replay) < seq - lastId)
        /\ UNCHANGED <<ledgerVars, hubVars>>

HubNext ==
    \/ \E c \in Ids : Advance(c)
    \/ \E m \in Messages : Say(m) \/ SayFirst(m)
    \/ AgentConnects \/ AgentLeaves \/ AgentRemoved
    \/ ClearTranscript
    \/ Listen
    \/ AcceptStream
=============================================================================
