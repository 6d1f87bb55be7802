----------------------------- MODULE LedgerStore -----------------------------
(***************************************************************************)
(* What the three persistent kinds of the hub share.                       *)
(*                                                                         *)
(* The ledger is a SQLite file: an append-only `events` table whose        *)
(* AUTOINCREMENT sequence numbers are shared by every kind, and one table  *)
(* of current rows per kind (declared by the modules that extend this      *)
(* one).  A verb loads the row, decides, and on a create or a transition   *)
(* commits one event and one row in ONE transaction; only then is the      *)
(* entry handed to the SSE fan-out.                                        *)
(*                                                                         *)
(* The hub is a single-threaded process and a handler never awaits after   *)
(* its body is read, so a handler runs to completion: no other handler     *)
(* starts while `outbox` or `loop` holds something.  Only a crash of the   *)
(* process can fall between the commit and the emission, or between two    *)
(* iterations of a handler's loop.                                         *)
(***************************************************************************)
EXTENDS Naturals, Sequences, FiniteSets

CONSTANTS
    Agents,         \* names of agents (channel sidecars)
    Human,          \* A2A_HUMAN_NAME, the permanent member of the roster
    System,         \* the actor the TTL sweep signs its events with
    Rooms,          \* room labels
    DefaultRoom,    \* the room of an agent registered without a label
    EveryRoom,      \* the null room, of the human
    Absent,         \* not in the roster
    HandoffIds, InterruptIds, PermissionIds,
    None,           \* the null of the code: no row, no proposal, no text
    MaxCrashes      \* bound of the model: how often the hub may crash

Names == Agents \cup {Human}
Ids == HandoffIds \cup InterruptIds \cup PermissionIds

\* Ids of different kinds never collide: h_<hex>, i_<hex> and five letters.
ASSUME StoreAssumption ==
    /\ Human \notin Agents
    /\ System \notin Names
    /\ DefaultRoom \in Rooms
    /\ EveryRoom \notin Rooms
    /\ Absent \notin Rooms \cup {EveryRoom}
    /\ HandoffIds \cap InterruptIds = {}
    /\ HandoffIds \cap PermissionIds = {}
    /\ InterruptIds \cap PermissionIds = {}
    /\ Rooms \cap Ids = {}
    /\ None \notin Rooms \cup Ids
    /\ MaxCrashes \in Nat

VARIABLES
    events,     \* the events table; the sequence number is the position
    roomOf,     \* the roster as the verbs read it: each name's room or Absent
    loop,       \* iterations the running handler still has to do
    outbox,     \* entries it has committed and not yet handed to the fan-out
    wire,       \* every entry handed to the fan-out so far
    crashes,    \* crashes so far
    started     \* length of the log when the hub last started

runVars == <<crashes, started>>
storeVars == <<events, roomOf, loop, outbox, wire, runVars>>

-----------------------------------------------------------------------------
HandoffOutcomes == {"accepted", "declined", "cancelled", "expired"}
InterruptOutcomes == {"acknowledged"}
PermissionOutcomes == {"allowed", "denied", "dismissed"}
Outcomes == HandoffOutcomes \cup InterruptOutcomes \cup PermissionOutcomes
Statuses == {"pending"} \cup Outcomes

\* An event is abstracted to the status its kind and payload record.
Event == [id : Ids, status : Statuses, actor : Names \cup {System}]

\* Verb scopes and the ambient scope of the nutshell.
Scopes == [agents : SUBSET Names] \cup [room : Rooms]
ToAgents(S) == [agents |-> S]
ToRoom(r) == [room |-> r]

\* An SSE entry: the snapshot it carries is told apart by status and version.
\* The subject of a nutshell.updated entry is the room, its status "nutshell".
Entry == [subject : Ids \cup Rooms, status : Statuses \cup {"nutshell"},
          version : Nat, scope : Scopes]

LoopItems == [sweep : HandoffIds] \cup [to : Names, room : Rooms]

StoreTypeOK ==
    /\ events \in Seq(Event)
    /\ roomOf \in [Names -> Rooms \cup {EveryRoom, Absent}]
    /\ loop \in SUBSET LoopItems
    /\ outbox \in Seq(Entry)
    /\ wire \in SUBSET Entry
    /\ crashes \in 0..MaxCrashes
    /\ started \in 0..Len(events)

\* At start the human is registered in every room, nobody else is known.
FreshRoster == [n \in Names |-> IF n = Human THEN EveryRoom ELSE Absent]

StoreInit ==
    /\ events = <<>>
    /\ roomOf = FreshRoster
    /\ loop = {}
    /\ outbox = <<>>
    /\ wire = {}
    /\ crashes = 0
    /\ started = 0

-----------------------------------------------------------------------------
(* Roster: what the verbs need of it. *)

\* ensure(name): a name already registered keeps its room.
Ensured(n, r) == IF roomOf[n] = Absent THEN [roomOf EXCEPT ![n] = r] ELSE roomOf

\* Two parties may deal with each other in one room; a null room is every room.
SameRoom(r, s) == r = EveryRoom \/ s = EveryRoom \/ r = s

\* Mutant: no default when both rooms are null.
CommonRoomUndefaulted(r, s) == IF r # EveryRoom THEN r ELSE s

\* The room a handoff or an interrupt is stored in: from.room ?? to.room ?? default.
CommonRoom(r, s) ==
    IF r # EveryRoom THEN r ELSE IF s # EveryRoom THEN s ELSE DefaultRoom

(* Transactions. *)

NoRows(ids) == [id \in ids |-> None]

NextSeq == Len(events) + 1

\* The one event of a transaction.
LogEvent(id, status, actor) ==
    events' = Append(events, [id |-> id, status |-> status, actor |-> actor])

\* Mutant: the snapshot is stamped with the number of the previous event.
EntryForStale(id, row, scope) ==
    [subject |-> id, status |-> row.status, version |-> Len(events), scope |-> scope]

\* The entry of a snapshot, built from the row as the transaction left it.
EntryFor(id, row, scope) ==
    [subject |-> id, status |-> row.status, version |-> row.version, scope |-> scope]

\* No handler is running.
Idle == outbox = <<>> /\ loop = {}

-----------------------------------------------------------------------------
(* Actions of the environment and of the runtime. *)

\* An agent opens /agent-stream naming its room.
Connect(a, r) ==
    /\ Idle
    /\ roomOf' = Ensured(a, r)
    /\ UNCHANGED <<events, loop, outbox, wire, runVars>>

\* Any POST that names its sender registers it in the default room, even when
\* the request is then refused (400, 403, 409), is idempotent, or is chat.
TouchSender(n) ==
    /\ Idle
    /\ roomOf' = Ensured(n, DefaultRoom)
    /\ UNCHANGED <<events, loop, outbox, wire, runVars>>

\* POST /remove, or the stale timer of an agent.
Remove(n) ==
    /\ Idle
    /\ roomOf' = [roomOf EXCEPT ![n] = Absent]
    /\ UNCHANGED <<events, loop, outbox, wire, runVars>>

\* cap.sse.emit, after the transaction committed.
Emit ==
    /\ outbox # <<>>
    /\ wire' = wire \cup {Head(outbox)}
    /\ outbox' = Tail(outbox)
    /\ UNCHANGED <<events, roomOf, loop, runVars>>

\* The process dies and is started again: the ledger file survives, the roster
\* and whatever the running handler had not done are gone.
Crash ==
    /\ crashes < MaxCrashes
    /\ crashes' = crashes + 1
    /\ started' = Len(events)
    /\ roomOf' = FreshRoster
    /\ loop' = {}
    /\ outbox' = <<>>
    /\ UNCHANGED <<events, wire>>
=============================================================================
