------------------------------ MODULE Handoffs ------------------------------
(***************************************************************************)
(* The handoff kind: pending -> accepted | declined | cancelled | expired, *)
(* with the TTL sweep of hub.ts and the nutshell, the one living document  *)
(* of a room, which is only ever edited by the human accepting a handoff   *)
(* whose task starts with "[nutshell]".                                    *)
(***************************************************************************)
EXTENDS LedgerStore

CONSTANTS
    Unspecified,    \* a nutshell proposal with no valid context.room
    Proposed,       \* the proposals that senders make, a subset of Proposals
    TTLs,           \* ttl_seconds a sender may ask for, in clock ticks
    MaxTime         \* bound of the model: the last tick of the clock

\* What a handoff proposes to the nutshell: an edit for the room context.room
\* names, an edit that names no room, or None (no prefix, no string patch).
Proposals == Rooms \cup {Unspecified, None}

ASSUME HandoffAssumption ==
    /\ Proposed \subseteq Proposals
    /\ TTLs \subseteq Nat \ {0}
    /\ MaxTime \in Nat
    /\ Unspecified \notin Rooms \cup {None}

VARIABLES
    handoffs,   \* the handoffs table
    nutshells,  \* the nutshell table
    now         \* Date.now()

handoffVars == <<handoffs, nutshells, now>>

HandoffRow ==
    [from : Names, to : Names, room : Rooms, proposal : Proposals,
     expires : Nat, status : {"pending"} \cup HandoffOutcomes, version : Nat]

ASSUME HandoffRowAssumption == None \notin HandoffRow

\* The text of a nutshell is told apart by the handoff that carried it.
Nutshell == [version : Nat, text : HandoffIds \cup {None}]

HandoffTypeOK ==
    /\ handoffs \in [HandoffIds -> HandoffRow \cup {None}]
    /\ nutshells \in [Rooms -> Nutshell]
    /\ now \in 0..MaxTime

HandoffInit ==
    /\ handoffs = NoRows(HandoffIds)
    /\ nutshells = [r \in Rooms |-> [version |-> 0, text |-> None]]
    /\ now = 0

-----------------------------------------------------------------------------
(* What the verbs decide. *)

\* Mutants: the human may accept for an agent; a resolved row may be cancelled.
MayAcceptForAnother(h, by) == h # None /\ by \in {h.to, Human} /\ h.status = "pending"
MayCancelResolved(h, by) == h # None /\ by \in {h.from, Human} /\ h.status # "cancelled"

MayAccept(h, by) == h # None /\ h.to = by /\ h.status = "pending"
MayDecline(h, by) == h # None /\ h.to = by /\ h.status = "pending"
MayCancel(h, by) == h # None /\ by \in {h.from, Human} /\ h.status = "pending"

\* findExpirable
Due(h) == h # None /\ h.status = "pending" /\ h.expires < now

\* Mutant: the room of the patch is not compared with that of the handoff.
NutshellTargetAnyRoom(h) ==
    IF h.to # Human \/ h.proposal = None THEN None
    ELSE IF h.proposal = Unspecified THEN h.room ELSE h.proposal

\* The room whose nutshell an accept writes, or None.  A patch for another
\* room than the handoff's own is dropped unless the human proposed it.
NutshellTarget(h) ==
    IF h.to # Human \/ h.proposal = None THEN None
    ELSE IF h.proposal = Unspecified THEN h.room
    ELSE IF h.proposal = h.room \/ h.from = Human THEN h.proposal
    ELSE None

\* Mutant: the conflict clause of the upsert replaces the row.
WriteNutshellReplaced(r, id) == [nutshells EXCEPT ![r] = [version |-> 1, text |-> id]]

\* The upsert of the nutshell row.
WriteNutshell(r, id) ==
    [nutshells EXCEPT ![r] = [version |-> @.version + 1, text |-> id]]

NutshellEntry(r, row) ==
    [subject |-> r, status |-> "nutshell", version |-> row.version, scope |-> ToRoom(r)]

\* Mutant: the sender is not told of the outcome.
PartiesForgetsSender(h) == ToAgents({h.to})

Parties(h) == ToAgents({h.from, h.to})

-----------------------------------------------------------------------------
(* Handlers. *)

\* POST /handoffs, up to the commit.  The sender is registered first, so a
\* sender the hub does not know yet files it in the default room.
CreateHandoff(id, from, to, proposal, ttl) ==
    LET roster == Ensured(from, DefaultRoom)
        row == [from |-> from, to |-> to, proposal |-> proposal,
                room |-> CommonRoom(roster[from], roster[to]),
                expires |-> now + ttl, status |-> "pending", version |-> NextSeq]
    IN  /\ Idle
        /\ handoffs[id] = None
        /\ roster[to] # Absent
        /\ SameRoom(roster[from], roster[to])
        /\ roomOf' = roster
        /\ LogEvent(id, "pending", from)
        /\ handoffs' = [handoffs EXCEPT ![id] = row]
        /\ outbox' = <<EntryFor(id, row, ToAgents({to}))>>
        /\ UNCHANGED <<nutshells, now, loop, wire, runVars>>

\* The transaction of a transition and the handoff.update it will emit.
ResolveHandoff(id, outcome, actor) ==
    LET row == [handoffs[id] EXCEPT !.status = outcome, !.version = NextSeq]
    IN  /\ LogEvent(id, outcome, actor)
        /\ handoffs' = [handoffs EXCEPT ![id] = row]
        /\ outbox' = <<EntryFor(id, row, Parties(row))>>

\* POST /handoffs/:id/accept when the nutshell is not concerned.
AcceptHandoff(id, by) ==
    /\ Idle
    /\ MayAccept(handoffs[id], by)
    /\ NutshellTarget(handoffs[id]) = None
    /\ ResolveHandoff(id, "accepted", by)
    /\ UNCHANGED <<nutshells, now, roomOf, loop, wire, runVars>>

\* POST /handoffs/:id/accept of a nutshell edit: the nutshell is written in the
\* transaction of the accept; handoff.update goes out before nutshell.updated.
AcceptNutshell(id, by) ==
    LET h == handoffs[id]
        row == [h EXCEPT !.status = "accepted", !.version = NextSeq]
        room == NutshellTarget(h)
    IN  /\ Idle
        /\ MayAccept(h, by)
        /\ room # None
        /\ LogEvent(id, "accepted", by)
        /\ handoffs' = [handoffs EXCEPT ![id] = row]
        /\ nutshells' = WriteNutshell(room, id)
        /\ outbox' = <<EntryFor(id, row, Parties(row)),
                       NutshellEntry(room, nutshells'[room])>>
        /\ UNCHANGED <<now, roomOf, loop, wire, runVars>>

DeclineHandoff(id, by) ==
    /\ Idle
    /\ MayDecline(handoffs[id], by)
    /\ ResolveHandoff(id, "declined", by)
    /\ UNCHANGED <<nutshells, now, roomOf, loop, wire, runVars>>

CancelHandoff(id, by) ==
    /\ Idle
    /\ MayCancel(handoffs[id], by)
    /\ ResolveHandoff(id, "cancelled", by)
    /\ UNCHANGED <<nutshells, now, roomOf, loop, wire, runVars>>

\* Mutant: TTL timers kept in memory, lost when the hub restarts.
SweepOfThisRun ==
    LET due == {id \in HandoffIds : Due(handoffs[id]) /\ handoffs[id].version > started}
    IN  /\ Idle
        /\ due # {}
        /\ loop' = {[sweep |-> id] : id \in due}
        /\ UNCHANGED <<handoffs, nutshells, now, events, roomOf, outbox, wire, runVars>>

\* The sweep's timer fires: the ids to expire are read once.
Sweep ==
    LET due == {id \in HandoffIds : Due(handoffs[id])}
    IN  /\ Idle
        /\ due # {}
        /\ loop' = {[sweep |-> id] : id \in due}
        /\ UNCHANGED <<handoffs, nutshells, now, events, roomOf, outbox, wire, runVars>>

\* One iteration of the sweep: expireHandoff, then its broadcast.
ExpireNext(id) ==
    /\ outbox = <<>>
    /\ [sweep |-> id] \in loop
    /\ loop' = loop \ {[sweep |-> id]}
    /\ IF handoffs[id] # None /\ handoffs[id].status = "pending"
       THEN ResolveHandoff(id, "expired", System)
       ELSE UNCHANGED <<handoffs, events, outbox>>
    /\ UNCHANGED <<nutshells, now, roomOf, wire, runVars>>

\* Time passes.
Tick ==
    /\ now < MaxTime
    /\ now' = now + 1
    /\ UNCHANGED <<handoffs, nutshells, storeVars>>
=============================================================================
