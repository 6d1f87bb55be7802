----------------------------- MODULE Permissions ----------------------------
(***************************************************************************)
(* The permission kind: pending -> allowed | denied | dismissed.  Unlike   *)
(* the other kinds its id is chosen by the client, so creation has a       *)
(* replay, and any name may give the verdict: the first one wins.          *)
(***************************************************************************)
EXTENDS LedgerStore

VARIABLE permissions    \* the permissions table

PermissionRow ==
    [agent : Names, room : Rooms, by : Names \cup {None},
     status : {"pending"} \cup PermissionOutcomes, version : Nat]

ASSUME PermissionRowAssumption == None \notin PermissionRow

PermissionTypeOK == permissions \in [PermissionIds -> PermissionRow \cup {None}]

PermissionInit == permissions = NoRows(PermissionIds)

\* The room of a voter: that of the roster, and null for a name it lacks.
VoterRoom(by) == IF roomOf[by] = Absent THEN EveryRoom ELSE roomOf[by]

\* Mutant: the last verdict wins.
MayDecideAgain(p, by) ==
    p # None /\ SameRoom(VoterRoom(by), p.room) /\ p.status # "dismissed"

MayDecide(p, by) ==
    p # None /\ SameRoom(VoterRoom(by), p.room) /\ p.status = "pending"

MayDismiss(p) == p # None /\ p.status = "pending"

-----------------------------------------------------------------------------
\* POST /permissions with a request_id the ledger does not know.  A repeated
\* one is idempotent or refused and leaves only the sender registered.
RequestPermission(id, agent) ==
    LET roster == Ensured(agent, DefaultRoom)
        row == [agent |-> agent, by |-> None, status |-> "pending", version |-> NextSeq,
                room |-> CommonRoom(roster[agent], DefaultRoom)]
    IN  /\ Idle
        /\ permissions[id] = None
        /\ roomOf' = roster
        /\ LogEvent(id, "pending", agent)
        /\ permissions' = [permissions EXCEPT ![id] = row]
        /\ outbox' = <<EntryFor(id, row, ToRoom(row.room))>>
        /\ UNCHANGED <<loop, wire, runVars>>

\* The transaction of a transition and the entry it will emit.
ResolvePermission(id, outcome, actor) ==
    LET row == [permissions[id] EXCEPT !.status = outcome, !.version = NextSeq, !.by = actor]
    IN  /\ LogEvent(id, outcome, actor)
        /\ permissions' = [permissions EXCEPT ![id] = row]
        /\ outbox' = <<EntryFor(id, row, ToRoom(row.room))>>

\* POST /permissions/:id/verdict
DecidePermission(id, by, verdict) ==
    /\ Idle
    /\ MayDecide(permissions[id], by)
    /\ ResolvePermission(id, verdict, by)
    /\ UNCHANGED <<roomOf, loop, wire, runVars>>

\* POST /permissions/:id/dismiss
DismissPermission(id, by) ==
    /\ Idle
    /\ MayDismiss(permissions[id])
    /\ ResolvePermission(id, "dismissed", by)
    /\ UNCHANGED <<roomOf, loop, wire, runVars>>
=============================================================================
