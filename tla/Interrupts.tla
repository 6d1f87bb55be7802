----------------------------- MODULE Interrupts -----------------------------
(***************************************************************************)
(* The interrupt kind: pending -> acknowledged, with the human's bulk      *)
(* interrupt, which creates one row per agent of the rooms it names.       *)
(***************************************************************************)
EXTENDS LedgerStore

VARIABLE interrupts     \* the interrupts table

InterruptRow ==
    [from : Names, to : Names, room : Rooms,
     status : {"pending"} \cup InterruptOutcomes, version : Nat]

ASSUME InterruptRowAssumption == None \notin InterruptRow

InterruptTypeOK == interrupts \in [InterruptIds -> InterruptRow \cup {None}]

InterruptInit == interrupts = NoRows(InterruptIds)

\* Mutant: anyone may acknowledge.
MayAcknowledgeAnyone(i, by) == i # None /\ i.status = "pending"

MayAcknowledge(i, by) == i # None /\ by \in {i.to, Human} /\ i.status = "pending"

-----------------------------------------------------------------------------
\* The transaction of createInterruptVerb and the interrupt.new it will emit.
InsertInterrupt(id, from, to, room) ==
    LET row == [from |-> from, to |-> to, room |-> room,
                status |-> "pending", version |-> NextSeq]
    IN  /\ interrupts[id] = None
        /\ LogEvent(id, "pending", from)
        /\ interrupts' = [interrupts EXCEPT ![id] = row]
        /\ outbox' = <<EntryFor(id, row, ToAgents({to}))>>

\* POST /interrupts to one recipient.
SendInterrupt(id, from, to) ==
    LET roster == Ensured(from, DefaultRoom)
    IN  /\ Idle
        /\ roster[to] # Absent
        /\ SameRoom(roster[from], roster[to])
        /\ roomOf' = roster
        /\ InsertInterrupt(id, from, to, CommonRoom(roster[from], roster[to]))
        /\ UNCHANGED <<loop, wire, runVars>>

\* POST /interrupts with `rooms`, from the human: the members of the rooms are
\* visited one by one.  The bound: the model must have an id for each.
BulkInterrupt(rooms) ==
    LET roster == Ensured(Human, DefaultRoom)
        members == {n \in Names : roster[n] \in rooms}
    IN  /\ Idle
        /\ members # {}
        /\ Cardinality(members) <= Cardinality({id \in InterruptIds : interrupts[id] = None})
        /\ roomOf' = roster
        /\ loop' = {[to |-> n, room |-> roster[n]] : n \in members}
        /\ UNCHANGED <<interrupts, events, outbox, wire, runVars>>

\* One iteration of the bulk interrupt.
InterruptNext(id, to, room) ==
    /\ outbox = <<>>
    /\ [to |-> to, room |-> room] \in loop
    /\ loop' = loop \ {[to |-> to, room |-> room]}
    /\ InsertInterrupt(id, Human, to, room)
    /\ UNCHANGED <<roomOf, wire, runVars>>

\* POST /interrupts/:id/ack
AcknowledgeInterrupt(id, by) ==
    LET row == [interrupts[id] EXCEPT !.status = "acknowledged", !.version = NextSeq]
    IN  /\ Idle
        /\ MayAcknowledge(interrupts[id], by)
        /\ LogEvent(id, "acknowledged", by)
        /\ interrupts' = [interrupts EXCEPT ![id] = row]
        /\ outbox' = <<EntryFor(id, row, ToAgents({row.from, row.to}))>>
        /\ UNCHANGED <<roomOf, loop, wire, runVars>>
=============================================================================
