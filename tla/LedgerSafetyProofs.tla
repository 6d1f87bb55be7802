------------------------- MODULE LedgerSafetyProofs -------------------------
(***************************************************************************)
(* The invariants that tie the tables, the log and the announcements of    *)
(* the ledger together, proved for any agents, rooms, ids and bounds.      *)
(*                                                                         *)
(* Every step of the hub is one of three: it inserts a row, it concludes a *)
(* pending row, or it is quiet: rows and log stay, and at most the head of *)
(* the outbox is emitted.  The lemma StepKinds shows this handler by       *)
(* handler; everything after it is about those three.                      *)
(***************************************************************************)
EXTENDS LedgerProofs

Actors == Names \cup {System}

\* A transaction on the row of id, and the announcement it queues.
Commits(id, actor) ==
    LET row == RowOf(id)'
    IN  /\ LogEvent(id, row.status, actor)
        /\ row # None
        /\ row.version = NextSeq
        /\ \A j \in Ids \ {id} : RowOf(j)' = RowOf(j)
        /\ outbox = <<>>
        /\ wire' = wire
        /\ Len(outbox') \in {1, 2}
        /\ outbox'[1].subject = id
        /\ outbox'[1].status = row.status
        /\ outbox'[1].version = row.version
        /\ Len(outbox') = 2 => outbox'[2].subject \in Rooms
        /\ MustHear(id, outbox[1].scope)'
        /\ started' = started

\* Whoever may conclude a row so, going by the row and the running sweep.
Entitled(id, outcome, actor) ==
    /\ outcome \in {"accepted", "declined"} => actor = RowOf(id).to
    /\ outcome = "cancelled" => actor \in {RowOf(id).from, Human}
    /\ outcome = "expired" => actor = System /\ [sweep |-> id] \in loop
    /\ outcome = "acknowledged" => actor \in {RowOf(id).to, Human}

Inserts(id, actor) ==
    RowOf(id) = None /\ RowOf(id)'.status = "pending" /\ Commits(id, actor)

Concludes(id, actor) ==
    /\ RowOf(id) # None
    /\ RowOf(id).status = "pending"
    /\ RowOf(id)'.status \in OutcomesById[id]
    /\ Resolves(RowOf(id), RowOf(id)')
    /\ Entitled(id, RowOf(id)'.status, actor)
    /\ Commits(id, actor)

\* Rows and log stay; the outbox stays, is emitted from or is lost.
Quiet ==
    /\ events' = events
    /\ \A j \in Ids : RowOf(j)' = RowOf(j)
    /\ \/ UNCHANGED <<outbox, wire, started>>
       \/ Emit
       \/ outbox' = <<>> /\ wire' = wire /\ started' = Len(events)

StepKind ==
    Quiet \/ \E id \in Ids, actor \in Actors : Inserts(id, actor) \/ Concludes(id, actor)

-----------------------------------------------------------------------------
\* The row of a handoff is in the handoffs table, and so on.
LEMMA RowOfKind ==
    /\ \A id \in HandoffIds : RowOf(id) = handoffs[id] /\ RowOf(id)' = handoffs'[id]
    /\ \A id \in InterruptIds : RowOf(id) = interrupts[id] /\ RowOf(id)' = interrupts'[id]
    /\ \A id \in PermissionIds : RowOf(id) = permissions[id] /\ RowOf(id)' = permissions'[id]
  BY StoreAssumption DEF RowOf

\* The outcomes of an id are those of its kind.
LEMMA OutcomesOfKind ==
    /\ \A id \in HandoffIds : OutcomesById[id] = HandoffOutcomes
    /\ \A id \in InterruptIds : OutcomesById[id] = InterruptOutcomes
    /\ \A id \in PermissionIds : OutcomesById[id] = PermissionOutcomes
  BY StoreAssumption DEF OutcomesById, Ids

\* The handlers of a handoff insert a row, conclude one, or are quiet.
LEMMA HandoffStepKind == TypeOK /\ HandoffNext => StepKind
<1> SUFFICES ASSUME TypeOK, HandoffNext PROVE StepKind
    OBVIOUS
<1>k. \A j \in Ids \ HandoffIds : RowOf(j)' = RowOf(j)
  BY DEF HandoffNext, RowOf
<1>w. ASSUME NEW id \in HandoffIds, NEW row \in HandoffRow,
             handoffs' = [handoffs EXCEPT ![id] = row]
      PROVE  /\ RowOf(id) = handoffs[id] /\ RowOf(id)' = row /\ row # None
             /\ \A j \in Ids \ {id} : RowOf(j)' = RowOf(j)
  BY <1>k, <1>w, RowOfKind, HandoffRowAssumption DEF TypeOK, HandoffTypeOK, Ids
<1>q. ASSUME handoffs' = handoffs, events' = events, UNCHANGED <<outbox, wire, started>>
      PROVE  Quiet
  BY <1>k, <1>q, RowOfKind DEF Quiet, Ids
<1>1. ASSUME NEW id \in HandoffIds, NEW from \in Names, NEW to \in Names,
             NEW proposal \in Proposed, NEW ttl \in TTLs,
             CreateHandoff(id, from, to, proposal, ttl)
      PROVE  Inserts(id, from)
  <2> DEFINE roster == Ensured(from, DefaultRoom)
             room == CommonRoom(roster[from], roster[to])
             row == [from |-> from, to |-> to, proposal |-> proposal, room |-> room,
                     expires |-> now + ttl, status |-> "pending", version |-> NextSeq]
  <2>1. row \in HandoffRow
    <3>1. room \in Rooms
      BY <1>1, EnsuredType, CommonRoomType, StoreAssumption
      DEF CreateHandoff, TypeOK, StoreTypeOK
    <3>2. NextSeq \in Nat
      BY DEF NextSeq, TypeOK, StoreTypeOK
    <3> QED
      BY <3>1, <3>2, HandoffAssumption DEF HandoffRow, TypeOK, HandoffTypeOK
  <2>2. /\ handoffs[id] = None /\ handoffs' = [handoffs EXCEPT ![id] = row]
        /\ LogEvent(id, "pending", from) /\ outbox' = <<EntryFor(id, row, ToAgents({to}))>>
        /\ wire' = wire /\ outbox = <<>> /\ started' = started
    BY <1>1 DEF CreateHandoff, Idle, runVars
  <2>3. /\ RowOf(id) = None /\ RowOf(id)' = row /\ row # None
        /\ \A j \in Ids \ {id} : RowOf(j)' = RowOf(j)
    BY <1>w, <2>1, <2>2
  <2>4. MustHear(id, outbox[1].scope)'
    BY <2>2, <2>3, StoreAssumption DEF MustHear, EntryFor
  <2> QED
    BY <2>2, <2>3, <2>4 DEF Inserts, Commits, EntryFor
<1>r. ASSUME NEW id \in HandoffIds, NEW outcome \in HandoffOutcomes, NEW actor \in Actors,
             handoffs[id] # None, handoffs[id].status = "pending",
             ResolveHandoff(id, outcome, actor), Entitled(id, outcome, actor),
             outbox = <<>>, wire' = wire, started' = started
      PROVE  Concludes(id, actor)
  <2> DEFINE row == [handoffs[id] EXCEPT !.status = outcome, !.version = NextSeq]
  <2>1. /\ row \in HandoffRow /\ row.status = outcome /\ row.version = NextSeq
        /\ DOMAIN row = DOMAIN handoffs[id]
        /\ \A f \in DOMAIN handoffs[id] \ {"status", "version"} : row[f] = handoffs[id][f]
    <3>1. NextSeq \in Nat /\ handoffs[id] \in HandoffRow
      BY <1>r DEF TypeOK, HandoffTypeOK, StoreTypeOK, NextSeq
    <3> QED
      BY <3>1 DEF HandoffRow
  <2>2. /\ handoffs' = [handoffs EXCEPT ![id] = row] /\ LogEvent(id, outcome, actor)
        /\ outbox' = <<EntryFor(id, row, Parties(row))>>
    BY <1>r DEF ResolveHandoff
  <2>3. /\ RowOf(id) = handoffs[id] /\ RowOf(id)' = row /\ row # None
        /\ \A j \in Ids \ {id} : RowOf(j)' = RowOf(j)
    BY <1>w, <2>1, <2>2
  <2> HIDE DEF row
  <2>4. Len(outbox') = 1 /\ outbox'[1] = EntryFor(id, row, Parties(row))
    BY <2>2
  <2>5. MustHear(id, outbox[1].scope)'
    BY <1>r, <2>1, <2>3, <2>4, StoreAssumption DEF MustHear, EntryFor, Parties, HandoffOutcomes
  <2>6. Commits(id, actor)
    BY <1>r, <2>1, <2>2, <2>3, <2>4, <2>5 DEF Commits, EntryFor
  <2>7. Resolves(RowOf(id), RowOf(id)')
    BY <1>r, <2>1, <2>3 DEF Resolves, HandoffOutcomes
  <2> QED
    BY <1>r, <2>1, <2>3, <2>6, <2>7, OutcomesOfKind DEF Concludes
<1>2. ASSUME NEW id \in HandoffIds, NEW by \in Names, AcceptHandoff(id, by)
      PROVE  Concludes(id, by)
  <2>1. Entitled(id, "accepted", by)
    BY <1>2, RowOfKind DEF Entitled, AcceptHandoff, MayAccept
  <2> QED
    BY <1>r, <1>2, <2>1 DEF AcceptHandoff, MayAccept, HandoffOutcomes, Idle, Actors, runVars
<1>3. ASSUME NEW id \in HandoffIds, NEW by \in Names, AcceptNutshell(id, by)
      PROVE  Concludes(id, by)
  <2> DEFINE row == [handoffs[id] EXCEPT !.status = "accepted", !.version = NextSeq]
             room == NutshellTarget(handoffs[id])
  <2>1. /\ row \in HandoffRow /\ row.status = "accepted" /\ row.version = NextSeq
        /\ DOMAIN row = DOMAIN handoffs[id]
        /\ \A f \in DOMAIN handoffs[id] \ {"status", "version"} : row[f] = handoffs[id][f]
    <3>1. NextSeq \in Nat /\ handoffs[id] \in HandoffRow
      BY <1>3 DEF AcceptNutshell, MayAccept, TypeOK, HandoffTypeOK, StoreTypeOK, NextSeq
    <3> QED
      BY <3>1 DEF HandoffRow, HandoffOutcomes
  <2>2. /\ handoffs' = [handoffs EXCEPT ![id] = row] /\ LogEvent(id, "accepted", by)
        /\ outbox' = <<EntryFor(id, row, Parties(row)), NutshellEntry(room, nutshells'[room])>>
        /\ outbox = <<>> /\ wire' = wire /\ started' = started
        /\ handoffs[id] # None /\ handoffs[id].status = "pending" /\ handoffs[id].to = by
    BY <1>3 DEF AcceptNutshell, MayAccept, Idle, runVars
  <2>3. /\ RowOf(id) = handoffs[id] /\ RowOf(id)' = row /\ row # None
        /\ \A j \in Ids \ {id} : RowOf(j)' = RowOf(j)
    BY <1>w, <2>1, <2>2
  <2>4. room \in Rooms
    BY <1>3, HandoffAssumption
    DEF AcceptNutshell, MayAccept, TypeOK, HandoffTypeOK, NutshellTarget, HandoffRow, Proposals
  <2> HIDE DEF row, room
  <2>5. /\ Len(outbox') = 2 /\ outbox'[1] = EntryFor(id, row, Parties(row))
        /\ outbox'[2] = NutshellEntry(room, nutshells'[room])
    BY <2>2
  <2>6. MustHear(id, outbox[1].scope)'
    BY <2>1, <2>3, <2>5, StoreAssumption DEF MustHear, EntryFor, Parties
  <2>7. Commits(id, by)
    BY <2>1, <2>2, <2>3, <2>4, <2>5, <2>6 DEF Commits, EntryFor, NutshellEntry
  <2>8. Resolves(RowOf(id), RowOf(id)') /\ Entitled(id, "accepted", by)
    BY <2>1, <2>2, <2>3 DEF Resolves, Entitled
  <2> QED
    BY <2>1, <2>2, <2>3, <2>7, <2>8, OutcomesOfKind DEF Concludes, HandoffOutcomes
<1>4. ASSUME NEW id \in HandoffIds, NEW by \in Names, DeclineHandoff(id, by)
      PROVE  Concludes(id, by)
  <2>1. Entitled(id, "declined", by)
    BY <1>4, RowOfKind DEF Entitled, DeclineHandoff, MayDecline
  <2> QED
    BY <1>r, <1>4, <2>1 DEF DeclineHandoff, MayDecline, HandoffOutcomes, Idle, Actors, runVars
<1>5. ASSUME NEW id \in HandoffIds, NEW by \in Names, CancelHandoff(id, by)
      PROVE  Concludes(id, by)
  <2>1. Entitled(id, "cancelled", by)
    BY <1>5, RowOfKind DEF Entitled, CancelHandoff, MayCancel
  <2> QED
    BY <1>r, <1>5, <2>1 DEF CancelHandoff, MayCancel, HandoffOutcomes, Idle, Actors, runVars
<1>6. CASE Sweep
  BY <1>q, <1>6 DEF Sweep, StepKind, runVars
<1>7. ASSUME NEW id \in HandoffIds, ExpireNext(id)
      PROVE  Quiet \/ Concludes(id, System)
  <2>1. CASE handoffs[id] # None /\ handoffs[id].status = "pending"
    <3>1. Entitled(id, "expired", System)
      BY <1>7, StoreAssumption DEF Entitled, ExpireNext
    <3> QED
      BY <1>r, <1>7, <2>1, <3>1 DEF ExpireNext, HandoffOutcomes, Actors, runVars
  <2>2. CASE ~(handoffs[id] # None /\ handoffs[id].status = "pending")
    BY <1>q, <1>7, <2>2 DEF ExpireNext, runVars
  <2> QED
    BY <2>1, <2>2
<1>8. CASE Tick
  BY <1>q, <1>8 DEF Tick, storeVars, runVars, StepKind
<1> QED
  <2>1. HandoffIds \subseteq Ids /\ Names \subseteq Actors /\ System \in Actors
    BY DEF Ids, Actors
  <2> QED
    BY <2>1, <1>1, <1>2, <1>3, <1>4, <1>5, <1>6, <1>7, <1>8 DEF HandoffNext, StepKind

\* So do the handlers of an interrupt.
LEMMA InterruptStepKind == TypeOK /\ InterruptNextStep => StepKind
<1> SUFFICES ASSUME TypeOK, InterruptNextStep PROVE StepKind
    OBVIOUS
<1>k. \A j \in Ids \ InterruptIds : RowOf(j)' = RowOf(j)
  BY DEF InterruptNextStep, RowOf, handoffVars
<1>w. ASSUME NEW id \in InterruptIds, NEW row \in InterruptRow,
             interrupts' = [interrupts EXCEPT ![id] = row]
      PROVE  /\ RowOf(id) = interrupts[id] /\ RowOf(id)' = row /\ row # None
             /\ \A j \in Ids \ {id} : RowOf(j)' = RowOf(j)
  BY <1>k, <1>w, RowOfKind, InterruptRowAssumption DEF TypeOK, InterruptTypeOK, Ids
<1>n. NextSeq \in Nat
  BY DEF TypeOK, StoreTypeOK, NextSeq
<1>i. ASSUME NEW id \in InterruptIds, NEW from \in Names, NEW to \in Names, NEW room \in Rooms,
             InsertInterrupt(id, from, to, room), outbox = <<>>, wire' = wire, started' = started
      PROVE  Inserts(id, from)
  <2> DEFINE row == [from |-> from, to |-> to, room |-> room,
                     status |-> "pending", version |-> NextSeq]
  <2>1. row \in InterruptRow
    BY <1>n DEF InterruptRow
  <2>2. /\ interrupts[id] = None /\ interrupts' = [interrupts EXCEPT ![id] = row]
        /\ LogEvent(id, "pending", from) /\ outbox' = <<EntryFor(id, row, ToAgents({to}))>>
    BY <1>i DEF InsertInterrupt
  <2>3. /\ RowOf(id) = None /\ RowOf(id)' = row /\ row # None
        /\ \A j \in Ids \ {id} : RowOf(j)' = RowOf(j)
    BY <1>w, <2>1, <2>2
  <2>4. MustHear(id, outbox[1].scope)'
    BY <2>2, <2>3, StoreAssumption DEF MustHear, EntryFor
  <2> QED
    BY <1>i, <2>2, <2>3, <2>4 DEF Inserts, Commits, EntryFor
<1>1. ASSUME NEW id \in InterruptIds, NEW from \in Names, NEW to \in Names,
             SendInterrupt(id, from, to)
      PROVE  Inserts(id, from)
  <2> DEFINE roster == Ensured(from, DefaultRoom)
             room == CommonRoom(roster[from], roster[to])
  <2>1. room \in Rooms
    BY <1>1, EnsuredType, CommonRoomType, StoreAssumption DEF SendInterrupt, TypeOK, StoreTypeOK
  <2>2. /\ InsertInterrupt(id, from, to, room)
        /\ outbox = <<>> /\ wire' = wire /\ started' = started
    BY <1>1 DEF SendInterrupt, Idle, runVars
  <2> QED
    BY <1>i, <2>1, <2>2
<1>2. ASSUME NEW rooms \in SUBSET Rooms, BulkInterrupt(rooms)
      PROVE  Quiet
  BY <1>2, <1>k, RowOfKind DEF BulkInterrupt, Quiet, runVars
<1>3. ASSUME NEW id \in InterruptIds, NEW to \in Names, NEW room \in Rooms,
             InterruptNext(id, to, room)
      PROVE  Inserts(id, Human)
  <2>1. Human \in Names
    BY DEF Names
  <2>2. /\ InsertInterrupt(id, Human, to, room)
        /\ outbox = <<>> /\ wire' = wire /\ started' = started
    BY <1>3 DEF InterruptNext, runVars
  <2> QED
    BY <1>i, <2>1, <2>2
<1>4. ASSUME NEW id \in InterruptIds, NEW by \in Names, AcknowledgeInterrupt(id, by)
      PROVE  Concludes(id, by)
  <2> DEFINE row == [interrupts[id] EXCEPT !.status = "acknowledged", !.version = NextSeq]
  <2>1. /\ row \in InterruptRow /\ row.status = "acknowledged" /\ row.version = NextSeq
        /\ DOMAIN row = DOMAIN interrupts[id]
        /\ \A f \in DOMAIN interrupts[id] \ {"status", "version"} : row[f] = interrupts[id][f]
    <3>1. interrupts[id] \in InterruptRow
      BY <1>4 DEF AcknowledgeInterrupt, MayAcknowledge, TypeOK, InterruptTypeOK
    <3> QED
      BY <1>n, <3>1 DEF InterruptRow, InterruptOutcomes
  <2>2. /\ interrupts' = [interrupts EXCEPT ![id] = row] /\ LogEvent(id, "acknowledged", by)
        /\ outbox' = <<EntryFor(id, row, ToAgents({row.from, row.to}))>>
        /\ outbox = <<>> /\ wire' = wire /\ started' = started
        /\ interrupts[id] # None /\ interrupts[id].status = "pending"
        /\ by \in {interrupts[id].to, Human}
    BY <1>4 DEF AcknowledgeInterrupt, MayAcknowledge, Idle, runVars
  <2>3. /\ RowOf(id) = interrupts[id] /\ RowOf(id)' = row /\ row # None
        /\ \A j \in Ids \ {id} : RowOf(j)' = RowOf(j)
    BY <1>w, <2>1, <2>2
  <2> HIDE DEF row
  <2>4. Len(outbox') = 1 /\ outbox'[1] = EntryFor(id, row, ToAgents({row.from, row.to}))
    BY <2>2
  <2>5. MustHear(id, outbox[1].scope)'
    BY <2>1, <2>3, <2>4, StoreAssumption DEF MustHear, EntryFor
  <2>6. Commits(id, by)
    BY <2>1, <2>2, <2>3, <2>4, <2>5 DEF Commits, EntryFor
  <2>7. Resolves(RowOf(id), RowOf(id)') /\ Entitled(id, "acknowledged", by)
    BY <2>1, <2>2, <2>3 DEF Resolves, Entitled
  <2> QED
    BY <2>1, <2>2, <2>3, <2>6, <2>7, OutcomesOfKind DEF Concludes, InterruptOutcomes
<1> QED
  <2>1. InterruptIds \subseteq Ids /\ Names \subseteq Actors /\ Human \in Actors
    BY DEF Ids, Actors, Names
  <2> QED
    BY <2>1, <1>1, <1>2, <1>3, <1>4 DEF InterruptNextStep, StepKind

\* So do the handlers of a permission.
LEMMA PermissionStepKind == TypeOK /\ PermissionNext => StepKind
<1> SUFFICES ASSUME TypeOK, PermissionNext PROVE StepKind
    OBVIOUS
<1>k. \A j \in Ids \ PermissionIds : RowOf(j)' = RowOf(j)
  BY DEF PermissionNext, RowOf, handoffVars, Ids
<1>w. ASSUME NEW id \in PermissionIds, NEW row \in PermissionRow,
             permissions' = [permissions EXCEPT ![id] = row]
      PROVE  /\ RowOf(id) = permissions[id] /\ RowOf(id)' = row /\ row # None
             /\ \A j \in Ids \ {id} : RowOf(j)' = RowOf(j)
  BY <1>k, <1>w, RowOfKind, PermissionRowAssumption DEF TypeOK, PermissionTypeOK, Ids
<1>n. NextSeq \in Nat
  BY DEF TypeOK, StoreTypeOK, NextSeq
<1>1. ASSUME NEW id \in PermissionIds, NEW agent \in Agents, RequestPermission(id, agent)
      PROVE  Inserts(id, agent)
  <2> DEFINE roster == Ensured(agent, DefaultRoom)
             room == CommonRoom(roster[agent], DefaultRoom)
             row == [agent |-> agent, by |-> None, status |-> "pending",
                     version |-> NextSeq, room |-> room]
  <2>1. row \in PermissionRow
    <3>1. agent \in Names
      BY DEF Names
    <3>2. room \in Rooms
      BY <3>1, EnsuredType, CommonRoomType, StoreAssumption DEF TypeOK, StoreTypeOK
    <3> QED
      BY <1>n, <3>1, <3>2 DEF PermissionRow
  <2>2. /\ permissions[id] = None /\ permissions' = [permissions EXCEPT ![id] = row]
        /\ LogEvent(id, "pending", agent) /\ outbox' = <<EntryFor(id, row, ToRoom(room))>>
        /\ outbox = <<>> /\ wire' = wire /\ started' = started
    BY <1>1 DEF RequestPermission, Idle, runVars
  <2>3. /\ RowOf(id) = None /\ RowOf(id)' = row /\ row # None
        /\ \A j \in Ids \ {id} : RowOf(j)' = RowOf(j)
    BY <1>w, <2>1, <2>2
  <2>4. MustHear(id, outbox[1].scope)'
    BY <2>2, <2>3 DEF MustHear, EntryFor
  <2> QED
    BY <2>2, <2>3, <2>4 DEF Inserts, Commits, EntryFor
<1>r. ASSUME NEW id \in PermissionIds, NEW outcome \in PermissionOutcomes, NEW by \in Names,
             permissions[id] # None, permissions[id].status = "pending",
             ResolvePermission(id, outcome, by), outbox = <<>>, wire' = wire, started' = started
      PROVE  Concludes(id, by)
  <2> DEFINE row == [permissions[id] EXCEPT !.status = outcome, !.version = NextSeq, !.by = by]
  <2>1. /\ row \in PermissionRow /\ row.status = outcome /\ row.version = NextSeq
        /\ DOMAIN row = DOMAIN permissions[id]
        /\ \A f \in DOMAIN permissions[id] \ {"status", "version", "by"} :
              row[f] = permissions[id][f]
    <3>1. permissions[id] \in PermissionRow
      BY <1>r DEF TypeOK, PermissionTypeOK
    <3> QED
      BY <1>n, <3>1 DEF PermissionRow
  <2>2. /\ permissions' = [permissions EXCEPT ![id] = row] /\ LogEvent(id, outcome, by)
        /\ outbox' = <<EntryFor(id, row, ToRoom(row.room))>>
    BY <1>r DEF ResolvePermission
  <2>3. /\ RowOf(id) = permissions[id] /\ RowOf(id)' = row /\ row # None
        /\ \A j \in Ids \ {id} : RowOf(j)' = RowOf(j)
    BY <1>w, <2>1, <2>2
  <2> HIDE DEF row
  <2>4. Len(outbox') = 1 /\ outbox'[1] = EntryFor(id, row, ToRoom(row.room))
    BY <2>2
  <2>5. MustHear(id, outbox[1].scope)'
    BY <2>3, <2>4 DEF MustHear, EntryFor
  <2>6. Commits(id, by)
    BY <1>r, <2>1, <2>2, <2>3, <2>4, <2>5 DEF Commits, EntryFor
  <2>7. Resolves(RowOf(id), RowOf(id)')
    BY <1>r, <2>1, <2>3 DEF Resolves, PermissionOutcomes
  <2>8. Entitled(id, RowOf(id)'.status, by)
    BY <2>1, <2>3 DEF Entitled, PermissionOutcomes
  <2> QED
    BY <1>r, <2>1, <2>3, <2>6, <2>7, <2>8, OutcomesOfKind DEF Concludes
<1>2. ASSUME NEW id \in PermissionIds, NEW by \in Names, NEW verdict \in {"allowed", "denied"},
             DecidePermission(id, by, verdict)
      PROVE  Concludes(id, by)
  BY <1>r, <1>2 DEF DecidePermission, MayDecide, PermissionOutcomes, Idle, runVars
<1>3. ASSUME NEW id \in PermissionIds, NEW by \in Names, DismissPermission(id, by)
      PROVE  Concludes(id, by)
  BY <1>r, <1>3 DEF DismissPermission, MayDismiss, PermissionOutcomes, Idle, runVars
<1> QED
  <2>1. PermissionIds \subseteq Ids /\ Names \subseteq Actors /\ Agents \subseteq Actors
    BY DEF Ids, Actors, Names
  <2> QED
    BY <2>1, <1>1, <1>2, <1>3 DEF PermissionNext, StepKind

\* Every step of the hub inserts a row, concludes one, or is quiet.
LEMMA StepKinds == TypeOK /\ [Next]_vars => StepKind
<1> SUFFICES ASSUME TypeOK, [Next]_vars PROVE StepKind
    OBVIOUS
<1>1. CASE StoreNext
  <2>1. \A j \in Ids : RowOf(j)' = RowOf(j)
    BY <1>1 DEF StoreNext, RowOf, handoffVars
  <2> QED
    BY <1>1, <2>1
    DEF StoreNext, Connect, TouchSender, Remove, Emit, Crash, Quiet, StepKind, runVars
<1>2. CASE UNCHANGED vars
  BY <1>2 DEF vars, storeVars, runVars, handoffVars, Quiet, StepKind, RowOf
<1> QED
  BY <1>1, <1>2, HandoffStepKind, InterruptStepKind, PermissionStepKind DEF Next

-----------------------------------------------------------------------------
(* The inductive invariant. *)

\* The head of the outbox is the snapshot of the transaction just committed, or
\* the nutshell entry that follows it.
OutboxOK ==
    /\ Len(outbox) <= 2
    /\ Len(outbox) = 2 => outbox[2].subject \in Rooms
    /\ \A id \in Ids : (outbox # <<>> /\ outbox[1].subject = id) =>
          /\ RowOf(id) # None
          /\ outbox[1].version = RowOf(id).version /\ RowOf(id).version = Len(events)
          /\ Len(events) > 0
          /\ outbox[1].status = RowOf(id).status

\* What was announced was logged, before anything that still has to be announced.
WireOK ==
    \A e \in wire : e.subject \in Ids =>
        /\ e.version \in 1..Len(events)
        /\ (outbox # <<>> /\ outbox[1].subject \in Ids) => e.version < Len(events)

IInv == TypeOK /\ TablesMatchLog /\ OutboxOK /\ WireOK /\ ReconciliationIsSound

-----------------------------------------------------------------------------
\* Appending an event adds its number to the history of its id and leaves
\* every other history and every earlier event as they were.
LEMMA HistoryGrows ==
    ASSUME events \in Seq(Event), NEW id, NEW status, NEW actor, LogEvent(id, status, actor)
    PROVE  /\ Len(events) \in Nat /\ NextSeq = Len(events) + 1 /\ Len(events') = NextSeq
           /\ \A i \in 1..Len(events) : events'[i] = events[i]
           /\ events'[NextSeq] = [id |-> id, status |-> status, actor |-> actor]
           /\ \A j : SeqsOf(j) \subseteq 1..Len(events)
           /\ SeqsOf(id)' = SeqsOf(id) \cup {NextSeq}
           /\ \A j : j # id => SeqsOf(j)' = SeqsOf(j)
<1>1. /\ Len(events) \in Nat /\ NextSeq = Len(events) + 1 /\ Len(events') = NextSeq
      /\ \A i \in 1..Len(events) : events'[i] = events[i]
      /\ events'[NextSeq] = [id |-> id, status |-> status, actor |-> actor]
      /\ DOMAIN events = 1..Len(events) /\ DOMAIN events' = 1..NextSeq
  BY DEF LogEvent, NextSeq
<1>2. \A j : SeqsOf(j) \subseteq 1..Len(events)
  BY <1>1 DEF SeqsOf
<1>3. SeqsOf(id)' = SeqsOf(id) \cup {NextSeq}
  BY <1>1 DEF SeqsOf
<1>4. \A j : j # id => SeqsOf(j)' = SeqsOf(j)
  BY <1>1 DEF SeqsOf
<1> QED
  BY <1>1, <1>2, <1>3, <1>4

\* A stored row's version is a number of the log.
LEMMA VersionInLog ==
    ASSUME events \in Seq(Event), NEW id, NEW row, row # None, RowMatchesLog(id, row)
    PROVE  row.version \in 1..Len(events)
  BY DEF RowMatchesLog, SeqsOf

\* A commit on another id leaves a row and its history in agreement.
LEMMA OtherRowMatches ==
    ASSUME TypeOK, NEW id \in Ids, NEW actor, Commits(id, actor),
           NEW j \in Ids, j # id, RowMatchesLog(j, RowOf(j))
    PROVE  RowMatchesLog(j, RowOf(j))'
<1>1. events \in Seq(Event)
  BY DEF TypeOK, StoreTypeOK
<1>2. LogEvent(id, RowOf(id)'.status, actor) /\ RowOf(j)' = RowOf(j)
  BY DEF Commits
<1>3. /\ \A i \in 1..Len(events) : events'[i] = events[i]
      /\ SeqsOf(j)' = SeqsOf(j) /\ SeqsOf(j) \subseteq 1..Len(events) /\ Len(events) \in Nat
  BY <1>1, <1>2, HistoryGrows
<1>4. CASE RowOf(j) = None
  BY <1>2, <1>3, <1>4 DEF RowMatchesLog
<1>5. CASE RowOf(j) # None
  <2> DEFINE row == RowOf(j)
  <2>1. row.version \in SeqsOf(j) /\ events'[row.version].status = row.status
    BY <1>3, <1>5 DEF RowMatchesLog
  <2>2. CASE row.status = "pending"
    BY <1>2, <1>3, <1>5, <2>1, <2>2 DEF RowMatchesLog
  <2>3. CASE row.status # "pending"
    <3>1. PICK c \in 1..(row.version - 1) :
             SeqsOf(j) = {c, row.version} /\ events[c].status = "pending"
      BY <1>5, <2>3 DEF RowMatchesLog
    <3>2. events'[c].status = "pending"
      BY <1>3, <3>1
    <3> QED
      BY <1>2, <1>3, <1>5, <2>1, <2>3, <3>1, <3>2 DEF RowMatchesLog
  <2> QED
    BY <2>2, <2>3
<1> QED
  BY <1>4, <1>5

\* The row a commit writes agrees with its history.
LEMMA InsertedRowMatches ==
    ASSUME TypeOK, NEW id \in Ids, NEW actor, Inserts(id, actor), RowMatchesLog(id, RowOf(id))
    PROVE  RowMatchesLog(id, RowOf(id))'
<1> DEFINE row == RowOf(id)'
<1>1. /\ LogEvent(id, "pending", actor) /\ row.status = "pending" /\ row.version = NextSeq
      /\ row # None
  BY DEF Inserts, Commits
<1>2. SeqsOf(id) = {}
  BY DEF RowMatchesLog, Inserts
<1>3. SeqsOf(id)' = {NextSeq} /\ events'[NextSeq].status = "pending"
  <2>1. events \in Seq(Event)
    BY DEF TypeOK, StoreTypeOK
  <2>2. /\ SeqsOf(id)' = SeqsOf(id) \cup {NextSeq}
        /\ events'[NextSeq] = [id |-> id, status |-> "pending", actor |-> actor]
    BY <1>1, <2>1, HistoryGrows
  <2> QED
    BY <1>2, <2>2
<1> QED
  BY <1>1, <1>3 DEF RowMatchesLog

\* The row a resolution writes agrees with its history of two events.
LEMMA ConcludedRowMatches ==
    ASSUME TypeOK, NEW id \in Ids, NEW actor, Concludes(id, actor), RowMatchesLog(id, RowOf(id))
    PROVE  RowMatchesLog(id, RowOf(id))'
<1> DEFINE row == RowOf(id)'
           c == RowOf(id).version
<1>1. /\ LogEvent(id, row.status, actor) /\ row.version = NextSeq /\ row # None
      /\ row.status # "pending"
  <2>1. OutcomesById[id] \subseteq Outcomes
    BY OutcomesOfKind DEF Outcomes, Ids
  <2> QED
    BY <2>1 DEF Concludes, Commits, Outcomes, HandoffOutcomes, InterruptOutcomes,
                PermissionOutcomes
<1>2. SeqsOf(id) = {c} /\ c \in 1..Len(events) /\ events[c].status = "pending"
  BY VersionInLog DEF RowMatchesLog, Concludes, TypeOK, StoreTypeOK
<1>3. /\ SeqsOf(id)' = {c, NextSeq} /\ events'[NextSeq].status = row.status
      /\ events'[c].status = "pending" /\ c \in 1..(NextSeq - 1)
  <2>1. events \in Seq(Event)
    BY DEF TypeOK, StoreTypeOK
  <2>2. /\ SeqsOf(id)' = SeqsOf(id) \cup {NextSeq}
        /\ events'[NextSeq] = [id |-> id, status |-> row.status, actor |-> actor]
        /\ \A i \in 1..Len(events) : events'[i] = events[i]
        /\ NextSeq = Len(events) + 1 /\ Len(events) \in Nat
    BY <1>1, <2>1, HistoryGrows
  <2> HIDE DEF row, c
  <2> QED
    BY <1>2, <2>2
<1> QED
  BY <1>1, <1>3 DEF RowMatchesLog

\* Every kind of step keeps the tables a function of the log.
LEMMA TablesMatchLogStep ==
    ASSUME TypeOK, StepKind, TablesMatchLog
    PROVE  TablesMatchLog'
<1> SUFFICES ASSUME NEW j \in Ids PROVE RowMatchesLog(j, RowOf(j))'
    BY DEF TablesMatchLog
<1>1. RowMatchesLog(j, RowOf(j))
  BY DEF TablesMatchLog
<1>2. CASE Quiet
  BY <1>1, <1>2 DEF Quiet, RowMatchesLog, SeqsOf
<1>3. ASSUME NEW id \in Ids, NEW actor \in Actors, Inserts(id, actor)
      PROVE  RowMatchesLog(j, RowOf(j))'
  BY <1>1, <1>3, OtherRowMatches, InsertedRowMatches DEF Inserts
<1>4. ASSUME NEW id \in Ids, NEW actor \in Actors, Concludes(id, actor)
      PROVE  RowMatchesLog(j, RowOf(j))'
  BY <1>1, <1>4, OtherRowMatches, ConcludedRowMatches DEF Concludes
<1> QED
  BY <1>2, <1>3, <1>4 DEF StepKind

\* What an emission leaves in the outbox is a nutshell entry at most.
LEMMA EmitLeavesNutshell ==
    ASSUME TypeOK, OutboxOK, Emit
    PROVE  /\ outbox # <<>> /\ wire' = wire \cup {outbox[1]} /\ outbox[1] \in Entry
           /\ Len(outbox') <= 1 /\ Len(outbox') # 2
           /\ outbox' # <<>> => outbox'[1].subject \in Rooms
<1>1. outbox \in Seq(Entry) /\ outbox # <<>> /\ outbox' = Tail(outbox)
  BY DEF Emit, TypeOK, StoreTypeOK
<1>2. Head(outbox) = outbox[1]
  OBVIOUS
<1>3. wire' = wire \cup {outbox[1]}
  BY <1>2 DEF Emit
<1>4. Len(outbox) = 1 \/ Len(outbox) = 2
  <2>1. Len(outbox) \in Nat /\ Len(outbox) # 0
    BY <1>1
  <2>2. Len(outbox) <= 2
    BY DEF OutboxOK
  <2>3. \A n \in Nat : n # 0 /\ n <= 2 => n = 1 \/ n = 2
    OBVIOUS
  <2> QED
    BY <2>1, <2>2, <2>3
<1>5. outbox[1] \in Entry
  BY <1>1, <1>4
<1>6. CASE Len(outbox) = 1
  <2>1. Len(outbox') <= 1 /\ Len(outbox') # 2 /\ outbox' = <<>>
    BY <1>1, <1>6
  <2> QED
    BY <1>1, <1>3, <1>5, <2>1
<1>7. CASE Len(outbox) = 2
  <2>1. Len(outbox') = 1 /\ outbox'[1] = outbox[2]
    BY <1>1, <1>7
  <2>2. outbox'[1].subject \in Rooms
    BY <1>7, <2>1 DEF OutboxOK
  <2>3. Len(outbox') <= 1 /\ Len(outbox') # 2
    BY <2>1
  <2> QED
    BY <1>1, <1>3, <1>5, <2>2, <2>3
<1> QED
  BY <1>4, <1>6, <1>7

\* The outbox starts with the entry of the last event, or with a nutshell.
LEMMA OutboxOKStep ==
    ASSUME TypeOK, StepKind, OutboxOK
    PROVE  OutboxOK'
<1>1. CASE Quiet
  <2>1. CASE UNCHANGED <<outbox, wire>>
    BY <1>1, <2>1 DEF Quiet, OutboxOK
  <2>2. CASE Emit
    BY <2>2, EmitLeavesNutshell, StoreAssumption DEF OutboxOK
  <2>3. CASE outbox' = <<>>
    BY <2>3 DEF OutboxOK
  <2> QED
    BY <1>1, <2>1, <2>2, <2>3 DEF Quiet
<1>2. ASSUME NEW id \in Ids, NEW actor \in Actors, Commits(id, actor)
      PROVE  OutboxOK'
  <2>1. Len(events') = NextSeq /\ NextSeq > 0
    <3>1. events \in Seq(Event)
      BY DEF TypeOK, StoreTypeOK
    <3>2. Len(events') = NextSeq /\ NextSeq = Len(events) + 1 /\ Len(events) \in Nat
      BY <1>2, <3>1, HistoryGrows DEF Commits
    <3> QED
      BY <3>2
  <2>2. Len(outbox') <= 2 /\ (Len(outbox') = 2 => outbox'[2].subject \in Rooms)
    <3>1. Len(outbox') \in {1, 2} /\ (Len(outbox') = 2 => outbox'[2].subject \in Rooms)
      BY <1>2, Zenon DEF Commits
    <3>2. \A n \in {1, 2} : n <= 2
      OBVIOUS
    <3> QED
      BY <3>1, <3>2, Zenon
  <2>3. /\ RowOf(id)' # None /\ outbox'[1].version = RowOf(id)'.version
        /\ RowOf(id)'.version = Len(events') /\ outbox'[1].status = RowOf(id)'.status
        /\ outbox'[1].subject = id
    BY <1>2, <2>1 DEF Commits
  <2> QED
    BY <2>1, <2>2, <2>3 DEF OutboxOK
<1> QED
  BY <1>1, <1>2 DEF StepKind, Inserts, Concludes

\* What was emitted is numbered by the log, below what is about to be.
LEMMA WireOKStep ==
    ASSUME TypeOK, StepKind, OutboxOK, WireOK
    PROVE  WireOK'
<1>t. events \in Seq(Event) /\ wire \in SUBSET Entry
  BY DEF TypeOK, StoreTypeOK
<1>1. CASE Quiet
  <2>1. CASE UNCHANGED <<outbox, wire>>
    BY <1>1, <2>1 DEF Quiet, WireOK
  <2>2. CASE Emit
    <3>1. /\ outbox # <<>> /\ wire' = wire \cup {outbox[1]} /\ events' = events
          /\ outbox' # <<>> => outbox'[1].subject \in Rooms
      BY <2>2, EmitLeavesNutshell DEF Emit
    <3>2. outbox[1].subject \in Ids => outbox[1].version \in 1..Len(events)
      BY <1>t, <3>1 DEF OutboxOK
    <3> QED
      BY <3>1, <3>2, StoreAssumption DEF WireOK
  <2>3. CASE outbox' = <<>> /\ wire' = wire
    BY <1>1, <2>3 DEF Quiet, WireOK
  <2> QED
    BY <1>1, <2>1, <2>2, <2>3 DEF Quiet
<1>2. ASSUME NEW id \in Ids, NEW actor \in Actors, Commits(id, actor)
      PROVE  WireOK'
  <2>1. Len(events') = Len(events) + 1 /\ Len(events) \in Nat
    BY <1>2, <1>t, HistoryGrows DEF Commits
  <2> QED
    BY <1>2, <2>1 DEF Commits, WireOK
<1> QED
  BY <1>1, <1>2 DEF StepKind, Inserts, Concludes

\* What a client may conclude from an entry e about id, given the row.
Sound(e, row) ==
    /\ row # None
    /\ e.version <= row.version
    /\ (e.version = row.version => e.status = row.status)
    /\ (e.version < row.version => e.status = "pending")

\* A client that reconciles by version stays right across every step.
LEMMA ReconciliationStep ==
    ASSUME TypeOK, StepKind, TablesMatchLog, OutboxOK, WireOK, ReconciliationIsSound
    PROVE  ReconciliationIsSound'
<1>t. events \in Seq(Event) /\ wire \subseteq Entry /\ Len(events) \in Nat
  BY DEF TypeOK, StoreTypeOK
<1>s. /\ ReconciliationIsSound <=> \A e \in wire : \A id \in Ids :
            e.subject = id => Sound(e, RowOf(id))
      /\ ReconciliationIsSound' <=> \A e \in wire' : \A id \in Ids :
            e.subject = id => Sound(e, RowOf(id)')
  BY DEF ReconciliationIsSound, Sound, RowOf
<1> SUFFICES ASSUME NEW e \in wire', NEW id \in Ids, e.subject = id
             PROVE  Sound(e, RowOf(id)')
  BY <1>s
<1>o. ASSUME e \in wire PROVE Sound(e, RowOf(id))
  BY <1>o, <1>s
<1>1. CASE Quiet
  <2>1. RowOf(id)' = RowOf(id)
    BY <1>1 DEF Quiet
  <2>2. CASE e \in wire
    BY <1>o, <2>1, <2>2
  <2>3. CASE e \notin wire
    <3>1. Emit
      BY <1>1, <2>3 DEF Quiet
    <3>2. e = outbox[1] /\ outbox # <<>> /\ e \in Entry
      BY <2>3, <3>1, EmitLeavesNutshell
    <3>3. RowOf(id) # None /\ e.version = RowOf(id).version /\ e.status = RowOf(id).status
      BY <3>2 DEF OutboxOK
    <3>4. e.version \in Nat
      BY <3>2 DEF Entry
    <3> QED
      BY <2>1, <3>3, <3>4 DEF Sound
  <2> QED
    BY <2>2, <2>3
<1>2. ASSUME NEW j \in Ids, NEW actor, Commits(j, actor), Inserts(j, actor) \/ Concludes(j, actor)
      PROVE  Sound(e, RowOf(id)')
  <2>1. e \in wire
    BY <1>2 DEF Commits
  <2>2. Sound(e, RowOf(id))
    BY <1>o, <2>1
  <2>3. CASE j # id
    BY <1>2, <2>2, <2>3 DEF Commits
  <2>4. CASE j = id
    <3>1. RowOf(id) # None /\ RowOf(id).status = "pending"
      BY <1>2, <2>2, <2>4 DEF Inserts, Concludes, Sound
    <3>2. RowOf(id).version \in 1..Len(events)
      <4>1. RowMatchesLog(id, RowOf(id))
        BY DEF TablesMatchLog
      <4> QED
        BY <1>t, <3>1, <4>1, VersionInLog
    <3>3. RowOf(id)' # None /\ RowOf(id)'.version = Len(events) + 1
      BY <1>2, <2>4 DEF Commits, NextSeq
    <3>4. e.version \in Nat
      BY <1>t, <2>1 DEF Entry
    <3>5. e.version < RowOf(id)'.version
      BY <1>t, <2>2, <3>2, <3>3, <3>4 DEF Sound
    <3>6. e.status = "pending"
      BY <2>2, <3>1, <3>2, <3>4 DEF Sound
    <3> QED
      BY <1>t, <3>3, <3>4, <3>5, <3>6 DEF Sound
  <2> QED
    BY <2>3, <2>4
<1> QED
  BY <1>1, <1>2 DEF StepKind, Inserts, Concludes

-----------------------------------------------------------------------------
\* The inductive invariant holds at start.
LEMMA InitIInv == Init => IInv
<1> SUFFICES ASSUME Init PROVE IInv
    OBVIOUS
<1>1. TypeOK
  BY InitTypeOK
<1>2. /\ events = <<>> /\ outbox = <<>> /\ wire = {}
      /\ handoffs = NoRows(HandoffIds) /\ interrupts = NoRows(InterruptIds)
      /\ permissions = NoRows(PermissionIds)
  BY DEF Init, StoreInit, HandoffInit, InterruptInit, PermissionInit
<1>3. \A id \in Ids : RowOf(id) = None /\ SeqsOf(id) = {}
  BY <1>2 DEF RowOf, NoRows, Ids, SeqsOf
<1> QED
  BY <1>1, <1>2, <1>3
  DEF IInv, TablesMatchLog, RowMatchesLog, OutboxOK, WireOK, ReconciliationIsSound

\* Every step preserves the inductive invariant.
LEMMA NextIInv == IInv /\ [Next]_vars => IInv'
<1> SUFFICES ASSUME IInv, [Next]_vars PROVE IInv'
    OBVIOUS
<1>1. TypeOK' /\ StepKind
  BY NextType, StepKinds DEF IInv
<1> QED
  BY <1>1, TablesMatchLogStep, OutboxOKStep, WireOKStep, ReconciliationStep DEF IInv

\* The inductive invariant holds in every reachable state.
LEMMA Inductive == Spec => []IInv
  BY InitIInv, NextIInv, PTL DEF Spec

\* Whatever races, sweeps and crashes happen, the tables are a function of the
\* log: each row is its creation or its one resolution.
THEOREM TablesAlwaysMatchLog == Spec => []TablesMatchLog
<1>1. IInv => TablesMatchLog
  BY DEF IInv
<1> QED
  BY <1>1, Inductive, PTL

\* A client that keeps the highest version it was sent of each id is never
\* wrong about it, only late.
THEOREM ReconciliationAlwaysSound == Spec => []ReconciliationIsSound
<1>1. IInv => ReconciliationIsSound
  BY DEF IInv
<1> QED
  BY <1>1, Inductive, PTL

-----------------------------------------------------------------------------
(* The ledger implements the event log. *)

\* The history of an id in the log and in the abstract log are the same.
LEMMA HistoryIsSeqs == \A id : Log!History(id) = SeqsOf(id)
  BY DEF Log!History, SeqsOf

\* The hub starts where the abstract log does.
LEMMA LogInit == Init => Log!Init
  BY DEF Init, StoreInit, Log!Init, Told

\* A row that is inserted opens its entity in the abstract log.
LEMMA InsertOpens ==
    ASSUME IInv, NEW id \in Ids, NEW actor \in Actors, Inserts(id, actor)
    PROVE  Log!Open(id, actor)
<1>1. SeqsOf(id) = {}
  <2>1. RowMatchesLog(id, RowOf(id)) /\ RowOf(id) = None
    BY DEF IInv, TablesMatchLog, Inserts
  <2> QED
    BY <2>1 DEF RowMatchesLog
<1>2. LogEvent(id, "pending", actor) /\ wire' = wire
  BY DEF Inserts, Commits
<1>3. Told' = Told
  BY <1>2 DEF Told
<1> QED
  BY <1>1, <1>2, <1>3, HistoryIsSeqs DEF Log!Open, LogEvent

\* A row that is concluded closes its entity in the abstract log.
LEMMA ConcludeCloses ==
    ASSUME IInv, NEW id \in Ids, NEW actor \in Actors, Concludes(id, actor)
    PROVE  \E outcome \in OutcomesById[id] : Log!Close(id, outcome, actor)
<1> DEFINE c == RowOf(id).version
<1>1. SeqsOf(id) = {c} /\ events[c].status = "pending" /\ c \in DOMAIN events
  <2>1. RowMatchesLog(id, RowOf(id)) /\ RowOf(id) # None /\ RowOf(id).status = "pending"
    BY DEF IInv, TablesMatchLog, Concludes
  <2> QED
    BY <2>1 DEF RowMatchesLog, SeqsOf
<1>2. Log!IsOpen(id)
  BY <1>1, HistoryIsSeqs DEF Log!IsOpen
<1>3. LogEvent(id, RowOf(id)'.status, actor) /\ wire' = wire
  BY DEF Concludes, Commits
<1>4. Told' = Told
  BY <1>3 DEF Told
<1>5. Log!Close(id, RowOf(id)'.status, actor)
  BY <1>2, <1>3, <1>4 DEF Log!Close, LogEvent
<1> QED
  BY <1>5 DEF Concludes

\* Every other step announces one event, later than all before, or stutters.
LEMMA QuietAnnounces ==
    ASSUME IInv, Quiet
    PROVE  (\E i \in DOMAIN events : Log!Announce(i)) \/ UNCHANGED <<events, Told>>
<1>1. CASE wire' = wire
  BY <1>1 DEF Quiet, Told
<1>2. CASE Emit
  <2> DEFINE e == outbox[1]
  <2>1. outbox # <<>> /\ wire' = wire \cup {e} /\ e \in Entry /\ events' = events
    BY <1>2, EmitLeavesNutshell DEF IInv, Quiet
  <2>2. CASE e.subject \in Ids
    <3>1. e.version = Len(events) /\ Len(events) > 0
      BY <2>1, <2>2 DEF IInv, OutboxOK
    <3>2. e.version \in DOMAIN events
      BY <3>1 DEF IInv, TypeOK, StoreTypeOK
    <3>3. \A j \in Told : j < e.version
      BY <2>1, <2>2, <3>1 DEF IInv, WireOK, Told
    <3>4. Told' = Told \cup {e.version}
      BY <2>1, <2>2 DEF Told
    <3> QED
      BY <2>1, <3>2, <3>3, <3>4 DEF Log!Announce
  <2>3. CASE e.subject \notin Ids
    <3>1. Told' = Told
      BY <2>1, <2>3 DEF Told
    <3> QED
      BY <2>1, <3>1
  <2> QED
    BY <2>2, <2>3
<1> QED
  BY <1>1, <1>2 DEF Quiet

\* Every step of the ledger is a step of the abstract log or stutters there.
LEMMA LogNext == IInv /\ [Next]_vars => [Log!Next]_<<events, Told>>
<1> SUFFICES ASSUME IInv, [Next]_vars PROVE [Log!Next]_<<events, Told>>
    OBVIOUS
<1>1. StepKind
  BY StepKinds DEF IInv
<1>2. CASE Quiet
  BY <1>2, QuietAnnounces DEF Log!Next
<1>3. ASSUME NEW id \in Ids, NEW actor \in Actors, Inserts(id, actor)
      PROVE  Log!Next
  BY <1>3, InsertOpens DEF Log!Next, Actors
<1>4. ASSUME NEW id \in Ids, NEW actor \in Actors, Concludes(id, actor)
      PROVE  Log!Next
  BY <1>4, ConcludeCloses DEF Log!Next, Actors
<1> QED
  BY <1>1, <1>2, <1>3, <1>4 DEF StepKind

\* The ledger implements the append-only event log: every entity is opened once
\* and closed at most once, and what is announced is announced in log order.
THEOREM LedgerImplementsEventLog == Spec => ImplementsEventLog
  BY LogInit, LogNext, Inductive, PTL DEF Spec, ImplementsEventLog, Log!Spec

=============================================================================
