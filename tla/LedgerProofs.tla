---------------------------- MODULE LedgerProofs ----------------------------
(***************************************************************************)
(* Proofs about Ledger, for any agents, rooms, ids, TTLs and bounds.       *)
(***************************************************************************)
EXTENDS Ledger, TLAPS

-----------------------------------------------------------------------------
(* Types of the helpers. *)

\* Registering a name in a room leaves a roster, in which the name has a room.
LEMMA EnsuredType ==
    ASSUME roomOf \in [Names -> Rooms \cup {EveryRoom, Absent}],
           NEW n \in Names, NEW r \in Rooms
    PROVE  /\ Ensured(n, r) \in [Names -> Rooms \cup {EveryRoom, Absent}]
           /\ Ensured(n, r)[n] \in Rooms \cup {EveryRoom}
  BY StoreAssumption DEF Ensured

\* Two rooms, null or not, have a common room that is a room.
LEMMA CommonRoomType ==
    ASSUME NEW r \in Rooms \cup {EveryRoom}, NEW s \in Rooms \cup {EveryRoom}
    PROVE  CommonRoom(r, s) \in Rooms
  BY StoreAssumption DEF CommonRoom

\* An entry built from a row is an entry.
LEMMA EntryForType ==
    ASSUME NEW id \in Ids, NEW row, NEW scope \in Scopes,
           row.status \in Statuses, row.version \in Nat
    PROVE  EntryFor(id, row, scope) \in Entry
  BY DEF EntryFor, Entry

\* Addressing agents, or a room, is a scope.
LEMMA ScopeType ==
    /\ \A S \in SUBSET Names : ToAgents(S) \in Scopes
    /\ \A r \in Rooms : ToRoom(r) \in Scopes
  BY DEF ToAgents, ToRoom, Scopes

\* Appending an event leaves a log that is one longer.
LEMMA LogEventType ==
    ASSUME events \in Seq(Event), NEW id \in Ids, NEW status \in Statuses,
           NEW actor \in Names \cup {System}, LogEvent(id, status, actor)
    PROVE  /\ events' \in Seq(Event)
           /\ Len(events') = Len(events) + 1
           /\ NextSeq \in Nat
  BY DEF LogEvent, Event, NextSeq

\* A log that only grew leaves `started` where it was.
LEMMA StartedType ==
    ASSUME started \in 0..Len(events), events \in Seq(Event), events' \in Seq(Event),
           Len(events') = Len(events) + 1, UNCHANGED started
    PROVE  started' \in 0..Len(events')
  OBVIOUS

-----------------------------------------------------------------------------
(* Type correctness. *)

\* The hub starts well typed.
LEMMA InitTypeOK == Init => TypeOK
<1> SUFFICES ASSUME Init PROVE TypeOK
    OBVIOUS
<1>1. StoreTypeOK
  BY StoreAssumption DEF Init, StoreInit, StoreTypeOK, FreshRoster, Names
<1>2. HandoffTypeOK
  BY HandoffAssumption DEF Init, HandoffInit, HandoffTypeOK, NoRows, Nutshell
<1>3. InterruptTypeOK /\ PermissionTypeOK
  BY DEF Init, InterruptInit, PermissionInit, InterruptTypeOK, PermissionTypeOK, NoRows
<1> QED
  BY <1>1, <1>2, <1>3 DEF TypeOK

\* What a handler's transaction and emission leave well typed, given the row.
LEMMA ResolveHandoffType ==
    ASSUME TypeOK, NEW id \in HandoffIds, NEW outcome \in HandoffOutcomes,
           NEW actor \in Names \cup {System}, handoffs[id] # None,
           ResolveHandoff(id, outcome, actor)
    PROVE  /\ events' \in Seq(Event) /\ Len(events') = Len(events) + 1
           /\ handoffs' \in [HandoffIds -> HandoffRow \cup {None}]
           /\ outbox' \in Seq(Entry)
<1> DEFINE row == [handoffs[id] EXCEPT !.status = outcome, !.version = NextSeq]
<1>1. events' \in Seq(Event) /\ Len(events') = Len(events) + 1 /\ NextSeq \in Nat
  BY LogEventType DEF ResolveHandoff, TypeOK, StoreTypeOK, Ids, Statuses, Outcomes
<1>2. row \in HandoffRow /\ row.status = outcome /\ row.version = NextSeq
  BY <1>1 DEF TypeOK, HandoffTypeOK, HandoffRow
<1>3. handoffs' \in [HandoffIds -> HandoffRow \cup {None}]
  BY <1>2 DEF ResolveHandoff, TypeOK, HandoffTypeOK
<1>4. Parties(row) \in Scopes
  BY <1>2, ScopeType DEF Parties, HandoffRow
<1>5. EntryFor(id, row, Parties(row)) \in Entry
  BY <1>1, <1>2, <1>4, EntryForType DEF Ids, Statuses, Outcomes
<1>6. outbox' \in Seq(Entry)
  BY <1>5 DEF ResolveHandoff
<1> QED
  BY <1>1, <1>3, <1>6

\* Every handler of a handoff, the sweep and the clock leave the state well typed.
LEMMA HandoffNextType == TypeOK /\ HandoffNext => TypeOK'
<1> SUFFICES ASSUME TypeOK, HandoffNext PROVE TypeOK'
    OBVIOUS
<1> USE DEF TypeOK
<1>k. InterruptTypeOK' /\ PermissionTypeOK'
  BY DEF HandoffNext, InterruptTypeOK, PermissionTypeOK
<1>1. ASSUME NEW id \in HandoffIds, NEW from \in Names, NEW to \in Names,
             NEW proposal \in Proposed, NEW ttl \in TTLs,
             CreateHandoff(id, from, to, proposal, ttl)
      PROVE  StoreTypeOK' /\ HandoffTypeOK'
  <2> DEFINE roster == Ensured(from, DefaultRoom)
             room == CommonRoom(roster[from], roster[to])
             row == [from |-> from, to |-> to, proposal |-> proposal, room |-> room,
                     expires |-> now + ttl, status |-> "pending", version |-> NextSeq]
  <2>1. roomOf' = roster /\ roster \in [Names -> Rooms \cup {EveryRoom, Absent}]
        /\ room \in Rooms
    BY <1>1, EnsuredType, CommonRoomType, StoreAssumption DEF CreateHandoff, StoreTypeOK
  <2>2. LogEvent(id, "pending", from) /\ outbox' = <<EntryFor(id, row, ToAgents({to}))>>
        /\ handoffs' = [handoffs EXCEPT ![id] = row]
        /\ UNCHANGED <<nutshells, now, loop, wire, runVars>>
    BY <1>1 DEF CreateHandoff
  <2>3. events' \in Seq(Event) /\ Len(events') = Len(events) + 1 /\ NextSeq \in Nat
    BY <2>2, LogEventType DEF StoreTypeOK, Ids, Statuses
  <2>4. row \in HandoffRow
    BY <2>1, <2>3, HandoffAssumption DEF HandoffRow, HandoffTypeOK
  <2>5. EntryFor(id, row, ToAgents({to})) \in Entry
    BY <2>3, EntryForType, ScopeType DEF Ids, Statuses
  <2>6. StoreTypeOK'
    BY <2>1, <2>2, <2>3, <2>5 DEF StoreTypeOK, runVars
  <2>7. HandoffTypeOK'
    BY <2>2, <2>4 DEF HandoffTypeOK
  <2> QED
    BY <2>6, <2>7
<1>2. ASSUME NEW id \in HandoffIds, NEW outcome \in HandoffOutcomes,
             NEW actor \in Names \cup {System}, handoffs[id] # None,
             ResolveHandoff(id, outcome, actor), loop' \in SUBSET LoopItems,
             UNCHANGED <<nutshells, now, roomOf, wire, runVars>>
      PROVE  StoreTypeOK' /\ HandoffTypeOK'
  BY <1>2, ResolveHandoffType DEF StoreTypeOK, HandoffTypeOK, runVars
<1>3. ASSUME NEW id \in HandoffIds, NEW by \in Names, AcceptHandoff(id, by)
      PROVE  StoreTypeOK' /\ HandoffTypeOK'
  BY <1>2, <1>3 DEF AcceptHandoff, MayAccept, HandoffOutcomes, StoreTypeOK
<1>4. ASSUME NEW id \in HandoffIds, NEW by \in Names, AcceptNutshell(id, by)
      PROVE  StoreTypeOK' /\ HandoffTypeOK'
  <2> DEFINE h == handoffs[id]
             row == [h EXCEPT !.status = "accepted", !.version = NextSeq]
             room == NutshellTarget(h)
  <2>1. h \in HandoffRow /\ room \in Rooms
    BY <1>4, HandoffAssumption
    DEF AcceptNutshell, MayAccept, HandoffTypeOK, NutshellTarget, HandoffRow, Proposals
  <2>2. LogEvent(id, "accepted", by) /\ handoffs' = [handoffs EXCEPT ![id] = row]
        /\ nutshells' = WriteNutshell(room, id)
        /\ outbox' = <<EntryFor(id, row, Parties(row)), NutshellEntry(room, nutshells'[room])>>
        /\ UNCHANGED <<now, roomOf, loop, wire, runVars>>
    BY <1>4 DEF AcceptNutshell
  <2>3. events' \in Seq(Event) /\ Len(events') = Len(events) + 1 /\ NextSeq \in Nat
    BY <2>2, LogEventType DEF StoreTypeOK, Ids, Statuses, Outcomes, HandoffOutcomes
  <2>4. row \in HandoffRow /\ row.status = "accepted" /\ row.version = NextSeq
    BY <2>1, <2>3 DEF HandoffRow, HandoffOutcomes
  <2>5. nutshells' \in [Rooms -> Nutshell]
    BY <2>1, <2>2 DEF WriteNutshell, HandoffTypeOK, Nutshell
  <2>6. EntryFor(id, row, Parties(row)) \in Entry
    <3>1. Parties(row) \in Scopes
      BY <2>4, ScopeType DEF Parties, HandoffRow
    <3> QED
      BY <2>3, <2>4, <3>1, EntryForType DEF Ids, Statuses, Outcomes, HandoffOutcomes
  <2>7. NutshellEntry(room, nutshells'[room]) \in Entry
    <3>1. ToRoom(room) \in Scopes /\ nutshells'[room].version \in Nat
      BY <2>1, <2>5, ScopeType DEF Nutshell
    <3> QED
      BY <2>1, <3>1 DEF NutshellEntry, Entry
  <2>8. StoreTypeOK'
    BY <2>2, <2>3, <2>6, <2>7 DEF StoreTypeOK, runVars
  <2>9. HandoffTypeOK'
    BY <2>2, <2>4, <2>5 DEF HandoffTypeOK
  <2> QED
    BY <2>8, <2>9
<1>5. ASSUME NEW id \in HandoffIds, NEW by \in Names, DeclineHandoff(id, by)
      PROVE  StoreTypeOK' /\ HandoffTypeOK'
  BY <1>2, <1>5 DEF DeclineHandoff, MayDecline, HandoffOutcomes, StoreTypeOK
<1>6. ASSUME NEW id \in HandoffIds, NEW by \in Names, CancelHandoff(id, by)
      PROVE  StoreTypeOK' /\ HandoffTypeOK'
  BY <1>2, <1>6 DEF CancelHandoff, MayCancel, HandoffOutcomes, StoreTypeOK
<1>7. CASE Sweep
  BY <1>k, <1>7 DEF Sweep, StoreTypeOK, HandoffTypeOK, LoopItems, runVars
<1>8. ASSUME NEW id \in HandoffIds, ExpireNext(id)
      PROVE  StoreTypeOK' /\ HandoffTypeOK'
  <2>1. loop' \in SUBSET LoopItems /\ UNCHANGED <<nutshells, now, roomOf, wire, runVars>>
    BY <1>8 DEF ExpireNext, StoreTypeOK
  <2>2. CASE handoffs[id] # None /\ ResolveHandoff(id, "expired", System)
    BY <1>2, <2>1, <2>2 DEF HandoffOutcomes
  <2>3. CASE UNCHANGED <<handoffs, events, outbox>>
    BY <2>1, <2>3 DEF StoreTypeOK, HandoffTypeOK, runVars
  <2> QED
    BY <1>8, <2>2, <2>3 DEF ExpireNext
<1>9. CASE Tick
  BY <1>k, <1>9, HandoffAssumption DEF Tick, StoreTypeOK, HandoffTypeOK, storeVars, runVars
<1> QED
  BY <1>k, <1>1, <1>3, <1>4, <1>5, <1>6, <1>7, <1>8, <1>9 DEF HandoffNext

\* Every handler of an interrupt, the bulk one included, leaves it well typed.
LEMMA InterruptNextType == TypeOK /\ InterruptNextStep => TypeOK'
<1> SUFFICES ASSUME TypeOK, InterruptNextStep PROVE TypeOK'
    OBVIOUS
<1> USE DEF TypeOK
<1>k. HandoffTypeOK' /\ PermissionTypeOK'
  BY DEF InterruptNextStep, HandoffTypeOK, PermissionTypeOK, handoffVars
<1>i. ASSUME NEW id \in InterruptIds, NEW from \in Names, NEW to \in Names, NEW room \in Rooms,
             InsertInterrupt(id, from, to, room)
      PROVE  /\ events' \in Seq(Event) /\ Len(events') = Len(events) + 1
             /\ InterruptTypeOK'
             /\ outbox' \in Seq(Entry)
  <2> DEFINE row == [from |-> from, to |-> to, room |-> room,
                     status |-> "pending", version |-> NextSeq]
  <2>1. events' \in Seq(Event) /\ Len(events') = Len(events) + 1 /\ NextSeq \in Nat
    BY <1>i, LogEventType DEF InsertInterrupt, StoreTypeOK, Ids, Statuses
  <2>2. row \in InterruptRow
    BY <2>1 DEF InterruptRow
  <2>3. EntryFor(id, row, ToAgents({to})) \in Entry
    BY <2>1, EntryForType, ScopeType DEF Ids, Statuses
  <2> QED
    BY <1>i, <2>1, <2>2, <2>3 DEF InsertInterrupt, InterruptTypeOK
<1>1. ASSUME NEW id \in InterruptIds, NEW from \in Names, NEW to \in Names,
             SendInterrupt(id, from, to)
      PROVE  StoreTypeOK' /\ InterruptTypeOK'
  <2> DEFINE roster == Ensured(from, DefaultRoom)
             room == CommonRoom(roster[from], roster[to])
  <2>1. roomOf' = roster /\ roster \in [Names -> Rooms \cup {EveryRoom, Absent}]
        /\ room \in Rooms
    BY <1>1, EnsuredType, CommonRoomType, StoreAssumption DEF SendInterrupt, StoreTypeOK
  <2>2. InsertInterrupt(id, from, to, room) /\ UNCHANGED <<loop, wire, runVars>>
    BY <1>1 DEF SendInterrupt
  <2>3. /\ events' \in Seq(Event) /\ Len(events') = Len(events) + 1
        /\ InterruptTypeOK' /\ outbox' \in Seq(Entry)
    BY <1>i, <2>1, <2>2
  <2> QED
    BY <2>1, <2>2, <2>3 DEF StoreTypeOK, runVars
<1>2. ASSUME NEW rooms \in SUBSET Rooms, BulkInterrupt(rooms)
      PROVE  StoreTypeOK' /\ InterruptTypeOK'
  <2> DEFINE roster == Ensured(Human, DefaultRoom)
  <2>1. roomOf' = roster /\ roster \in [Names -> Rooms \cup {EveryRoom, Absent}]
    BY <1>2, EnsuredType, StoreAssumption DEF BulkInterrupt, StoreTypeOK, Names
  <2>2. loop' \in SUBSET LoopItems
    BY <1>2 DEF BulkInterrupt, LoopItems
  <2> QED
    BY <1>2, <2>1, <2>2 DEF BulkInterrupt, StoreTypeOK, InterruptTypeOK, runVars
<1>3. ASSUME NEW id \in InterruptIds, NEW to \in Names, NEW room \in Rooms,
             InterruptNext(id, to, room)
      PROVE  StoreTypeOK' /\ InterruptTypeOK'
  <2>1. InsertInterrupt(id, Human, to, room) /\ loop' \in SUBSET LoopItems
        /\ UNCHANGED <<roomOf, wire, runVars>>
    BY <1>3 DEF InterruptNext, StoreTypeOK
  <2>2. Human \in Names
    BY DEF Names
  <2>3. /\ events' \in Seq(Event) /\ Len(events') = Len(events) + 1
        /\ InterruptTypeOK' /\ outbox' \in Seq(Entry)
    BY <1>i, <2>1, <2>2
  <2> QED
    BY <2>1, <2>3 DEF StoreTypeOK, runVars
<1>4. ASSUME NEW id \in InterruptIds, NEW by \in Names, AcknowledgeInterrupt(id, by)
      PROVE  StoreTypeOK' /\ InterruptTypeOK'
  <2> DEFINE i == interrupts[id]
             row == [i EXCEPT !.status = "acknowledged", !.version = NextSeq]
             scope == ToAgents({row.from, row.to})
  <2>1. i \in InterruptRow
    BY <1>4 DEF AcknowledgeInterrupt, MayAcknowledge, InterruptTypeOK
  <2>2. LogEvent(id, "acknowledged", by) /\ interrupts' = [interrupts EXCEPT ![id] = row]
        /\ outbox' = <<EntryFor(id, row, scope)>> /\ UNCHANGED <<roomOf, loop, wire, runVars>>
    BY <1>4 DEF AcknowledgeInterrupt
  <2>3. events' \in Seq(Event) /\ Len(events') = Len(events) + 1 /\ NextSeq \in Nat
    BY <2>2, LogEventType DEF StoreTypeOK, Ids, Statuses, Outcomes, InterruptOutcomes
  <2>4. row \in InterruptRow /\ row.status = "acknowledged" /\ row.version = NextSeq
    BY <2>1, <2>3 DEF InterruptRow, InterruptOutcomes
  <2>5. scope \in Scopes
    BY <2>4, ScopeType DEF InterruptRow
  <2>6. EntryFor(id, row, scope) \in Entry
    BY <2>3, <2>4, <2>5, EntryForType DEF Ids, Statuses, Outcomes, InterruptOutcomes
  <2> QED
    BY <2>2, <2>3, <2>4, <2>6 DEF StoreTypeOK, InterruptTypeOK, runVars
<1> QED
  BY <1>k, <1>1, <1>2, <1>3, <1>4 DEF InterruptNextStep

\* Every handler of a permission leaves it well typed.
LEMMA PermissionNextType == TypeOK /\ PermissionNext => TypeOK'
<1> SUFFICES ASSUME TypeOK, PermissionNext PROVE TypeOK'
    OBVIOUS
<1> USE DEF TypeOK
<1>k. HandoffTypeOK' /\ InterruptTypeOK'
  BY DEF PermissionNext, HandoffTypeOK, InterruptTypeOK, handoffVars
<1>1. ASSUME NEW id \in PermissionIds, NEW agent \in Agents, RequestPermission(id, agent)
      PROVE  StoreTypeOK' /\ PermissionTypeOK'
  <2> DEFINE roster == Ensured(agent, DefaultRoom)
             room == CommonRoom(roster[agent], DefaultRoom)
             row == [agent |-> agent, by |-> None, status |-> "pending",
                     version |-> NextSeq, room |-> room]
  <2>0. agent \in Names
    BY DEF Names
  <2>1. roomOf' = roster /\ roster \in [Names -> Rooms \cup {EveryRoom, Absent}]
        /\ room \in Rooms
    BY <1>1, <2>0, EnsuredType, CommonRoomType, StoreAssumption
    DEF RequestPermission, StoreTypeOK
  <2>2. LogEvent(id, "pending", agent) /\ permissions' = [permissions EXCEPT ![id] = row]
        /\ outbox' = <<EntryFor(id, row, ToRoom(room))>> /\ UNCHANGED <<loop, wire, runVars>>
    BY <1>1 DEF RequestPermission
  <2>3. events' \in Seq(Event) /\ Len(events') = Len(events) + 1 /\ NextSeq \in Nat
    BY <2>0, <2>2, LogEventType DEF StoreTypeOK, Ids, Statuses
  <2>4. row \in PermissionRow
    BY <2>0, <2>1, <2>3 DEF PermissionRow
  <2>5. EntryFor(id, row, ToRoom(room)) \in Entry
    BY <2>1, <2>3, EntryForType, ScopeType DEF Ids, Statuses
  <2> QED
    BY <2>1, <2>2, <2>3, <2>4, <2>5 DEF StoreTypeOK, PermissionTypeOK, runVars
<1>r. ASSUME NEW id \in PermissionIds, NEW outcome \in PermissionOutcomes, NEW by \in Names,
             permissions[id] # None, ResolvePermission(id, outcome, by),
             UNCHANGED <<roomOf, loop, wire, runVars>>
      PROVE  StoreTypeOK' /\ PermissionTypeOK'
  <2> DEFINE row == [permissions[id] EXCEPT !.status = outcome, !.version = NextSeq, !.by = by]
  <2>1. LogEvent(id, outcome, by) /\ permissions' = [permissions EXCEPT ![id] = row]
        /\ outbox' = <<EntryFor(id, row, ToRoom(row.room))>>
    BY <1>r DEF ResolvePermission
  <2>2. events' \in Seq(Event) /\ Len(events') = Len(events) + 1 /\ NextSeq \in Nat
    BY <2>1, LogEventType DEF StoreTypeOK, Ids, Statuses, Outcomes
  <2>3. row \in PermissionRow /\ row.status = outcome /\ row.version = NextSeq
    BY <1>r, <2>2 DEF PermissionTypeOK, PermissionRow
  <2>4. ToRoom(row.room) \in Scopes
    BY <2>3, ScopeType DEF PermissionRow
  <2>5. EntryFor(id, row, ToRoom(row.room)) \in Entry
    BY <2>2, <2>3, <2>4, EntryForType DEF Ids, Statuses, Outcomes
  <2> QED
    BY <1>r, <2>1, <2>2, <2>3, <2>5 DEF StoreTypeOK, PermissionTypeOK, runVars
<1>2. ASSUME NEW id \in PermissionIds, NEW by \in Names, NEW verdict \in {"allowed", "denied"},
             DecidePermission(id, by, verdict)
      PROVE  StoreTypeOK' /\ PermissionTypeOK'
  BY <1>r, <1>2 DEF DecidePermission, MayDecide, PermissionOutcomes
<1>3. ASSUME NEW id \in PermissionIds, NEW by \in Names, DismissPermission(id, by)
      PROVE  StoreTypeOK' /\ PermissionTypeOK'
  BY <1>r, <1>3 DEF DismissPermission, MayDismiss, PermissionOutcomes
<1> QED
  BY <1>k, <1>1, <1>2, <1>3 DEF PermissionNext

\* So do the roster, the emission of an entry and a crash.
LEMMA StoreNextType == TypeOK /\ StoreNext => TypeOK'
<1> SUFFICES ASSUME TypeOK, StoreNext PROVE TypeOK'
    OBVIOUS
<1> USE DEF TypeOK
<1>k. HandoffTypeOK' /\ InterruptTypeOK' /\ PermissionTypeOK'
  BY DEF StoreNext, HandoffTypeOK, InterruptTypeOK, PermissionTypeOK, handoffVars
<1>1. ASSUME NEW a \in Agents, NEW r \in Rooms, Connect(a, r) PROVE StoreTypeOK'
  BY <1>1, EnsuredType DEF Connect, StoreTypeOK, Names, runVars
<1>2. ASSUME NEW n \in Names, TouchSender(n) PROVE StoreTypeOK'
  BY <1>2, EnsuredType, StoreAssumption DEF TouchSender, StoreTypeOK, runVars
<1>3. ASSUME NEW n \in Names, Remove(n) PROVE StoreTypeOK'
  BY <1>3 DEF Remove, StoreTypeOK, runVars
<1>4. CASE Emit
  BY <1>k, <1>4 DEF Emit, StoreTypeOK, runVars
<1>5. CASE Crash
  BY <1>k, <1>5, StoreAssumption DEF Crash, StoreTypeOK, FreshRoster, runVars
<1> QED
  BY <1>k, <1>1, <1>2, <1>3, <1>4, <1>5 DEF StoreNext

\* Every step of the hub preserves well-typedness.
LEMMA NextType == TypeOK /\ [Next]_vars => TypeOK'
<1> SUFFICES ASSUME TypeOK, [Next]_vars PROVE TypeOK'
    OBVIOUS
<1>1. CASE Next
  BY <1>1, HandoffNextType, InterruptNextType, PermissionNextType, StoreNextType DEF Next
<1>2. CASE UNCHANGED vars
  BY <1>2 DEF vars, storeVars, handoffVars, runVars, TypeOK, StoreTypeOK, HandoffTypeOK,
              InterruptTypeOK, PermissionTypeOK
<1> QED
  BY <1>1, <1>2

\* Every variable of the ledger always has its type: in particular a stored
\* room is a room, never the null of the human.
THEOREM TypeCorrect == Spec => []TypeOK
  BY InitTypeOK, NextType, PTL DEF Spec

=============================================================================
