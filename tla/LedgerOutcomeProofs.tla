------------------------ MODULE LedgerOutcomeProofs ------------------------
(***************************************************************************)
(* What becomes of a row: it is resolved once, by whoever may, everyone    *)
(* concerned hears of it, and an accepted edit is in the nutshell.  Proved *)
(* for any agents, rooms, ids and bounds, from the three kinds of step of  *)
(* LedgerSafetyProofs and the agreement of the tables with the log.        *)
(***************************************************************************)
EXTENDS LedgerSafetyProofs, FiniteSetTheorems

\* A step that changes a row resolves it.
LEMMA ResolvedOnceStep ==
    ASSUME StepKind, NEW id \in Ids, RowOf(id) # None, RowOf(id)' # RowOf(id)
    PROVE  Resolves(RowOf(id), RowOf(id)')
<1>1. ~Quiet
  BY DEF Quiet
<1>2. PICK j \in Ids, actor \in Actors : Inserts(j, actor) \/ Concludes(j, actor)
  BY <1>1 DEF StepKind
<1>3. j = id
  BY <1>2 DEF Inserts, Concludes, Commits
<1> QED
  BY <1>2, <1>3 DEF Inserts, Concludes

\* A row is written at most twice: once resolved it is never touched again, and
\* resolving it changes nothing but the outcome, whichever verbs and sweep
\* iterations race for it (the status checks of the verbs' transactions).
THEOREM RowsResolvedOnce == Spec => ResolvedOnce
<1>1. TypeOK /\ [Next]_vars =>
        [\A id \in Ids : (RowOf(id) # None /\ RowOf(id)' # RowOf(id))
                            => Resolves(RowOf(id), RowOf(id)')]_vars
  BY StepKinds, ResolvedOnceStep
<1> QED
  BY <1>1, TypeCorrect, PTL DEF Spec, ResolvedOnce

-----------------------------------------------------------------------------
(* Announcements. *)

Heard(id) ==
    \E e \in wire : /\ e.subject = id
                    /\ e.version = RowOf(id).version
                    /\ MustHear(id, e.scope)

Queued(id) ==
    /\ outbox # <<>>
    /\ outbox[1].subject = id
    /\ outbox[1].version = RowOf(id).version
    /\ MustHear(id, outbox[1].scope)

\* What was written since the last start was announced or is about to be.
HeardOK ==
    \A id \in Ids : (RowOf(id) # None /\ RowOf(id).version > started) => Heard(id) \/ Queued(id)

\* Who must hear of a row is decided by the row.
LEMMA MustHearStable ==
    ASSUME NEW id, RowOf(id)' = RowOf(id)
    PROVE  \A scope : MustHear(id, scope)' <=> MustHear(id, scope)
  BY DEF MustHear

\* What was announced stays announced as long as the row stays.
LEMMA HeardStable ==
    ASSUME NEW id, RowOf(id)' = RowOf(id), wire \subseteq wire', Heard(id)
    PROVE  Heard(id)'
<1>1. PICK e \in wire : e.subject = id /\ e.version = RowOf(id).version /\ MustHear(id, e.scope)
  BY DEF Heard
<1>2. e \in wire' /\ e.version = RowOf(id)'.version /\ MustHear(id, e.scope)'
  BY <1>1, MustHearStable
<1> QED
  BY <1>1, <1>2 DEF Heard

\* Every step keeps that.
LEMMA HeardOKStep ==
    ASSUME IInv, StepKind, HeardOK
    PROVE  HeardOK'
<1> SUFFICES ASSUME NEW id \in Ids, RowOf(id)' # None, RowOf(id)'.version > started'
             PROVE  Heard(id)' \/ Queued(id)'
  BY DEF HeardOK
<1>1. CASE Quiet
  <2>r. RowOf(id)' = RowOf(id)
    BY <1>1 DEF Quiet
  <2>1. CASE UNCHANGED <<outbox, wire, started>>
    <3>1. Heard(id) \/ Queued(id)
      BY <2>r, <2>1 DEF HeardOK
    <3>2. CASE Heard(id)
      BY <2>r, <2>1, <3>2, HeardStable
    <3>3. CASE Queued(id)
      BY <2>r, <2>1, <3>3, MustHearStable DEF Queued
    <3> QED
      BY <3>1, <3>2, <3>3
  <2>2. CASE Emit
    <3>1. wire' = wire \cup {outbox[1]} /\ started' = started
      BY <2>2, EmitLeavesNutshell DEF IInv, Emit, runVars
    <3>2. Heard(id) \/ Queued(id)
      BY <2>r, <3>1 DEF HeardOK
    <3>3. CASE Heard(id)
      BY <2>r, <3>1, <3>3, HeardStable
    <3>4. CASE Queued(id)
      BY <2>r, <3>1, <3>4, MustHearStable DEF Queued, Heard
    <3> QED
      BY <3>2, <3>3, <3>4
  <2>3. CASE started' = Len(events)
    <3>1. events \in Seq(Event) /\ RowMatchesLog(id, RowOf(id))
      BY DEF IInv, TypeOK, StoreTypeOK, TablesMatchLog
    <3>2. RowOf(id).version \in 1..Len(events) /\ Len(events) \in Nat
      BY <2>r, <3>1, VersionInLog
    <3> QED
      BY <2>r, <2>3, <3>2
  <2> QED
    BY <1>1, <2>1, <2>2, <2>3 DEF Quiet
<1>2. ASSUME NEW j \in Ids, NEW actor \in Actors, Commits(j, actor)
      PROVE  Heard(id)' \/ Queued(id)'
  <2>1. CASE j = id
    <3>1. Len(outbox') \in {1, 2}
      BY <1>2 DEF Commits
    <3>2. outbox' # <<>>
      <4>1. Len(<<>>) = 0 /\ 0 \notin {1, 2}
        OBVIOUS
      <4> QED
        BY <3>1, <4>1, Zenon
    <3>3. MustHear(j, outbox[1].scope)'
      BY <1>2 DEF Commits
    <3>4. outbox'[1].subject = j /\ outbox'[1].version = RowOf(j)'.version
      BY <1>2 DEF Commits
    <3>5. Queued(j)'
      BY <3>2, <3>3, <3>4 DEF Queued
    <3> QED
      BY <2>1, <3>5
  <2>2. CASE j # id
    <3>1. RowOf(id)' = RowOf(id) /\ started' = started /\ wire' = wire /\ outbox = <<>>
      BY <1>2, <2>2 DEF Commits
    <3>2. Heard(id)
      BY <3>1 DEF HeardOK, Queued
    <3> QED
      BY <3>1, <3>2, HeardStable
  <2> QED
    BY <2>1, <2>2
<1> QED
  BY <1>1, <1>2 DEF StepKind, Inserts, Concludes

\* Nothing is written before the first start.
LEMMA HeardOKInit == Init => HeardOK
<1> SUFFICES ASSUME Init PROVE HeardOK
    OBVIOUS
<1>1. \A id \in Ids : RowOf(id) = None
  BY DEF RowOf, NoRows, Ids, Init, HandoffInit, InterruptInit, PermissionInit
<1> QED
  BY <1>1 DEF HeardOK

\* Unless the hub crashed in between, whoever must hear of a row was handed its
\* entry when the handler that wrote it is done (commit, then cap.sse.emit).
THEOREM AnnouncedAlways == Spec => []AnnouncedUnlessCrashed
<1>1. IInv /\ HeardOK /\ [Next]_vars => HeardOK'
  BY StepKinds, HeardOKStep DEF IInv
<1>2. HeardOK => AnnouncedUnlessCrashed
  BY DEF HeardOK, Heard, Queued, AnnouncedUnlessCrashed
<1> QED
  BY <1>1, <1>2, HeardOKInit, Inductive, PTL DEF Spec

-----------------------------------------------------------------------------
(* Who closed what. *)

\* What the sweep still has to expire was due when it looked.
SweepsDue ==
    \A id \in HandoffIds : [sweep |-> id] \in loop =>
        handoffs[id] # None /\ handoffs[id].expires < now

\* The actor of a row's last event was entitled to it.
ClosedBy(row, actor, time) ==
    /\ row.status \in {"accepted", "declined"} => actor = row.to
    /\ row.status = "cancelled" => actor \in {row.from, Human}
    /\ row.status = "expired" => actor = System /\ row.expires < time
    /\ row.status = "acknowledged" => actor \in {row.to, Human}

AllClosed ==
    \A id \in Ids : RowOf(id) # None => ClosedBy(RowOf(id), events[RowOf(id).version].actor, now)

\* The fields of a row that the entitlements are about.
LEMMA RowFields ==
    ASSUME TypeOK, NEW id \in Ids, RowOf(id) # None
    PROVE  /\ id \in HandoffIds => /\ RowOf(id).expires \in Nat
                                   /\ {"from", "to", "expires"} \subseteq DOMAIN RowOf(id)
           /\ id \in InterruptIds => "to" \in DOMAIN RowOf(id)
           /\ RowOf(id).status = "expired" => id \in HandoffIds
<1>1. CASE id \in HandoffIds
  <2>1. RowOf(id) \in HandoffRow
    BY <1>1, RowOfKind DEF TypeOK, HandoffTypeOK
  <2> QED
    BY <1>1, <2>1, StoreAssumption DEF HandoffRow
<1>2. CASE id \in InterruptIds
  <2>1. RowOf(id) \in InterruptRow
    BY <1>2, RowOfKind DEF TypeOK, InterruptTypeOK
  <2> QED
    BY <1>2, <2>1, StoreAssumption DEF InterruptRow, InterruptOutcomes
<1>3. CASE id \in PermissionIds
  <2>1. RowOf(id) \in PermissionRow
    BY <1>3, RowOfKind DEF TypeOK, PermissionTypeOK
  <2> QED
    BY <1>3, <2>1, StoreAssumption DEF PermissionRow, PermissionOutcomes
<1> QED
  BY <1>1, <1>2, <1>3 DEF Ids

\* The clock does not run back, and the sweep takes up only what is due.
LEMMA SweepKind ==
    ASSUME TypeOK, [Next]_vars
    PROVE  /\ now \in Nat /\ now' \in Nat /\ now <= now'
           /\ \A id \in HandoffIds : [sweep |-> id] \in loop' =>
                 [sweep |-> id] \in loop \/ Due(handoffs[id])
<1>n. now \in Nat /\ (now' = now => now' \in Nat /\ now <= now')
  BY DEF TypeOK, HandoffTypeOK
<1>d. \A id, to, room : [sweep |-> id] # [to |-> to, room |-> room]
  <2>1. \A id, to, room : /\ "to" \notin DOMAIN [sweep |-> id]
                          /\ "to" \in DOMAIN [to |-> to, room |-> room]
    OBVIOUS
  <2> QED
    BY <2>1, Zenon
<1>e. \A i, j : [sweep |-> i] = [sweep |-> j] => i = j
  OBVIOUS
<1>1. CASE HandoffNext
  <2>1. CASE Tick
    BY <1>n, <2>1 DEF Tick, storeVars
  <2>2. CASE Sweep
    BY <1>n, <1>e, <2>2 DEF Sweep
  <2>3. ASSUME NEW id \in HandoffIds, ExpireNext(id)
        PROVE  loop' \subseteq loop /\ now' = now
    BY <2>3 DEF ExpireNext
  <2>4. CASE \E id \in HandoffIds, from, to \in Names, proposal \in Proposed, ttl \in TTLs :
               CreateHandoff(id, from, to, proposal, ttl)
    BY <1>n, <2>4 DEF CreateHandoff
  <2>5. ASSUME NEW id \in HandoffIds, NEW by \in Names,
               \/ AcceptHandoff(id, by) \/ AcceptNutshell(id, by)
               \/ DeclineHandoff(id, by) \/ CancelHandoff(id, by)
        PROVE  loop' = loop /\ now' = now
    BY <2>5 DEF AcceptHandoff, AcceptNutshell, DeclineHandoff, CancelHandoff
  <2> QED
    BY <1>1, <1>n, <2>1, <2>2, <2>3, <2>4, <2>5 DEF HandoffNext
<1>2. CASE InterruptNextStep
  <2>1. now' = now
    BY <1>2 DEF InterruptNextStep, handoffVars
  <2>2. ASSUME NEW rooms \in SUBSET Rooms, BulkInterrupt(rooms)
        PROVE  \A id \in HandoffIds : [sweep |-> id] \notin loop'
    BY <1>d, <2>2 DEF BulkInterrupt
  <2>3. CASE ~ \E rooms \in SUBSET Rooms : BulkInterrupt(rooms)
    BY <1>2, <1>n, <2>1, <2>3
    DEF InterruptNextStep, SendInterrupt, InterruptNext, AcknowledgeInterrupt
  <2> QED
    BY <1>n, <2>1, <2>2, <2>3
<1>3. CASE PermissionNext
  <2>1. now' = now /\ loop' = loop
    BY <1>3 DEF PermissionNext, handoffVars, RequestPermission, DecidePermission, DismissPermission
  <2> QED
    BY <1>n, <2>1
<1>4. CASE StoreNext
  <2>1. now' = now /\ (loop' = loop \/ loop' = {})
    BY <1>4 DEF StoreNext, handoffVars, Connect, TouchSender, Remove, Emit, Crash
  <2> QED
    BY <1>n, <2>1
<1>5. CASE UNCHANGED vars
  BY <1>n, <1>5 DEF vars, handoffVars, storeVars
<1> QED
  BY <1>1, <1>2, <1>3, <1>4, <1>5 DEF Next

\* The rows the sweep holds on to stay, with the expiry they had.
LEMMA SweepsDueStep ==
    ASSUME TypeOK, [Next]_vars, SweepsDue
    PROVE  SweepsDue'
<1> SUFFICES ASSUME NEW id \in HandoffIds, [sweep |-> id] \in loop'
             PROVE  handoffs'[id] # None /\ handoffs'[id].expires < now'
    BY DEF SweepsDue
<1>1. RowOf(id) # None /\ RowOf(id).expires < now /\ id \in Ids
  BY SweepKind, RowOfKind DEF SweepsDue, Due, Ids
<1>2. RowOf(id)' # None /\ RowOf(id)'.expires = RowOf(id).expires
  <2>1. CASE RowOf(id)' = RowOf(id)
    BY <1>1, <2>1
  <2>2. CASE RowOf(id)' # RowOf(id)
    <3>1. Resolves(RowOf(id), RowOf(id)')
      BY <1>1, <2>2, StepKinds, ResolvedOnceStep
    <3> QED
      BY <1>1, <3>1, RowFields DEF Resolves
  <2> QED
    BY <2>1, <2>2
<1>3. RowOf(id).expires \in Nat
  BY <1>1, RowFields
<1> QED
  BY <1>1, <1>2, <1>3, RowOfKind, SweepKind

\* The event of a row that a step leaves alone is where it was.
LEMMA OldEventStays ==
    ASSUME IInv, StepKind, NEW id \in Ids, RowOf(id) # None, RowOf(id)' = RowOf(id)
    PROVE  events'[RowOf(id).version] = events[RowOf(id).version]
<1>1. events \in Seq(Event) /\ RowMatchesLog(id, RowOf(id))
  BY DEF IInv, TypeOK, StoreTypeOK, TablesMatchLog
<1>2. RowOf(id).version \in 1..Len(events)
  BY <1>1, VersionInLog
<1>3. CASE Quiet
  BY <1>3 DEF Quiet
<1>4. ASSUME NEW j \in Ids, NEW actor \in Actors, Commits(j, actor)
      PROVE  events'[RowOf(id).version] = events[RowOf(id).version]
  <2>1. LogEvent(j, RowOf(j)'.status, actor)
    BY <1>4 DEF Commits
  <2> QED
    BY <1>1, <1>2, <2>1, HistoryGrows
<1> QED
  BY <1>3, <1>4 DEF StepKind, Inserts, Concludes

\* Whoever concludes a row is entitled to.
LEMMA ConcludedByEntitled ==
    ASSUME IInv, SweepsDue, NEW id \in Ids, NEW actor, Concludes(id, actor), now <= now',
           now \in Nat, now' \in Nat
    PROVE  ClosedBy(RowOf(id)', events'[RowOf(id)'.version].actor, now')
<1> DEFINE old == RowOf(id)
           new == RowOf(id)'
<1>1. /\ old # None /\ Resolves(old, new) /\ Entitled(id, new.status, actor)
      /\ new.version = NextSeq /\ LogEvent(id, new.status, actor)
      /\ new.status \in OutcomesById[id]
  BY DEF Concludes, Commits
<1>2. events'[new.version].actor = actor
  <2>1. events \in Seq(Event)
    BY DEF IInv, TypeOK, StoreTypeOK
  <2>2. events'[NextSeq] = [id |-> id, status |-> new.status, actor |-> actor]
    BY <1>1, <2>1, HistoryGrows
  <2> QED
    BY <1>1, <2>2
<1>3. /\ id \in HandoffIds => new.to = old.to /\ new.from = old.from
                              /\ new.expires = old.expires /\ old.expires \in Nat
      /\ id \in InterruptIds => new.to = old.to
  BY <1>1, RowFields DEF Resolves, IInv
<1>4. CASE id \in HandoffIds
  <2>1. new.status \in HandoffOutcomes
    BY <1>1, <1>4, OutcomesOfKind
  <2>2. new.status = "expired" => actor = System /\ new.expires < now'
    <3> SUFFICES ASSUME new.status = "expired" PROVE actor = System /\ new.expires < now'
      OBVIOUS
    <3>1. actor = System /\ old.expires < now
      BY <1>1, <1>4, RowOfKind DEF Entitled, SweepsDue
    <3> QED
      BY <1>3, <1>4, <3>1
  <2>3. /\ new.status \in {"accepted", "declined"} => actor = new.to
        /\ new.status = "cancelled" => actor \in {new.from, Human}
    BY <1>1, <1>3, <1>4 DEF Entitled
  <2>4. new.status # "acknowledged"
    BY <2>1 DEF HandoffOutcomes
  <2> HIDE DEF new
  <2>5. ClosedBy(new, actor, now')
    BY <2>2, <2>3, <2>4 DEF ClosedBy
  <2> QED
    BY <1>2, <2>5 DEF new
<1>5. CASE id \in InterruptIds
  <2>1. new.status = "acknowledged"
    BY <1>1, <1>5, OutcomesOfKind DEF InterruptOutcomes
  <2> QED
    BY <1>1, <1>2, <1>3, <1>5, <2>1 DEF ClosedBy, Entitled
<1>6. CASE id \in PermissionIds
  <2>1. new.status \in PermissionOutcomes
    BY <1>1, <1>6, OutcomesOfKind
  <2> QED
    BY <2>1 DEF ClosedBy, PermissionOutcomes
<1> QED
  BY <1>4, <1>5, <1>6 DEF Ids

\* Every step keeps every conclusion in entitled hands.
LEMMA AllClosedStep ==
    ASSUME IInv, [Next]_vars, SweepsDue, AllClosed
    PROVE  AllClosed'
<1> SUFFICES ASSUME NEW id \in Ids, RowOf(id)' # None
             PROVE  ClosedBy(RowOf(id)', events'[RowOf(id)'.version].actor, now')
    BY DEF AllClosed
<1>k. StepKind /\ TypeOK /\ now \in Nat /\ now' \in Nat /\ now <= now'
  BY StepKinds, SweepKind DEF IInv
<1>1. CASE RowOf(id)' = RowOf(id)
  <2>1. ClosedBy(RowOf(id), events'[RowOf(id).version].actor, now)
    BY <1>k, <1>1, OldEventStays DEF AllClosed
  <2>2. RowOf(id).status = "expired" => RowOf(id).expires \in Nat
    BY <1>k, <1>1, RowFields
  <2> QED
    BY <1>k, <1>1, <2>1, <2>2 DEF ClosedBy
<1>2. CASE RowOf(id)' # RowOf(id)
  <2>1. ~Quiet
    BY <1>2 DEF Quiet
  <2>2. PICK j \in Ids, actor \in Actors : Inserts(j, actor) \/ Concludes(j, actor)
    BY <1>k, <2>1 DEF StepKind
  <2>3. j = id
    BY <1>2, <2>2 DEF Inserts, Concludes, Commits
  <2>4. CASE Inserts(j, actor)
    BY <2>3, <2>4 DEF Inserts, ClosedBy
  <2>5. CASE Concludes(j, actor)
    BY <1>k, <2>3, <2>5, ConcludedByEntitled
  <2> QED
    BY <2>2, <2>4, <2>5
<1> QED
  BY <1>1, <1>2

\* At start nothing is swept and nothing closed.
LEMMA AllClosedInit == Init => SweepsDue /\ AllClosed
<1> SUFFICES ASSUME Init PROVE SweepsDue /\ AllClosed
    OBVIOUS
<1>1. loop = {} /\ \A id \in Ids : RowOf(id) = None
  BY DEF RowOf, NoRows, Ids, Init, StoreInit, HandoffInit, InterruptInit, PermissionInit
<1> QED
  BY <1>1 DEF SweepsDue, AllClosed

\* Only the recipient accepted or declined a handoff, only its sender or the
\* human cancelled it, only the sweep expired it and only after its TTL; only
\* the recipient or the human acknowledged an interrupt.
THEOREM ClosedAlwaysByEntitled == Spec => []ClosedByEntitled
<1>1. IInv /\ SweepsDue /\ AllClosed /\ [Next]_vars => SweepsDue' /\ AllClosed'
  BY SweepsDueStep, AllClosedStep DEF IInv
<1>2. AllClosed => ClosedByEntitled
  <2> SUFFICES ASSUME AllClosed PROVE ClosedByEntitled
      OBVIOUS
  <2>1. \A id \in HandoffIds \cup InterruptIds : RowOf(id) # None =>
           ClosedBy(RowOf(id), events[RowOf(id).version].actor, now)
    BY DEF AllClosed, Ids
  <2> QED
    BY <2>1, RowOfKind DEF ClosedBy, ClosedByEntitled
<1> QED
  BY <1>1, <1>2, AllClosedInit, Inductive, PTL DEF Spec

-----------------------------------------------------------------------------
(* The nutshell. *)

\* h is an accepted edit of the nutshell of r.
Edited(h, r) == h # None /\ h.status = "accepted" /\ NutshellTarget(h) = r

\* There are finitely many edits, and the nutshell is the last of them.
NutshellOK == NutshellIsLastEdit /\ \A r \in Rooms : IsFiniteSet(Edits(r))

\* The edits before and after a step.
LEMMA EditsAre ==
    \A r : /\ Edits(r) = {id \in HandoffIds : Edited(handoffs[id], r)}
           /\ Edits(r)' = {id \in HandoffIds : Edited(handoffs'[id], r)}
  BY DEF Edits, Edited, NutshellTarget

\* The nutshells and the edits that matter to them stay.
NutshellsStay ==
    /\ nutshells' = nutshells
    /\ \A r \in Rooms : Edits(r)' = Edits(r) /\ \A id \in Edits(r) : handoffs'[id] = handoffs[id]

\* Writing a row that neither was nor becomes an edit leaves the edits alone.
LEMMA NoEditWritten ==
    ASSUME TypeOK, nutshells' = nutshells, NEW id \in HandoffIds, NEW row,
           handoffs' = [handoffs EXCEPT ![id] = row],
           \A r \in Rooms : ~Edited(handoffs[id], r) /\ ~Edited(row, r)
    PROVE  NutshellsStay
<1>1. handoffs'[id] = row /\ \A j \in HandoffIds \ {id} : handoffs'[j] = handoffs[j]
  BY DEF TypeOK, HandoffTypeOK
<1>2. \A r \in Rooms : Edits(r)' = Edits(r)
  BY <1>1, EditsAre
<1>3. \A r \in Rooms : \A j \in Edits(r) : handoffs'[j] = handoffs[j]
  BY <1>1, EditsAre
<1> QED
  BY <1>2, <1>3 DEF NutshellsStay

\* Every handler but the accept of an edit leaves nutshells and edits alone.
LEMMA NutshellKind ==
    ASSUME TypeOK, [Next]_vars
    PROVE  NutshellsStay \/ \E id \in HandoffIds, by \in Names : AcceptNutshell(id, by)
<1>s. ASSUME handoffs' = handoffs, nutshells' = nutshells
      PROVE  NutshellsStay
  BY <1>s DEF NutshellsStay, Edits
<1>r. ASSUME NEW id \in HandoffIds, NEW outcome \in HandoffOutcomes, NEW actor,
             handoffs[id] # None, handoffs[id].status = "pending",
             outcome = "accepted" => NutshellTarget(handoffs[id]) = None,
             ResolveHandoff(id, outcome, actor), nutshells' = nutshells
      PROVE  NutshellsStay
  <2> DEFINE row == [handoffs[id] EXCEPT !.status = outcome, !.version = NextSeq]
  <2>1. handoffs[id] \in HandoffRow
    BY <1>r DEF TypeOK, HandoffTypeOK
  <2>2. row.status = outcome /\ NutshellTarget(row) = NutshellTarget(handoffs[id])
    BY <2>1 DEF HandoffRow, NutshellTarget
  <2>3. handoffs' = [handoffs EXCEPT ![id] = row]
    BY <1>r DEF ResolveHandoff
  <2> HIDE DEF row
  <2>4. \A r \in Rooms : ~Edited(handoffs[id], r) /\ ~Edited(row, r)
    BY <1>r, <2>2, StoreAssumption DEF Edited
  <2> QED
    BY <1>r, <2>3, <2>4, NoEditWritten
<1>1. CASE HandoffNext
  <2>1. ASSUME NEW id \in HandoffIds, NEW from \in Names, NEW to \in Names,
               NEW proposal \in Proposed, NEW ttl \in TTLs,
               CreateHandoff(id, from, to, proposal, ttl)
        PROVE  NutshellsStay
    <3> DEFINE row == [from |-> from, to |-> to, proposal |-> proposal,
                       room |-> CommonRoom(Ensured(from, DefaultRoom)[from],
                                           Ensured(from, DefaultRoom)[to]),
                       expires |-> now + ttl, status |-> "pending", version |-> NextSeq]
    <3>1. /\ handoffs[id] = None /\ nutshells' = nutshells
          /\ handoffs' = [handoffs EXCEPT ![id] = row] /\ row.status = "pending"
      BY <2>1 DEF CreateHandoff
    <3> HIDE DEF row
    <3> QED
      BY <3>1, NoEditWritten DEF Edited
  <2>2. ASSUME NEW id \in HandoffIds, NEW by \in Names, AcceptHandoff(id, by)
        PROVE  NutshellsStay
    BY <1>r, <2>2 DEF AcceptHandoff, MayAccept, HandoffOutcomes
  <2>3. ASSUME NEW id \in HandoffIds, NEW by \in Names, DeclineHandoff(id, by)
        PROVE  NutshellsStay
    BY <1>r, <2>3 DEF DeclineHandoff, MayDecline, HandoffOutcomes
  <2>4. ASSUME NEW id \in HandoffIds, NEW by \in Names, CancelHandoff(id, by)
        PROVE  NutshellsStay
    BY <1>r, <2>4 DEF CancelHandoff, MayCancel, HandoffOutcomes
  <2>5. ASSUME NEW id \in HandoffIds, ExpireNext(id)
        PROVE  NutshellsStay
    BY <1>r, <1>s, <2>5 DEF ExpireNext, HandoffOutcomes
  <2>6. CASE Sweep \/ Tick
    BY <1>s, <2>6 DEF Sweep, Tick
  <2> QED
    BY <1>1, <2>1, <2>2, <2>3, <2>4, <2>5, <2>6 DEF HandoffNext
<1>2. CASE InterruptNextStep \/ PermissionNext \/ StoreNext \/ UNCHANGED vars
  BY <1>s, <1>2 DEF InterruptNextStep, PermissionNext, StoreNext, vars, handoffVars
<1> QED
  BY <1>1, <1>2 DEF Next

\* Steps that leave nutshells and edits alone keep the last edit last.
LEMMA LastEditStays ==
    ASSUME NutshellOK, NutshellsStay
    PROVE  NutshellOK'
<1>1. \A r \in Rooms : Edits(r)' = Edits(r) /\ nutshells'[r] = nutshells[r]
  BY DEF NutshellsStay
<1>2. \A r \in Rooms : IsFiniteSet(Edits(r)')
  BY <1>1 DEF NutshellOK
<1>3. NutshellIsLastEdit'
  BY <1>1 DEF NutshellOK, NutshellsStay, NutshellIsLastEdit
<1> QED
  BY <1>2, <1>3 DEF NutshellOK

\* An accepted edit becomes the last one of its room and touches no other.
LEMMA AcceptIsLastEdit ==
    ASSUME IInv, NutshellOK, NEW id \in HandoffIds, NEW by, AcceptNutshell(id, by)
    PROVE  NutshellOK'
<1> DEFINE h == handoffs[id]
           row == [h EXCEPT !.status = "accepted", !.version = NextSeq]
<1>1. h \in HandoffRow /\ h.status = "pending" /\ NutshellTarget(h) # None /\ h # None
  BY DEF AcceptNutshell, MayAccept, IInv, TypeOK, HandoffTypeOK
<1>2. PICK room \in Rooms : room = NutshellTarget(h)
  BY <1>1, HandoffAssumption DEF NutshellTarget, HandoffRow, Proposals
<1>3. row # None /\ row.status = "accepted" /\ NutshellTarget(row) = room /\ row.version = NextSeq
  <2>1. row \in HandoffRow
    <3>1. NextSeq \in Nat
      BY DEF IInv, TypeOK, StoreTypeOK, NextSeq
    <3> QED
      BY <1>1, <3>1 DEF HandoffRow, HandoffOutcomes
  <2> QED
    BY <1>1, <1>2, <2>1, HandoffRowAssumption DEF HandoffRow, NutshellTarget
<1>4. handoffs'[id] = row /\ \A j \in HandoffIds \ {id} : handoffs'[j] = handoffs[j]
  BY DEF AcceptNutshell, IInv, TypeOK, HandoffTypeOK
<1>5. /\ nutshells'[room] = [version |-> nutshells[room].version + 1, text |-> id]
      /\ \A r \in Rooms \ {room} : nutshells'[r] = nutshells[r]
  BY <1>2 DEF AcceptNutshell, WriteNutshell, IInv, TypeOK, HandoffTypeOK
<1> HIDE DEF row, h
<1>6. /\ \A r : id \notin Edits(r)
      /\ Edits(room)' = Edits(room) \cup {id}
      /\ \A r \in Rooms \ {room} : Edits(r)' = Edits(r)
  <2>1. \A r : id \notin Edits(r)
    BY <1>1, EditsAre DEF Edited, h
  <2>2. Edits(room)' = Edits(room) \cup {id}
    BY <1>3, <1>4, EditsAre DEF Edited
  <2>3. \A r \in Rooms \ {room} : Edits(r)' = Edits(r)
    <3> SUFFICES ASSUME NEW r \in Rooms \ {room} PROVE Edits(r)' = Edits(r)
      OBVIOUS
    <3>1. ~Edited(handoffs[id], r) /\ ~Edited(handoffs'[id], r)
      BY <1>1, <1>3, <1>4 DEF Edited, h
    <3>2. \A j \in HandoffIds \ {id} : Edited(handoffs'[j], r) <=> Edited(handoffs[j], r)
      BY <1>4
    <3> QED
      BY <3>1, <3>2, EditsAre
  <2> QED
    BY <2>1, <2>2, <2>3
<1>7. \A r : \A j \in Edits(r) : handoffs[j].version < NextSeq /\ handoffs[j].version \in Nat
  <2> SUFFICES ASSUME NEW r, NEW j \in Edits(r)
               PROVE  handoffs[j].version < NextSeq /\ handoffs[j].version \in Nat
    OBVIOUS
  <2>1. j \in HandoffIds /\ handoffs[j] # None
    BY DEF Edits
  <2>2. RowMatchesLog(j, handoffs[j]) /\ events \in Seq(Event)
    BY <2>1, RowOfKind DEF IInv, TablesMatchLog, TypeOK, StoreTypeOK, Ids
  <2>3. handoffs[j].version \in 1..Len(events) /\ Len(events) \in Nat
    BY <2>1, <2>2, VersionInLog
  <2> QED
    BY <2>3 DEF NextSeq
<1>8. NextSeq \in Nat
  BY DEF IInv, TypeOK, StoreTypeOK, NextSeq
<1>9. ASSUME NEW r \in Rooms, r # room
      PROVE  /\ IsFiniteSet(Edits(r)')
             /\ nutshells'[r].version = Cardinality(Edits(r)')
             /\ nutshells'[r].text = None <=> Edits(r)' = {}
             /\ Edits(r)' # {} => nutshells'[r].text \in Edits(r)'
             /\ \A j \in Edits(r)' : handoffs'[j].version <= handoffs'[nutshells'[r].text].version
  <2>1. Edits(r)' = Edits(r) /\ nutshells'[r] = nutshells[r]
    BY <1>5, <1>6, <1>9
  <2>2. \A j \in Edits(r) : handoffs'[j] = handoffs[j]
    BY <1>4, <1>6 DEF Edits
  <2> QED
    BY <1>9, <2>1, <2>2 DEF NutshellOK, NutshellIsLastEdit
<1>10. /\ IsFiniteSet(Edits(room)')
       /\ nutshells'[room].version = Cardinality(Edits(room)')
       /\ nutshells'[room].text = None <=> Edits(room)' = {}
       /\ Edits(room)' # {} => nutshells'[room].text \in Edits(room)'
       /\ \A j \in Edits(room)' : handoffs'[j].version <= handoffs'[nutshells'[room].text].version
  <2>1. IsFiniteSet(Edits(room)) /\ nutshells[room].version = Cardinality(Edits(room))
    BY <1>2 DEF NutshellOK, NutshellIsLastEdit
  <2>2. /\ IsFiniteSet(Edits(room) \cup {id})
        /\ Cardinality(Edits(room) \cup {id}) = Cardinality(Edits(room)) + 1
    BY <1>6, <2>1, FS_AddElement
  <2>3. nutshells'[room].text = id /\ nutshells'[room].version = nutshells[room].version + 1
    BY <1>5
  <2>4. id # None
    BY StoreAssumption DEF Ids
  <2>5. \A j \in Edits(room) : handoffs'[j].version <= handoffs'[id].version
    <3>1. \A j \in Edits(room) : handoffs'[j] = handoffs[j]
      BY <1>4, <1>6 DEF Edits
    <3> QED
      BY <1>3, <1>4, <1>7, <1>8, <3>1
  <2>6. handoffs'[id].version <= handoffs'[id].version
    BY <1>3, <1>4, <1>8
  <2> QED
    BY <1>6, <2>1, <2>2, <2>3, <2>4, <2>5, <2>6
<1> QED
  BY <1>9, <1>10 DEF NutshellOK, NutshellIsLastEdit

\* At start there is no edit.
LEMMA NutshellInit == Init => NutshellOK
<1> SUFFICES ASSUME Init PROVE NutshellOK
    OBVIOUS
<1>1. /\ \A id \in HandoffIds : handoffs[id] = None
      /\ \A r \in Rooms : nutshells[r].version = 0 /\ nutshells[r].text = None
  BY DEF Init, HandoffInit, NoRows
<1>2. \A r : Edits(r) = {}
  BY <1>1 DEF Edits
<1> QED
  BY <1>1, <1>2, FS_EmptySet DEF NutshellOK, NutshellIsLastEdit

\* Every reachable nutshell is its last edit.
LEMMA NutshellInductive == Spec => []NutshellOK
<1>1. IInv /\ NutshellOK /\ [Next]_vars => NutshellOK'
  BY NutshellKind, LastEditStays, AcceptIsLastEdit DEF IInv
<1> QED
  BY <1>1, NutshellInit, Inductive, PTL DEF Spec

\* A room's nutshell is the patch of the edit accepted last and its version
\* counts the accepted edits: none is lost, doubled or half done, because the
\* nutshell is written in the transaction of the accept.
THEOREM NutshellAlwaysLastEdit == Spec => []NutshellIsLastEdit
<1>1. NutshellOK => NutshellIsLastEdit
  BY DEF NutshellOK
<1> QED
  BY <1>1, NutshellInductive, PTL

\* What stands in a room's nutshell was accepted by the human, and came from
\* the human or through a handoff of that very room.
THEOREM NutshellAlwaysStaysInRoom == Spec => []NutshellStaysInRoom
<1>1. NutshellOK => NutshellStaysInRoom
  <2> SUFFICES ASSUME NutshellOK, NEW r \in Rooms, nutshells[r].text # None
               PROVE  LET h == handoffs[nutshells[r].text]
                      IN  h.to = Human /\ (h.from = Human \/ h.room = r)
    BY DEF NutshellStaysInRoom
  <2>1. nutshells[r].text \in Edits(r)
    BY DEF NutshellOK, NutshellIsLastEdit
  <2>2. NutshellTarget(handoffs[nutshells[r].text]) = r
    BY <2>1 DEF Edits
  <2> QED
    BY <2>2, StoreAssumption DEF NutshellTarget
<1> QED
  BY <1>1, NutshellInductive, PTL
=============================================================================
