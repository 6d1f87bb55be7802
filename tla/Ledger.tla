------------------------------- MODULE Ledger -------------------------------
(***************************************************************************)
(* The hub's protocol ledger: the three persistent kinds over one event    *)
(* log, the nutshell, the TTL sweep, the roster the verbs consult and the  *)
(* crashes of the hub process.                                             *)
(***************************************************************************)
EXTENDS Handoffs, Interrupts, Permissions

vars == <<storeVars, handoffVars, interrupts, permissions>>

TypeOK == StoreTypeOK /\ HandoffTypeOK /\ InterruptTypeOK /\ PermissionTypeOK

Init == StoreInit /\ HandoffInit /\ InterruptInit /\ PermissionInit

-----------------------------------------------------------------------------
HandoffNext ==
    /\ \/ \E id \in HandoffIds, from, to \in Names, proposal \in Proposed, ttl \in TTLs :
             CreateHandoff(id, from, to, proposal, ttl)
       \/ \E id \in HandoffIds, by \in Names :
             \/ AcceptHandoff(id, by)
             \/ AcceptNutshell(id, by)
             \/ DeclineHandoff(id, by)
             \/ CancelHandoff(id, by)
       \/ Sweep
       \/ \E id \in HandoffIds : ExpireNext(id)
       \/ Tick
    /\ UNCHANGED <<interrupts, permissions>>

InterruptNextStep ==
    /\ \/ \E id \in InterruptIds, from, to \in Names : SendInterrupt(id, from, to)
       \/ \E rooms \in SUBSET Rooms : BulkInterrupt(rooms)
       \/ \E id \in InterruptIds, to \in Names, room \in Rooms : InterruptNext(id, to, room)
       \/ \E id \in InterruptIds, by \in Names : AcknowledgeInterrupt(id, by)
    /\ UNCHANGED <<handoffVars, permissions>>

PermissionNext ==
    /\ \/ \E id \in PermissionIds, agent \in Agents : RequestPermission(id, agent)
       \/ \E id \in PermissionIds, by \in Names, verdict \in {"allowed", "denied"} :
             DecidePermission(id, by, verdict)
       \/ \E id \in PermissionIds, by \in Names : DismissPermission(id, by)
    /\ UNCHANGED <<handoffVars, interrupts>>

StoreNext ==
    /\ \/ \E a \in Agents, r \in Rooms : Connect(a, r)
       \/ \E n \in Names : TouchSender(n) \/ Remove(n)
       \/ Emit
       \/ Crash
    /\ UNCHANGED <<handoffVars, interrupts, permissions>>

Next == HandoffNext \/ InterruptNextStep \/ PermissionNext \/ StoreNext

Spec == Init /\ [][Next]_vars

\* The event loop gets to a handler's next step and to a timer that is due.
Fairness ==
    /\ WF_vars(Emit /\ UNCHANGED <<handoffVars, interrupts, permissions>>)
    /\ WF_vars((Sweep \/ \E id \in HandoffIds : ExpireNext(id)) /\ UNCHANGED <<interrupts, permissions>>)
    /\ WF_vars(/\ \E id \in InterruptIds, to \in Names, room \in Rooms : InterruptNext(id, to, room)
               /\ UNCHANGED <<handoffVars, permissions>>)

FairSpec == Spec /\ Fairness

-----------------------------------------------------------------------------
SeqsOf(id) == {i \in DOMAIN events : events[i].id = id}

\* The row of an id, whichever table holds it.
RowOf(id) ==
    IF id \in HandoffIds THEN handoffs[id]
    ELSE IF id \in InterruptIds THEN interrupts[id]
    ELSE permissions[id]

\* A row and the events of its id tell the same story.
RowMatchesLog(id, row) ==
    IF row = None THEN SeqsOf(id) = {}
    ELSE /\ row.version \in SeqsOf(id)
         /\ events[row.version].status = row.status
         /\ IF row.status = "pending"
            THEN SeqsOf(id) = {row.version}
            ELSE \E c \in 1..(row.version - 1) :
                    SeqsOf(id) = {c, row.version} /\ events[c].status = "pending"

\* The tables are a function of the log: a row exists exactly when its creation
\* was logged, carries the sequence number and the status of its last event,
\* and no id was ever resolved twice, whichever verbs, sweep iterations and
\* crashes raced for it.
TablesMatchLog == \A id \in Ids : RowMatchesLog(id, RowOf(id))

\* Who closed what: only the recipient accepted or declined a handoff, only its
\* sender or the human cancelled it, only the sweep expired it and only after
\* its TTL; only the recipient or the human acknowledged an interrupt.
ClosedByEntitled ==
    /\ \A id \in HandoffIds : handoffs[id] # None =>
          LET h == handoffs[id]
              actor == events[h.version].actor
          IN  /\ (h.status \in {"accepted", "declined"} => actor = h.to)
              /\ (h.status = "cancelled" => actor \in {h.from, Human})
              /\ (h.status = "expired" => actor = System /\ h.expires < now)
    /\ \A id \in InterruptIds : interrupts[id] # None =>
          LET i == interrupts[id]
          IN  i.status = "acknowledged" => events[i.version].actor \in {i.to, Human}

\* A client that keeps, per id, the entry of the highest version it was sent
\* never shows something the ledger does not say: an entry is never ahead of
\* the row, an entry of the row's version has its status, and whatever is
\* older than the row is the pending snapshot.
ReconciliationIsSound ==
    \A e \in wire : e.subject \in Ids =>
        LET row == RowOf(e.subject)
        IN  /\ row # None
            /\ e.version <= row.version
            /\ (e.version = row.version => e.status = row.status)
            /\ (e.version < row.version => e.status = "pending")

\* Who must hear of a row: the recipient of a pending handoff or interrupt,
\* both parties of a resolved one, the whole room of a permission.
MustHear(id, scope) ==
    LET row == RowOf(id)
    IN  IF id \in PermissionIds THEN scope = ToRoom(row.room)
        ELSE scope = ToAgents(IF row.status = "pending" THEN {row.to} ELSE {row.from, row.to})

\* Between two crashes nothing is lost: once the running handler is done, the
\* entry of every row written since the last start has been handed to the
\* fan-out for exactly those who must hear of it.
\* (`started` is the length of the log at the last start.)
AnnouncedUnlessCrashed ==
    outbox = <<>> =>
        \A id \in Ids :
            (RowOf(id) # None /\ RowOf(id).version > started) =>
                \E e \in wire : /\ e.subject = id
                               /\ e.version = RowOf(id).version
                               /\ MustHear(id, e.scope)

\* The accepted handoffs that edit a room's nutshell.
Edits(r) == {id \in HandoffIds : /\ handoffs[id] # None
                                 /\ handoffs[id].status = "accepted"
                                 /\ NutshellTarget(handoffs[id]) = r}

\* A room's nutshell is the patch of the edit accepted last, and its version
\* counts the accepted edits: no edit is lost, doubled or half done.
NutshellIsLastEdit ==
    \A r \in Rooms :
        /\ nutshells[r].version = Cardinality(Edits(r))
        /\ nutshells[r].text = None <=> Edits(r) = {}
        /\ Edits(r) # {} => nutshells[r].text \in Edits(r)
        /\ \A id \in Edits(r) : handoffs[id].version <= handoffs[nutshells[r].text].version

\* An agent edits the nutshell of its handoff's room only, whatever room the
\* patch names; the human edits any.
NutshellStaysInRoom ==
    \A r \in Rooms : nutshells[r].text # None =>
        LET h == handoffs[nutshells[r].text]
        IN  h.to = Human /\ (h.from = Human \/ h.room = r)

\* A row resolved: only the outcome, the version and the resolver may change.
Resolves(row, new) ==
    /\ row.status = "pending"
    /\ new # None
    /\ new.status # "pending"
    /\ DOMAIN new = DOMAIN row
    /\ \A f \in DOMAIN row \ {"status", "version", "by"} : new[f] = row[f]

\* A row is written at most twice: a resolved row is never touched again, and
\* resolving a handoff changes nothing of it but the outcome.
ResolvedOnce ==
    [][ \A id \in Ids : (RowOf(id) # None /\ RowOf(id)' # RowOf(id)) => Resolves(RowOf(id), RowOf(id)') ]_vars

OutcomesById ==
    [id \in Ids |-> IF id \in HandoffIds THEN HandoffOutcomes
                    ELSE IF id \in InterruptIds THEN InterruptOutcomes
                    ELSE PermissionOutcomes]

\* The events whose entries were announced.
Told == {e.version : e \in {w \in wire : w.subject \in Ids}}

Log == INSTANCE EventLog WITH
           Entities <- Ids, OutcomesOf <- OutcomesById, Actors <- Names \cup {System},
           log <- events, told <- Told

\* The ledger implements the abstract event log.
ImplementsEventLog == Log!Spec

\* A handoff whose TTL has passed does not stay pending: the sweep gets to it
\* even if the hub crashes in the middle of one.
OverdueIsResolved ==
    \A id \in HandoffIds :
        Due(handoffs[id]) ~> (handoffs[id] # None /\ handoffs[id].status # "pending")

=============================================================================
