------------------------------ MODULE EventLog ------------------------------
(***************************************************************************)
(* What the ledger promises its readers, without tables, handlers, rooms   *)
(* or crashes: a log that only grows, in which every entity is opened once *)
(* and closed at most once, and announcements of log entries that are made *)
(* in log order.  An announcement may be skipped, never invented.          *)
(***************************************************************************)
EXTENDS Naturals, Sequences

CONSTANTS
    Entities,       \* ids
    OutcomesOf,     \* the terminal statuses of each entity
    Actors          \* who may sign an event

VARIABLES
    log,    \* sequence of [id, status, actor]
    told    \* positions of the log that were announced

History(id) == {i \in DOMAIN log : log[i].id = id}

IsOpen(id) == \E i \in DOMAIN log : History(id) = {i} /\ log[i].status = "pending"

Init == log = <<>> /\ told = {}

Open(id, actor) ==
    /\ log' = Append(log, [id |-> id, status |-> "pending", actor |-> actor])
    /\ History(id) = {}
    /\ UNCHANGED told

Close(id, outcome, actor) ==
    /\ log' = Append(log, [id |-> id, status |-> outcome, actor |-> actor])
    /\ IsOpen(id)
    /\ UNCHANGED told

Announce(i) ==
    /\ \A j \in told : j < i
    /\ told' = told \cup {i}
    /\ UNCHANGED log

Next ==
    \/ \E id \in Entities, actor \in Actors :
          \/ Open(id, actor)
          \/ \E outcome \in OutcomesOf[id] : Close(id, outcome, actor)
    \/ \E i \in DOMAIN log : Announce(i)

Spec == Init /\ [][Next]_<<log, told>>
=============================================================================
