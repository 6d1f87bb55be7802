------------------------------ MODULE MCLedger ------------------------------
(* Instances of Ledger for TLC.  Each run covers two cases of the ledger, *)
(* cut out of one state space by a constraint on the states.              *)
EXTENDS Ledger, TLC

CONSTANTS r1, r2, h1, h2, i1, i2

IdSymmetry == Permutations(HandoffIds)

NoRowsOf(rows) == \A id \in DOMAIN rows : rows[id] = None

\* Two handoffs that are accepted, declined, cancelled and swept, with a crash,
\* or that edit the nutshells of two rooms.
Racing ==
    /\ \A n \in Names : roomOf[n] # r2
    /\ \A id \in HandoffIds : handoffs[id] # None => handoffs[id].proposal = None
Editing ==
    /\ now = 0 /\ crashes = 0
    /\ \A id \in HandoffIds : handoffs[id] # None => handoffs[id].proposal # None
RacingOrEditing == Racing \/ Editing

\* The ids of a kind are interchangeable: the first to be used is the first.
IdsInOrder ==
    /\ handoffs[h2] # None => handoffs[h1] # None
    /\ interrupts[i2] # None => interrupts[i1] # None

\* Two interrupts and a permission, with a crash as long as only interrupts were
\* sent; or two handoffs that are left to the sweep, with a crash: it does not
\* look at the parties, so the human hands off to itself.
Mixing ==
    /\ NoRowsOf(handoffs) /\ now = 0
    /\ crashes = 0 \/ NoRowsOf(permissions)
Sweeping ==
    /\ NoRowsOf(interrupts) /\ NoRowsOf(permissions)
    /\ \A a \in Agents : roomOf[a] = Absent
MixingOrSweeping == IdsInOrder /\ (Mixing \/ Sweeping)
=============================================================================
