--------------------------- MODULE DesktopProofs ---------------------------
(***************************************************************************)
(* Proofs about Desktop, for any bounds and any scenes: first the clients  *)
(* of the desktop shell, then the tab and its flows, then the user's       *)
(* dialog, then the composer, and last the picture of a watched session.   *)
(* Each part is inductive beside the ones before it.                       *)
(***************************************************************************)
EXTENDS Desktop, WellFoundedInduction, TLAPS

USE BoundsAssumption, NoneAssumption

-----------------------------------------------------------------------------
(* The clients of the desktop shell. *)

Client == [of : 1 .. MaxSessions, phase : {"reading", "told", "gone"}]

\* The client in the registry has not met its end yet.
Reading == handle # 0 /\ readers[handle].phase = "reading"

\* The sessions and clients have their types, the registry holds the one client
\* that runs, and each exit event is that of a client that ended.
RustInv ==
    /\ born \in 0 .. MaxSessions /\ session \in {0, born}
    /\ readers \in Seq(Client) /\ Len(readers) <= MaxClients
    /\ \A n \in 1 .. Len(readers) : readers[n].of <= born
    /\ handle \in 0 .. Len(readers)
    /\ OneClient
    /\ exits \in Nat /\ exits <= Len(readers) /\ (Reading => exits < Len(readers))

\* What a step does to them: nothing but that an exit may be heard, ...
ExitOrNothing == UNCHANGED rustVars /\ (exits' = exits \/ (exits > 0 /\ exits' = exits - 1))
\* ... the session ends or comes without a client, or with one, ...
SessionOnly ==
    /\ UNCHANGED <<readers, handle, exits>>
    /\ \/ session' = 0 /\ born' = born
       \/ born < MaxSessions /\ session' = born + 1 /\ born' = born + 1
ClientComes ==
    /\ handle = 0
    /\ CreateOrAttach
    /\ UNCHANGED exits
\* ... or a reader thread moves.
ReaderMoves == \E n \in DOMAIN readers : ReaderEnds(n) \/ ReaderRemoves(n)

\* The timeout of a kill runs.
TimerFires == \E timer \in killTimers : KillTimerFires(timer)

LEMMA RustSteps ==
    ASSUME Next
    PROVE  ExitOrNothing \/ SessionOnly \/ ClientComes \/ ReaderMoves
<1> DEFINE Goal == ExitOrNothing \/ SessionOnly \/ ClientComes \/ ReaderMoves
<1>1. CASE Dies
  BY <1>1 DEF Dies, SessionEnds, SessionOnly
<1>2. CASE ReaderMoves
  BY <1>2
<1>3. ASSUME NEW f \in DOMAIN flows, PtySpawn(f) \/ PtySpawnShell(f) PROVE Goal
  BY <1>3 DEF PtySpawn, PtySpawnShell, CreateOnly, ExitOrNothing, SessionOnly, ClientComes, rustVars
<1>4. ASSUME NEW f \in DOMAIN flows,
             \/ StartupAsks(f) \/ StartupAnswered(f) \/ Spawned(f) \/ LaunchFailed(f)
             \/ AttachFailed(f) \/ OutputListens(f) \/ ExitListens(f) \/ Heal(f)
      PROVE Goal
  BY <1>4 DEF StartupAsks, StartupAnswered, Spawned, LaunchFailed, AttachFailed,
              OutputListens, ExitListens, Heal, ExitOrNothing
<1>5. CASE ExitHeard \/ Interval \/ RosterChanges \/ Toggle \/ Launch \/ KillClicked
  BY <1>5 DEF ExitHeard, Interval, RosterChanges, Toggle, Launch, KillClicked, ExitOrNothing
<1>6. ASSUME NEW k \in DOMAIN scans, ScanAsked(k) \/ ScanAnswered(k) PROVE Goal
  BY <1>6 DEF ScanAsked, ScanAnswered, ExitOrNothing
<1>7. ASSUME NEW ok \in BOOLEAN, AnswerKill(ok) PROVE Goal
  BY <1>7 DEF AnswerKill, ExitOrNothing
<1>8. CASE TimerFires
  BY <1>8 DEF TimerFires, KillTimerFires, SessionEnds, ExitOrNothing, SessionOnly, rustVars
<1>9. CASE ComposerNext
  BY <1>9 DEF ComposerNext, Write, Post, Slash, ShiftTab, AnswerSend, Healed, Typed, Entered,
              Answered, terminalVars, ExitOrNothing, rustVars
<1> QED
  BY <1>1, <1>2, <1>3, <1>4, <1>5, <1>6, <1>7, <1>8, <1>9 DEF Next, TerminalsNext, ReaderMoves, TimerFires

LEMMA ClientTyped ==
    ASSUME NEW rs \in Seq(Client), NEW n \in 1 .. Len(rs)
    PROVE  rs[n] \in Client /\ rs[n].of \in Nat /\ rs[n].of \in 1 .. MaxSessions
<1>1. rs[n] \in Client
  OBVIOUS
<1> QED
  BY <1>1 DEF Client

\* The client that runs is the one in the registry.
LEMMA RunningIsHandle ==
    RustInv => \A n \in 1 .. Len(readers) : readers[n].phase # "gone" <=> n = handle /\ handle # 0
  BY DEF RustInv, OneClient, Running

LEMMA RustStep ==
    ASSUME RustInv, Next
    PROVE  RustInv' /\ born <= born'
<1> USE DEF RustInv
<1>r. \A n \in 1 .. Len(readers) : readers[n].phase # "gone" <=> n = handle /\ handle # 0
  BY RunningIsHandle
<1> DEFINE Only == \A n \in 1 .. Len(readers') :
                       readers'[n].phase # "gone" <=> n = handle' /\ handle' # 0
<1>o. ASSUME Only, readers' \in Seq(Client), handle' \in 0 .. Len(readers') PROVE OneClient'
  BY <1>o DEF OneClient, Running
<1>1. CASE ExitOrNothing
  <2>1. UNCHANGED <<session, born, readers, handle>>
    BY <1>1 DEF ExitOrNothing, rustVars
  <2>2. OneClient' /\ (Reading' <=> Reading)
    BY <2>1 DEF OneClient, Running, Reading
  <2> QED
    BY <1>1, <2>1, <2>2 DEF ExitOrNothing
<1>2. CASE SessionOnly
  <2>1. UNCHANGED <<readers, handle, exits>>
    BY <1>2 DEF SessionOnly
  <2>2. OneClient' /\ (Reading' <=> Reading)
    BY <2>1 DEF OneClient, Running, Reading
  <2>3. born' \in 0 .. MaxSessions /\ session' \in {0, born'} /\ born <= born'
    BY <1>2 DEF SessionOnly
  <2>4. \A n \in 1 .. Len(readers) : readers[n].of \in Nat
    BY ClientTyped
  <2>5. \A n \in 1 .. Len(readers) : readers[n].of <= born'
    BY <2>3, <2>4
  <2>6. \A n \in 1 .. Len(readers') : readers'[n].of <= born'
    BY <2>1, <2>5
  <2> QED
    BY <2>1, <2>2, <2>3, <2>6
<1>3. CASE ClientComes
  <2>1. PICK s \in 1 .. MaxSessions :
            /\ Attach(s)
            /\ s <= born' /\ born' \in 0 .. MaxSessions /\ session' \in {0, born'} /\ born <= born'
    <3>1. CASE session # 0
      <4>1. Attach(session) /\ UNCHANGED <<session, born>> /\ session = born
        BY <1>3, <3>1 DEF ClientComes, CreateOrAttach
      <4> QED
        BY <3>1, <4>1
    <3>2. CASE session = 0
      <4>1. Attach(born + 1) /\ born < MaxSessions /\ session' = born + 1 /\ born' = born + 1
        BY <1>3, <3>2 DEF ClientComes, CreateOrAttach
      <4> QED
        BY <4>1
    <3> QED
      BY <3>1, <3>2
  <2>2. /\ handle = 0 /\ exits' = exits /\ Len(readers) < MaxClients
        /\ readers' = Append(readers, [of |-> s, phase |-> "reading"])
        /\ handle' = Len(readers) + 1
    BY <1>3, <2>1 DEF ClientComes, Attach
  <2>3. [of |-> s, phase |-> "reading"] \in Client
    BY DEF Client
  <2>4. /\ readers' \in Seq(Client) /\ Len(readers') = Len(readers) + 1
        /\ \A n \in 1 .. Len(readers) : readers'[n] = readers[n]
        /\ readers'[Len(readers) + 1] = [of |-> s, phase |-> "reading"]
    BY <2>2, <2>3
  <2>5. Only
    BY <1>r, <2>1, <2>2, <2>4
  <2>6. \A n \in 1 .. Len(readers') : readers'[n].of <= born'
    <3> SUFFICES ASSUME NEW n \in 1 .. Len(readers') PROVE readers'[n].of <= born'
      OBVIOUS
    <3>1. CASE n = Len(readers) + 1
      BY <2>1, <2>4, <3>1
    <3>2. CASE n \in 1 .. Len(readers)
      <4>1. readers[n].of \in Nat
        BY <3>2, ClientTyped
      <4> QED
        BY <2>1, <2>4, <3>2, <4>1
    <3> QED
      BY <2>4, <3>1, <3>2
  <2> QED
    BY <1>o, <2>1, <2>2, <2>4, <2>5, <2>6
<1>4. CASE ReaderMoves
  <2>1. PICK n \in DOMAIN readers : ReaderEnds(n) \/ ReaderRemoves(n)
    BY <1>4 DEF ReaderMoves
  <2>2. n \in 1 .. Len(readers) /\ readers[n] \in Client
    BY <2>1
  <2>3. PICK phase \in {"told", "gone"} : readers' = [readers EXCEPT ![n].phase = phase]
    BY <2>1 DEF ReaderEnds, ReaderRemoves
  <2>4. /\ readers' \in Seq(Client) /\ Len(readers') = Len(readers)
        /\ \A m \in 1 .. Len(readers) : readers'[m].of = readers[m].of
        /\ \A m \in 1 .. Len(readers) : m # n => readers'[m] = readers[m]
        /\ readers'[n].phase = phase
    <3>1. [readers[n] EXCEPT !.phase = phase] \in Client
      BY <2>2, <2>3 DEF Client
    <3>2. readers' = [readers EXCEPT ![n] = [readers[n] EXCEPT !.phase = phase]]
      BY <2>2, <2>3
    <3>3. readers' \in Seq(Client) /\ Len(readers') = Len(readers)
      BY <2>2, <3>1, <3>2
    <3>4. [readers[n] EXCEPT !.phase = phase].phase = phase
      BY <2>2 DEF Client
    <3>5. [readers[n] EXCEPT !.phase = phase].of = readers[n].of
      BY <2>2 DEF Client
    <3>6. readers'[n] = [readers[n] EXCEPT !.phase = phase]
      BY <2>2, <3>2
    <3>7. \A m \in 1 .. Len(readers) : m # n => readers'[m] = readers[m]
      BY <3>2
    <3> QED
      BY <3>3, <3>4, <3>5, <3>6, <3>7
  <2>5. UNCHANGED <<session, born>> /\ n = handle
    BY <1>r, <2>1, <2>2 DEF ReaderEnds, ReaderRemoves
  <2>6. CASE ReaderEnds(n)
    <3>1. phase = "told" /\ handle' = handle /\ exits' = exits + 1 /\ Reading
      BY <2>2, <2>3, <2>4, <2>5, <2>6 DEF ReaderEnds, Reading, Client
    <3>2. Only /\ ~Reading'
      BY <1>r, <2>4, <2>5, <3>1 DEF Reading
    <3> QED
      BY <1>o, <2>4, <2>5, <3>1, <3>2
  <2>7. CASE ReaderRemoves(n)
    <3>1. phase = "gone" /\ handle' = 0 /\ exits' = exits
      BY <2>2, <2>3, <2>4, <2>7 DEF ReaderRemoves, Client
    <3>2. Only /\ ~Reading'
      BY <1>r, <2>4, <2>5, <3>1 DEF Reading
    <3> QED
      BY <1>o, <2>4, <2>5, <3>1, <3>2
  <2> QED
    BY <2>1, <2>6, <2>7
<1> QED
  BY <1>1, <1>2, <1>3, <1>4, RustSteps

-----------------------------------------------------------------------------
(* The tab and its flows. *)

Pending == {"spawning", "spawned", "attached", "failed"}

\* A tab and flows that fit: a flow that registers the listeners of the tab has
\* one, and a tab that shows a launch has one on its way.
Fit(t, fs, sessions) ==
    /\ t \in {None} \cup Tabs(sessions)
    /\ fs \in [1 .. MaxFlows -> {None} \cup Flows]
    /\ \A f \in 1 .. MaxFlows :
          fs[f] # None /\ fs[f].stage \in {"output", "exit"} /\ fs[f].mine => t # None
    /\ t # None /\ t.state = "launching" =>
          \E f \in 1 .. MaxFlows : fs[f] # None /\ fs[f].stage \in Pending

\* The first free slot is one.
LEMMA FirstFree ==
    ASSUME NEW slots, DOMAIN slots = 1 .. MaxFlows, FreeIn(slots) # {}
    PROVE  Min(FreeIn(slots)) \in 1 .. MaxFlows /\ slots[Min(FreeIn(slots))] = None
<1> DEFINE S == FreeIn(slots)
<1>1. S \subseteq Nat /\ S \subseteq 1 .. MaxFlows /\ \A n \in S : slots[n] = None
  BY DEF FreeIn
<1>2. IsWellFoundedOn({ss \in Nat \X Nat : ss[1] < ss[2]}, Nat)
  BY NatLessThanWellFounded DEF OpToRel
<1> HIDE DEF S
<1>3. PICK x \in S : \A y \in S : ~ (<<y, x>> \in {ss \in Nat \X Nat : ss[1] < ss[2]})
  BY <1>1, <1>2, WFMin DEF S
<1>4. \A y \in S : ~(y < x)
  BY <1>1, <1>3
<1>5. \A y \in S : x <= y
  BY <1>1, <1>4
<1>6. Min(S) \in S
  BY <1>5 DEF Min
<1> QED
  BY <1>1, <1>6 DEF S

\* More sessions do no harm.
LEMMA FitsMore ==
    ASSUME NEW a \in Nat, NEW b \in Nat, a <= b, NEW t, NEW fs, Fit(t, fs, a)
    PROVE  Fit(t, fs, b)
<1>1. Tabs(a) \subseteq Tabs(b)
  BY DEF Tabs
<1> QED
  BY <1>1 DEF Fit

LEMMA NewTabs ==
    ASSUME NEW b \in 0 .. MaxSessions, NEW t \in {None} \cup Tabs(b)
    PROVE  /\ Ensured(t) \in Tabs(b) /\ Ensured(t) # None
           /\ \A state \in {"external", "launching", "live"} :
                 /\ InState(t, state) \in {None} \cup Tabs(b)
                 /\ t # None => InState(t, state) # None /\ InState(t, state).state = state
                 /\ t = None => InState(t, state) = None
<1>1. Tabs(b) \subseteq Tabs(MaxSessions)
  BY DEF Tabs
<1>2. None \notin Tabs(b)
  BY <1>1
<1>3. NewTab \in Tabs(b)
  BY DEF NewTab, Tabs
<1>4. \A state \in {"external", "launching", "live"}, u \in Tabs(b) :
          [u EXCEPT !.state = state] \in Tabs(b) /\ [u EXCEPT !.state = state].state = state
  BY DEF Tabs
<1> QED
  BY <1>2, <1>3, <1>4 DEF Ensured, InState

LEMMA NewFlows ==
    \A kind \in Kinds, stage \in Stages :
        Flow(kind, stage) \in Flows /\ Flow(kind, stage) # None /\ Flow(kind, stage).stage = stage
<1> SUFFICES ASSUME NEW kind \in Kinds, NEW stage \in Stages
             PROVE  /\ Flow(kind, stage) \in Flows /\ Flow(kind, stage) # None
                    /\ Flow(kind, stage).stage = stage
  OBVIOUS
<1>1. Flow(kind, stage) \in Flows
  BY DEF Flow, Flows
<1>2. Flow(kind, stage).stage = stage
  BY DEF Flow
<1>3. None \notin Flows
  OBVIOUS
<1> QED
  BY <1>1, <1>2, <1>3

\* A tab is marked as launching and its flow started.
LEMMA LaunchFits ==
    ASSUME NEW b \in 0 .. MaxSessions, NEW t, NEW fs, Fit(t, fs, b), FreeIn(fs) # {},
           NEW kind \in Kinds, NEW u \in {t, Ensured(t)}
    PROVE  Fit(InState(u, "launching"), Started(fs, kind), b)
<1> DEFINE n == Min(FreeIn(fs))
           new == Flow(kind, "spawning")
<1>1. n \in 1 .. MaxFlows /\ fs[n] = None
  BY FirstFree DEF Fit
<1>2. new \in Flows /\ new # None /\ new.stage = "spawning"
  BY NewFlows DEF Stages
<1>3. /\ InState(u, "launching") \in {None} \cup Tabs(b)
      /\ t # None => InState(u, "launching") # None
  BY NewTabs DEF Fit
<1> HIDE DEF n, new
<1>4. Started(fs, kind) = [fs EXCEPT ![n] = new]
  BY DEF Started, n, new
<1>5. Started(fs, kind) \in [1 .. MaxFlows -> {None} \cup Flows]
  BY <1>1, <1>2, <1>4 DEF Fit
<1>6. Started(fs, kind)[n] = new /\ \A f \in 1 .. MaxFlows : f # n => Started(fs, kind)[f] = fs[f]
  BY <1>1, <1>4 DEF Fit
<1> QED
  BY <1>1, <1>2, <1>3, <1>5, <1>6 DEF Fit, Pending

\* The tab goes, and the flows that register its listeners are told.
LEMMA RemovalFits ==
    ASSUME NEW b, NEW t, NEW fs, Fit(t, fs, b)
    PROVE  Fit(None, WithoutTab(fs), b)
<1> DEFINE new == WithoutTab(fs)
           told == {f \in 1 .. MaxFlows : fs[f] # None /\ fs[f].stage \in {"output", "exit"}}
<1>1. DOMAIN new = 1 .. MaxFlows
  BY DEF WithoutTab, Fit
<1>2. \A f \in 1 .. MaxFlows : new[f] = IF f \in told THEN [fs[f] EXCEPT !.mine = FALSE] ELSE fs[f]
  BY DEF WithoutTab, Fit
<1>3. \A f \in told : fs[f] \in Flows
  BY DEF Fit
<1>4. \A f \in told : [fs[f] EXCEPT !.mine = FALSE] \in Flows /\ ~[fs[f] EXCEPT !.mine = FALSE].mine
  BY <1>3 DEF Flows
<1>5. \A f \in 1 .. MaxFlows : new[f] \in {None} \cup Flows
  BY <1>2, <1>4 DEF Fit
<1>6. new \in [1 .. MaxFlows -> {None} \cup Flows]
  BY <1>1, <1>5 DEF WithoutTab
<1>7. \A f \in 1 .. MaxFlows : ~(new[f] # None /\ new[f].stage \in {"output", "exit"} /\ new[f].mine)
  BY <1>2, <1>4
<1> QED
  BY <1>6, <1>7 DEF Fit

\* A flow goes on or ends, and the tab with it.
LEMMA FlowFits ==
    ASSUME NEW b, NEW t, NEW fs, Fit(t, fs, b),
           NEW f \in 1 .. MaxFlows, NEW new \in {None} \cup Flows, NEW u \in {None} \cup Tabs(b),
           t # None => u # None,
           new # None /\ new.stage \in {"output", "exit"} /\ new.mine => u # None,
           u # None /\ u.state = "launching" =>
               \/ new # None /\ new.stage \in Pending
               \/ t # None /\ t.state = "launching" /\ ~(fs[f] # None /\ fs[f].stage \in Pending)
    PROVE  Fit(u, [fs EXCEPT ![f] = new], b)
<1> DEFINE gs == [fs EXCEPT ![f] = new]
<1>1. gs \in [1 .. MaxFlows -> {None} \cup Flows]
  BY DEF Fit
<1>2. gs[f] = new /\ \A g \in 1 .. MaxFlows : g # f => gs[g] = fs[g]
  BY DEF Fit
<1> HIDE DEF gs
<1>3. Fit(u, gs, b)
  BY <1>1, <1>2 DEF Fit
<1> QED
  BY <1>3 DEF gs

\* What is switched, and the tab with its flows.
PageInv ==
    /\ isShell \in BOOLEAN /\ pane \in BOOLEAN /\ onRoster \in BOOLEAN /\ stray \in BOOLEAN
    /\ Fit(tab, flows, born)

LEMMA Repaints ==
    ASSUME RustInv, Fit(tab, flows, born)
    PROVE  /\ Repainted(tab) \in {None} \cup Tabs(born)
           /\ Repainted(tab) = None <=> tab = None
           /\ tab # None => Repainted(tab).state = tab.state
<1>1. CASE Repainted(tab) = tab
  BY <1>1 DEF Fit
<1>2. CASE tab # None /\ Repainted(tab) = [tab EXCEPT !.painted = session]
  <2>1. tab \in Tabs(born) /\ session \in 0 .. born
    BY <1>2 DEF Fit, RustInv
  <2>2. Repainted(tab) \in Tabs(born) /\ Repainted(tab).state = tab.state
    BY <1>2, <2>1 DEF Tabs
  <2>3. Tabs(born) \subseteq Tabs(MaxSessions)
    BY DEF Tabs, RustInv
  <2> QED
    BY <1>2, <2>2, <2>3
<1> QED
  BY <1>1, <1>2 DEF Repainted

\* The awaits of a flow.
LEMMA FlowStepFits ==
    ASSUME RustInv, Fit(tab, flows, born), NEW f \in DOMAIN flows,
           \/ PtySpawn(f) \/ PtySpawnShell(f) \/ StartupAsks(f) \/ StartupAnswered(f)
           \/ Spawned(f) \/ LaunchFailed(f) \/ AttachFailed(f)
           \/ OutputListens(f) \/ ExitListens(f) \/ Heal(f)
    PROVE  Fit(tab', flows', born)
<1> born \in 0 .. MaxSessions
  BY DEF RustInv
<1> DEFINE kind == flows[f].kind
           stage == flows[f].stage
           At(to) == [flows[f] EXCEPT !.stage = to]
<1>1. f \in 1 .. MaxFlows /\ flows[f] \in Flows /\ flows[f] # None
  <2>1. f \in 1 .. MaxFlows /\ flows[f] \in {None} \cup Flows
    BY DEF Fit
  <2>2. Flow("startup", "asking") # None
    BY NewFlows DEF Kinds, Stages
  <2>3. flows[f] # None
    BY <2>2 DEF PtySpawn, PtySpawnShell, StartupAsks, StartupAnswered, Spawned, LaunchFailed,
                AttachFailed, OutputListens, ExitListens, Heal
  <2> QED
    BY <2>1, <2>3
<1>2. tab \in {None} \cup Tabs(born) /\ None \notin Tabs(born)
  BY DEF Fit, Tabs
<1>3. \A to \in Stages : At(to) \in Flows /\ At(to) # None /\ At(to).stage = to
                         /\ At(to).mine = flows[f].mine
  <2>1. \A to \in Stages : At(to) \in Flows /\ At(to).stage = to /\ At(to).mine = flows[f].mine
    BY <1>1 DEF Flows
  <2> QED
    BY <2>1
<1>4. CASE PtySpawn(f) \/ PtySpawnShell(f)
  <2>1. PICK to \in Pending : flows' = [flows EXCEPT ![f].stage = to] /\ tab' = tab
    BY <1>4 DEF PtySpawn, PtySpawnShell, Pending
  <2>2. flows' = [flows EXCEPT ![f] = At(to)]
    BY <2>1
  <2>3. to \in Stages /\ to \notin {"output", "exit"}
    BY DEF Pending, Stages
  <2>4. At(to) \in Flows /\ At(to) # None /\ At(to).stage = to
    BY <1>3, <2>3
  <2> HIDE DEF At
  <2>5. At(to) \in {None} \cup Flows /\ At(to).stage \in Pending
    BY <2>4
  <2>6. Fit(tab, [flows EXCEPT ![f] = At(to)], born)
    BY <1>1, <1>2, <2>3, <2>4, <2>5, FlowFits
  <2> QED
    BY <2>1, <2>2, <2>6
<1>5. CASE StartupAsks(f)
  <2>1. PICK to \in {"found", "missing"} : flows' = [flows EXCEPT ![f].stage = to] /\ tab' = tab
    BY <1>5 DEF StartupAsks
  <2>2. flows' = [flows EXCEPT ![f] = At(to)]
    BY <2>1
  <2>3. to \in Stages /\ to \notin {"output", "exit"}
    BY DEF Stages
  <2>4. At(to) \in Flows /\ At(to) # None /\ At(to).stage = to
    BY <1>3, <2>3
  <2>5. stage \notin Pending
    BY <1>5 DEF StartupAsks, Flow, Pending
  <2> HIDE DEF At
  <2>6. At(to) \in {None} \cup Flows
    BY <2>4
  <2>7. Fit(tab, [flows EXCEPT ![f] = At(to)], born)
    BY <1>1, <1>2, <2>3, <2>4, <2>5, <2>6, FlowFits
  <2> QED
    BY <2>1, <2>2, <2>7
<1>6. CASE StartupAnswered(f)
  <2> DEFINE rest == [flows EXCEPT ![f] = None]
  <2>1. stage \in {"found", "missing"}
    BY <1>6 DEF StartupAnswered
  <2>2. Fit(tab, rest, born)
    BY <1>1, <1>2, <2>1, FlowFits DEF Pending
  <2>3. CASE tab' = tab /\ flows' = rest
    BY <2>2, <2>3
  <2>4. CASE tab' = InState(Ensured(tab), "launching") /\ flows' = Started(rest, "shell")
    <3>1. FreeIn(rest) # {} /\ "shell" \in Kinds
      BY <1>1 DEF FreeIn, Kinds, Fit
    <3> HIDE DEF rest
    <3> QED
      BY <2>2, <2>4, <3>1, LaunchFits
  <2> QED
    BY <1>6, <2>3, <2>4 DEF StartupAnswered
<1>7. CASE Spawned(f)
  <2>1. CASE tab = None
    <3>1. flows' = [flows EXCEPT ![f] = At("heal")] /\ tab' = tab
      BY <1>7, <2>1 DEF Spawned
    <3>2. /\ At("heal") \in Flows /\ At("heal").stage = "heal"
      BY <1>3 DEF Stages
    <3> HIDE DEF At
    <3> QED
      BY <1>1, <1>2, <2>1, <3>1, <3>2, FlowFits
  <2>2. CASE tab # None
    <3> DEFINE new == [flows[f] EXCEPT !.stage = "output", !.mine = TRUE]
    <3>1. flows' = [flows EXCEPT ![f] = new]
      <4>1. flows' = [flows EXCEPT ![f].stage = "output", ![f].mine = TRUE]
        BY <1>7, <2>2 DEF Spawned
      <4>2. DOMAIN flows = 1 .. MaxFlows
        BY DEF Fit
      <4> QED
        BY <1>1, <4>1, <4>2
    <3>2. new \in Flows
      BY <1>1 DEF Flows, Stages
    <3>3. tab' = [tab EXCEPT !.state = "live", !.output = FALSE, !.exit = FALSE]
      BY <1>7, <2>2 DEF Spawned
    <3>4. tab' \in Tabs(born) /\ tab'.state = "live"
      BY <1>2, <2>2, <3>3 DEF Tabs
    <3>5. tab' # None
      BY <1>2, <3>4
    <3> HIDE DEF new
    <3> QED
      BY <1>1, <3>1, <3>2, <3>4, <3>5, FlowFits
  <2> QED
    BY <2>1, <2>2
<1>8. CASE LaunchFailed(f)
  <2> DEFINE rest == [flows EXCEPT ![f] = None]
  <2>1. Fit(None, WithoutTab(rest), born)
    <3>1. \A g \in 1 .. MaxFlows : rest[g] = IF g = f THEN None ELSE flows[g]
      BY <1>1 DEF Fit
    <3>2. rest \in [1 .. MaxFlows -> {None} \cup Flows]
      BY <1>1 DEF Fit
    <3>3. Fit(IF tab = None THEN None ELSE InState(tab, "live"), rest, born)
      <4> HIDE DEF rest
      <4> QED
        BY <1>1, <1>2, <3>1, <3>2, NewTabs DEF Fit
    <3> QED
      BY <3>3, RemovalFits
  <2> QED
    BY <1>8, <2>1 DEF LaunchFailed
<1>9. CASE AttachFailed(f)
  <2>1. PICK state \in {"live", "external"} : tab' = InState(tab, state)
    BY <1>9 DEF AttachFailed
  <2>2. flows' = [flows EXCEPT ![f] = None]
    BY <1>9 DEF AttachFailed
  <2>3. /\ tab' \in {None} \cup Tabs(born)
        /\ tab # None => tab' # None /\ tab'.state = state
        /\ tab = None => tab' = None
    BY <1>2, <2>1, NewTabs
  <2> QED
    BY <1>1, <2>2, <2>3, FlowFits
<1>10. CASE OutputListens(f)
  <2>1. flows' = [flows EXCEPT ![f] = At("exit")] /\ stage = "output"
    BY <1>10 DEF OutputListens
  <2>2. flows[f].mine => tab # None
    BY <1>1, <2>1 DEF Fit
  <2>3. /\ tab' \in {None} \cup Tabs(born) /\ (tab # None => tab' # None)
        /\ tab' # None => tab # None /\ tab'.state = tab.state
    <3>1. CASE tab' = tab
      BY <1>2, <3>1
    <3>2. CASE flows[f].mine /\ tab' = [tab EXCEPT !.output = TRUE]
      <4>1. tab \in Tabs(born)
        BY <1>2, <2>2, <3>2
      <4>2. tab' \in Tabs(born) /\ tab'.state = tab.state
        BY <3>2, <4>1 DEF Tabs
      <4> QED
        BY <1>2, <4>1, <4>2
    <3> QED
      BY <1>10, <3>1, <3>2 DEF OutputListens
  <2>4. At("exit").mine => tab' # None
    BY <1>3, <2>2, <2>3 DEF Stages
  <2>5. At("exit") \in Flows
    BY <1>3 DEF Stages
  <2> HIDE DEF At
  <2> QED
    BY <1>1, <2>1, <2>3, <2>4, <2>5, FlowFits DEF Pending
<1>11. CASE ExitListens(f)
  <2>1. stage = "exit" /\ (flows[f].mine => tab # None)
    BY <1>1, <1>11 DEF ExitListens, Fit
  <2>2. PICK new \in {None, Flow(kind, "heal")} : flows' = [flows EXCEPT ![f] = new]
    BY <1>11 DEF ExitListens
  <2>3. new \in {None} \cup Flows /\ (new # None => new.stage = "heal")
    BY <1>1, <2>2, NewFlows DEF Flows, Stages
  <2>4. /\ tab' \in {None} \cup Tabs(born) /\ (tab # None => tab' # None)
        /\ tab' # None => tab # None /\ tab'.state = tab.state
    <3>1. CASE tab' = tab
      BY <1>2, <3>1
    <3>2. CASE flows[f].mine /\ tab' = [tab EXCEPT !.exit = TRUE]
      <4>1. tab \in Tabs(born)
        BY <1>2, <2>1, <3>2
      <4>2. tab' \in Tabs(born) /\ tab'.state = tab.state
        BY <3>2, <4>1 DEF Tabs
      <4> QED
        BY <1>2, <4>1, <4>2
    <3> QED
      BY <1>11, <3>1, <3>2 DEF ExitListens
  <2> QED
    BY <1>1, <2>1, <2>2, <2>3, <2>4, FlowFits DEF Pending
<1>12. CASE Heal(f)
  <2>1. flows' = [flows EXCEPT ![f] = None] /\ tab' = Repainted(tab) /\ stage = "heal"
    BY <1>12 DEF Heal
  <2>2. /\ tab' \in {None} \cup Tabs(born) /\ (tab' = None <=> tab = None)
        /\ tab # None => tab'.state = tab.state
    BY <2>1, Repaints
  <2> QED
    BY <1>1, <2>1, <2>2, FlowFits DEF Pending
<1> QED
  BY <1>4, <1>5, <1>6, <1>7, <1>8, <1>9, <1>10, <1>11, <1>12

\* A reconcile goes on.
LEMMA ScanStepFits ==
    ASSUME RustInv, Fit(tab, flows, born), NEW k \in DOMAIN scans, ScanAnswered(k)
    PROVE  Fit(tab', flows', born)
<1> DEFINE wanted == scans[k].roster \/ scans[k].found = "yes"
           kept == IF wanted THEN Ensured(tab) ELSE IF Idle(tab) THEN None ELSE tab
           attaches == scans[k].found = "yes" /\ kept.state = "external"
<1> born \in 0 .. MaxSessions
  BY DEF RustInv
<1>1. CASE attaches
  <2>1. kept = Ensured(tab)
    BY <1>1
  <2>2. /\ FreeIn(flows) # {} /\ tab' = InState(Ensured(tab), "launching")
        /\ flows' = Started(flows, "attach")
    BY <1>1, <2>1 DEF ScanAnswered
  <2> QED
    BY <2>2, LaunchFits DEF Kinds
<1>2. CASE ~attaches /\ kept = None
  <2>1. tab' = None /\ flows' = WithoutTab(flows)
    BY <1>2 DEF ScanAnswered
  <2> QED
    BY <2>1, RemovalFits
<1>3. CASE ~attaches /\ kept # None
  <2>1. tab' = kept /\ flows' = flows
    BY <1>3 DEF ScanAnswered
  <2>2. tab \in {None} \cup Tabs(born)
    BY DEF Fit
  <2>3. kept = tab \/ (tab = None /\ kept = NewTab)
    BY <1>3 DEF Ensured
  <2>4. CASE kept = tab
    BY <2>1, <2>4
  <2>5. CASE tab = None /\ kept = NewTab
    <3>1. NewTab \in Tabs(born) /\ NewTab.state = "external"
      BY DEF NewTab, Tabs
    <3> QED
      BY <2>1, <2>5, <3>1 DEF Fit
  <2> QED
    BY <2>3, <2>4, <2>5
<1> QED
  BY <1>1, <1>2, <1>3

\* The switches stay switches.
LEMMA SwitchStep ==
    ASSUME PageInv, Next
    PROVE  /\ isShell' \in BOOLEAN /\ pane' \in BOOLEAN
           /\ onRoster' \in BOOLEAN /\ stray' \in BOOLEAN
<1> DEFINE Goal == /\ isShell' = isShell
                   /\ pane' = pane \/ pane' \in BOOLEAN
                   /\ onRoster' = onRoster \/ onRoster' \in BOOLEAN
                   /\ stray' = stray \/ stray' \in BOOLEAN
<1>1. ASSUME Dies \/ ExitHeard \/ Interval \/ RosterChanges \/ Toggle \/ Launch \/ KillClicked PROVE Goal
  BY <1>1 DEF Dies, ExitHeard, Interval, RosterChanges, Toggle, Launch, KillClicked, pageVars
<1>2. ASSUME ReaderMoves PROVE Goal
  BY <1>2 DEF ReaderMoves, ReaderEnds, ReaderRemoves, pageVars
<1>3. ASSUME NEW f \in DOMAIN flows, \/ PtySpawn(f) \/ PtySpawnShell(f) \/ StartupAsks(f)
                                     \/ StartupAnswered(f) \/ Spawned(f)
      PROVE Goal
  BY <1>3 DEF PtySpawn, PtySpawnShell, StartupAsks, StartupAnswered, Spawned
<1>4. ASSUME NEW f \in DOMAIN flows, \/ LaunchFailed(f) \/ AttachFailed(f) \/ OutputListens(f)
                                     \/ ExitListens(f) \/ Heal(f)
      PROVE Goal
  BY <1>4 DEF LaunchFailed, AttachFailed, OutputListens, ExitListens, Heal
<1>5. ASSUME NEW k \in DOMAIN scans, ScanAsked(k) \/ ScanAnswered(k) PROVE Goal
  BY <1>5 DEF ScanAsked, ScanAnswered
<1>6. ASSUME NEW ok \in BOOLEAN, AnswerKill(ok) PROVE Goal
  BY <1>6 DEF AnswerKill, pageVars
<1>7. ASSUME TimerFires PROVE Goal
  BY <1>7 DEF TimerFires, KillTimerFires, pageVars
<1>8. ASSUME ComposerNext PROVE Goal
  BY <1>8 DEF ComposerNext, Write, Post, Slash, ShiftTab, AnswerSend, Healed, Typed, Entered,
              Answered, terminalVars, pageVars
<1>9. Goal
  <2> HIDE DEF Goal
  <2> QED
    BY <1>1, <1>2, <1>3, <1>4, <1>5, <1>6, <1>7, <1>8 DEF Next, TerminalsNext, ReaderMoves, TimerFires
<1> QED
  BY <1>9 DEF PageInv

LEMMA PageStep ==
    ASSUME RustInv, PageInv, Next
    PROVE  PageInv'
<1> DEFINE Goal == Fit(tab', flows', born)
<1>b. born \in 0 .. MaxSessions
  BY DEF RustInv
<1>i. Fit(tab, flows, born)
  BY DEF PageInv
<1>1. ASSUME Dies \/ Interval \/ RosterChanges \/ KillClicked \/ TimerFires PROVE Goal
  BY <1>i, <1>1 DEF Dies, Interval, RosterChanges, KillClicked, TimerFires, KillTimerFires, pageVars
<1>2. ASSUME ReaderMoves PROVE Goal
  BY <1>i, <1>2 DEF ReaderMoves, ReaderEnds, ReaderRemoves, pageVars
<1>3. ASSUME NEW f \in DOMAIN flows,
             \/ PtySpawn(f) \/ PtySpawnShell(f) \/ StartupAsks(f) \/ StartupAnswered(f)
             \/ Spawned(f) \/ LaunchFailed(f) \/ AttachFailed(f)
             \/ OutputListens(f) \/ ExitListens(f) \/ Heal(f)
      PROVE Goal
  BY <1>i, <1>3, FlowStepFits
<1>4. ASSUME ExitHeard PROVE Goal
  <2>1. CASE tab' = None /\ flows' = WithoutTab(flows)
    BY <1>i, <2>1, RemovalFits
  <2>2. CASE UNCHANGED <<tab, flows>>
    BY <1>i, <2>2
  <2> QED
    BY <1>4, <2>1, <2>2 DEF ExitHeard
<1>5. ASSUME NEW k \in DOMAIN scans, ScanAsked(k) \/ ScanAnswered(k) PROVE Goal
  BY <1>i, <1>5, ScanStepFits DEF ScanAsked
<1>6. ASSUME Toggle PROVE Goal
  <2>1. CASE UNCHANGED <<tab, flows>>
    BY <1>i, <2>1
  <2>2. CASE /\ FreeIn(flows) # {} /\ tab' = InState(Ensured(tab), "launching")
             /\ flows' = Started(flows, "shell")
    BY <1>b, <1>i, <2>2, LaunchFits DEF Kinds
  <2> QED
    BY <1>6, <2>1, <2>2 DEF Toggle, EnsureShellAttached
<1>7. ASSUME Launch PROVE Goal
  <2>1. /\ FreeIn(flows) # {} /\ tab' = InState(Ensured(tab), "launching")
        /\ flows' = Started(flows, "launch")
    BY <1>7 DEF Launch
  <2> QED
    BY <1>b, <1>i, <2>1, LaunchFits DEF Kinds
<1>8. ASSUME NEW ok \in BOOLEAN, AnswerKill(ok) PROVE Goal
  BY <1>i, <1>8 DEF AnswerKill, pageVars
<1>9. ASSUME ComposerNext PROVE Goal
  <2>1. CASE UNCHANGED <<tab, flows>>
    BY <1>i, <2>1
  <2>2. CASE tab' = Repainted(tab) /\ flows' = flows
    <3>1. /\ tab' \in {None} \cup Tabs(born) /\ (tab' = None <=> tab = None)
          /\ tab # None => tab'.state = tab.state
      BY <1>i, <2>2, Repaints
    <3> QED
      BY <1>i, <2>2, <3>1 DEF Fit
  <2> QED
    BY <1>9, <2>1, <2>2 DEF ComposerNext, Write, Post, Slash, ShiftTab, AnswerSend, Healed, Typed,
                            Entered, Answered, terminalVars, pageVars
<1>10. Goal
  <2> HIDE DEF Goal
  <2> QED
    BY <1>1, <1>2, <1>3, <1>4, <1>5, <1>6, <1>7, <1>8, <1>9 DEF Next, TerminalsNext, ReaderMoves, TimerFires
<1>11. born \in Nat /\ born' \in Nat /\ born <= born'
  BY RustStep DEF RustInv
<1>12. Fit(tab', flows', born')
  BY <1>10, <1>11, FitsMore
<1> QED
  BY <1>12, SwitchStep DEF PageInv

-----------------------------------------------------------------------------
(* The user: the dialog, what was confirmed and the timeouts of handleKill. *)

Asks == [what : {"kill", "send"}, act : Nat]

\* The dialog resolves the question it shows, and every timeout is of a kill
\* that was asked about.
UserInv ==
    /\ acts \in 0 .. MaxActs
    /\ \A timer \in killTimers :
          /\ timer.question.what = "kill" /\ timer.question.act \in 1 .. acts
          /\ timer.exits \in 0 .. born
    /\ dialog # None =>
          /\ dialog.resolves \in Asks /\ dialog.resolves.act \in 1 .. acts
          /\ dialog.shows = dialog.resolves

\* A timeout is new only with the answer that confirms its question.
TimersGrow ==
    \A timer \in killTimers' \ killTimers :
        /\ dialog # None /\ dialog.resolves.what = "kill" /\ timer.question = dialog.resolves
        /\ timer.exits = Typing

LEMMA AnswerTimers ==
    ASSUME NEW ok \in BOOLEAN, AnswerKill(ok)
    PROVE  dialog # None /\ dialog' = None /\ acts' = acts /\ TimersGrow
<1>1. /\ dialog # None /\ dialog.resolves.what = "kill" /\ dialog' = None /\ acts' = acts
      /\ killTimers' \subseteq killTimers \cup {[question |-> dialog.resolves, exits |-> Typing]}
  BY DEF AnswerKill, Answer
<1> QED
  BY <1>1 DEF TimersGrow

LEMMA UserStep ==
    ASSUME RustInv, UserInv, Next
    PROVE  UserInv'
<1>b. /\ born \in Nat /\ born' \in Nat /\ born <= born'
  BY RustStep DEF RustInv
<1>t. Typing \in 0 .. born
  <2>1. CASE handle = 0
    BY <1>b, <2>1 DEF Typing
  <2>2. CASE handle \in 1 .. Len(readers)
    <3>1. readers[handle].of \in 1 .. MaxSessions /\ readers[handle].of <= born
      BY <2>2, ClientTyped DEF RustInv
    <3> QED
      BY <1>b, <2>2, <3>1, BoundsAssumption DEF Typing
  <2> QED
    BY <2>1, <2>2 DEF RustInv
<1>o. \A timer \in killTimers : timer.exits \in 0 .. born'
  BY <1>b DEF UserInv
<1>n. Typing \in 0 .. born'
  BY <1>b, <1>t
<1> USE DEF UserInv
<1>1. CASE UNCHANGED <<dialog, acts>> /\ killTimers' \subseteq killTimers
  BY <1>o, <1>1
<1>2. CASE UNCHANGED <<killTimers, dialog>> /\ acts < MaxActs /\ acts' = acts + 1
  BY <1>o, <1>2
<1>3. CASE \E what \in {"kill", "send"} :
              AskConfirm(what) /\ acts < MaxActs /\ acts' = acts + 1 /\ killTimers' = killTimers
  <2>1. PICK what \in {"kill", "send"} : AskConfirm(what)
    BY <1>3
  <2>2. [what |-> what, act |-> acts + 1] \in Asks
    BY DEF Asks
  <2>3. /\ dialog'.resolves \in Asks /\ dialog'.shows = dialog'.resolves
        /\ dialog'.resolves.act = acts + 1
    BY <2>1, <2>2 DEF AskConfirm
  <2> QED
    BY <1>o, <1>3, <2>3
<1>4. CASE dialog # None /\ dialog' = None /\ acts' = acts /\ TimersGrow
  BY <1>n, <1>o, <1>4 DEF TimersGrow
<1> HIDE DEF UserInv
<1>6. CASE Dies \/ ExitHeard \/ Interval \/ RosterChanges \/ ReaderMoves
  <2>1. UNCHANGED userVars
    BY <1>6 DEF Dies, ExitHeard, Interval, RosterChanges, ReaderMoves, ReaderEnds, ReaderRemoves
  <2> QED
    BY <1>1, <2>1 DEF userVars
<1>7. ASSUME NEW f \in DOMAIN flows,
             \/ PtySpawn(f) \/ PtySpawnShell(f) \/ StartupAsks(f) \/ StartupAnswered(f)
             \/ Spawned(f) \/ LaunchFailed(f) \/ AttachFailed(f)
             \/ OutputListens(f) \/ ExitListens(f) \/ Heal(f)
      PROVE UserInv'
  <2>1. UNCHANGED userVars
    BY <1>7 DEF PtySpawn, PtySpawnShell, StartupAsks, StartupAnswered, Spawned, LaunchFailed,
                AttachFailed, OutputListens, ExitListens, Heal
  <2> QED
    BY <1>1, <2>1 DEF userVars
<1>8. ASSUME NEW k \in DOMAIN scans, ScanAsked(k) \/ ScanAnswered(k) PROVE UserInv'
  <2>1. UNCHANGED userVars
    BY <1>8 DEF ScanAsked, ScanAnswered
  <2> QED
    BY <1>1, <2>1 DEF userVars
<1>9. CASE Toggle \/ Launch
  BY <1>2, <1>9 DEF Toggle, Launch, Clicks, Acts
<1>10. CASE KillClicked
  BY <1>3, <1>10 DEF KillClicked, Clicks, Acts
<1>11. ASSUME NEW ok \in BOOLEAN, AnswerKill(ok) PROVE UserInv'
  BY <1>4, <1>11, AnswerTimers
<1>12. CASE TimerFires
  BY <1>1, <1>12 DEF TimerFires, KillTimerFires
<1>13. CASE Post \/ ShiftTab \/ \E mode \in Modes : Write(mode)
  BY <1>2, <1>13 DEF Post, ShiftTab, Write, Acts, terminalVars
<1>14. CASE Slash
  BY <1>2, <1>3, <1>14 DEF Slash, Acts, terminalVars
<1>15. ASSUME NEW ok \in BOOLEAN, AnswerSend(ok) PROVE UserInv'
  BY <1>4, <1>15 DEF AnswerSend, Answer, terminalVars, TimersGrow
<1>16. ASSUME NEW n \in DOMAIN sends, Healed(n) \/ Typed(n) \/ Entered(n) \/ Answered(n) PROVE UserInv'
  BY <1>1, <1>16 DEF Healed, Typed, Entered, Answered, terminalVars, userVars
<1> QED
  BY <1>6, <1>7, <1>8, <1>9, <1>10, <1>11, <1>12, <1>13, <1>14, <1>15, <1>16
     DEF Next, TerminalsNext, ComposerNext, ReaderMoves, TimerFires

-----------------------------------------------------------------------------
(* The composer. *)

Sends == [mode : Modes \cup {"key"}, many : BOOLEAN, act : Nat,
          stage : {"posting", "asking", "healing", "capturing", "typing",
                   "reading", "entering", "done"}]

\* A send that wipes several agents and is past its question had a yes to it.
Entitled(send, confirmed) ==
    send.mode = "clear" /\ send.many /\ send.stage \notin {"asking", "done"} =>
        [what |-> "send", act |-> send.act] \in confirmed

SendsOK(calls, confirmed) ==
    /\ calls \in Seq(Sends)
    /\ \A n \in 1 .. Len(calls) : Entitled(calls[n], confirmed)

\* What the composer holds was not posted, nor was what is not written yet.
TextOK(held, posted, now) ==
    /\ posted \in [1 .. MaxActs -> {0, 1}]
    /\ \A act \in 1 .. MaxActs : act > now => posted[act] = 0
    /\ held # None => held.mode \in Modes /\ held.act \in 1 .. now /\ posted[held.act] = 0

ComposerInv ==
    /\ ConfirmedOnly
    /\ Questions(killTimers) \subseteq Questions(agreed)
    /\ SendsOK(sends, Questions(agreed))
    /\ TextOK(text, posts, acts)

LEMMA SendAdded ==
    ASSUME NEW confirmed, NEW calls, SendsOK(calls, confirmed),
           NEW send \in Sends, Entitled(send, confirmed)
    PROVE  SendsOK(Append(calls, send), confirmed)
<1>1. /\ Append(calls, send) \in Seq(Sends) /\ Len(Append(calls, send)) = Len(calls) + 1
      /\ \A n \in 1 .. Len(calls) : Append(calls, send)[n] = calls[n]
      /\ Append(calls, send)[Len(calls) + 1] = send
  BY DEF SendsOK
<1> QED
  BY <1>1 DEF SendsOK

LEMMA SendMoved ==
    ASSUME NEW confirmed, NEW calls, SendsOK(calls, confirmed), NEW n \in 1 .. Len(calls),
           NEW send \in Sends, Entitled(send, confirmed)
    PROVE  SendsOK([calls EXCEPT ![n] = send], confirmed)
<1> DEFINE new == [calls EXCEPT ![n] = send]
<1>1. /\ new \in Seq(Sends) /\ Len(new) = Len(calls)
      /\ \A m \in 1 .. Len(calls) : new[m] = IF m = n THEN send ELSE calls[m]
  BY DEF SendsOK
<1> QED
  BY <1>1 DEF SendsOK

LEMMA SendsStay ==
    ASSUME NEW confirmed, NEW more, confirmed \subseteq more, NEW calls, SendsOK(calls, confirmed)
    PROVE  SendsOK(calls, more)
  BY DEF SendsOK, Entitled

LEMMA SendTyped ==
    ASSUME NEW calls \in Seq(Sends), NEW n \in 1 .. Len(calls)
    PROVE  calls[n] \in Sends /\ calls[n].act \in Nat /\ calls[n].many \in BOOLEAN
<1>1. calls[n] \in Sends
  OBVIOUS
<1> QED
  BY <1>1 DEF Sends

\* A send goes on to a later stage.
LEMMA SendGoesOn ==
    ASSUME NEW confirmed, NEW calls, SendsOK(calls, confirmed), NEW n \in 1 .. Len(calls),
           calls[n].stage \notin {"asking", "done"},
           NEW stage \in {"capturing", "typing", "reading", "entering"}
    PROVE  SendsOK([calls EXCEPT ![n].stage = stage], confirmed)
<1> DEFINE new == [calls[n] EXCEPT !.stage = stage]
<1>1. calls[n] \in Sends
  BY SendTyped DEF SendsOK
<1>2. new \in Sends /\ new.mode = calls[n].mode /\ new.many = calls[n].many /\ new.act = calls[n].act
  BY <1>1 DEF Sends
<1>3. Entitled(new, confirmed)
  BY <1>2 DEF Entitled, SendsOK
<1>4. [calls EXCEPT ![n].stage = stage] = [calls EXCEPT ![n] = new]
  OBVIOUS
<1> HIDE DEF new
<1> QED
  BY <1>2, <1>3, <1>4, SendMoved

LEMMA SendEnds ==
    ASSUME NEW confirmed, NEW calls, SendsOK(calls, confirmed), NEW n \in 1 .. Len(calls)
    PROVE  SendsOK([calls EXCEPT ![n] = Done], confirmed)
<1>1. Done \in Sends /\ Entitled(Done, confirmed)
  BY DEF Done, Sends, Modes, Entitled
<1> QED
  BY <1>1, SendMoved

\* What the terminals do beside the composer.
LEMMA TerminalsKeepComposer ==
    ASSUME UserInv, UserInv', ComposerInv, TerminalsNext, UNCHANGED composerVars
    PROVE  ComposerInv'
<1> DEFINE Goal == /\ agreed \subseteq agreed'
                   /\ \A deed \in carried' \cup killTimers' :
                         deed.question \in Questions(carried \cup killTimers \cup agreed')
                   /\ acts' \in {acts, acts + 1}
<1>1. ASSUME UNCHANGED userVars PROVE Goal
  BY <1>1 DEF userVars, Questions
<1>2. ASSUME Dies \/ ExitHeard \/ Interval \/ RosterChanges \/ ReaderMoves PROVE Goal
  BY <1>2 DEF Dies, ExitHeard, Interval, RosterChanges, ReaderMoves, ReaderEnds, ReaderRemoves,
              userVars, Questions
<1>3. ASSUME NEW f \in DOMAIN flows,
             \/ PtySpawn(f) \/ PtySpawnShell(f) \/ StartupAsks(f) \/ StartupAnswered(f)
             \/ Spawned(f) \/ LaunchFailed(f) \/ AttachFailed(f)
             \/ OutputListens(f) \/ ExitListens(f) \/ Heal(f)
      PROVE Goal
  <2>1. UNCHANGED userVars
    BY <1>3 DEF PtySpawn, PtySpawnShell, StartupAsks, StartupAnswered, Spawned, LaunchFailed,
                AttachFailed, OutputListens, ExitListens, Heal
  <2> QED
    BY <1>1, <2>1
<1>4. ASSUME NEW k \in DOMAIN scans, ScanAsked(k) \/ ScanAnswered(k) PROVE Goal
  BY <1>4 DEF ScanAsked, ScanAnswered, userVars, Questions
<1>5. ASSUME Toggle \/ Launch \/ KillClicked PROVE Goal
  BY <1>5 DEF Toggle, Launch, KillClicked, Clicks, Acts, Questions
<1>6. ASSUME NEW ok \in BOOLEAN, AnswerKill(ok) PROVE Goal
  <2>1. /\ acts' = acts /\ agreed \subseteq agreed'
        /\ ok => dialog.resolves \in Questions(agreed')
    <3>1. dialog.shows = dialog.resolves /\ acts' = acts
          /\ agreed' = IF ok THEN agreed \cup {Of(dialog.shows)} ELSE agreed
      BY <1>6 DEF AnswerKill, Answer, UserInv
    <3>2. Of(dialog.shows).question = dialog.shows
      BY DEF Of
    <3> QED
      BY <3>1, <3>2 DEF Questions
  <2>2. ASSUME NEW deed \in carried' \cup killTimers'
        PROVE  deed \in carried \cup killTimers \/ (ok /\ deed.question = dialog.resolves)
    BY <1>6 DEF AnswerKill, Of
  <2> QED
    BY <2>1, <2>2 DEF Questions
<1>7. ASSUME TimerFires PROVE Goal
  <2>1. PICK timer \in killTimers : KillTimerFires(timer)
    BY <1>7 DEF TimerFires
  <2>2. /\ killTimers' \subseteq killTimers /\ UNCHANGED <<acts, agreed>>
        /\ \A deed \in carried' : deed \in carried \/ deed.question = timer.question
    BY <2>1 DEF KillTimerFires, Of
  <2> QED
    BY <2>2 DEF Questions
<1>8. Goal
  <2> HIDE DEF Goal
  <2> QED
    BY <1>2, <1>3, <1>4, <1>5, <1>6, <1>7 DEF TerminalsNext, ReaderMoves, TimerFires
<1>9. ConfirmedOnly' /\ (Questions(killTimers) \subseteq Questions(agreed))'
  <2>1. Questions(agreed) \subseteq Questions(agreed')
    BY <1>8 DEF Questions
  <2>2. \A deed \in carried' \cup killTimers' : deed.question \in Questions(agreed')
    BY <1>8, <2>1 DEF ConfirmedOnly, ComposerInv, Questions
  <2> QED
    BY <2>2 DEF ConfirmedOnly, Questions
<1>10. SendsOK(sends', Questions(agreed'))
  <2>1. Questions(agreed) \subseteq Questions(agreed') /\ sends' = sends
    BY <1>8 DEF Questions, composerVars
  <2> QED
    BY <2>1, SendsStay DEF ComposerInv
<1>11. TextOK(text', posts', acts')
  <2>1. text' = text /\ posts' = posts /\ acts \in Nat
    BY DEF composerVars, UserInv
  <2> QED
    BY <1>8, <2>1 DEF ComposerInv, TextOK
<1> QED
  BY <1>9, <1>10, <1>11 DEF ComposerInv

\* Something is written, or sent: an act is new.
LEMMA ActKeepsComposer ==
    ASSUME UserInv, ComposerInv,
           Post \/ Slash \/ ShiftTab \/ \E mode \in Modes : Write(mode)
    PROVE  ComposerInv'
<1> DEFINE now == acts + 1
<1>1. acts \in 0 .. MaxActs /\ acts' = now /\ now \in 1 .. MaxActs
  <2>1. acts < MaxActs /\ acts' = now
    BY DEF Post, Slash, ShiftTab, Write, Acts
  <2> QED
    BY <2>1 DEF UserInv
<1>2. agreed' = agreed /\ carried' = carried /\ killTimers' = killTimers
  BY DEF Post, Slash, ShiftTab, Write, terminalVars
<1>3. ConfirmedOnly' /\ (Questions(killTimers) \subseteq Questions(agreed))'
  BY <1>2 DEF ConfirmedOnly, ComposerInv
<1>4. TextOK(text, posts, now)
  BY <1>1 DEF TextOK, ComposerInv
<1>5. ASSUME NEW mode \in Modes \cup {"key"}, NEW many \in BOOLEAN,
             NEW stage \in {"posting", "asking", "healing"},
             mode = "clear" /\ many => stage = "asking"
      PROVE  SendsOK(Sending(mode, many, stage), Questions(agreed))
  <2> DEFINE new == [mode |-> mode, many |-> many, act |-> now, stage |-> stage]
  <2>1. new \in Sends /\ Entitled(new, Questions(agreed))
    BY <1>1, <1>5 DEF Sends, Entitled
  <2>2. Sending(mode, many, stage) = Append(sends, new)
    BY DEF Sending
  <2> HIDE DEF new
  <2> QED
    BY <2>1, <2>2, SendAdded DEF ComposerInv
<1>6. SendsOK(sends', Questions(agreed))
  <2>1. CASE Post
    BY <1>5, <2>1 DEF Post, Modes
  <2>2. CASE Slash
    BY <1>5, <2>2 DEF Slash, Modes
  <2>3. CASE ShiftTab
    BY <1>5, <2>3 DEF ShiftTab, Modes
  <2>4. CASE \E mode \in Modes : Write(mode)
    BY <2>4 DEF Write, ComposerInv
  <2> QED
    BY <2>1, <2>2, <2>3, <2>4
<1>7. TextOK(text', posts', now)
  <2>1. CASE UNCHANGED <<text, posts>>
    BY <1>4, <2>1
  <2>2. CASE Post
    <3>1. text # None /\ text' = None /\ posts' = [posts EXCEPT ![text.act] = @ + 1]
      BY <2>2 DEF Post
    <3>2. text.act \in 1 .. acts /\ posts[text.act] = 0
      BY <3>1 DEF ComposerInv, TextOK
    <3>3. posts' = [posts EXCEPT ![text.act] = 1]
      BY <3>1, <3>2
    <3> QED
      BY <1>1, <1>4, <3>1, <3>2, <3>3 DEF TextOK
  <2>3. ASSUME NEW mode \in Modes, Write(mode) PROVE TextOK(text', posts', now)
    <3>1. text' = [mode |-> mode, act |-> now] /\ posts' = posts
      BY <2>3 DEF Write
    <3>2. posts[now] = 0
      BY <1>1 DEF ComposerInv, TextOK
    <3>3. text'.mode = mode /\ text'.act = now
      BY <3>1
    <3> QED
      BY <1>1, <1>4, <3>1, <3>2, <3>3 DEF TextOK
  <2> QED
    BY <2>1, <2>2, <2>3 DEF Slash, ShiftTab
<1> QED
  BY <1>1, <1>2, <1>3, <1>6, <1>7 DEF ComposerInv

\* The question of a send is answered.
LEMMA AnswerKeepsComposer ==
    ASSUME UserInv, ComposerInv, NEW ok \in BOOLEAN, AnswerSend(ok)
    PROVE  ComposerInv'
<1>1. /\ dialog # None /\ dialog.shows = dialog.resolves /\ dialog.resolves.what = "send"
      /\ dialog.resolves \in Asks
  BY DEF AnswerSend, UserInv
<1>2. dialog.resolves = [what |-> "send", act |-> dialog.resolves.act]
  BY <1>1 DEF Asks
<1>3. /\ UNCHANGED <<acts, carried, text, posts>>
      /\ killTimers' = killTimers /\ Questions(agreed) \subseteq Questions(agreed')
      /\ (ok => dialog.resolves \in Questions(agreed'))
  <2>1. /\ UNCHANGED <<acts, carried, text, posts, killTimers>>
        /\ agreed' = IF ok THEN agreed \cup {Of(dialog.resolves)} ELSE agreed
    BY <1>1 DEF AnswerSend, Answer, terminalVars
  <2>2. Of(dialog.resolves).question = dialog.resolves
    BY DEF Of
  <2> QED
    BY <2>1, <2>2 DEF Questions
<1>4. SendsOK(sends, Questions(agreed'))
  BY <1>3, SendsStay DEF ComposerInv
<1> DEFINE Next1(n) == IF sends[n].act = dialog.resolves.act
                       THEN IF ok THEN [sends[n] EXCEPT !.stage = "healing"] ELSE Done
                       ELSE sends[n]
<1>5. sends' = [n \in 1 .. Len(sends) |-> Next1(n)]
  BY DEF AnswerSend, ComposerInv, SendsOK
<1>6. ASSUME NEW n \in 1 .. Len(sends) PROVE Next1(n) \in Sends /\ Entitled(Next1(n), Questions(agreed'))
  <2>1. sends[n] \in Sends /\ Entitled(sends[n], Questions(agreed'))
    BY <1>4, SendTyped DEF SendsOK
  <2>2. CASE sends[n].act = dialog.resolves.act /\ ok
    <3> DEFINE new == [sends[n] EXCEPT !.stage = "healing"]
    <3>1. new \in Sends /\ new.act = dialog.resolves.act
      BY <2>1, <2>2 DEF Sends
    <3>2. Entitled(new, Questions(agreed'))
      BY <1>2, <1>3, <2>2, <3>1 DEF Entitled
    <3> QED
      BY <2>2, <3>1, <3>2
  <2>3. CASE sends[n].act = dialog.resolves.act /\ ~ok
    BY <2>3 DEF Done, Sends, Modes, Entitled
  <2>4. CASE sends[n].act # dialog.resolves.act
    BY <2>1, <2>4
  <2> QED
    BY <2>2, <2>3, <2>4
<1> HIDE DEF Next1
<1>7. sends' \in Seq(Sends) /\ Len(sends') = Len(sends) /\ \A n \in 1 .. Len(sends) : sends'[n] = Next1(n)
  BY <1>5, <1>6 DEF ComposerInv, SendsOK
<1>8. SendsOK(sends', Questions(agreed'))
  BY <1>6, <1>7 DEF SendsOK
<1>9. ConfirmedOnly' /\ (Questions(killTimers) \subseteq Questions(agreed))'
  BY <1>3 DEF ConfirmedOnly, ComposerInv
<1> QED
  BY <1>3, <1>8, <1>9 DEF ComposerInv

\* A send goes on.
LEMMA SendKeepsComposer ==
    ASSUME ComposerInv, NEW n \in DOMAIN sends, Healed(n) \/ Typed(n) \/ Entered(n) \/ Answered(n)
    PROVE  ComposerInv'
<1>1. n \in 1 .. Len(sends) /\ SendsOK(sends, Questions(agreed)) /\ Entitled(sends[n], Questions(agreed))
  BY DEF ComposerInv, SendsOK
<1>2. UNCHANGED <<agreed, acts, posts, killTimers>> /\ text' \in {text, None}
  BY DEF Healed, Typed, Entered, Answered, userVars, terminalVars
<1>3. sends[n].stage \notin {"asking", "done"}
  BY DEF Healed, Typed, Entered, Answered
<1>4. ASSUME NEW stage \in {"capturing", "typing", "reading", "entering"},
             sends' = [sends EXCEPT ![n].stage = stage]
      PROVE  SendsOK(sends', Questions(agreed))
  BY <1>1, <1>3, <1>4, SendGoesOn
<1>5. ASSUME sends' = [sends EXCEPT ![n] = Done] PROVE SendsOK(sends', Questions(agreed))
  BY <1>1, <1>5, SendEnds
<1>6. SendsOK(sends', Questions(agreed))
  <2>1. CASE Healed(n)
    BY <1>4, <2>1 DEF Healed
  <2>2. CASE Typed(n)
    BY <1>4, <1>5, <2>2 DEF Typed
  <2>3. CASE Entered(n) \/ Answered(n)
    BY <1>5, <2>3 DEF Entered, Answered
  <2> QED
    BY <2>1, <2>2, <2>3
<1>7. Questions(carried') \subseteq Questions(carried) \cup Questions(agreed)
  <2>1. CASE carried' = carried
    BY <2>1
  <2>2. CASE sends[n].mode = "clear" /\ sends[n].many /\ carried' = carried \cup {Of(Question(n))}
    <3>1. Of(Question(n)).question \in Questions(agreed)
      BY <1>1, <1>3, <2>2 DEF Entitled, Question, Of
    <3> QED
      BY <2>2, <3>1 DEF Questions
  <2> QED
    BY <2>1, <2>2 DEF Healed, Typed, Entered, Answered, userVars
<1>8. ConfirmedOnly' /\ (Questions(killTimers) \subseteq Questions(agreed))'
  BY <1>2, <1>7 DEF ConfirmedOnly, ComposerInv
<1>9. TextOK(text', posts', acts')
  BY <1>2 DEF TextOK, ComposerInv
<1> QED
  BY <1>2, <1>6, <1>8, <1>9 DEF ComposerInv

LEMMA ComposerStep ==
    ASSUME UserInv, UserInv', ComposerInv, Next
    PROVE  ComposerInv'
  BY TerminalsKeepComposer, ActKeepsComposer, AnswerKeepsComposer, SendKeepsComposer
     DEF Next, ComposerNext

-----------------------------------------------------------------------------
(* The invariant of the desktop. *)

DesktopInv == RustInv /\ PageInv /\ UserInv /\ ComposerInv

LEMMA InitDesktop ==
    ASSUME Init
    PROVE  DesktopInv
<1> USE DEF Init, TerminalsInit, ComposerInit
<1>1. RustInv
  <2>1. readers \in Seq(Client) /\ Len(readers) = 0
    OBVIOUS
  <2>2. OneClient
    BY <2>1 DEF OneClient, Running
  <2> QED
    BY <2>1, <2>2 DEF RustInv, Reading
<1>2. PageInv
  <2>1. Flow("startup", "asking") \in Flows /\ Flow("startup", "asking").stage = "asking"
    BY NewFlows DEF Kinds, Stages
  <2>2. flows \in [1 .. MaxFlows -> {None} \cup Flows]
    BY <2>1
  <2>3. \A f \in 1 .. MaxFlows : flows[f] # None => flows[f].stage = "asking"
    BY <2>1
  <2>4. Fit(tab, flows, born)
    BY <2>2, <2>3 DEF Fit
  <2>5. isShell \in BOOLEAN /\ pane \in BOOLEAN /\ onRoster \in BOOLEAN /\ stray \in BOOLEAN
    <3>1. ("toggle" \in scene) \in BOOLEAN
      OBVIOUS
    <3>2. isShell = FALSE \/ isShell = ("toggle" \in scene)
      OBVIOUS
    <3>3. isShell \in BOOLEAN
      BY <3>1, <3>2
    <3>4. onRoster \in {~isShell, ~isShell /\ "roster" \notin scene}
      OBVIOUS
    <3>5. onRoster \in BOOLEAN
      BY <3>3, <3>4
    <3>6. pane = FALSE /\ stray = FALSE
      OBVIOUS
    <3> QED
      BY <3>3, <3>5, <3>6
  <2> QED
    BY <2>4, <2>5 DEF PageInv
<1>3. UserInv
  BY DEF UserInv
<1>4. ComposerInv
  BY DEF ComposerInv, ConfirmedOnly, Questions, SendsOK, TextOK
<1> QED
  BY <1>1, <1>2, <1>3, <1>4 DEF DesktopInv

LEMMA StutterDesktop ==
    ASSUME DesktopInv, UNCHANGED vars
    PROVE  DesktopInv'
<1> USE DEF DesktopInv, vars, rustVars, pageVars, userVars, composerVars
<1>1. RustInv'
  BY DEF RustInv, OneClient, Running, Reading
<1>2. PageInv'
  BY DEF PageInv
<1>3. UserInv'
  BY DEF UserInv
<1>4. ComposerInv'
  BY DEF ComposerInv, ConfirmedOnly
<1> QED
  BY <1>1, <1>2, <1>3, <1>4

\* The four parts together are inductive.
THEOREM DesktopInvariant == Spec => []DesktopInv
<1>1. DesktopInv /\ Next => DesktopInv'
  <2> SUFFICES ASSUME DesktopInv, Next PROVE DesktopInv'
    OBVIOUS
  <2>1. RustInv'
    BY RustStep DEF DesktopInv
  <2>2. PageInv'
    BY PageStep DEF DesktopInv
  <2>3. UserInv'
    BY UserStep DEF DesktopInv
  <2>4. ComposerInv'
    BY <2>3, ComposerStep DEF DesktopInv
  <2> QED
    BY <2>1, <2>2, <2>3, <2>4 DEF DesktopInv
<1>2. DesktopInv /\ UNCHANGED vars => DesktopInv'
  BY StutterDesktop
<1> QED
  BY <1>1, <1>2, InitDesktop, PTL DEF Spec

\* Every variable of the desktop keeps its type, each exit event is that of a
\* client, and who registers listeners without being told off has a tab
\* (pty.rs attach_and_stream, terminal.js attachOutputListener, removeTab).
THEOREM DesktopTypeCorrect == Spec => []DesktopTypeOK
<1>1. DesktopInv => DesktopTypeOK
  <2> SUFFICES ASSUME DesktopInv PROVE DesktopTypeOK
    OBVIOUS
  <2> USE DEF DesktopInv
  <2>1. \A n \in 1 .. Len(readers) :
            readers[n] \in [of : 1 .. born, phase : {"reading", "told", "gone"}]
    <3> SUFFICES ASSUME NEW n \in 1 .. Len(readers)
                 PROVE  readers[n] \in [of : 1 .. born, phase : {"reading", "told", "gone"}]
      OBVIOUS
    <3>1. readers[n] \in Client /\ readers[n].of \in 1 .. MaxSessions /\ readers[n].of <= born
      BY ClientTyped DEF RustInv
    <3>2. readers[n].of \in 1 .. born
      BY <3>1 DEF RustInv
    <3> QED
      BY <3>1, <3>2 DEF Client
  <2>2. exits \in 0 .. MaxClients /\ handle \in 0 .. Len(readers)
    BY DEF RustInv
  <2>3. DOMAIN readers = 1 .. Len(readers) /\ born \in 0 .. MaxSessions /\ session \in {0, born}
    BY DEF RustInv
  <2>4. \A timer \in killTimers :
            /\ timer.question.what = "kill" /\ timer.question.act \in 1 .. acts
            /\ timer.exits \in 0 .. born
    BY DEF UserInv
  <2>5. text = None \/ text.mode \in Modes
    BY DEF ComposerInv, TextOK
  <2>6. /\ tab \in {None} \cup Tabs(born)
        /\ flows \in [1 .. MaxFlows -> {None} \cup Flows]
        /\ \A f \in DOMAIN flows : flows[f] # None /\ flows[f].stage \in {"output", "exit"} /\ flows[f].mine =>
              tab # None
    BY DEF PageInv, Fit
  <2> QED
    BY <2>1, <2>2, <2>3, <2>4, <2>5, <2>6 DEF DesktopTypeOK, PageInv
<1> QED
  BY <1>1, DesktopInvariant, PTL

\* The registry holds the one client that still runs (pty.rs pty_spawn).
THEOREM AlwaysOneClient == Spec => []OneClient
<1>1. DesktopInv => OneClient
  BY DEF DesktopInv, RustInv
<1> QED
  BY <1>1, DesktopInvariant, PTL

\* A tab that shows a launch has one on its way (terminal.js reconcile).
THEOREM EveryLaunchEnds == Spec => []LaunchesEnd
<1>1. DesktopInv => LaunchesEnd
  BY DEF DesktopInv, PageInv, Fit, LaunchesEnd, Pending
<1> QED
  BY <1>1, DesktopInvariant, PTL

\* Nothing is wiped from several agents, and nothing ended by a close mark, at the
\* answer or by the timeout ten seconds later, but on a question that was on show
\* when the user confirmed it (state.js askConfirm, terminal.js handleKill).
THEOREM ConfirmedAlways == Spec => []ConfirmedOnly
<1>1. DesktopInv => ConfirmedOnly
  BY DEF DesktopInv, ComposerInv
<1> QED
  BY <1>1, DesktopInvariant, PTL

\* A text is sent to the hub once (composer.js _dispatchChat).
THEOREM PostedAtMostOnce == Spec => []PostedOnce
<1>1. DesktopInv => PostedOnce
  BY DEF DesktopInv, ComposerInv, TextOK, PostedOnce
<1> QED
  BY <1>1, DesktopInvariant, PTL

-----------------------------------------------------------------------------
(* The picture. *)

\* A flow that will heal the geometry.
Heals == {"spawned", "output", "exit", "heal"}
Due(fs) == \E f \in 1 .. MaxFlows : fs[f] # None /\ fs[f].stage \in Heals

\* The shell has flows of its own, which an agent's name never gets.
AgentFlows(fs) == \A f \in 1 .. MaxFlows : fs[f] # None => fs[f].kind # "shell"

\* The tab listens to the client of the session that runs.
Watches == tab # None /\ tab.output /\ session # 0 /\ handle # 0 /\ readers[handle].of = session

\* It shows the picture, or a flow on its way will ask for it.
PictureInv ==
    ~isShell => AgentFlows(flows) /\ (Watches => tab.painted = session \/ Due(flows))

\* What a step may do to it: nothing, or a flow is due, or tmux repaints.
PictureKept ==
    tab' # None /\ tab'.output =>
        tab # None /\ tab.output /\ tab'.painted = tab.painted /\ (Due(flows) => Due(flows'))

LEMMA DueExcept ==
    ASSUME NEW fs, DOMAIN fs = 1 .. MaxFlows, AgentFlows(fs), NEW f \in 1 .. MaxFlows, NEW new,
           new # None => new.kind # "shell"
    PROVE  LET gs == [fs EXCEPT ![f] = new]
           IN  /\ AgentFlows(gs)
               /\ new # None /\ new.stage \in Heals => Due(gs)
               /\ fs[f] = None \/ fs[f].stage \notin Heals => (Due(fs) => Due(gs))
<1> DEFINE gs == [fs EXCEPT ![f] = new]
<1>1. gs[f] = new /\ \A g \in 1 .. MaxFlows : g # f => gs[g] = fs[g]
  OBVIOUS
<1> HIDE DEF gs
<1>2. AgentFlows(gs)
  BY <1>1 DEF AgentFlows
<1>3. new # None /\ new.stage \in Heals => Due(gs)
  BY <1>1 DEF Due
<1>4. fs[f] = None \/ fs[f].stage \notin Heals => (Due(fs) => Due(gs))
  BY <1>1 DEF Due
<1> QED
  BY <1>2, <1>3, <1>4 DEF gs

LEMMA DueStarted ==
    ASSUME NEW fs, DOMAIN fs = 1 .. MaxFlows, AgentFlows(fs), FreeIn(fs) # {},
           NEW kind \in Kinds, kind # "shell"
    PROVE  AgentFlows(Started(fs, kind)) /\ (Due(fs) => Due(Started(fs, kind)))
<1> DEFINE n == Min(FreeIn(fs))
           new == Flow(kind, "spawning")
<1>1. n \in 1 .. MaxFlows /\ fs[n] = None
  BY FirstFree
<1>2. new # None => new.kind # "shell"
  BY DEF Flow
<1> HIDE DEF n, new
<1>3. Started(fs, kind) = [fs EXCEPT ![n] = new]
  BY DEF Started, n, new
<1> DEFINE gs == [fs EXCEPT ![n] = new]
<1>4. gs[n] = new /\ \A g \in 1 .. MaxFlows : g # n => gs[g] = fs[g]
  BY <1>1
<1> HIDE DEF gs
<1>5. AgentFlows(gs)
  BY <1>2, <1>4 DEF AgentFlows
<1>6. Due(fs) => Due(gs)
  BY <1>1, <1>4 DEF Due
<1> QED
  BY <1>3, <1>5, <1>6 DEF gs

LEMMA AgentFlowsWithoutTab ==
    ASSUME NEW fs \in [1 .. MaxFlows -> {None} \cup Flows], AgentFlows(fs)
    PROVE  AgentFlows(WithoutTab(fs))
<1> SUFFICES ASSUME NEW f \in 1 .. MaxFlows, WithoutTab(fs)[f] # None
             PROVE  WithoutTab(fs)[f].kind # "shell"
  BY DEF AgentFlows
<1>1. WithoutTab(fs)[f] = fs[f] \/ (fs[f] # None /\ WithoutTab(fs)[f] = [fs[f] EXCEPT !.mine = FALSE])
  BY DEF WithoutTab
<1>2. fs[f] # None => fs[f] \in Flows /\ fs[f].kind # "shell"
  BY DEF AgentFlows
<1>3. fs[f] # None => [fs[f] EXCEPT !.mine = FALSE].kind = fs[f].kind
  BY <1>2 DEF Flows
<1> QED
  BY <1>1, <1>2, <1>3

\* The tab of a repaint.
LEMMA RepaintShows ==
    ASSUME RustInv, PageInv, tab' = Repainted(tab), UNCHANGED rustVars, Watches'
    PROVE  tab'.painted = session'
<1>1. UNCHANGED <<session, handle, readers>>
  BY DEF rustVars
<1>2. CASE tab # None /\ tab.output /\ handle # 0 /\ readers[handle].of = session
  <2>1. tab' = [tab EXCEPT !.painted = session]
    BY <1>2 DEF Repainted
  <2>2. tab \in Tabs(born)
    BY <1>2 DEF PageInv, Fit
  <2> QED
    BY <1>1, <2>1, <2>2 DEF Tabs
<1>3. CASE ~(tab # None /\ tab.output /\ handle # 0 /\ readers[handle].of = session)
  BY <1>1, <1>3 DEF Repainted, Watches
<1> QED
  BY <1>2, <1>3

\* No session is watched that was not before, unless a client comes.
LEMMA WatchesAsBefore ==
    ASSUME RustInv, ExitOrNothing \/ SessionOnly \/ ReaderMoves, PictureKept, Watches'
    PROVE  /\ Watches /\ session' = session /\ tab'.painted = tab.painted
           /\ Due(flows) => Due(flows')
<1>1. /\ tab # None /\ tab.output /\ tab'.painted = tab.painted
      /\ Due(flows) => Due(flows')
  BY DEF PictureKept, Watches
<1>2. session # 0 /\ handle # 0 /\ readers[handle].of = session /\ session' = session
  <2>1. CASE ExitOrNothing
    BY <2>1 DEF ExitOrNothing, rustVars, Watches
  <2>2. CASE SessionOnly
    <3>1. session' # 0 /\ handle # 0 /\ readers[handle].of = session'
      BY <2>2 DEF SessionOnly, Watches
    <3>2. handle \in 1 .. Len(readers) /\ readers \in Seq(Client)
      BY <3>1 DEF RustInv
    <3>3. readers[handle].of \in Nat /\ readers[handle].of <= born
      BY <3>2, ClientTyped DEF RustInv
    <3>4. session' # born + 1
      BY <3>1, <3>3 DEF RustInv
    <3> QED
      BY <2>2, <3>1, <3>4 DEF SessionOnly
  <2>3. CASE ReaderMoves
    <3>1. PICK n \in DOMAIN readers : ReaderEnds(n) \/ ReaderRemoves(n)
      BY <2>3 DEF ReaderMoves
    <3>2. ReaderEnds(n)
      BY <3>1 DEF ReaderRemoves, Watches
    <3>3. handle' = handle /\ session' = session /\ readers' = [readers EXCEPT ![n].phase = "told"]
      BY <3>2 DEF ReaderEnds
    <3>4. handle \in 1 .. Len(readers) /\ readers \in Seq(Client) /\ DOMAIN readers = 1 .. Len(readers)
      BY <3>3 DEF RustInv, Watches
    <3>5. readers[handle] \in Client
      BY <3>4
    <3>6. readers'[handle].of = readers[handle].of
      BY <3>1, <3>3, <3>4, <3>5 DEF Client
    <3> QED
      BY <3>3, <3>6 DEF Watches
  <2> QED
    BY <2>1, <2>2, <2>3
<1> QED
  BY <1>1, <1>2 DEF Watches

\* The awaits of a flow.
LEMMA FlowKeepsPicture ==
    ASSUME RustInv, PageInv, AgentFlows(flows), ~isShell, NEW f \in DOMAIN flows,
           \/ PtySpawn(f) \/ PtySpawnShell(f) \/ StartupAsks(f) \/ StartupAnswered(f)
           \/ Spawned(f) \/ LaunchFailed(f) \/ AttachFailed(f)
           \/ OutputListens(f) \/ ExitListens(f)
    PROVE  AgentFlows(flows') /\ (Due(flows') \/ (PictureKept /\ ~ClientComes))
<1> DEFINE At(to) == [flows[f] EXCEPT !.stage = to]
<1>1. DOMAIN flows = 1 .. MaxFlows /\ f \in 1 .. MaxFlows /\ flows[f] \in Flows /\ flows[f] # None
  <2>1. f \in 1 .. MaxFlows /\ flows[f] \in {None} \cup Flows /\ DOMAIN flows = 1 .. MaxFlows
    BY DEF PageInv, Fit
  <2>2. Flow("startup", "asking") # None
    BY NewFlows DEF Kinds, Stages
  <2>3. flows[f] # None
    BY <2>2 DEF PtySpawn, PtySpawnShell, StartupAsks, StartupAnswered, Spawned, LaunchFailed,
                AttachFailed, OutputListens, ExitListens
  <2> QED
    BY <2>1, <2>3
<1>2. flows[f].kind # "shell"
  BY <1>1 DEF AgentFlows
<1>3. \A to \in Stages : At(to) # None /\ At(to).stage = to /\ At(to).kind # "shell"
  <2>1. \A to \in Stages : At(to) \in Flows /\ At(to).stage = to /\ At(to).kind = flows[f].kind
    BY <1>1 DEF Flows
  <2> QED
    BY <1>2, <2>1
<1>4. ASSUME NEW to \in Stages, flows' = [flows EXCEPT ![f] = At(to)]
      PROVE  /\ AgentFlows(flows') /\ (to \in Heals => Due(flows'))
             /\ flows[f].stage \notin Heals => (Due(flows) => Due(flows'))
  <2>1. At(to) # None /\ At(to).stage = to /\ At(to).kind # "shell"
    BY <1>3
  <2> HIDE DEF At
  <2> QED
    BY <1>1, <1>4, <2>1, DueExcept
<1>5. ASSUME flows' = [flows EXCEPT ![f] = None]
      PROVE  /\ AgentFlows(flows')
             /\ flows[f].stage \notin Heals => (Due(flows) => Due(flows'))
  BY <1>1, <1>5, DueExcept
<1>6. ASSUME UNCHANGED rustVars PROVE ~ClientComes
  <2>1. Len(readers) \in Nat /\ readers' = readers /\ handle' = handle
    BY <1>6 DEF RustInv, rustVars
  <2> QED
    BY <2>1 DEF ClientComes, CreateOrAttach, Attach
<1>7. CASE PtySpawn(f)
  <2>1. PICK to \in {"attached", "spawned", "failed"} : flows' = [flows EXCEPT ![f].stage = to]
    BY <1>7 DEF PtySpawn
  <2>2. flows' = [flows EXCEPT ![f] = At(to)] /\ to \in Stages
    BY <2>1 DEF Stages
  <2>3. flows[f].stage = "spawning" /\ tab' = tab
    BY <1>7 DEF PtySpawn
  <2>4. CASE to = "spawned"
    BY <1>4, <2>2, <2>4 DEF Heals
  <2>5. CASE to # "spawned"
    <3>1. PictureKept
      BY <1>4, <2>2, <2>3 DEF PictureKept, Heals
    <3>2. UNCHANGED rustVars \/ CreateOnly
      <4>1. At(to).stage # "spawned"
        BY <1>3, <2>2, <2>5
      <4>2. flows'[f].stage # "spawned"
        BY <1>1, <2>2, <4>1
      <4>3. [flows EXCEPT ![f].stage = "spawned"][f].stage = "spawned"
        BY <1>1 DEF Flows
      <4> QED
        BY <1>7, <4>2, <4>3 DEF PtySpawn
    <3>3. ~ClientComes
      <4>1. CASE CreateOnly
        <5>1. handle' = handle /\ Len(readers) \in Nat
          BY <4>1 DEF CreateOnly, RustInv
        <5> QED
          BY <5>1 DEF ClientComes, CreateOrAttach, Attach
      <4> QED
        BY <1>6, <3>2, <4>1
    <3> QED
      BY <1>4, <2>2, <3>1, <3>3
  <2> QED
    BY <2>4, <2>5
<1>8. CASE PtySpawnShell(f)
  BY <1>2, <1>8 DEF PtySpawnShell
<1>9. CASE StartupAsks(f)
  <2>1. PICK to \in {"found", "missing"} : flows' = [flows EXCEPT ![f].stage = to]
    BY <1>9 DEF StartupAsks
  <2>2. flows' = [flows EXCEPT ![f] = At(to)] /\ to \in Stages
    BY <2>1 DEF Stages
  <2>3. flows[f].stage = "asking" /\ tab' = tab /\ UNCHANGED rustVars
    BY <1>9 DEF StartupAsks, Flow
  <2> QED
    BY <1>4, <1>6, <2>2, <2>3 DEF PictureKept, Heals
<1>10. CASE StartupAnswered(f)
  <2>1. /\ flows' = [flows EXCEPT ![f] = None] /\ tab' = tab /\ UNCHANGED rustVars
        /\ flows[f].stage \in {"found", "missing"}
    BY <1>10 DEF StartupAnswered
  <2> QED
    BY <1>5, <1>6, <2>1 DEF PictureKept, Heals
<1>11. CASE Spawned(f)
  <2>1. CASE tab = None
    <3>1. flows' = [flows EXCEPT ![f] = At("heal")]
      BY <1>11, <2>1 DEF Spawned
    <3> QED
      BY <1>4, <3>1 DEF Stages, Heals
  <2>2. CASE tab # None
    <3> DEFINE new == [flows[f] EXCEPT !.stage = "output", !.mine = TRUE]
    <3>1. flows' = [flows EXCEPT ![f] = new]
      <4>1. flows' = [flows EXCEPT ![f].stage = "output", ![f].mine = TRUE]
        BY <1>11, <2>2 DEF Spawned
      <4> QED
        BY <1>1, <4>1
    <3>2. new \in Flows /\ new.stage = "output" /\ new.kind = flows[f].kind
      BY <1>1 DEF Flows, Stages
    <3>3. new # None
      BY <3>2
    <3> HIDE DEF new
    <3> QED
      BY <1>1, <1>2, <3>1, <3>2, <3>3, DueExcept DEF Heals
  <2> QED
    BY <2>1, <2>2
<1>12. CASE LaunchFailed(f)
  <2> DEFINE rest == [flows EXCEPT ![f] = None]
  <2>1. tab' = None /\ flows' = WithoutTab(rest) /\ UNCHANGED rustVars
    BY <1>12 DEF LaunchFailed
  <2>2. AgentFlows(rest) /\ rest \in [1 .. MaxFlows -> {None} \cup Flows]
    BY <1>1, DueExcept DEF PageInv, Fit
  <2> HIDE DEF rest
  <2> QED
    BY <1>6, <2>1, <2>2, AgentFlowsWithoutTab DEF PictureKept
<1>13. CASE AttachFailed(f)
  <2>1. /\ flows' = [flows EXCEPT ![f] = None] /\ flows[f].stage \in {"attached", "failed"}
        /\ UNCHANGED rustVars
    BY <1>13 DEF AttachFailed
  <2>2. PICK state \in {"live", "external"} : tab' = InState(tab, state)
    BY <1>13 DEF AttachFailed
  <2>3. tab # None => tab'.output = tab.output /\ tab'.painted = tab.painted
    BY <2>2 DEF InState, PageInv, Fit, Tabs
  <2>4. tab = None => tab' = None
    BY <2>2 DEF InState
  <2> QED
    BY <1>5, <1>6, <2>1, <2>3, <2>4 DEF PictureKept, Heals
<1>14. CASE OutputListens(f)
  <2>1. flows' = [flows EXCEPT ![f] = At("exit")]
    BY <1>14 DEF OutputListens
  <2> QED
    BY <1>4, <2>1 DEF Stages, Heals
<1>15. CASE ExitListens(f)
  <2> DEFINE new == Flow(flows[f].kind, "heal")
  <2>1. flows' = [flows EXCEPT ![f] = new]
    BY <1>1, <1>2, <1>15 DEF ExitListens
  <2>2. new # None /\ new.stage = "heal" /\ new.kind # "shell"
    <3>1. flows[f].kind \in Kinds /\ "heal" \in Stages
      BY <1>1 DEF Flows, Stages
    <3> QED
      BY <1>2, <3>1, NewFlows DEF Flow
  <2> HIDE DEF new
  <2> QED
    BY <1>1, <2>1, <2>2, DueExcept DEF Heals
<1> QED
  BY <1>7, <1>8, <1>9, <1>10, <1>11, <1>12, <1>13, <1>14, <1>15

LEMMA PictureStep ==
    ASSUME RustInv, PageInv, PictureInv, Next
    PROVE  PictureInv'
<1> DEFINE Goal == AgentFlows(flows') /\ (Due(flows') \/ (PictureKept /\ ~ClientComes)
                                          \/ (tab' = Repainted(tab) /\ UNCHANGED rustVars))
<1>s. isShell' = isShell
  <2>1. ASSUME NEW f \in DOMAIN flows,
               \/ PtySpawn(f) \/ PtySpawnShell(f) \/ StartupAsks(f) \/ StartupAnswered(f)
               \/ Spawned(f) \/ LaunchFailed(f) \/ AttachFailed(f)
               \/ OutputListens(f) \/ ExitListens(f) \/ Heal(f)
        PROVE  isShell' = isShell
    BY <2>1 DEF PtySpawn, PtySpawnShell, StartupAsks, StartupAnswered, Spawned, LaunchFailed,
                AttachFailed, OutputListens, ExitListens, Heal
  <2>2. ASSUME \/ Dies \/ ExitHeard \/ Interval \/ RosterChanges \/ Toggle \/ Launch
               \/ KillClicked \/ TimerFires \/ (\E ok \in BOOLEAN : AnswerKill(ok))
               \/ (\E k \in DOMAIN scans : ScanAsked(k) \/ ScanAnswered(k))
        PROVE  isShell' = isShell
    BY <2>2 DEF Dies, ExitHeard, Interval, RosterChanges, Toggle, Launch, KillClicked,
                TimerFires, KillTimerFires, AnswerKill, ScanAsked, ScanAnswered
  <2>3. ASSUME ReaderMoves PROVE isShell' = isShell
    BY <2>3 DEF ReaderMoves, ReaderEnds, ReaderRemoves
  <2>4. ASSUME ComposerNext PROVE isShell' = isShell
    BY <2>4 DEF ComposerNext, Write, Post, Slash, ShiftTab, AnswerSend, Healed, Typed, Entered,
                Answered, terminalVars
  <2> QED
    BY <2>1, <2>2, <2>3, <2>4 DEF Next, TerminalsNext, ReaderMoves, TimerFires
<1> SUFFICES ASSUME ~isShell
             PROVE  AgentFlows(flows') /\ (Watches' => tab'.painted = session' \/ Due(flows'))
  BY <1>s DEF PictureInv
<1>a. AgentFlows(flows) /\ (Watches => tab.painted = session \/ Due(flows))
  BY DEF PictureInv
<1>d. DOMAIN flows = 1 .. MaxFlows /\ flows \in [1 .. MaxFlows -> {None} \cup Flows]
  BY DEF PageInv, Fit
<1>c. ASSUME handle' = handle PROVE ~ClientComes
  <2>1. Len(readers) \in Nat
    BY DEF RustInv
  <2> QED
    BY <1>c, <2>1 DEF ClientComes, CreateOrAttach, Attach
<1>1. ASSUME UNCHANGED <<tab, flows>>, ~ClientComes PROVE Goal
  BY <1>a, <1>1 DEF PictureKept
<1>2. ASSUME Dies \/ Interval \/ RosterChanges \/ KillClicked \/ TimerFires PROVE Goal
  BY <1>c, <1>1, <1>2 DEF Dies, Interval, RosterChanges, KillClicked, TimerFires, KillTimerFires, pageVars,
                          rustVars, SessionEnds
<1>3. ASSUME ReaderMoves PROVE Goal
  <2>1. UNCHANGED <<tab, flows>> /\ (handle' = handle \/ handle' = 0)
    BY <1>3 DEF ReaderMoves, ReaderEnds, ReaderRemoves, pageVars
  <2>2. ~ClientComes
    <3>1. Len(readers) \in Nat
      BY DEF RustInv
    <3> QED
      BY <1>c, <2>1, <3>1 DEF ClientComes, CreateOrAttach, Attach
  <2> QED
    BY <1>1, <2>1, <2>2
<1>4. ASSUME NEW f \in DOMAIN flows,
             \/ PtySpawn(f) \/ PtySpawnShell(f) \/ StartupAsks(f) \/ StartupAnswered(f)
             \/ Spawned(f) \/ LaunchFailed(f) \/ AttachFailed(f)
             \/ OutputListens(f) \/ ExitListens(f)
      PROVE Goal
  BY <1>a, <1>4, FlowKeepsPicture
<1>5. ASSUME NEW f \in DOMAIN flows, Heal(f) PROVE Goal
  <2>1. flows' = [flows EXCEPT ![f] = None] /\ tab' = Repainted(tab) /\ UNCHANGED rustVars
    BY <1>5 DEF Heal
  <2>2. AgentFlows(flows')
    BY <1>a, <1>d, <2>1, DueExcept
  <2> QED
    BY <2>1, <2>2
<1>6. ASSUME ExitHeard PROVE Goal
  <2>1. ~ClientComes
    BY <1>c, <1>6 DEF ExitHeard, rustVars
  <2>2. CASE tab' = None /\ flows' = WithoutTab(flows)
    BY <1>a, <1>d, <2>1, <2>2, AgentFlowsWithoutTab DEF PictureKept
  <2>3. CASE UNCHANGED <<tab, flows>>
    BY <1>1, <2>1, <2>3
  <2> QED
    BY <1>6, <2>2, <2>3 DEF ExitHeard
<1>7. ASSUME NEW u \in {tab, Ensured(tab)}, NEW kind \in {"launch", "attach"}, FreeIn(flows) # {},
             tab' = InState(u, "launching"), flows' = Started(flows, kind), UNCHANGED rustVars
      PROVE  Goal
  <2>1. AgentFlows(flows') /\ (Due(flows) => Due(flows'))
    BY <1>a, <1>d, <1>7, DueStarted DEF Kinds
  <2>2. tab # None => u = tab /\ tab'.output = tab.output /\ tab'.painted = tab.painted
    BY <1>7 DEF Ensured, InState, PageInv, Fit, Tabs
  <2>3. tab = None => tab' = None \/ ~tab'.output
    BY <1>7 DEF Ensured, InState, NewTab
  <2>4. PictureKept
    BY <2>1, <2>2, <2>3 DEF PictureKept
  <2> QED
    BY <1>c, <1>7, <2>1, <2>4 DEF rustVars
<1>8. ASSUME NEW k \in DOMAIN scans, ScanAsked(k) PROVE Goal
  BY <1>c, <1>1, <1>8 DEF ScanAsked, rustVars
<1>9. ASSUME NEW k \in DOMAIN scans, ScanAnswered(k) PROVE Goal
  <2> DEFINE wanted == scans[k].roster \/ scans[k].found = "yes"
             kept == IF wanted THEN Ensured(tab) ELSE IF Idle(tab) THEN None ELSE tab
             attaches == scans[k].found = "yes" /\ kept.state = "external"
  <2>1. UNCHANGED rustVars /\ ~ClientComes
    BY <1>c, <1>9 DEF ScanAnswered, rustVars
  <2>2. CASE attaches
    <3>1. kept = Ensured(tab)
      BY <2>2
    <3>2. /\ FreeIn(flows) # {} /\ tab' = InState(Ensured(tab), "launching")
          /\ flows' = Started(flows, "attach")
      BY <1>9, <2>2, <3>1 DEF ScanAnswered
    <3> QED
      BY <1>7, <2>1, <3>2
  <2>3. CASE ~attaches /\ kept = None
    <3>1. tab' = None /\ flows' = WithoutTab(flows)
      BY <1>9, <2>3 DEF ScanAnswered
    <3> QED
      BY <1>a, <1>d, <2>1, <3>1, AgentFlowsWithoutTab DEF PictureKept
  <2>4. CASE ~attaches /\ kept # None
    <3>1. tab' = kept /\ flows' = flows
      BY <1>9, <2>4 DEF ScanAnswered
    <3>2. kept = tab \/ (tab = None /\ kept = NewTab)
      BY <2>4 DEF Ensured
    <3>3. ~NewTab.output
      BY DEF NewTab
    <3> QED
      BY <1>a, <2>1, <3>1, <3>2, <3>3 DEF PictureKept
  <2> QED
    BY <2>2, <2>3, <2>4
<1>10. ASSUME Toggle PROVE Goal
  <2>1. UNCHANGED <<tab, flows>> /\ UNCHANGED rustVars
    BY <1>10 DEF Toggle, EnsureShellAttached
  <2> QED
    BY <1>c, <1>1, <2>1 DEF rustVars
<1>11. ASSUME Launch PROVE Goal
  <2>1. /\ FreeIn(flows) # {} /\ tab' = InState(Ensured(tab), "launching")
        /\ flows' = Started(flows, "launch") /\ UNCHANGED rustVars
    BY <1>11 DEF Launch
  <2> QED
    BY <1>7, <2>1
<1>12. ASSUME NEW ok \in BOOLEAN, AnswerKill(ok) PROVE Goal
  BY <1>c, <1>1, <1>12 DEF AnswerKill, pageVars, rustVars
<1>13. ASSUME ComposerNext PROVE Goal
  <2>1. UNCHANGED rustVars /\ flows' = flows /\ tab' \in {tab, Repainted(tab)}
    BY <1>13 DEF ComposerNext, Write, Post, Slash, ShiftTab, AnswerSend, Healed, Typed, Entered,
                 Answered, terminalVars, pageVars
  <2> QED
    BY <1>a, <1>c, <1>1, <2>1 DEF rustVars
<1>14. Goal
  <2> HIDE DEF Goal
  <2> QED
    BY <1>2, <1>3, <1>4, <1>5, <1>6, <1>8, <1>9, <1>10, <1>11, <1>12, <1>13
       DEF Next, TerminalsNext, ReaderMoves, TimerFires
<1>15. CASE Due(flows')
  BY <1>14, <1>15
<1>16. CASE PictureKept /\ ~ClientComes
  <2>1. ExitOrNothing \/ SessionOnly \/ ReaderMoves
    BY <1>16, RustSteps
  <2> QED
    BY <1>a, <1>14, <1>16, <2>1, WatchesAsBefore
<1>17. CASE tab' = Repainted(tab) /\ UNCHANGED rustVars
  BY <1>14, <1>17, RepaintShows
<1> QED
  BY <1>14, <1>15, <1>16, <1>17

\* A tab that listens shows the picture of its session once nothing of the page
\* is on its way, in whatever order launches, exits and reconciles cross
\* (terminal.js _connectLiveTab, attachOutputListener, pty.rs pty_heal_geometry).
THEOREM PictureAlwaysShown == Spec => []PictureShown
<1>1. Init => PictureInv
  <2> SUFFICES ASSUME Init PROVE PictureInv
    OBVIOUS
  <2>1. tab = None /\ \A f \in 1 .. MaxFlows : flows[f] # None => flows[f].kind = "startup"
    BY DEF Init, TerminalsInit, Flow
  <2> QED
    BY <2>1 DEF PictureInv, AgentFlows, Watches
<1>2. PictureInv /\ DesktopInv /\ [Next]_vars => PictureInv'
  <2>1. PictureInv /\ UNCHANGED vars => PictureInv'
    BY DEF PictureInv, Watches, vars, rustVars, pageVars
  <2> QED
    BY <2>1, PictureStep DEF DesktopInv
<1>3. PictureInv /\ DesktopInv => PictureShown
  <2> SUFFICES ASSUME PictureInv, RustInv, PageInv, Settled, ~isShell, tab # None, tab.output,
                      session # 0, handle # 0
               PROVE  tab.painted = session
    BY DEF PictureShown, DesktopInv
  <2>1. handle \in Running
    BY DEF RustInv, OneClient
  <2>2. Watches
    BY <2>1 DEF Watches, Settled
  <2>3. ~Due(flows)
    BY DEF Due, Settled, PageInv, Fit
  <2> QED
    BY <2>2, <2>3 DEF PictureInv
<1> QED
  BY <1>1, <1>2, <1>3, DesktopInvariant, PTL DEF Spec

=============================================================================
