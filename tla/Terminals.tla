----------------------------- MODULE Terminals -----------------------------
(* One name of the terminal pane: its tab (ui/terminal.js), the client that
   the desktop shell attached for it (src-tauri/src/pty.rs) and the tmux
   session both look at.  The name is an agent's or that of the scratch shell.
   A command of the shell runs between two turns of the page, a reader thread
   and the session at any time; every await of the page is a step. *)
EXTENDS Naturals, Sequences, FiniteSets, FiniteSetsExt

CONSTANTS
    None,           \* no tab, no flow, no scan, no dialog
    MaxSessions,    \* how often a tmux session of the name is created
    MaxClients,     \* how often the shell attaches
    MaxFlows,       \* launches, attachments: at once
    MaxScans,       \* reconciles: at once
    MaxActs,        \* how many things the user does
    Scenes          \* the sets of things that happen in a behaviour

\* What the page knows of a tab, and a flow between two of its awaits.
Tabs(sessions) ==
    [state : {"external", "launching", "live"}, output : BOOLEAN, exit : BOOLEAN,
     painted : 0 .. sessions]
Kinds == {"startup", "launch", "attach", "shell"}
Stages == {"asking", "found", "missing", "spawning", "spawned", "attached", "failed",
           "output", "exit", "heal"}
Flows == [kind : Kinds, stage : Stages, mine : BOOLEAN]

ASSUME BoundsAssumption ==
    {MaxSessions, MaxClients, MaxFlows, MaxScans, MaxActs} \subseteq Nat \ {0}

ASSUME NoneAssumption == None \notin Flows \cup Tabs(MaxSessions)

VARIABLES
    isShell,    \* the name is that of the scratch shell
    session,    \* the tmux session of the name, 0 if there is none
    born,       \* the sessions created
    readers,    \* the clients attached, each with its reader thread
    handle,     \* the client in PtyRegistry, 0 if there is none
    exits,      \* pty://exit events the page has not handled
    pane,       \* _paneEnabled
    onRoster,   \* the name is in ROSTER
    tab,        \* the record in tabs
    stray,      \* an exit listener outlived its tab
    flows,      \* handleLaunch, autoAttach, ensureShellAttached
    scans,      \* reconcile
    killTimers, \* the timeouts of handleKill, each with the session that got its /exit
    dialog,     \* the confirm modal: what it shows and whom it resolves
    acts,       \* how many things the user did
    scene,      \* what happens in this behaviour
    agreed,     \* history: the questions on show when they were confirmed
    carried     \* history: the questions of the deeds that were carried out

rustVars == <<session, born, readers, handle>>
pageVars == <<tab, stray, flows, scans>>
userVars == <<killTimers, dialog, acts, scene, agreed, carried>>

Flow(kind, stage) == [kind |-> kind, stage |-> stage, mine |-> TRUE]
Scan == [roster |-> onRoster, found |-> "asked"]
NewTab == [state |-> "external", output |-> FALSE, exit |-> FALSE, painted |-> 0]

TerminalsInit ==
    /\ scene \in Scenes
    /\ isShell \in {FALSE, "toggle" \in scene}
    /\ session \in {0, 1}        \* sessions outlive the application
    /\ born = session
    /\ readers = <<>>
    /\ handle = 0
    /\ exits = 0
    /\ pane = FALSE
    /\ onRoster \in {~isShell, ~isShell /\ "roster" \notin scene}
    /\ tab = None
    /\ stray = FALSE
    /\ flows = [f \in 1 .. MaxFlows |-> IF f = 1 THEN Flow("startup", "asking") ELSE None]
    /\ \E roster \in {onRoster, "roster" \in scene} :
           scans = [k \in 1 .. MaxScans |->
                       IF k = 1 /\ ~isShell THEN [roster |-> roster, found |-> "asked"] ELSE None]
    /\ killTimers = {}
    /\ dialog = None
    /\ acts = 0
    /\ agreed = {}
    /\ carried = {}

-----------------------------------------------------------------------------
(* The desktop shell and tmux. *)

\* attach_and_stream: a client of the session, in the registry.
Attach(s) ==
    /\ Len(readers) < MaxClients
    /\ readers' = Append(readers, [of |-> s, phase |-> "reading"])
    /\ handle' = Len(readers) + 1

\* ensure_session_configured, or a new session, and the client.
CreateOrAttach ==
    \/ /\ session # 0
       /\ Attach(session)
       /\ UNCHANGED <<session, born>>
    \/ /\ session = 0
       /\ born < MaxSessions
       /\ session' = born + 1
       /\ born' = born + 1
       /\ Attach(born + 1)

\* A new session whose client cannot be attached.
CreateOnly ==
    /\ session = 0
    /\ born < MaxSessions
    /\ session' = born + 1
    /\ born' = born + 1
    /\ UNCHANGED <<readers, handle>>

\* The session ends: /exit, a crash, or kill-session.
SessionEnds ==
    /\ session # 0
    /\ session' = 0
    /\ UNCHANGED <<born, readers, handle>>

\* Of its own accord, or of the /exit that was written to it.
Dies ==
    /\ "die" \in scene \/ \E timer \in killTimers : timer.exits = session
    /\ SessionEnds
    /\ UNCHANGED <<isShell, exits, pane, onRoster, pageVars, userVars>>

\* The user may detach from within tmux, once for a session: the client ends
\* and the session goes on.
Detaches(n) ==
    /\ "detach" \in scene
    /\ \A other \in DOMAIN readers \ {n} : readers[other].of # session

\* The reader thread meets the end of its client and says so.
ReaderEnds(n) ==
    /\ readers[n].phase = "reading"
    /\ readers[n].of # session \/ Detaches(n)
    /\ readers' = [readers EXCEPT ![n].phase = "told"]
    /\ exits' = exits + 1
    /\ UNCHANGED <<isShell, session, born, handle, pane, onRoster, pageVars, userVars>>

\* It takes the name out of the registry after it said so.
ReaderRemoves(n) ==
    /\ readers[n].phase = "told"
    /\ readers' = [readers EXCEPT ![n].phase = "gone"]
    /\ handle' = 0
    /\ UNCHANGED <<isShell, session, born, exits, pane, onRoster, pageVars, userVars>>

\* Mutant: the registry is not looked at.
PtySpawnUnchecked(f) ==
    /\ flows[f] # None /\ flows[f].kind \in {"launch", "attach"}
    /\ flows[f].stage = "spawning"
    /\ \/ /\ ~isShell
          /\ flows' = [flows EXCEPT ![f].stage = "spawned"]
          /\ CreateOrAttach
       \/ /\ flows' = [flows EXCEPT ![f].stage = "failed"]
          /\ UNCHANGED rustVars
    /\ UNCHANGED <<isShell, exits, pane, onRoster, tab, stray, scans, userVars>>

\* A command runs: pty_spawn of a launch or of autoAttach.  The name of the
\* shell is not a valid agent's, and tmux may refuse.
PtySpawn(f) ==
    /\ flows[f] # None /\ flows[f].kind \in {"launch", "attach"}
    /\ flows[f].stage = "spawning"
    /\ \/ /\ handle # 0 /\ ~isShell
          /\ flows' = [flows EXCEPT ![f].stage = "attached"]
          /\ UNCHANGED rustVars
       \/ /\ handle = 0 /\ ~isShell
          /\ flows' = [flows EXCEPT ![f].stage = "spawned"]
          /\ CreateOrAttach
       \/ /\ handle = 0 \/ isShell
          /\ flows' = [flows EXCEPT ![f].stage = "failed"]
          /\ UNCHANGED rustVars \/ (~isShell /\ CreateOnly)
    /\ UNCHANGED <<isShell, exits, pane, onRoster, tab, stray, scans, userVars>>

\* pty_spawn_shell: to be attached already is a success.
PtySpawnShell(f) ==
    /\ flows[f] # None /\ flows[f].kind = "shell" /\ flows[f].stage = "spawning"
    /\ \/ /\ handle # 0
          /\ flows' = [flows EXCEPT ![f].stage = "spawned"]
          /\ UNCHANGED rustVars
       \/ /\ handle = 0
          /\ flows' = [flows EXCEPT ![f].stage = "spawned"]
          /\ CreateOrAttach
       \/ /\ handle = 0
          /\ flows' = [flows EXCEPT ![f].stage = "failed"]
          /\ UNCHANGED rustVars \/ CreateOnly
    /\ UNCHANGED <<isShell, exits, pane, onRoster, tab, stray, scans, userVars>>

-----------------------------------------------------------------------------
(* The page. *)

FreeIn(slots) == {n \in DOMAIN slots : slots[n] = None}

Started(fs, kind) == [fs EXCEPT ![Min(FreeIn(fs))] = Flow(kind, "spawning")]

\* reconcile reads the roster and asks for the sessions.  The name of the shell
\* means nothing to it.
StartScan ==
    \/ /\ isShell
       /\ UNCHANGED scans
    \/ /\ ~isShell
       /\ FreeIn(scans) # {}
       /\ scans' = [scans EXCEPT ![Min(FreeIn(scans))] = Scan]

\* Mutant: a registration on its way takes the tab for its own still.
WithoutTabOnly(fs) == fs

\* removeTab: a listener that is still being registered stays without its tab.
WithoutTab(fs) ==
    [f \in DOMAIN fs |->
        IF fs[f] # None /\ fs[f].stage \in {"output", "exit"}
        THEN [fs[f] EXCEPT !.mine = FALSE] ELSE fs[f]]

InState(t, state) == IF t = None THEN None ELSE [t EXCEPT !.state = state]
Ensured(t) == IF t = None THEN NewTab ELSE t
Idle(t) == Ensured(t).state = "external"

\* ensureShellAttached
EnsureShellAttached ==
    \/ /\ ~(isShell /\ Idle(tab))
       /\ UNCHANGED <<tab, flows>>
    \/ /\ isShell /\ Idle(tab)
       /\ FreeIn(flows) # {}
       /\ tab' = InState(Ensured(tab), "launching")
       /\ flows' = Started(flows, "shell")

\* The startup: the pane opens when a session of any name is there.
StartupAsks(f) ==
    /\ flows[f] = Flow("startup", "asking")
    /\ \E found \in {"found", "missing"} :
           /\ session # 0 => found = "found"
           /\ flows' = [flows EXCEPT ![f].stage = found]
    /\ UNCHANGED <<isShell, rustVars, exits, pane, onRoster, tab, stray, scans, userVars>>

StartupAnswered(f) ==
    /\ flows[f] # None /\ flows[f].stage \in {"found", "missing"}
    /\ pane' = (pane \/ flows[f].stage = "found")
    /\ IF pane' /\ ~pane THEN StartScan ELSE UNCHANGED scans
    /\ IF pane' /\ isShell /\ Idle(tab)
       THEN /\ tab' = InState(Ensured(tab), "launching")
            /\ flows' = Started([flows EXCEPT ![f] = None], "shell")
       ELSE /\ flows' = [flows EXCEPT ![f] = None]
            /\ UNCHANGED tab
    /\ UNCHANGED <<isShell, rustVars, exits, onRoster, stray, userVars>>

\* The command succeeded: the tab is live, and attachOutputListener drops the
\* listeners it had.
Spawned(f) ==
    /\ flows[f] # None /\ flows[f].stage = "spawned"
    /\ \/ /\ tab = None
          /\ flows' = [flows EXCEPT ![f].stage = "heal"]
          /\ UNCHANGED tab
       \/ /\ tab # None
          /\ tab' = [tab EXCEPT !.state = "live", !.output = FALSE, !.exit = FALSE]
          /\ flows' = [flows EXCEPT ![f].stage = "output", ![f].mine = TRUE]
    /\ UNCHANGED <<isShell, rustVars, exits, pane, onRoster, stray, scans, userVars>>

\* handleLaunch gave up: alert, removeTab, reconcile.
LaunchFailed(f) ==
    /\ flows[f] # None /\ flows[f].kind = "launch"
    /\ flows[f].stage \in {"attached", "failed"}
    /\ tab' = None
    /\ flows' = WithoutTab([flows EXCEPT ![f] = None])
    /\ StartScan
    /\ UNCHANGED <<isShell, rustVars, exits, pane, onRoster, stray, userVars>>

\* Mutant: only "already attached" is an answer.
AttachFailedSilently(f) ==
    /\ flows[f] # None /\ flows[f].kind \in {"attach", "shell"}
    /\ flows[f].stage \in {"attached", "failed"}
    /\ tab' = IF flows[f].stage = "attached" THEN InState(tab, "live") ELSE tab
    /\ flows' = [flows EXCEPT ![f] = None]
    /\ UNCHANGED <<isShell, rustVars, exits, pane, onRoster, stray, scans, userVars>>

\* autoAttach and ensureShellAttached gave up.
AttachFailed(f) ==
    /\ flows[f] # None /\ flows[f].kind \in {"attach", "shell"}
    /\ flows[f].stage \in {"attached", "failed"}
    /\ tab' = InState(tab, IF flows[f].stage = "attached" THEN "live" ELSE "external")
    /\ flows' = [flows EXCEPT ![f] = None]
    /\ UNCHANGED <<isShell, rustVars, exits, pane, onRoster, stray, scans, userVars>>

\* attachOutputListener: first the output listener, then the exit listener.
OutputListens(f) ==
    /\ flows[f] # None /\ flows[f].stage = "output"
    /\ tab' = IF flows[f].mine THEN [tab EXCEPT !.output = TRUE] ELSE tab
    /\ flows' = [flows EXCEPT ![f].stage = "exit"]
    /\ UNCHANGED <<isShell, rustVars, exits, pane, onRoster, stray, scans, userVars>>

\* Mutant: the tab is not healed.
ExitListensUnhealed(f) ==
    /\ flows[f] # None /\ flows[f].stage = "exit"
    /\ tab' = IF flows[f].mine THEN [tab EXCEPT !.exit = TRUE] ELSE tab
    /\ stray' = (stray \/ ~flows[f].mine)
    /\ flows' = [flows EXCEPT ![f] = None]
    /\ UNCHANGED <<isShell, rustVars, exits, pane, onRoster, scans, userVars>>

\* The handle of a listener that another flow registered meanwhile is lost.
ExitListens(f) ==
    /\ flows[f] # None /\ flows[f].stage = "exit"
    /\ tab' = IF flows[f].mine THEN [tab EXCEPT !.exit = TRUE] ELSE tab
    /\ stray' = (stray \/ ~flows[f].mine \/ tab.exit)
    /\ flows' = IF flows[f].kind = "shell" THEN [flows EXCEPT ![f] = None]
                ELSE [flows EXCEPT ![f] = Flow(@.kind, "heal")]
    /\ UNCHANGED <<isShell, rustVars, exits, pane, onRoster, scans, userVars>>

\* pty_heal_geometry: tmux repaints, and who listens hears it.
Repainted(t) ==
    IF t # None /\ t.output /\ handle # 0 /\ readers[handle].of = session
    THEN [t EXCEPT !.painted = session] ELSE t

Heal(f) ==
    /\ flows[f] # None /\ flows[f].stage = "heal"
    /\ flows' = [flows EXCEPT ![f] = None]
    /\ tab' = Repainted(tab)
    /\ UNCHANGED <<isShell, rustVars, exits, pane, onRoster, stray, scans, userVars>>

\* The page hears that a client ended, if anyone listens.
ExitHeard ==
    /\ exits > 0
    /\ exits' = exits - 1
    /\ \/ /\ stray \/ Ensured(tab).exit
          /\ tab' = None
          /\ flows' = WithoutTab(flows)
          /\ StartScan
       \/ /\ ~stray /\ ~Ensured(tab).exit
          /\ UNCHANGED <<tab, flows, scans>>
    /\ UNCHANGED <<isShell, rustVars, pane, onRoster, stray, userVars>>

\* pty_list runs for a reconcile.
ScanAsked(k) ==
    /\ scans[k] # None /\ scans[k].found = "asked"
    /\ scans' = [scans EXCEPT ![k].found = IF session # 0 THEN "yes" ELSE "no"]
    /\ UNCHANGED <<isShell, rustVars, exits, pane, onRoster, tab, stray, flows, userVars>>

\* reconcile, after pty_list: a tab nobody wants goes, a wanted one comes, and
\* one that shows nothing of a session attaches to it.
ScanAnswered(k) ==
    LET wanted == scans[k].roster \/ scans[k].found = "yes"
        kept == IF wanted THEN Ensured(tab) ELSE IF Idle(tab) THEN None ELSE tab
        attaches == scans[k].found = "yes" /\ kept.state = "external"
    IN  /\ scans[k] # None /\ scans[k].found # "asked"
        /\ scans' = [scans EXCEPT ![k] = None]
        /\ \/ /\ attaches
              /\ FreeIn(flows) # {}
              /\ tab' = InState(kept, "launching")
              /\ flows' = Started(flows, "attach")
           \/ /\ ~attaches
              /\ tab' = kept
              /\ flows' = IF kept = None THEN WithoutTab(flows) ELSE flows
        /\ UNCHANGED <<isShell, rustVars, exits, pane, onRoster, stray, userVars>>

\* The interval of 5 s.
Interval ==
    /\ pane /\ ~isShell
    /\ StartScan
    /\ UNCHANGED <<isShell, rustVars, exits, pane, onRoster, tab, stray, flows, userVars>>

\* The roster changes, and the legend with it.
RosterChanges ==
    /\ "roster" \in scene
    /\ ~isShell
    /\ onRoster' = ~onRoster
    /\ IF pane
       THEN /\ FreeIn(scans) # {}
            /\ scans' = [scans EXCEPT ![Min(FreeIn(scans))] = [Scan EXCEPT !.roster = ~onRoster]]
       ELSE UNCHANGED scans
    /\ UNCHANGED <<isShell, rustVars, exits, pane, tab, stray, flows, userVars>>

-----------------------------------------------------------------------------
(* The user.  The backdrop of an open dialog takes the clicks. *)

Acts(what) ==
    /\ what \in scene
    /\ acts < MaxActs
    /\ acts' = acts + 1
    /\ UNCHANGED scene

Clicks(what) == dialog = None /\ Acts(what)

\* The button of the pane.
Toggle ==
    /\ Clicks("toggle")
    /\ pane' = ~pane
    /\ IF pane' THEN StartScan /\ EnsureShellAttached ELSE UNCHANGED <<scans, tab, flows>>
    /\ UNCHANGED <<isShell, rustVars, exits, onRoster, stray, killTimers, dialog, agreed, carried>>

\* The spawn dialog is submitted: handleLaunch.
Launch ==
    /\ Clicks("launch")
    /\ FreeIn(flows) # {}
    /\ pane' = TRUE
    /\ tab' = InState(Ensured(tab), "launching")
    /\ flows' = Started(flows, "launch")
    /\ UNCHANGED <<isShell, rustVars, exits, onRoster, stray, scans,
                   killTimers, dialog, agreed, carried>>

\* Mutant: the promise of the first question is kept.
AskConfirmKeeping(what) ==
    LET question == [what |-> what, act |-> acts + 1]
    IN  dialog' = [shows |-> question,
                   resolves |-> IF dialog = None THEN question ELSE dialog.resolves]

\* askConfirm: a question on show is replaced, and its promise never resolved.
\* A question is named by the act that put it.
AskConfirm(what) ==
    LET question == [what |-> what, act |-> acts + 1]
    IN  dialog' = [shows |-> question, resolves |-> question]

\* The close mark of the tab: handleKill asks first.
KillClicked ==
    /\ Clicks("kill")
    /\ tab # None /\ ~isShell /\ pane
    /\ AskConfirm("kill")
    /\ UNCHANGED <<isShell, rustVars, exits, pane, onRoster, pageVars,
                   killTimers, agreed, carried>>

\* The session that pty_write types into, 0 if the registry holds no client.
Typing == IF handle = 0 THEN 0 ELSE readers[handle].of

\* A question, and the session that had the name at the time.
Of(question) == [question |-> question, session |-> session]

\* _closeConfirm
Answer(ok) ==
    /\ dialog # None
    /\ dialog' = None
    /\ agreed' = IF ok THEN agreed \cup {Of(dialog.shows)} ELSE agreed

\* handleKill: /exit is written if a client is there, and the timeout started.
\* Whether the session ends of it is its own affair.
AnswerKill(ok) ==
    /\ dialog # None /\ dialog.resolves.what = "kill"
    /\ Answer(ok)
    /\ carried' = IF ok /\ handle # 0 THEN carried \cup {Of(dialog.resolves)} ELSE carried
    /\ killTimers' = IF ok THEN killTimers \cup {[question |-> dialog.resolves, exits |-> Typing]}
                      ELSE killTimers
    /\ UNCHANGED <<isShell, rustVars, exits, pane, onRoster, pageVars, acts, scene>>

\* Ten seconds later: pty_kill of whatever session has the name by then.
KillTimerFires(timer) ==
    /\ killTimers' = killTimers \ {timer}
    /\ \/ /\ tab = None \/ session = 0
          /\ UNCHANGED <<rustVars, carried>>
       \/ /\ tab # None
          /\ SessionEnds
          /\ carried' = carried \cup {Of(timer.question)}
    /\ UNCHANGED <<isShell, exits, pane, onRoster, pageVars, dialog, acts, scene, agreed>>

TerminalsNext ==
    \/ Dies
    \/ \E n \in DOMAIN readers : ReaderEnds(n) \/ ReaderRemoves(n)
    \/ \E f \in DOMAIN flows :
           \/ PtySpawn(f) \/ PtySpawnShell(f)
           \/ StartupAsks(f) \/ StartupAnswered(f)
           \/ Spawned(f) \/ LaunchFailed(f) \/ AttachFailed(f)
           \/ OutputListens(f) \/ ExitListens(f) \/ Heal(f)
    \/ ExitHeard
    \/ \E k \in DOMAIN scans : ScanAsked(k) \/ ScanAnswered(k)
    \/ Interval \/ RosterChanges
    \/ Toggle \/ Launch \/ KillClicked
    \/ \E ok \in BOOLEAN : AnswerKill(ok)
    \/ \E timer \in killTimers : KillTimerFires(timer)
=============================================================================
