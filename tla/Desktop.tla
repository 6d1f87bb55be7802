------------------------------ MODULE Desktop ------------------------------
(* The terminal pane and the composer: one user, one confirm dialog, one
   registry of clients. *)
EXTENDS Composer

vars == <<isShell, rustVars, exits, pane, onRoster, pageVars, userVars, composerVars>>

Init == TerminalsInit /\ ComposerInit

Next ==
    \/ TerminalsNext /\ UNCHANGED composerVars
    \/ ComposerNext

Spec == Init /\ [][Next]_vars

-----------------------------------------------------------------------------
DesktopTypeOK ==
    /\ isShell \in BOOLEAN /\ pane \in BOOLEAN /\ onRoster \in BOOLEAN /\ stray \in BOOLEAN
    /\ session \in {0, born} /\ born \in 0 .. MaxSessions
    /\ \A n \in DOMAIN readers :
          readers[n] \in [of : 1 .. born, phase : {"reading", "told", "gone"}]
    /\ handle \in 0 .. Len(readers)
    /\ exits \in 0 .. MaxClients
    /\ tab \in {None} \cup Tabs(born)
    /\ flows \in [1 .. MaxFlows -> {None} \cup Flows]
    /\ \A f \in DOMAIN flows :
          flows[f] # None /\ flows[f].stage \in {"output", "exit"} /\ flows[f].mine => tab # None
    /\ \A timer \in killTimers :
          timer.question.what = "kill" /\ timer.question.act \in 1 .. acts /\ timer.exits \in 0 .. born
    /\ text = None \/ text.mode \in Modes

Running == {n \in DOMAIN readers : readers[n].phase # "gone"}

\* The registry holds the one client that still runs, whoever launched or
\* attached: keys never go to an old client, and no reader takes a newer
\* client's entry out (pty.rs pty_spawn, attach_and_stream).
OneClient == Running = {handle} \ {0}

\* A tab that shows a launch has a launch on its way: reconcile passes over it,
\* so nothing else would ever end it (terminal.js reconcile, autoAttach).
LaunchesEnd ==
    tab # None /\ tab.state = "launching" =>
        \E f \in DOMAIN flows : flows[f] # None /\
            flows[f].stage \in {"spawning", "spawned", "attached", "failed"}

\* Nothing of the page is on its way.
Settled ==
    /\ \A f \in DOMAIN flows : flows[f] = None
    /\ \A k \in DOMAIN scans : scans[k] = None
    /\ exits = 0
    /\ \A n \in Running : readers[n].phase = "reading" /\ readers[n].of = session

\* Of an agent's session, a tab that listens shows the picture: no order of
\* launch, death and relaunch leaves it without (terminal.js _connectLiveTab).
PictureShown ==
    Settled /\ ~isShell /\ tab # None /\ tab.output /\ session # 0 /\ handle # 0 =>
        tab.painted = session

Questions(deeds) == {deed.question : deed \in deeds}

\* A command that wipes several agents is typed, and by the close mark of a tab
\* /exit is written and a session killed, only on a question that the user
\* confirmed while just that question was on show (state.js askConfirm,
\* terminal.js handleKill, slash-command.js sendSlash).  A slash command to one
\* agent is never asked about; which session a kill meets is the next property's.
ConfirmedOnly == Questions(carried) \subseteq Questions(agreed)

\* openspec/specs/terminal-projection/spec.md 71-80: the close mark kills the
\* session of its tab and "Confirmation is required": a session that the close
\* mark ends is the one that ran under the name when the user confirmed, unless
\* none ran yet.
KillsWhatWasConfirmed ==
    \A deed \in carried : deed.question.what = "kill" =>
        \E asked \in agreed :
            asked.question = deed.question /\ asked.session \in {0, deed.session}

\* A text is sent to the hub once, however often Enter is hit while the hub is
\* slow (composer.js _dispatchChat, _dispatchInterrupt); the one retry of
\* authedFetch is part of the send.
PostedOnce == \A act \in DOMAIN posts : posts[act] <= 1

\* openspec/changes/terminal-pane-pty/specs/terminal-projection/spec.md 194: "Tabs
\* for sessions that no longer exist in tmux SHALL be removed".
NoDeadTabs ==
    Settled /\ ~isShell /\ tab # None /\ tab.state = "live" => session # 0
=============================================================================
