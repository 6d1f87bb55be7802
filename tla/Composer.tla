------------------------------ MODULE Composer ------------------------------
(* The composer (ui/features/composer.js) and what it types into the agents'
   sessions (ui/features/slash-command.js).  A text is its mode and the act that
   wrote it.  Sends that are refused at once (no room, no target, nobody there)
   change nothing and are left out, and so are the button, as Enter sends
   whether or not it is disabled, the picker and the attachment. *)
EXTENDS Terminals

VARIABLES
    text,       \* what the composer holds
    sends,      \* the calls of send, sendSlash and sendShiftTab
    posts       \* how often each text was posted to the hub

composerVars == <<text, sends, posts>>
terminalVars == <<isShell, rustVars, exits, pane, onRoster, pageVars, killTimers>>

\* A message or an interrupt; a slash command that the agent answers, that wipes
\* its context, or whose panel is captured; the Shift+Tab pseudo-command.
Modes == {"chat", "slash", "clear", "panel", "shift-tab"}

ComposerInit ==
    /\ text = None
    /\ sends = <<>>
    /\ posts = [act \in 1 .. MaxActs |-> 0]

Done == [mode |-> "chat", many |-> FALSE, act |-> 0, stage |-> "done"]
Question(n) == [what |-> "send", act |-> sends[n].act]

Write(mode) ==
    /\ Acts("write")
    /\ text' = [mode |-> mode, act |-> acts + 1]
    /\ UNCHANGED <<terminalVars, dialog, agreed, carried, sends, posts>>

Sending(mode, many, stage) ==
    Append(sends, [mode |-> mode, many |-> many, act |-> acts + 1, stage |-> stage])

\* Mutant: the composer is emptied when the hub has answered.
PostKept ==
    /\ text # None /\ text.mode = "chat"
    /\ Acts("send")
    /\ sends' = Sending("chat", FALSE, "posting")
    /\ posts' = [posts EXCEPT ![text.act] = @ + 1]
    /\ UNCHANGED <<terminalVars, dialog, agreed, carried, text>>

\* _dispatchChat, _dispatchInterrupt: the composer is emptied before the await.
Post ==
    /\ text # None /\ text.mode = "chat"
    /\ Acts("send")
    /\ text' = None
    /\ sends' = Sending("chat", FALSE, "posting")
    /\ posts' = [posts EXCEPT ![text.act] = @ + 1]
    /\ UNCHANGED <<terminalVars, dialog, agreed, carried>>

\* _dispatchSlash: the targets are resolved, and several are asked about first
\* when the command wipes their context.  The text stays until it is done.
Slash ==
    /\ text # None /\ text.mode \in {"slash", "clear", "panel"}
    /\ onRoster
    /\ Acts("send")
    /\ \E many \in BOOLEAN :
          \/ /\ text.mode = "clear" /\ many
             /\ sends' = Sending(text.mode, many, "asking")
             /\ AskConfirm("send")
          \/ /\ ~(text.mode = "clear" /\ many)
             /\ sends' = Sending(text.mode, many, "healing")
             /\ UNCHANGED dialog
    /\ UNCHANGED <<terminalVars, agreed, carried, text, posts>>

\* _dispatchShiftTab, and Shift+Tab itself, which looks at no text.
ShiftTab ==
    /\ onRoster
    /\ Acts("send")
    /\ \/ /\ text # None /\ text.mode = "shift-tab"
          /\ sends' = Sending("shift-tab", TRUE, "healing")
       \/ sends' = Sending("key", TRUE, "healing")
    /\ UNCHANGED <<terminalVars, dialog, agreed, carried, text, posts>>

\* The answer goes to the promise that asked last.
AnswerSend(ok) ==
    /\ dialog # None /\ dialog.resolves.what = "send"
    /\ Answer(ok)
    /\ sends' = [n \in DOMAIN sends |->
                    IF sends[n].act = dialog.resolves.act
                    THEN IF ok THEN [sends[n] EXCEPT !.stage = "healing"] ELSE Done
                    ELSE sends[n]]
    /\ UNCHANGED <<terminalVars, acts, scene, carried, text, posts>>

\* The geometry was healed: the text is typed, or its capture runs detached and
\* the composer is emptied.
Healed(n) ==
    /\ sends[n].stage = "healing"
    /\ tab' = Repainted(tab)
    /\ \/ /\ sends[n].mode = "panel"
          /\ sends' = [sends EXCEPT ![n].stage = "capturing"]
          /\ text' = None
       \/ /\ sends[n].mode # "panel"
          /\ sends' = [sends EXCEPT ![n].stage = "typing"]
          /\ UNCHANGED text
    /\ UNCHANGED <<isShell, rustVars, exits, pane, onRoster, stray, flows, scans,
                   userVars, posts>>

\* pty_write, which fails when the name is not in the registry.
Typed(n) ==
    /\ sends[n].stage = "typing"
    /\ \/ /\ handle # 0
          /\ sends' = [sends EXCEPT ![n].stage =
                          IF sends[n].mode \in {"shift-tab", "key"} THEN "reading" ELSE "entering"]
          /\ carried' = IF sends[n].mode = "clear" /\ sends[n].many
                        THEN carried \cup {Of(Question(n))} ELSE carried
          /\ UNCHANGED text
       \/ /\ handle = 0
          /\ sends' = [sends EXCEPT ![n] = Done]
          /\ text' = IF sends[n].mode = "key" THEN text ELSE None
          /\ UNCHANGED carried
    /\ UNCHANGED <<terminalVars, dialog, acts, scene, agreed, posts>>

\* Enter was typed 60 ms later, or the footer was read: what the composer holds
\* by now is cleared.
Entered(n) ==
    /\ sends[n].stage \in {"entering", "reading"}
    /\ sends' = [sends EXCEPT ![n] = Done]
    /\ text' = IF sends[n].mode = "key" THEN text ELSE None
    /\ UNCHANGED <<terminalVars, dialog, acts, scene, agreed, carried, posts>>

\* The hub answered, or the capture ended.
Answered(n) ==
    /\ sends[n].stage \in {"posting", "capturing"}
    /\ sends' = [sends EXCEPT ![n] = Done]
    /\ UNCHANGED <<terminalVars, dialog, acts, scene, agreed, carried, text, posts>>

ComposerNext ==
    \/ \E mode \in Modes : Write(mode)
    \/ Post \/ Slash \/ ShiftTab
    \/ \E ok \in BOOLEAN : AnswerSend(ok)
    \/ \E n \in DOMAIN sends : Healed(n) \/ Typed(n) \/ Entered(n) \/ Answered(n)
=============================================================================
