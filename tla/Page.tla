-------------------------------- MODULE Page --------------------------------
(***************************************************************************)
(* The webview: what it loads when it starts and after Reload settings,    *)
(* its event stream and the retries of it, and what its message list and   *)
(* its legend show.  The nutshell strip and the room filter are left out.  *)
(***************************************************************************)
EXTENDS Fanout

CONSTANTS
    DomLimit,   \* MESSAGE_DOM_LIMIT: children of the message list
    MaxDrops,   \* bound of the model: streams that break while the hub lives
    None

ASSUME PageAssumption ==
    /\ DomLimit \in Nat \ {0, 1}
    /\ None \notin Ids
    /\ MaxDrops \in Nat

VARIABLES
    session,    \* serverSession, in localStorage: 0 for that of an earlier run
    lastSeen,   \* lastSeenId, in localStorage
    bus,        \* BUS and AUTH_TOKEN: the hub process they name
    timers,     \* 3 s reconnect timers that are pending
    drops,      \* streams that broke
    flows,      \* awaits left of bootstrap() and of the click on Reload settings
    replies,    \* the answer to the request each of the two awaits, and whose it is
    view,       \* the message list, and the maps of the cards in it
    loaded,     \* history: kinds whose pending items the hub that runs told it
    stale,      \* history: cards that an answer of an earlier hub put there
    legend      \* the agent's item in the legend: absent, off or on

pageVars == <<session, lastSeen, bus, timers, drops, flows, replies, view, loaded,
              stale, legend>>

OfKind(kind) ==
    CASE kind = "handoff" -> HandoffIds
      [] kind = "interrupt" -> InterruptIds
      [] kind = "permission" -> PermissionIds

\* loadAllPending: the kinds in the order they registered in; one of which the
\* behaviour has no entity is skipped, since its answer is always empty.
Load(kind) == IF OfKind(kind) \cap cast # {} THEN <<kind>> ELSE <<>>
KindSteps == Load("handoff") \o Load("interrupt") \o Load("permission")

\* cards: handoffCards, interruptCards and permissionCards, the version or 0;
\* list: the children of #messages but #permission-stack; held: the cards in it;
\* trimmed: history, what trimMessages removed.
EmptyView == [cards |-> [c \in Ids |-> 0], list |-> <<>>, made |-> FALSE,
              held |-> {}, trimmed |-> {}]

PageInit ==
    /\ session = 0
    /\ lastSeen = 2
    /\ bus = 1
    /\ timers = 0
    /\ drops = 0
    /\ flows = [f \in {"boot", "reload"} |->
                   IF f = "boot" /\ client = "page"
                   THEN <<"roster">> \o KindSteps \o <<"connect">> ELSE <<>>]
    /\ replies = [f \in {"boot", "reload"} |-> None]
    /\ view = EmptyView
    /\ loaded = {}
    /\ stale = {}
    /\ legend = "absent"

-----------------------------------------------------------------------------
(* The message list. *)

CardRow(c) == [subject |-> c, life |-> 0, id |-> 0]
ChatRow(m, id) == [subject |-> m, life |-> session, id |-> id]

\* "Settings applied", which the page says to itself.
NoticeRow == [subject |-> None, life |-> 0, id |-> 0]

\* Mutant: the cards that go stay in the maps.
TrimmedUnforgotten(v) ==
    LET kept == LastOf(v.list, IF v.made THEN DomLimit - 1 ELSE DomLimit)
        gone == ToSet(v.list) \ ToSet(kept)
    IN  [v EXCEPT !.list = kept, !.trimmed = @ \cup gone]

\* trimMessages: the oldest children go and their cards are forgotten; the
\* permission stack counts as a child, and stays.
Trimmed(v) ==
    LET kept == LastOf(v.list, IF v.made THEN DomLimit - 1 ELSE DomLimit)
        gone == ToSet(v.list) \ ToSet(kept)
    IN  [v EXCEPT !.list = kept,
                  !.trimmed = @ \cup gone,
                  !.cards = [c \in Ids |-> IF CardRow(c) \in gone THEN 0 ELSE @[c]]]

\* A card that is new: a pending interrupt enters at the top, a pending
\* permission into the stack.
WithCard(v, c, version) ==
    LET w == [v EXCEPT !.cards[c] = version]
        pinned == version = 1
    IN  Trimmed(CASE pinned /\ c \in PermissionIds ->
                         [w EXCEPT !.made = TRUE, !.held = @ \cup {c}]
                  [] pinned /\ c \in InterruptIds ->
                         [w EXCEPT !.list = <<CardRow(c)>> \o @]
                  [] OTHER -> [w EXCEPT !.list = Append(@, CardRow(c))])

\* A card that changes: a permission leaves the stack for the end of the list,
\* which is not trimmed.
WithVersion(v, c, version) ==
    [v EXCEPT !.cards[c] = version,
              !.held = @ \ {c},
              !.list = IF c \in v.held THEN Append(@, CardRow(c)) ELSE @]

\* Mutant: the last version to arrive wins.
WithEventUnversioned(v, c, version) ==
    IF v.cards[c] > 0 THEN WithVersion(v, c, version) ELSE WithCard(v, c, version)

\* renderHandoffCard, renderInterruptCard, renderPermissionCard.
WithEvent(v, c, version) ==
    CASE v.cards[c] >= version -> v
      [] v.cards[c] \in 1 .. version - 1 -> WithVersion(v, c, version)
      [] OTHER -> WithCard(v, c, version)

\* addMessage
WithMessage(v, m, id) == Trimmed([v EXCEPT !.list = Append(@, ChatRow(m, id))])
WithNotice(v) == Trimmed([v EXCEPT !.list = Append(@, NoticeRow)])

-----------------------------------------------------------------------------
(* The event stream. *)

\* connect(): the active stream, if any, is closed.
Connect(target, from) ==
    /\ stream' = [phase |-> "opening", bus |-> target, session |-> session,
                  lastId |-> from]
    /\ wire' = <<>>

\* A stream ends: it could not be opened, or the hub is gone, or it broke.
Refused == stream.phase = "opening" /\ (~up \/ stream.bus # life)
Severed == Open /\ stream.bus # life
Broken == Attached /\ drops < MaxDrops

\* markAllOffline
AllOff == IF legend = "absent" THEN legend ELSE "off"

\* Mutant: a stream that could not be opened is not retried.
StreamEndsUnretried ==
    /\ Refused \/ Severed \/ Broken
    /\ drops' = IF Broken THEN drops + 1 ELSE drops
    /\ stream' = NoStream
    /\ wire' = <<>>
    /\ timers' = IF Refused THEN timers ELSE timers + 1
    /\ legend' = AllOff
    /\ UNCHANGED <<ledgerVars, hubVars, missed, session, lastSeen, bus, flows, replies,
                   view, loaded, stale>>

\* onerror
StreamEnds ==
    /\ Refused \/ Severed \/ Broken
    /\ drops' = IF Broken THEN drops + 1 ELSE drops
    /\ stream' = NoStream
    /\ wire' = <<>>
    /\ timers' = timers + 1
    /\ legend' = AllOff
    /\ UNCHANGED <<ledgerVars, hubVars, missed, session, lastSeen, bus, flows, replies,
                   view, loaded, stale>>

\* The reconnect timer: get_hub_url, then connect().
RetryFires ==
    /\ timers > 0
    /\ timers' = timers - 1
    /\ bus' = life
    /\ Connect(life, lastSeen)
    /\ UNCHANGED <<ledgerVars, hubVars, missed, session, lastSeen, drops, flows, replies,
                   view, loaded, stale, legend>>

\* handleEvent, for the frames that carry no id.
HandleAmbient(frame) ==
    /\ \/ /\ frame.type = "session"
          /\ session' = frame.life
          /\ lastSeen' = IF session = frame.life THEN lastSeen ELSE 0
          /\ UNCHANGED legend
       \/ /\ frame.type = "roster"
          /\ legend' = IF frame.known THEN "off" ELSE "absent"
          /\ UNCHANGED <<session, lastSeen>>
       \/ /\ frame.type = "presence"
          /\ legend' = IF legend # "absent" /\ frame.online THEN "on" ELSE AllOff
          /\ UNCHANGED <<session, lastSeen>>
    /\ UNCHANGED view

\* handleEvent, for an entry: shown once, and the id remembered.
HandleEntry(frame) ==
    /\ frame.type = "entry"
    /\ \/ /\ frame.id <= lastSeen
          /\ UNCHANGED <<lastSeen, view>>
       \/ /\ frame.id > lastSeen
          /\ lastSeen' = frame.id
          /\ view' = IF frame.subject \in Ids
                     THEN WithEvent(view, frame.subject, frame.version)
                     ELSE WithMessage(view, frame.subject, frame.id)
    /\ UNCHANGED <<session, legend>>

Handle ==
    /\ Open
    /\ wire # <<>>
    /\ wire' = Tail(wire)
    /\ HandleAmbient(Head(wire)) \/ HandleEntry(Head(wire))
    /\ UNCHANGED <<ledgerVars, hubVars, stream, missed, bus, timers, drops, flows,
                   replies, loaded, stale>>

-----------------------------------------------------------------------------
(* bootstrap() and the click on Reload settings. *)

Step(f, name) == flows[f] # <<>> /\ Head(flows[f]) = name
StepDone(f) == flows' = [flows EXCEPT ![f] = Tail(@)]
Pending(kind) == {c \in OfKind(kind) : ledger[c] = 1}

\* An answer of the hub that runs; it may arrive when another one does.
Reply(found) == [by |-> life, found |-> found]

\* authedFetch: an answer from the hub BUS names, or from the one get_hub_url
\* names after a failure.
Ask(f) ==
    /\ replies[f] = None
    /\ up
    /\ bus' = life
    /\ \/ /\ Step(f, "roster")
          /\ replies' = [replies EXCEPT ![f] = Reply(agent # "absent")]
       \/ \E kind \in ToSet(KindSteps) :
             /\ Step(f, kind)
             /\ replies' = [replies EXCEPT ![f] = Reply(Pending(kind))]
    /\ UNCHANGED <<ledgerVars, hubVars, streamVars, session, lastSeen, timers, drops,
                   flows, view, loaded, stale, legend>>

\* Both attempts failed: the roster is taken to be empty, a kind is not loaded.
AskInVain(f) ==
    /\ replies[f] = None
    /\ ~up
    /\ bus' = life
    /\ \E name \in {"roster"} \cup ToSet(KindSteps) : Step(f, name)
    /\ StepDone(f)
    /\ legend' = IF Step(f, "roster") THEN "absent" ELSE legend
    /\ UNCHANGED <<ledgerVars, hubVars, streamVars, session, lastSeen, timers, drops,
                   replies, view, loaded, stale>>

\* The answer arrives: loadRoster, or loadPending of a kind.
Answer(f) ==
    /\ replies[f] # None
    /\ StepDone(f)
    /\ replies' = [replies EXCEPT ![f] = None]
    /\ \/ /\ Step(f, "roster")
          /\ legend' = IF replies[f].found THEN "off" ELSE "absent"
          /\ UNCHANGED <<view, loaded, stale>>
       \/ \E kind \in ToSet(KindSteps) :
             /\ Step(f, kind)
             /\ LET found == replies[f].found
                    new == {c \in found : view.cards[c] = 0}
                IN  /\ view' = FoldLeft(LAMBDA v, c : WithEvent(v, c, 1), view, SetToSeq(found))
                    /\ IF replies[f].by = life
                       THEN loaded' = loaded \cup {kind} /\ UNCHANGED stale
                       ELSE stale' = stale \cup new /\ UNCHANGED loaded
             /\ UNCHANGED legend
    /\ UNCHANGED <<ledgerVars, hubVars, streamVars, session, lastSeen, bus, timers, drops>>

\* bootstrap() connects after its loads.  Once reload_settings has returned BUS
\* names the new hub, although the page is not cleared yet.
BootConnects ==
    /\ Step("boot", "connect")
    /\ StepDone("boot")
    /\ bus' \in {bus} \cup (IF Step("reload", "swap") THEN {life} ELSE {})
    /\ Connect(bus', lastSeen)
    /\ UNCHANGED <<ledgerVars, hubVars, missed, session, lastSeen, timers, drops,
                   replies, view, loaded, stale, legend>>

\* The click, which may come while bootstrap() awaits: reload_settings kills the
\* hub and starts another, and returns before that one listens.
ReloadClicked ==
    /\ client = "page"
    /\ flows["reload"] = <<>>
    /\ \E done \in Halfway : Killed(done)
    /\ flows' = [flows EXCEPT !["reload"] = <<"swap">> \o KindSteps \o <<"notice">>]
    /\ UNCHANGED <<streamVars, session, lastSeen, bus, timers, drops, replies, view, loaded, stale, legend>>

\* Its answer: list, maps and the last id are cleared, and the page connects.
Swap ==
    /\ Step("reload", "swap")
    /\ StepDone("reload")
    /\ bus' = life
    /\ lastSeen' = 0
    /\ view' = EmptyView
    /\ loaded' = {}
    /\ stale' = {}
    /\ Connect(life, 0)
    /\ missed' = FALSE
    /\ UNCHANGED <<ledgerVars, hubVars, session, timers, drops, replies, legend>>

\* Its end: the page is told.
Notice ==
    /\ Step("reload", "notice")
    /\ StepDone("reload")
    /\ view' = WithNotice(view)
    /\ UNCHANGED <<ledgerVars, hubVars, streamVars, session, lastSeen, bus, timers, drops,
                   replies, loaded, stale, legend>>

PageStep ==
    \/ Handle
    \/ StreamEnds \/ RetryFires
    \/ \E f \in DOMAIN flows : Ask(f) \/ AskInVain(f) \/ Answer(f)
    \/ BootConnects
    \/ Swap \/ Notice

PageNext == PageStep \/ ReloadClicked

-----------------------------------------------------------------------------
(* Properties. *)

Held == {c \in Ids : view.cards[c] > 0}
Rows == {view.list[i] : i \in DOMAIN view.list}

PageTypeOK ==
    /\ session \in 0 .. MaxLives
    /\ lastSeen \in Nat
    /\ bus \in 1 .. MaxLives
    /\ timers \in Nat
    /\ drops \in 0 .. MaxDrops
    /\ view.cards \in [Ids -> 0 .. 2]
    /\ Len(view.list) <= DomLimit + Cardinality(PermissionIds)
    /\ loaded \subseteq ToSet(KindSteps)
    /\ legend \in {"absent", "off", "on"}

\* The page has caught up with the hub that runs.
Quiet ==
    /\ up /\ Attached /\ wire = <<>>
    /\ ~Step("reload", "swap")

\* The maps and the list agree: a card is in a map exactly while it is in the
\* list or in the permission stack, and it is never in both or twice
\* (messages.js trimMessages, permission.js, and the clearing in main.js).
CardsInPage ==
    /\ Held = {c \in Ids : CardRow(c) \in Rows} \cup view.held
    /\ \A c \in view.held : CardRow(c) \notin Rows
    /\ IsInjective(view.list)

Agrees(c) == CardRow(c) \in view.trimmed \/ view.cards[c] = ledger[c]

\* A page that has caught up shows no card in a state the ledger left: replay,
\* hydration, initial load and live events may arrive in any order and more
\* than once.  Commits that a kill kept from being emitted are excepted, what
\* went by the page while the log was too short, and a card that stays pending
\* because an answer of the hub before brought it after the page was cleared.
CardsAgree ==
    Quiet /\ ~missed =>
        \A c \in Held \ unsent : Agrees(c) \/ (c \in stale /\ view.cards[c] = 1)

\* Once the pending items of a kind were loaded from the hub that runs, every
\* pending item of the kind has its card, whatever fell between the load and the
\* stream, and whatever another load brings late.
PendingShown ==
    Quiet /\ ~missed =>
        \A kind \in loaded : \A c \in OfKind(kind) \ unsent :
            ledger[c] = 1 => c \in Held \/ CardRow(c) \in view.trimmed

\* Of a hub's chat log every message is shown, once and in order, however often
\* the stream broke (main.js handleEvent, streams.ts handleStream).
ChatShown ==
    LET chat == {i \in DOMAIN view.list : view.list[i].life = life /\ view.list[i].id > 0}
        due == {i \in DOMAIN chatLog : chatLog[i].subject \in Messages}
        inPage == Rows \cup view.trimmed
    IN  /\ \A i, j \in chat : i < j => view.list[i].id < view.list[j].id
        /\ Quiet /\ ~missed =>
               \A i \in due :
                   [subject |-> chatLog[i].subject, life |-> life,
                    id |-> chatLog[i].id] \in inPage

\* A page without a stream has an await or a timer left that will connect, in
\* whatever order errors, timers, bootstrap and Reload settings cross: the click
\* may fall into bootstrap's loads, and each of the two connects once.
RetryDue ==
    client = "page" /\ stream = NoStream =>
        timers > 0 \/ flows["boot"] # <<>> \/ Step("reload", "swap")

\* The legend never shows an agent as connected that is not, once the page has
\* caught up (roster.js applyPresence, markAllOffline).
LegendHonest == Quiet /\ ~missed => (legend = "on" => agent = "online")

=============================================================================
