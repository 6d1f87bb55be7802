----------------------------- MODULE MCDesktop -----------------------------
EXTENDS Desktop

\* The pane alone, then the composer beside a session that may be ended.
MCScenes == {
    {"toggle", "roster", "detach", "die"}, {"toggle", "launch", "die"},
    {"launch", "kill"}, {"launch", "detach"},
    {"write", "send", "kill"}}
=============================================================================
