------------------------------ MODULE Delivery ------------------------------
(***************************************************************************)
(* What the hub delivers, end to end: the hub's fan-out with the webview,  *)
(* or with the sidecar of an agent.  The two clients meet in the hub only, *)
(* so a behaviour attaches one of them.                                    *)
(***************************************************************************)
EXTENDS Page, Sidecar

vars == <<ledgerVars, hubVars, streamVars, pageVars, sidecarVars>>

Init == FanoutInit /\ PageInit /\ SidecarInit

Next ==
    \/ client = "page" /\ (PageNext \/ (HubNext /\ UNCHANGED pageVars))
       /\ UNCHANGED sidecarVars
    \/ client = "sidecar" /\ SidecarNext /\ UNCHANGED pageVars

Spec == Init /\ [][Next]_vars

-----------------------------------------------------------------------------
\* Types of both clients.
DeliveryTypeOK == PageTypeOK /\ SidecarTypeOK
=============================================================================
