---------------------------- MODULE LatestRequest ----------------------------
(***************************************************************************)
(* What a background request of the library screen promises: the newest    *)
(* request lands, once; one that was superseded before it landed never     *)
(* does.                                                                   *)
(***************************************************************************)
CONSTANTS
  Requests,
  NoRequest    \* stands for no request, not one of Requests

VARIABLES
  wanted,   \* the newest request that has not landed
  landed    \* the last one that did

vars == <<wanted, landed>>

Init ==
  /\ wanted = NoRequest
  /\ landed = NoRequest

Ask(r) ==
  /\ wanted' = r
  /\ UNCHANGED landed

Land ==
  /\ wanted # NoRequest
  /\ landed' = wanted
  /\ wanted' = NoRequest

Next ==
  \/ \E r \in Requests : Ask(r)
  \/ Land

SafeSpec == Init /\ [][Next]_vars
Spec == SafeSpec /\ WF_vars(Land)
=============================================================================
