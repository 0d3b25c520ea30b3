------------------------- MODULE MCInverterControl -------------------------
(***************************************************************************)
(* InverterControl for TLC with every kind of event.  A behaviour plays    *)
(* one of two scenes: the requests of the user with a subscription that    *)
(* may end, or all the ways to lose the entitlement with one request ON.   *)
(***************************************************************************)
EXTENDS InverterControl

CONSTANT Scenes
VARIABLE scene

MCInit == Init /\ scene \in Scenes

MCNext ==
  /\ UNCHANGED scene
  /\ Next
  /\ scene = "requests" => userActive' /\ \A e \in Refunds : jobs'[e] = NoJob
  /\ scene = "losses" =>
       /\ \A u \in Users : site'[u].pc = "idle" \/ site'[u].req \in OnRequests
       /\ \A c \in Reconcilers : call'[c] = IdleCall

MCSpec == MCInit /\ [][MCNext]_<<vars, scene>>

=============================================================================
