------------------------------ MODULE MCImWizard ------------------------------
(* Instances of ImWizard for TLC. *)
EXTENDS ImWizard, TLC

\* A channel that is up, one that is down, one that failed, none at all.
OneChannel == {{}, {"connected"}, {"disconnected"}, {"error"}}
=============================================================================
