----------------------------- MODULE MCWebConsole -----------------------------
(* Instances of WebConsole for TLC. *)
EXTENDS WebConsole, MCImWizard
=============================================================================
