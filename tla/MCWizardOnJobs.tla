---------------------------- MODULE MCWizardOnJobs ----------------------------
(* Instances of WizardOnJobs for TLC. *)
EXTENDS WizardOnJobs, TLC

\* Jobs are told apart by nothing but their identity.
AnyJob == Permutations(Jobs)

\* Bounds: all jobs are of the platform whose credentials take two commands, and
\* OpenClaw is on the device.
OnlyFeishu ==
    /\ installed = {"path"}
    /\ \A j \in Jobs : runner[j].platform \in {"none", "feishu"}
=============================================================================
