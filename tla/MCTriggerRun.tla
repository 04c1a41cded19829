---------------------------- MODULE MCTriggerRun ----------------------------
(* TriggerRun on both engines, with few writes of users and few faults. *)
EXTENDS TriggerRun

AllSetups == [engine : {"temporal", "cadence"}, kind : {"cron", "backfill"}]
=============================================================================
