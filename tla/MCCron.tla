------------------------------- MODULE MCCron -------------------------------
(* The cron service on small instances: Cron*.cfg give the bounds.           *)
EXTENDS Cron
=============================================================================
