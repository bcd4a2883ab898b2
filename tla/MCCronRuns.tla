----------------------------- MODULE MCCronRuns -----------------------------
(* An instance of CronRuns. *)
EXTENDS CronRuns

CONSTANTS d1, d2
=============================================================================
