------------------------------ MODULE MCRollupJob ------------------------------
(* Instances of RollupJob for TLC. *)
EXTENDS RollupJob, TLC

Flags == [ all |-> FALSE, prev |-> FALSE, month |-> NoMonth, close |-> FALSE,
           from |-> NoDay, to |-> NoDay ]

Nightly      == Flags                                    \* the nightly CronJob
Backfill     == [ Flags EXCEPT !.all = TRUE ]            \* make rollup-all
ToAlone      == [ Flags EXCEPT !.to = 1 ]                \* refused

NightlyAndBackfill == { Nightly, Backfill }
AlsoRefused == { Nightly, Backfill, ToAlone }

LocalFaults    == { "statement_fails", "sigterm", "crash" }
AnyFault       == AllFaults
LostSession    == { "lock_session_lost" }

DayOne == {1}
=============================================================================
