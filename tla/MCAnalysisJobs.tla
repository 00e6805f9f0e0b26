--------------------------- MODULE MCAnalysisJobs ---------------------------
(* What is asked for in AnalysisJobs, and one of the four stages of a job.  *)
EXTENDS AnalysisJobs

CONSTANTS profile, override     \* two inputs

LastStage == <<"ANALYZING">>

\* The cron asks with the settings of the user's profile, the app with those
\* on the screen.
AppAndCron == {[trigger |-> "MANUAL", input |-> override],
               [trigger |-> "AUTO", input |-> profile]}
=============================================================================
