--------------------------- MODULE MCWorkerLoops ---------------------------
(* A small instance of WorkerLoops.                                        *)
EXTENDS WorkerLoops, TLC

CONSTANTS main, topic, r1

\* Two targets of one repository, both of them cron jobs.
SameRepo == (main :> r1) @@ (topic :> r1)
BothJobs == <<main, topic>>
=============================================================================
