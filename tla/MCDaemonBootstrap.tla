-------------------------- MODULE MCDaemonBootstrap --------------------------
(***************************************************************************)
(* DaemonBootstrap for TLC. The configuration chooses the releases, the    *)
(* jobs and the crashes.                                                   *)
(***************************************************************************)
EXTENDS DaemonBootstrap

\* No behaviour is followed further in which a removal has begun and a crash has
\* happened or a job has ended; nor one in which a job is pending, once the removal
\* beside it has failed or is done, or has deleted the data although the supervisor
\* has been called for meanwhile.
Focus == \/ phase = "none"
         \/ crashes = 0 /\ job.id = 0
         \/ crashes = 0 /\ Pending /\ remover # "off" /\ (phase = "started" \/ cleared)
==============================================================================
