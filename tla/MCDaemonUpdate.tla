--------------------------- MODULE MCDaemonUpdate ---------------------------
(***************************************************************************)
(* DaemonUpdate for TLC. The configurations choose the releases, the jobs  *)
(* and the crashes.                                                        *)
(***************************************************************************)
EXTENDS DaemonUpdate
==============================================================================
