--------------------------- MODULE MCSessionRuns ---------------------------
(* Instances of SessionRuns for TLC. *)
EXTENDS SessionRuns, TLC

\* Who else acts on the chat besides the caller, the agents and their workers.
Nobody == {}
ACanceller == {"canceller"}
Both == {"canceller", "deleter"}

\* Keeps SessionCalls.cfg small: a behaviour in which an agent has talked and a stop
\* request has come is followed no further.
Talked == Chunks # {} \/ \E m \in Msg : text[m] # "none"
StopSeen == stop \/ quiet # 0 \/ ~At("canceller", "rest")
TalkOrStop == ~(Talked /\ StopSeen)

\* Runs differ in nothing but their names.
Interchangeable == Permutations(Run)
=============================================================================
