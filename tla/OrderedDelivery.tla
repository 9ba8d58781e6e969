--------------------------- MODULE OrderedDelivery ---------------------------
(***************************************************************************)
(* What the prompt queue of the daemon promises, without its threads, its  *)
(* locks, its store or its crashes: the prompts of a chat go to the agent  *)
(* one at a time, in the order they were accepted, and none goes twice.    *)
(***************************************************************************)
EXTENDS Naturals

CONSTANTS Job,     \* prompts, by their request id
          ChatOf   \* the chat each prompt is for

VARIABLES phase,   \* where each prompt stands
          ticket,  \* the number an accepted prompt was given
          next     \* the next number

vars == <<phase, ticket, next>>

Rivals(j) == {k \in Job : ChatOf[k] = ChatOf[j]}

Init == /\ phase = [j \in Job |-> "new"]
        /\ ticket = [j \in Job |-> 0]
        /\ next = 1

Accept(j) == /\ phase[j] = "new"
             /\ phase' = [phase EXCEPT ![j] = "waiting"]
             /\ ticket' = [ticket EXCEPT ![j] = next]
             /\ next' = next + 1

\* The agent gets j: nothing of the chat is with the agent, and nothing that
\* waits was accepted before it.
Start(j) == /\ phase[j] = "waiting"
            /\ \A k \in Rivals(j) : phase[k] # "running"
            /\ \A k \in Rivals(j) : phase[k] = "waiting" => ticket[j] <= ticket[k]
            /\ phase' = [phase EXCEPT ![j] = "running"]
            /\ UNCHANGED <<ticket, next>>

\* Some prompts are over: answered, failed, withdrawn, lost with their chat or
\* interrupted. There is no way back from here.
Close(S) == /\ phase' = [j \in Job |-> IF j \in S THEN "closed" ELSE phase[j]]
            /\ UNCHANGED <<ticket, next>>

Next == \/ \E j \in Job : Accept(j) \/ Start(j)
        \/ \E S \in SUBSET Job : Close(S)

Spec == Init /\ [][Next]_vars
==============================================================================
