---------------------------- MODULE MCPromptQueue ----------------------------
(***************************************************************************)
(* PromptQueue for TLC: one chat, three prompts, and a thread to spare, so *)
(* that a second worker could start if the code let it.                    *)
(***************************************************************************)
EXTENDS PromptQueue

CONSTANTS c1, j1, j2, j3, w1, w2

Chats == {c1}
Jobs == {j1, j2, j3}
Workers == {w1, w2}
AllInOne == [j \in Jobs |-> c1]

\* Every waiting prompt is taken (see Drains). The prompts are interchangeable,
\* so what holds of one holds of all.
QueueDrains == Drains(j1)

\* Every blocked prompt RPC returns (see Returns), again for one of the prompts.
CallersReturn == Returns(j1)

\* What was accepted is served: no prompt waits and no caller is blocked for ever.
WorkIsServed == QueueDrains /\ CallersReturn
==============================================================================
