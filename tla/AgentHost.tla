----------------------------- MODULE AgentHost -----------------------------
(***************************************************************************)
(* The tools of the bundled agent under its daemon.  A process of the      *)
(* agent is a run of the chat; the tools of its turns ask for permission   *)
(* and run commands by requests to the daemon, which serves them as        *)
(* Terminals says; the daemon stops runs, and notices when the process of  *)
(* one is gone.  BundledAgent says what else happens in a turn.            *)
(***************************************************************************)
EXTENDS Terminals

CONSTANT MaxSlow   \* how often the agent does not wait for an answer (bound)

VARIABLES
  run,     \* the run the process of the agent belongs to: the latest one
  up,      \* the process is there
  told,    \* its turn has been told to stop
  full,    \* its session has been given full access
  tool,    \* tool[c]: how far the agent is with call c
  slow     \* answers that came too late (bound)

vars == <<hostVars, run, up, told, full, tool, slow>>

NoTool == [at |-> "none", auto |-> FALSE, exited |-> FALSE]
Over(c, at) == [tool[c] EXCEPT !.at = at]

Init == /\ HostInit /\ run = 0 /\ up = FALSE /\ told = FALSE /\ full = FALSE
        /\ tool = [c \in Command |-> NoTool] /\ slow = 0

-----------------------------------------------------------------------------
(* A tool call, seen from the agent: tools.rs. *)

Busy(c) == tool[c].at \notin {"none", "done", "dead"}
At(c, places) == tool[c].at \in places
Got(c, answer) == mail[c].answer = answer

AgentOnly == UNCHANGED <<run, up, told, live, workers, term, grants, asks, answers, doomed,
                         stopping, stopped, part>>
Goes(c, at) == tool' = [tool EXCEPT ![c].at = at] /\ AgentOnly

\* The agent puts requests into the inbox of its run and awaits the last.
Sends(c, whats) ==
  LET msg(what) == Msg(what, c)
  IN  /\ inbox' = [inbox EXCEPT ![run] = @ \o [i \in 1..Len(whats) |-> msg(whats[i])]]
      /\ mail' = [mail EXCEPT ![c] = Awaits(Last(whats))]
      /\ UNCHANGED full
Silent == UNCHANGED <<inbox, mail, full>>
Leaves(c) == /\ tool' = [tool EXCEPT ![c] = Over(c, "done")] /\ AgentOnly
             /\ mail' = [mail EXCEPT ![c] = Awaits("none")]
             /\ UNCHANGED inbox

\* Arguments that do not parse, unknown tools, reads and writes of files: the
\* agent needs no one for these, but for the approval of a write.
Alone(c) == At(c, {"start", "cleared"}) /\ Leaves(c) /\ UNCHANGED full

\* Full access, or a command the model declares harmless.
Clear(c) ==
  /\ At(c, {"start"})
  /\ tool' = [tool EXCEPT ![c] = [@ EXCEPT !.at = "cleared", !.auto = TRUE]]
  /\ AgentOnly /\ Silent

Ask(c) == At(c, {"start"}) /\ ~full /\ Goes(c, "asking") /\ Sends(c, <<"ask">>)

Allowed(c) ==
  /\ At(c, {"asking"})
  /\ \/ Got(c, "once") /\ Goes(c, "cleared") /\ Silent
     \/ Got(c, "always") /\ Goes(c, "cleared") /\ full' = TRUE /\ UNCHANGED <<inbox, mail>>
     \/ Got(c, "no") /\ Leaves(c) /\ UNCHANGED full

RunCommand(c) == /\ At(c, {"cleared"}) /\ ~told
                 /\ Goes(c, "creating") /\ Sends(c, <<"create">>)

\* The terminal is shown with the call before the agent waits for its command.
Created(c) ==
  /\ At(c, {"creating"})
  /\ \/ Got(c, "yes") /\ Goes(c, "waiting") /\ Sends(c, <<"bind", "wait">>)
     \/ Got(c, "no") /\ Leaves(c) /\ UNCHANGED full

Waited(c) ==
  /\ At(c, {"waiting"}) /\ (Got(c, "yes") \/ Got(c, "no"))
  /\ tool' = [tool EXCEPT ![c] = [@ EXCEPT !.at = "reading", !.exited = Got(c, "yes")]]
  /\ AgentOnly /\ Sends(c, <<"output">>)

\* Nobody is asked, and no command awaited, by a turn that is told to stop.
Cancelled(c) ==
  /\ told
  /\ \/ At(c, {"asking", "cleared"}) /\ Leaves(c) /\ UNCHANGED full
     \/ At(c, {"waiting"}) /\ Goes(c, "killing") /\ Sends(c, <<"kill">>)

\* Kill, output and release are awaited for a second each.
Cleanup(c) ==
  \/ At(c, {"killing"}) /\ Goes(c, "reading") /\ Sends(c, <<"output">>)
  \/ At(c, {"reading"}) /\ Goes(c, "releasing") /\ Sends(c, <<"release">>)
  \/ At(c, {"releasing"}) /\ Leaves(c) /\ UNCHANGED full

\* A create that does not answer within a second of the cancellation; the
\* deadline of the turn and five seconds are over.
GiveUp(c) == Busy(c) /\ told /\ Leaves(c) /\ UNCHANGED full

\* The calls of a turn are executed one by one, until the turn is told to stop;
\* the next call is that of another turn then.
Begin(c) ==
  /\ up /\ tool[c].at = "none" /\ \A d \in Command : ~Busy(d)
  /\ tool' = [tool EXCEPT ![c].at = "start"] /\ told' = FALSE
  /\ UNCHANGED <<hostVars, run, up, full, slow>>

Heard(c) == Got(c, "yes") \/ Got(c, "no")
Late == slow < MaxSlow /\ slow' = slow + 1

ToolStep(c) ==
  \/ /\ \/ Alone(c) \/ Clear(c) \/ Ask(c) \/ Allowed(c) \/ RunCommand(c) \/ Created(c)
        \/ Waited(c) \/ Cancelled(c) \/ (Heard(c) /\ Cleanup(c))
     /\ UNCHANGED slow
  \/ Late /\ ((~Heard(c) /\ Cleanup(c)) \/ GiveUp(c))

-----------------------------------------------------------------------------
(* Runs. *)

\* start_run: there is no live run any more.
Start ==
  /\ live = 0 /\ stopping = 0 /\ ~up /\ run < MaxRun
  /\ run' = run + 1 /\ live' = run + 1 /\ up' = TRUE /\ told' = FALSE /\ full' = FALSE
  /\ UNCHANGED <<inbox, workers, term, grants, asks, answers, doomed, stopping, stopped, mail,
                 part, tool, slow>>

\* The turn is cancelled, or its time is over.
StopTurn == /\ up /\ ~told /\ \E c \in Command : Busy(c)
            /\ told' = TRUE
            /\ UNCHANGED <<hostVars, run, up, full, tool, slow>>

\* The agent exits, dies or is killed, which a stop does once it has released
\* the terminals of the run; its reader tells the inbound worker after what came before.
Dies ==
  /\ up /\ up' = FALSE /\ told' = FALSE /\ full' = FALSE
  /\ tool' = [c \in Command |-> IF Busy(c) THEN Over(c, "dead") ELSE tool[c]]
  /\ mail' = [c \in Command |-> Awaits("none")]
  /\ inbox' = [inbox EXCEPT ![run] = Append(@, Gone)]
  /\ UNCHANGED <<live, workers, term, grants, asks, answers, doomed, stopping, stopped, part,
                 run, slow>>

Daemon ==
  \/ \E c \in Command : Reap(c) \/ Drain(c) \/ Observe(c)
  \/ \E w \in workers : ThreadStep(w) \/ Create(w, tool[w.call].auto)
  \/ \E r \in Run : Hear(r)
  \/ \E a \in answers : Record(a) \/ Tell(a)

World == \/ \E c \in Command : CommandRuns(c) \/ Claim(c)
         \/ \E r \in Run : StopRun(r) \/ StopReleases(r)

Next ==
  \/ Start \/ StopTurn \/ Dies
  \/ \E c \in Command : Begin(c) \/ ToolStep(c)
  \/ (Daemon \/ World) /\ UNCHANGED <<run, up, told, full, tool, slow>>

Spec == Init /\ [][Next]_vars

-----------------------------------------------------------------------------
(* Properties. *)

Tool == [at : {"none", "start", "cleared", "asking", "creating", "waiting", "killing", "reading",
               "releasing", "done", "dead"}, auto : BOOLEAN, exited : BOOLEAN]

TypeOK ==
  /\ HostTypeOK
  /\ run \in 0..MaxRun /\ up \in BOOLEAN /\ (up => run > 0) /\ live \in {0, run}
  /\ told \in BOOLEAN /\ full \in BOOLEAN
  /\ tool \in [Command -> Tool]
  /\ slow \in Nat

\* When the agent has waited for a command and is done with it, the message
\* shows all of its output and its exit, once what is in the inbox is stored.
DoneIsShown ==
  \A c \in Command :
    tool[c].at = "done" /\ tool[c].exited /\ live = term[c].run =>
      \/ \E i \in 1..Len(inbox[live]) : inbox[live][i].call = c
      \/ part[c] = [out |-> term[c].wrote, exit |-> TRUE]
=============================================================================
