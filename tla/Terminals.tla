----------------------------- MODULE Terminals -----------------------------
(***************************************************************************)
(* The daemon's side of commands that an agent has it run: requests that   *)
(* arrive in the inbox of a run and are each served by a thread of their   *)
(* own, processes and the threads that read and show their output, the     *)
(* approvals users give, and what the end of a run does to all of these.   *)
(*                                                                         *)
(* One chat, whose runs follow one another: run r is live while the chat's *)
(* entry in LiveRuns names it.  A call asks for one command at most, so a  *)
(* terminal is known by its call.  All calls run the same command line: what *)
(* is approved for one of them would do for another.                       *)
(***************************************************************************)
EXTENDS Naturals, SequencesExt

CONSTANTS
  Command,   \* the tool calls that may run a command
  MaxRun,    \* how many runs the chat has (bound)
  Nil

VARIABLES
  live,       \* the live run of the chat, or 0
  inbox,      \* inbox[r]: what the inbound worker of run r has still to handle
  workers,    \* the threads that serve terminal requests
  term,       \* term[c]: the terminal of call c, or Nil
  grants,     \* permissions that have been recorded, oldest first
  asks,       \* calls with a question the user has not answered
  answers,    \* answers that are on their way to the agent
  doomed,     \* calls whose terminals release_run has taken out of the table
  stopping,   \* the run a stop has detached and is about to release, or 0
  stopped,    \* the runs that stops have ended (history)
  mail,       \* mail[c]: the request whose answer call c awaits, and the answer
  part        \* part[c]: the snapshot the message stores for call c

hostVars == <<live, inbox, workers, term, grants, asks, answers, doomed, stopping, stopped,
              mail, part>>

Run == 1..MaxRun
Requests == {"create", "wait", "kill", "output", "release"}
Snapshot == [out : 0..1, exit : BOOLEAN]
Terminal == [run : Run, running : BOOLEAN, left : BOOLEAN, wrote : 0..1, read : 0..1,
             taken : BOOLEAN, listed : BOOLEAN, released : BOOLEAN, bound : BOOLEAN,
             watched : BOOLEAN, client : BOOLEAN, shown : Snapshot \cup {Nil}]

ASSUME HostConstants ==
  /\ MaxRun \in Nat \ {0}
  /\ Nil \notin Terminal \cup {"yes", "no", "once", "always"}

Msg(what, c) == [what |-> what, call |-> c, snap |-> Nil]
Gone == Msg("gone", Nil)

Awaits(op) == [op |-> op, answer |-> Nil]

\* An answer nobody awaits any more is dropped.
Answered(c, op, answer) ==
  mail' = IF mail[c] = Awaits(op) THEN [mail EXCEPT ![c].answer = answer] ELSE mail

HostInit ==
  /\ live = 0 /\ stopping = 0 /\ stopped = {}
  /\ inbox = [r \in Run |-> <<>>]
  /\ workers = {} /\ asks = {} /\ answers = {} /\ doomed = {}
  /\ term = [c \in Command |-> Nil]
  /\ grants = <<>>
  /\ mail = [c \in Command |-> Awaits("none")]
  /\ part = [c \in Command |-> Nil]

-----------------------------------------------------------------------------
(* Terminals. *)

\* A command that was just started.  `left`: a process it left behind has its
\* output open; `taken`: a waiter has the readers.
Started(r) == [run |-> r, running |-> TRUE, left |-> FALSE, wrote |-> 0, read |-> 0,
               taken |-> FALSE, listed |-> TRUE, released |-> FALSE, bound |-> FALSE,
               watched |-> FALSE, client |-> FALSE, shown |-> Nil]

Exists(c) == term[c] # Nil
Listed(r, c) == Exists(c) /\ term[c].listed /\ term[c].run = r
Drained(x) == ~x.running /\ ~x.left /\ x.read = x.wrote
\* kill_process kills the group of the command; what it has left behind may be
\* in another group, and may also end by itself right then.
Killed(x) == [x EXCEPT !.running = FALSE]

Snap(x) == [out |-> x.read, exit |-> ~x.running]

\* publish_snapshot: only what has changed is sent, through the inbox of the
\* run, so that the worker stores it before clients hear of it.
News(x) == x.bound /\ x.client /\ x.shown # Snap(x)
Publish(c, x) ==
  /\ term' = [term EXCEPT ![c] = IF News(x) THEN [x EXCEPT !.shown = Snap(x)] ELSE x]
  /\ inbox' = IF News(x)
              THEN [inbox EXCEPT ![x.run] = Append(@, [Msg("update", c) EXCEPT !.snap = Snap(x)])]
              ELSE inbox

\* release_run: the permissions of the run go, its terminals leave the table.
ReleaseRun(r) ==
  /\ grants' = SelectSeq(grants, LAMBDA g : g.run # r)
  /\ doomed' = doomed \cup {c \in Command : Listed(r, c)}
  /\ term' = [c \in Command |-> IF Listed(r, c) THEN [term[c] EXCEPT !.listed = FALSE] ELSE term[c]]

\* The second half of release_run, for one of the terminals it has taken.
Reap(c) ==
  /\ c \in doomed
  /\ doomed' = doomed \ {c}
  /\ Publish(c, [Killed(term[c]) EXCEPT !.released = TRUE])
  /\ UNCHANGED <<live, workers, grants, asks, answers, stopping, stopped, mail, part>>

\* What a command does: it writes, it exits, perhaps with a process left behind.
CommandRuns(c) ==
  /\ Exists(c)
  /\ \/ /\ term[c].wrote = 0 /\ (term[c].running \/ term[c].left)
        /\ term' = [term EXCEPT ![c].wrote = 1]
     \/ /\ term[c].running
        /\ \E left \in BOOLEAN :
             term' = [term EXCEPT ![c] = [@ EXCEPT !.running = FALSE, !.left = left]]
     \/ /\ term[c].left
        /\ term' = [term EXCEPT ![c].left = FALSE]
  /\ UNCHANGED <<live, inbox, workers, grants, asks, answers, doomed, stopping, stopped, mail, part>>

\* drain_output
Drain(c) ==
  /\ Exists(c) /\ term[c].read < term[c].wrote
  /\ term' = [term EXCEPT ![c].read = term[c].wrote]
  /\ UNCHANGED <<live, inbox, workers, grants, asks, answers, doomed, stopping, stopped, mail, part>>

\* The thread `observe` starts: it publishes every 100 ms and leaves when it has
\* seen the exit and no reader is left to wait for, or the terminal is released.
Observe(c) ==
  /\ Exists(c) /\ term[c].watched
  /\ IF term[c].released
     THEN /\ term' = [term EXCEPT ![c].watched = FALSE]
          /\ UNCHANGED inbox
     ELSE LET over == term[c].bound /\ ~term[c].running /\ (term[c].taken \/ Drained(term[c]))
          IN  /\ News(term[c]) \/ over
              /\ Publish(c, [term[c] EXCEPT !.watched = ~over])
  /\ UNCHANGED <<live, workers, grants, asks, answers, doomed, stopping, stopped, mail, part>>

-----------------------------------------------------------------------------
(* The threads that serve requests. *)

Thread(r, m) == [run |-> r, call |-> m.call, op |-> m.what, at |-> "new", ok |-> FALSE]
Becomes(w, at, ok) == workers' = (workers \ {w}) \cup {[w EXCEPT !.at = at, !.ok = ok]}

\* handle_terminal_request: the run is still live; for a create the daemon then
\* goes on without the lock on the live runs.
Refused(w) ==
  /\ w \in workers /\ w.at = "new"
  /\ live # w.run \/ (w.op # "create" /\ ~Listed(w.run, w.call))
  /\ Becomes(w, "done", FALSE)
  /\ UNCHANGED <<live, inbox, term, grants, asks, answers, doomed, stopping, stopped, mail, part>>

Admit(w) ==
  /\ w \in workers /\ w.at = "new" /\ w.op = "create" /\ live = w.run
  /\ Becomes(w, "live", FALSE)
  /\ UNCHANGED <<live, inbox, term, grants, asks, answers, doomed, stopping, stopped, mail, part>>

\* create: a command the agent has cleared itself needs no permission; one that
\* was asked for uses up the oldest of the run, unless that is for good.  Every
\* terminal is a new one, and a call creates one.
Create(w, cleared) ==
  /\ w \in workers /\ w.at = "live" /\ w.op = "create" /\ ~Exists(w.call)
  /\ LET mine == {i \in 1..Len(grants) : grants[i].run = w.run}
         used == IF cleared \/ mine = {} THEN {}
                 ELSE {i \in {Min(mine)} : ~grants[i].always}
     IN  IF cleared \/ mine # {}
         THEN /\ term' = [term EXCEPT ![w.call] = Started(w.run)]
              /\ grants' = IF used = {} THEN grants ELSE RemoveAt(grants, Min(used))
              /\ Becomes(w, "done", TRUE)
         ELSE /\ Becomes(w, "done", FALSE)
              /\ UNCHANGED <<term, grants>>
  /\ UNCHANGED <<live, inbox, asks, answers, doomed, stopping, stopped, mail, part>>

\* The other requests find their terminal in the table.
Finds(w, op) == /\ w \in workers /\ w.at = "new" /\ w.op = op
                /\ live = w.run /\ Listed(w.run, w.call)

Output(w) ==
  /\ Finds(w, "output")
  /\ Becomes(w, "done", TRUE)
  /\ UNCHANGED <<live, inbox, term, grants, asks, answers, doomed, stopping, stopped, mail, part>>

Kill(w) ==
  /\ Finds(w, "kill")
  /\ term' = [term EXCEPT ![w.call] = Killed(@)]
  /\ Becomes(w, "done", TRUE)
  /\ UNCHANGED <<live, inbox, grants, asks, answers, doomed, stopping, stopped, mail, part>>

\* A waiter polls until the command has exited, a release kills it; then both
\* take the readers that are still there and join them.
Wait(w) ==
  /\ Finds(w, "wait")
  /\ Becomes(w, "poll", FALSE)
  /\ UNCHANGED <<live, inbox, term, grants, asks, answers, doomed, stopping, stopped, mail, part>>

TakeReaders(w, x) ==
  /\ Becomes(w, IF x.taken THEN "join none" ELSE "join", FALSE)
  /\ term' = [term EXCEPT ![w.call] = [x EXCEPT !.taken = TRUE]]
  /\ UNCHANGED <<live, inbox, grants, asks, answers, doomed, stopping, stopped, mail, part>>

Release(w) == Finds(w, "release") /\ TakeReaders(w, Killed(term[w.call]))

Exited(w) ==
  /\ w \in workers /\ w.at = "poll" /\ ~term[w.call].running
  /\ TakeReaders(w, term[w.call])

\* Mutant of Joined: the readers are not waited for.
JoinedAtOnce(w) ==
  /\ w \in workers /\ w.at \in {"join", "join none"}
  /\ Becomes(w, "done", TRUE)
  /\ LET x == term[w.call]
     IN  Publish(w.call, IF w.op = "wait" THEN x ELSE [x EXCEPT !.released = TRUE, !.listed = FALSE])
  /\ UNCHANGED <<live, grants, asks, answers, doomed, stopping, stopped, mail, part>>

Joined(w) ==
  /\ w \in workers
  /\ w.at = "join none" \/ (w.at = "join" /\ Drained(term[w.call]))
  /\ Becomes(w, "done", TRUE)
  /\ LET x == term[w.call]
     IN  Publish(w.call, IF w.op = "wait" THEN x ELSE [x EXCEPT !.released = TRUE, !.listed = FALSE])
  /\ UNCHANGED <<live, grants, asks, answers, doomed, stopping, stopped, mail, part>>

\* Mutant of Respond: the answer for a run that is over is just dropped.
RespondOnly(w) ==
  /\ w \in workers /\ w.at = "done"
  /\ workers' = workers \ {w}
  /\ IF live = w.run
     THEN /\ Answered(w.call, w.op, IF w.ok THEN "yes" ELSE "no")
          /\ term' = IF w.op = "create" /\ w.ok /\ Listed(w.run, w.call)
                     THEN [term EXCEPT ![w.call] = [@ EXCEPT !.client = TRUE, !.watched = TRUE]]
                     ELSE term
     ELSE UNCHANGED <<term, mail>>
  /\ UNCHANGED <<live, inbox, grants, asks, answers, doomed, stopping, stopped, part>>

\* The response is for a run that is still live; otherwise the thread makes sure
\* that nothing of the run stays, what it has just started included.
Respond(w) ==
  /\ w \in workers /\ w.at = "done"
  /\ workers' = workers \ {w}
  /\ IF live = w.run
     THEN /\ Answered(w.call, w.op, IF w.ok THEN "yes" ELSE "no")
          /\ term' = IF w.op = "create" /\ w.ok /\ Listed(w.run, w.call)
                     THEN [term EXCEPT ![w.call] = [@ EXCEPT !.client = TRUE, !.watched = TRUE]]
                     ELSE term
          /\ UNCHANGED <<grants, doomed>>
     ELSE ReleaseRun(w.run) /\ UNCHANGED mail
  /\ UNCHANGED <<live, inbox, asks, answers, stopping, stopped, part>>

ThreadStep(w) == \/ Refused(w) \/ Admit(w) \/ Output(w) \/ Kill(w) \/ Wait(w) \/ Release(w)
                 \/ Exited(w) \/ Joined(w) \/ Respond(w)

-----------------------------------------------------------------------------
(* The inbound worker of a run. *)

Next1(r, what) == inbox[r] # <<>> /\ Head(inbox[r]).what \in what
Handled(r) == inbox' = [inbox EXCEPT ![r] = Tail(@)]

HearRequest(r) ==
  /\ Next1(r, Requests)
  /\ Handled(r)
  /\ workers' = workers \cup {Thread(r, Head(inbox[r]))}
  /\ UNCHANGED <<live, term, grants, asks, answers, doomed, stopping, stopped, mail, part>>

HearAsk(r) ==
  /\ Next1(r, {"ask"})
  /\ Handled(r)
  /\ asks' = IF live = r THEN asks \cup {Head(inbox[r]).call} ELSE asks
  /\ UNCHANGED <<live, workers, term, grants, answers, doomed, stopping, stopped, mail, part>>

\* bind_tool
HearBind(r) ==
  /\ Next1(r, {"bind"})
  /\ LET c == Head(inbox[r]).call
         x == [term[c] EXCEPT !.bound = TRUE]
     IN  IF live # r \/ ~Listed(r, c) THEN Handled(r) /\ UNCHANGED term
         ELSE /\ term' = [term EXCEPT ![c] = IF News(x) THEN [x EXCEPT !.shown = Snap(x)] ELSE x]
              /\ inbox' = [inbox EXCEPT ![r] =
                   Tail(@) \o IF News(x) THEN <<[Msg("update", c) EXCEPT !.snap = Snap(x)]>> ELSE <<>>]
  /\ UNCHANGED <<live, workers, grants, asks, answers, doomed, stopping, stopped, mail, part>>

HearUpdate(r) ==
  /\ Next1(r, {"update"})
  /\ Handled(r)
  /\ LET m == Head(inbox[r])
     IN  part' = IF live = r THEN [part EXCEPT ![m.call] = m.snap] ELSE part
  /\ UNCHANGED <<live, workers, term, grants, asks, answers, doomed, stopping, stopped, mail>>

\* The agent is gone: its terminals are released, then the run is detached.
HearGone(r) ==
  /\ Next1(r, {"gone"})
  /\ inbox' = [inbox EXCEPT ![r] = <<Msg("detach", Nil)>> \o Tail(@)]
  /\ ReleaseRun(r)
  /\ UNCHANGED <<live, workers, asks, answers, stopping, stopped, mail, part>>

Detach(r) ==
  /\ Next1(r, {"detach"})
  /\ Handled(r)
  /\ live' = IF live = r THEN 0 ELSE live
  /\ asks' = IF live = r THEN {} ELSE asks
  /\ UNCHANGED <<workers, term, grants, answers, doomed, stopping, stopped, mail, part>>

Hear(r) == \/ HearRequest(r) \/ HearAsk(r) \/ HearBind(r) \/ HearUpdate(r) \/ HearGone(r)
           \/ Detach(r)

-----------------------------------------------------------------------------
(* Users, and the ends of runs. *)

\* respond_to_agent: the question is claimed, the permission recorded, the
\* agent told, in this order.
Claim(c) ==
  /\ c \in asks
  /\ asks' = asks \ {c}
  /\ \E allow \in {"no", "once", "always"} :
       answers' = answers \cup {[call |-> c, run |-> live, allow |-> allow, recorded |-> FALSE]}
  /\ UNCHANGED <<live, inbox, workers, term, grants, doomed, stopping, stopped, mail, part>>

Record(a) ==
  /\ a \in answers /\ ~a.recorded
  /\ answers' = (answers \ {a}) \cup {[a EXCEPT !.recorded = TRUE]}
  /\ grants' = IF a.allow = "no" THEN grants
               ELSE Append(grants, [run |-> a.run, always |-> a.allow = "always"])
  /\ UNCHANGED <<live, inbox, workers, term, asks, doomed, stopping, stopped, mail, part>>

Tell(a) ==
  /\ a \in answers /\ a.recorded
  /\ answers' = answers \ {a}
  /\ Answered(a.call, "ask", a.allow)
  /\ UNCHANGED <<live, inbox, workers, term, grants, asks, doomed, stopping, stopped, part>>

\* A stop, a failed prompt or a replacement detaches the run first ...
StopRun(r) ==
  /\ live = r /\ stopping = 0
  /\ live' = 0 /\ stopping' = r /\ stopped' = stopped \cup {r}
  /\ asks' = {}
  /\ UNCHANGED <<inbox, workers, term, grants, answers, doomed, mail, part>>

\* ... then releases its terminals; its client is killed next.
StopReleases(r) ==
  /\ stopping = r
  /\ stopping' = 0
  /\ ReleaseRun(r)
  /\ UNCHANGED <<live, inbox, workers, asks, answers, stopped, mail, part>>

-----------------------------------------------------------------------------
(* Properties. *)

Message == [what : Requests \cup {"ask", "bind"}, call : Command, snap : {Nil}]
           \cup [what : {"update"}, call : Command, snap : Snapshot]
           \cup {Gone, Msg("detach", Nil)}
Worker == [run : Run, call : Command, op : Requests, ok : BOOLEAN,
           at : {"new", "live", "poll", "join", "join none", "done"}]
Mail == [op : Requests \cup {"none", "ask"}, answer : {Nil, "yes", "no", "once", "always"}]

HostTypeOK ==
  /\ live \in 0..MaxRun /\ stopping \in 0..MaxRun /\ stopped \subseteq Run
  /\ inbox \in [Run -> Seq(Message)]
  /\ workers \subseteq Worker
  /\ term \in [Command -> Terminal \cup {Nil}]
  /\ \A c \in Command : Exists(c) => term[c].read <= term[c].wrote
  /\ asks \cup doomed \subseteq Command
  /\ answers \subseteq [call : Command, run : 0..MaxRun, allow : {"no", "once", "always"},
                        recorded : BOOLEAN]
  /\ \A c \in doomed : Exists(c) /\ ~term[c].listed
  /\ mail \in [Command -> Mail]
  /\ part \in [Command -> Snapshot \cup {Nil}]

\* A run that was stopped leaves no command running once those who act for it
\* are through: also when the command was being started as the stop came.
StoppedRunsNothing ==
  \A c \in Command : Exists(c) /\ term[c].run \in stopped /\ term[c].running =>
    \/ term[c].run = stopping
    \/ c \in doomed
    \/ \E w \in workers : w.run = term[c].run

=============================================================================
