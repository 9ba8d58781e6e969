----------------------------- MODULE SessionRuns -----------------------------
(***************************************************************************)
(* The session manager of the daemon, for one chat: agent processes are    *)
(* started, prompted, stopped, replaced and lost while a caller, a stop    *)
(* request, a chat deletion and the inbound workers of the agents work on  *)
(* the same live run, the same rows and the same published snapshot.       *)
(*   crates/daemon/src/service/session/{manager,inbound,messages,runtime}  *)
(*                                                                         *)
(* A section under the session mutex, a statement of the store and a wait  *)
(* for the agent are one action each. Whoever takes the live run out of    *)
(* the map closes it alone, step by step: what is left to do is its `todo`.*)
(* Different chats share no state. The store does not fail here.           *)
(***************************************************************************)
EXTENDS Naturals, Sequences, FiniteSets

CONSTANTS Run,        \* agent runs (UUIDs)
          Msg,        \* assistant messages
          Ask,        \* requests of the agent to the user
          MaxCalls,   \* calls of start_run and prompt considered
          MaxInbox,   \* what an agent says while it waits in an inbox
          Others,     \* who else there is: "canceller", "deleter"
          NoRun, NoActor

ASSUME SessionAssumption ==
  /\ NoRun \notin Run
  /\ MaxCalls \in Nat /\ MaxInbox \in Nat
  /\ Others \subseteq {"canceller", "deleter"}
  /\ Run \cap {"caller", "canceller", "deleter", NoActor} = {}
  /\ NoActor \notin {"caller", "canceller", "deleter"}
  /\ IsFiniteSet(Msg)
  /\ IsFiniteSet(Run) /\ MaxCalls <= Cardinality(Run)  \* a call starts one run at most

\* Callers of start_run and prompt come one after the other: the prompt lock
\* makes them. Every run has an inbound worker of its own.
Actor == {"caller"} \cup Others \cup Run

VARIABLES
  \* rows of the store
  chat,     \* the chat exists
  row,      \* agent_runs.status: "none" before the row, "erased" after it
  text,     \* messages.status of assistant messages, likewise
  spoken,   \* the chat has messages
  \* the daemon's memory
  live,     \* the LiveRun of the chat
  asks,     \* SessionState.pending
  snap,     \* the ChatSessionSnapshot last published
  lock,     \* who holds the prompt lock of the chat
  stop,     \* the stop flag the queue hands to the running call
  act,      \* the threads
  calls,    \* calls so far
  quiet,    \* the last call a stop request has returned for, else 0
  \* the agents
  agent,    \* their processes
  wire,     \* the request of the daemon each of them has, and its answer
  inbox     \* what the reader has handed to the inbound worker

store == <<chat, row, text, spoken>>
vars == <<chat, row, text, spoken, live, asks, snap, lock, stop, act, calls, quiet,
          agent, wire, inbox>>

RunStatus == {"starting", "running", "stopped", "failed"}
Terminal == {"stopped", "failed"}

NoLive == [run |-> NoRun, ready |-> FALSE, turn |-> 0, open |-> {}]
Blank == [run |-> NoRun, status |-> "none", turn |-> 0, phase |-> "none", asks |-> {}]

\* A thread: where it is, the run, the turn and the messages it works on, what
\* it has left to close and why, and the call it belongs to: 0 for a caller
\* without a stop flag, which is one of start_run. A deletion is tidy when it is
\* delete_chat_if_empty.
Rest == [pc |-> "rest", run |-> NoRun, turn |-> 0, msgs |-> {}, todo |-> <<>>,
         end |-> "none", call |-> 0, tidy |-> FALSE]

Init == /\ chat = TRUE
        /\ row = [r \in Run |-> "none"]
        /\ text = [m \in Msg |-> "none"]
        /\ spoken = FALSE
        /\ live = NoLive
        /\ asks = {}
        /\ snap = Blank
        /\ lock = NoActor
        /\ stop = FALSE
        /\ act = [a \in Actor |-> Rest]
        /\ calls = 0
        /\ quiet = 0
        /\ agent = [r \in Run |-> "none"]
        /\ wire = [r \in Run |-> "none"]
        /\ inbox = [r \in Run |-> <<>>]

\* a is at pc with nothing left to close.
At(a, pc) == act[a].pc = pc /\ act[a].todo = <<>>
Becomes(a, th) == act' = [act EXCEPT ![a] = th]
Goto(a, pc) == Becomes(a, [act[a] EXCEPT !.pc = pc])

------------------------------------------------------------------------------
(* SessionState::transition: what an event makes of the snapshot s. *)

\* Mutant of RunRefused: a run that is over may be shown as running again.
RunRefusedForOthers(s, r, status) == status # "starting" /\ s.run \notin {NoRun, r}

RunRefused(s, r, status) ==
  \/ s.run = r /\ s.status \in Terminal /\ status \notin Terminal
  \/ status # "starting" /\ s.run \notin {NoRun, r}

AfterRun(s, r, status) ==
  IF status \in Terminal
  THEN [s EXCEPT !.run = r, !.status = status, !.asks = {},
                 !.phase = IF @ # "started" THEN @
                           ELSE IF status = "failed" THEN "failed" ELSE "cancelled"]
  ELSE IF status = "starting"
  THEN [Blank EXCEPT !.run = r, !.status = status]
  ELSE [s EXCEPT !.run = r, !.status = status]

TurnRefused(s, r, turn, phase) ==
  \/ s.run \notin {NoRun, r}
  \/ phase = "started" /\ s.status \in Terminal
  \/ phase # "started" /\ s.turn \notin {0, turn}
  \/ s.turn = turn /\ s.phase \in {"cancelled", "failed"} /\ s.phase # phase

AfterTurn(s, r, turn, phase) ==
  [s EXCEPT !.run = r, !.turn = turn, !.phase = phase,
            !.asks = IF phase = "started" THEN @ ELSE {}]

AsksOf(r) == {q \in asks : q[2] = r}

\* emit(RunUpdated): the row is looked up, and one that is erased says nothing.
EmitRun(r, status) ==
  IF row[r] = "erased" \/ RunRefused(snap, r, status) THEN UNCHANGED <<snap, asks>>
  ELSE /\ snap' = AfterRun(snap, r, status)
       /\ asks' = IF status \in Terminal THEN asks \ AsksOf(r) ELSE asks

\* emit(TurnUpdated)
EmitTurn(r, turn, phase) ==
  IF TurnRefused(snap, r, turn, phase) THEN UNCHANGED <<snap, asks>>
  ELSE /\ snap' = AfterTurn(snap, r, turn, phase)
       /\ asks' = IF phase # "started" THEN asks \ AsksOf(r) ELSE asks

------------------------------------------------------------------------------
(* Closing a run. *)

\* Mutant of Plan: who fails to start an agent leaves its process behind.
PlanNoKill(why, open) ==
  LET turn == IF open THEN <<"turn">> ELSE <<>>
  IN  CASE why = "cancel"  -> <<"asks", "kill", "texts">> \o turn \o <<"row", "run">>
        [] why = "prompt"  -> <<"asks", "kill", "texts", "row", "run">> \o turn
        [] why = "replace" -> <<"asks", "kill">> \o turn \o <<"row", "run">>
        [] why = "start"   -> <<"asks", "row", "run">>
        [] why = "gone"    -> <<"texts">> \o turn \o <<"row", "run", "asks">>

\* What is left to do for whoever has taken the live run out of the map, with a
\* turn open or not.
Plan(why, open) ==
  LET turn == IF open THEN <<"turn">> ELSE <<>>
  IN  CASE why = "cancel"  -> <<"asks", "kill", "texts">> \o turn \o <<"row", "run">>
        [] why = "prompt"  -> <<"asks", "kill", "texts", "row", "run">> \o turn
        [] why = "replace" -> <<"asks", "kill">> \o turn \o <<"row", "run">>
        [] why = "start"   -> <<"asks", "kill", "row", "run">>
        [] why = "gone"    -> <<"texts">> \o turn \o <<"row", "run", "asks">>

RunEnd(why) == IF why \in {"prompt", "start"} THEN "failed" ELSE "stopped"
TurnEnd(why) == IF why \in {"prompt", "gone"} THEN "failed" ELSE "cancelled"

\* a takes the live run and goes on at pc.
Take(a, pc, why) ==
  /\ live.run # NoRun
  /\ live' = NoLive
  /\ Becomes(a, [act[a] EXCEPT !.pc = pc, !.run = live.run, !.turn = live.turn,
                               !.msgs = live.open, !.end = why,
                               !.todo = Plan(why, live.turn # 0)])

\* The same when there may be no live run to take.
TakeIfAny(a, pc, why) ==
  IF live.run = NoRun THEN Goto(a, pc) /\ UNCHANGED live ELSE Take(a, pc, why)

Due(a, step) == act[a].todo # <<>> /\ Head(act[a].todo) = step

\* With the last step done the thread is where it goes on, and no more about that run.
Done(a) ==
  LET th == act[a]
  IN  Becomes(a, IF Len(th.todo) > 1 THEN [th EXCEPT !.todo = Tail(th.todo)]
                 ELSE [Rest EXCEPT !.pc = th.pc, !.call = th.call, !.tidy = th.tidy])

\* remove_pending_requests_for_run
CloseAsks(a) ==
  LET r == act[a].run
  IN  /\ Due(a, "asks") /\ Done(a)
      /\ asks' = asks \ AsksOf(r)
      /\ snap' = IF snap.run = r THEN [snap EXCEPT !.asks = {}] ELSE snap
      /\ UNCHANGED <<store, live, lock, stop, calls, quiet, agent, wire, inbox>>

\* The process is killed. Its reader will find out.
CloseAgent(a) ==
  LET r == act[a].run
  IN  /\ Due(a, "kill") /\ Done(a)
      /\ agent' = [agent EXCEPT ![r] = IF @ = "up" THEN "dying" ELSE @]
      /\ UNCHANGED <<store, live, asks, snap, lock, stop, calls, quiet, wire, inbox>>

\* finalize_message, Interrupted.
CloseTexts(a) ==
  /\ Due(a, "texts") /\ Done(a)
  /\ text' = [m \in Msg |-> IF m \in act[a].msgs /\ text[m] # "erased" THEN "interrupted"
                            ELSE text[m]]
  /\ UNCHANGED <<chat, row, spoken, live, asks, snap, lock, stop, calls, quiet,
                 agent, wire, inbox>>

CloseTurn(a) ==
  /\ Due(a, "turn") /\ Done(a)
  /\ EmitTurn(act[a].run, act[a].turn, TurnEnd(act[a].end))
  /\ UNCHANGED <<store, live, lock, stop, calls, quiet, agent, wire, inbox>>

\* update_run: an UPDATE by id, whatever the row says.
WriteRow(r, status) ==
  /\ row' = IF row[r] = "erased" THEN row ELSE [row EXCEPT ![r] = status]
  /\ UNCHANGED <<chat, text, spoken>>

CloseRow(a) ==
  /\ Due(a, "row") /\ Done(a)
  /\ WriteRow(act[a].run, RunEnd(act[a].end))
  /\ UNCHANGED <<live, asks, snap, lock, stop, calls, quiet, agent, wire, inbox>>

CloseRun(a) ==
  /\ Due(a, "run") /\ Done(a)
  /\ EmitRun(act[a].run, RunEnd(act[a].end))
  /\ UNCHANGED <<store, live, lock, stop, calls, quiet, agent, wire, inbox>>

Close(a) == CloseAsks(a) \/ CloseAgent(a) \/ CloseTexts(a) \/ CloseTurn(a)
            \/ CloseRow(a) \/ CloseRun(a)

------------------------------------------------------------------------------
(* start_run and prompt_with_cancel_signal, under the prompt lock. *)

\* The queue's worker claims the next prompt and clears its stop flag, or a
\* client asks for a start_run or discover_commands, which have none.
Begin ==
  /\ At("caller", "rest")
  /\ calls < MaxCalls
  /\ calls' = calls + 1
  /\ \/ /\ stop' = FALSE
        /\ Becomes("caller", [act["caller"] EXCEPT !.pc = "lock", !.call = calls + 1])
     \/ Goto("caller", "lock") /\ UNCHANGED stop
  /\ UNCHANGED <<store, live, asks, snap, lock, quiet, agent, wire, inbox>>

\* discover_commands makes do with the run that is live.
Lock ==
  /\ At("caller", "lock")
  /\ lock = NoActor
  /\ lock' = "caller"
  /\ IF act["caller"].call # 0 THEN Goto("caller", "check1")
     ELSE Goto("caller", "replace") \/ (live.ready /\ Goto("caller", "done"))
  /\ UNCHANGED <<store, live, asks, snap, stop, calls, quiet, agent, wire, inbox>>

\* Mutant of Check: a prompt looks at its stop flag before it starts an agent, not after.
CheckOnce(pc, next) ==
  /\ At("caller", pc)
  /\ IF stop /\ pc = "check1" THEN TakeIfAny("caller", "fail", "cancel")
     ELSE Goto("caller", next) /\ UNCHANGED live
  /\ UNCHANGED <<store, asks, snap, lock, stop, calls, quiet, agent, wire, inbox>>

\* check_stopped, at its three places. A call that has been stopped takes down
\* whatever is live and fails.
Check(pc, next) ==
  /\ At("caller", pc)
  /\ IF stop THEN TakeIfAny("caller", "fail", "cancel") ELSE Goto("caller", next) /\ UNCHANGED live
  /\ UNCHANGED <<store, asks, snap, lock, stop, calls, quiet, agent, wire, inbox>>

\* A run is started when none is live, or the live one is another agent's.
Choose ==
  /\ At("caller", "choose")
  /\ \E pc \in {"check2", "replace"} : /\ live.run = NoRun => pc = "replace"
                                       /\ Goto("caller", pc)
  /\ UNCHANGED <<store, live, asks, snap, lock, stop, calls, quiet, agent, wire, inbox>>

\* start_run_locked: no chat, no run; detach_chat.
Replace ==
  /\ At("caller", "replace")
  /\ IF chat THEN TakeIfAny("caller", "create", "replace") ELSE Goto("caller", "fail") /\ UNCHANGED live
  /\ UNCHANGED <<store, asks, snap, lock, stop, calls, quiet, agent, wire, inbox>>

Create ==
  /\ At("caller", "create")
  /\ \E r \in Run :
       /\ row[r] = "none"
       /\ row' = [row EXCEPT ![r] = "starting"]
       /\ Becomes("caller", [act["caller"] EXCEPT !.pc = "announce", !.run = r])
  /\ UNCHANGED <<chat, text, spoken, live, asks, snap, lock, stop, calls, quiet,
                 agent, wire, inbox>>

AnnounceStart ==
  /\ At("caller", "announce")
  /\ EmitRun(act["caller"].run, "starting")
  /\ Goto("caller", "spawn")
  /\ UNCHANGED <<store, live, lock, stop, calls, quiet, agent, wire, inbox>>

\* AcpClient::spawn, and the run is live before it is initialized. An agent that
\* cannot be spawned fails the run.
Spawn ==
  LET r == act["caller"].run
  IN  /\ At("caller", "spawn")
      /\ \/ /\ live' = [NoLive EXCEPT !.run = r]
            /\ agent' = [agent EXCEPT ![r] = "up"]
            /\ wire' = [wire EXCEPT ![r] = "setup"]
            /\ Goto("caller", "setup")
         \/ /\ Becomes("caller", [act["caller"] EXCEPT !.pc = "fail", !.end = "start",
                                                        !.todo = <<"row", "run">>])
            /\ UNCHANGED <<live, agent, wire>>
      /\ UNCHANGED <<store, asks, snap, lock, stop, calls, quiet, inbox>>

\* initialize and session/resume or session/new are answered ...
SetUp ==
  LET r == act["caller"].run
  IN  /\ At("caller", "setup")
      /\ wire[r] = "ready"
      /\ wire' = [wire EXCEPT ![r] = "none"]
      /\ Goto("caller", "mark")
      /\ UNCHANGED <<store, live, asks, snap, lock, stop, calls, quiet, agent, inbox>>

\* ... or refused, or time out (ACP_REQUEST_TIMEOUT), or the agent is gone.
SetUpFails ==
  LET r == act["caller"].run
  IN  /\ At("caller", "setup")
      /\ live' = IF live.run = r THEN NoLive ELSE live
      /\ Becomes("caller", [act["caller"] EXCEPT !.pc = "fail", !.end = "start",
                                                  !.todo = Plan("start", FALSE)])
      /\ wire' = [wire EXCEPT ![r] = "none"]
      /\ UNCHANGED <<store, asks, snap, lock, stop, calls, quiet, agent, inbox>>

\* The row says running, without a look at what it says now.
MarkRunning ==
  /\ At("caller", "mark")
  /\ WriteRow(act["caller"].run, "running")
  /\ Goto("caller", "announceUp")
  /\ UNCHANGED <<live, asks, snap, lock, stop, calls, quiet, agent, wire, inbox>>

AnnounceUp ==
  /\ At("caller", "announceUp")
  /\ EmitRun(act["caller"].run, "running")
  /\ Goto("caller", "adopt")
  /\ UNCHANGED <<store, live, lock, stop, calls, quiet, agent, wire, inbox>>

\* The live run gets its session, if it is still this run and the agent has named
\* one. start_run is done then; a prompt goes on.
Adopt ==
  /\ At("caller", "adopt")
  /\ IF live.run = act["caller"].run
     THEN /\ \E named \in BOOLEAN : live' = [live EXCEPT !.ready = named]
          /\ Goto("caller", IF act["caller"].call = 0 THEN "done" ELSE "check2")
     ELSE Goto("caller", "fail") /\ UNCHANGED live
  /\ UNCHANGED <<store, asks, snap, lock, stop, calls, quiet, agent, wire, inbox>>

\* The prompt is for the run that is live now. It may be refused: settings that
\* do not apply, attachments that cannot be stored or sent. Otherwise the message
\* of the user is saved; who asks for messages waits for the prompt lock.
Load ==
  /\ At("caller", "load")
  /\ \/ Goto("caller", "fail") /\ UNCHANGED spoken
     \/ /\ live.run # NoRun
        /\ spoken' = TRUE
        /\ Becomes("caller", [act["caller"] EXCEPT !.pc = "open", !.run = live.run])
  /\ UNCHANGED <<chat, row, text, live, asks, snap, lock, stop, calls, quiet,
                 agent, wire, inbox>>

\* The turn is open before the agent has the prompt. Turns are numbered by calls.
OpenTurn ==
  /\ At("caller", "open")
  /\ live' = IF live.run = NoRun THEN live ELSE [live EXCEPT !.turn = calls]
  /\ Goto("caller", "begin")
  /\ UNCHANGED <<store, asks, snap, lock, stop, calls, quiet, agent, wire, inbox>>

AnnounceTurn ==
  /\ At("caller", "begin")
  /\ EmitTurn(act["caller"].run, calls, "started")
  /\ Goto("caller", "check3")
  /\ UNCHANGED <<store, live, lock, stop, calls, quiet, agent, wire, inbox>>

\* terminate_failed_prompt: nothing is left to do if somebody else has taken
\* the run.
FailPrompt ==
  IF live.run = act["caller"].run THEN Take("caller", "fail", "prompt")
  ELSE Goto("caller", "fail") /\ UNCHANGED live

\* The prompt goes to the agent, unless it has not named a session or does not
\* read any more.
Send ==
  LET r == act["caller"].run
  IN  /\ At("caller", "send")
      /\ \/ /\ agent[r] # "gone"
            /\ wire' = [wire EXCEPT ![r] = "asked"]
            /\ Goto("caller", "wait") /\ UNCHANGED live
         \/ FailPrompt /\ UNCHANGED wire
      /\ UNCHANGED <<store, asks, snap, lock, stop, calls, quiet, agent, inbox>>

\* Mutant of Answered: the messages are completed without the barrier.
AnsweredUnsynced ==
  LET r == act["caller"].run
  IN  /\ At("caller", "wait")
      /\ wire[r] = "answered"
      /\ wire' = [wire EXCEPT ![r] = "none"]
      /\ Goto("caller", "collect")
      /\ UNCHANGED <<store, live, asks, snap, lock, stop, calls, quiet, agent, inbox>>

\* The agent has answered. sync_inbound queues a barrier behind all it said.
Answered ==
  LET r == act["caller"].run
  IN  /\ At("caller", "wait")
      /\ wire[r] = "answered"
      /\ wire' = [wire EXCEPT ![r] = "none"]
      /\ inbox' = [inbox EXCEPT ![r] = Append(@, <<"barrier", 0>>)]
      /\ Goto("caller", "sync")
      /\ UNCHANGED <<store, live, asks, snap, lock, stop, calls, quiet, agent>>

\* An error, a deadline (ACP_PROMPT_IDLE_TIMEOUT, ACP_PROMPT_TOTAL_TIMEOUT, or
\* ACP_REQUEST_TIMEOUT for the barrier), or the agent is gone.
TurnFails ==
  LET r == act["caller"].run
  IN  /\ At("caller", "wait") \/ At("caller", "sync")
      /\ wire' = [wire EXCEPT ![r] = "none"]
      /\ FailPrompt
      /\ UNCHANGED <<store, asks, snap, lock, stop, calls, quiet, agent, inbox>>

\* take_streaming_messages_from_live, of whatever run is live.
Collect ==
  /\ At("caller", "collect")
  /\ live' = [live EXCEPT !.open = {}]
  /\ Becomes("caller", [act["caller"] EXCEPT !.pc = "complete", !.msgs = live.open])
  /\ UNCHANGED <<store, asks, snap, lock, stop, calls, quiet, agent, wire, inbox>>

CompleteTexts ==
  /\ At("caller", "complete")
  /\ text' = [m \in Msg |-> IF m \in act["caller"].msgs /\ text[m] # "erased" THEN "complete"
                            ELSE text[m]]
  /\ Goto("caller", "settle")
  /\ UNCHANGED <<chat, row, spoken, live, asks, snap, lock, stop, calls, quiet,
                 agent, wire, inbox>>

\* finish_turn
SettleTurn ==
  /\ At("caller", "settle")
  /\ live' = IF live.run = act["caller"].run /\ live.turn = calls
             THEN [live EXCEPT !.turn = 0] ELSE live
  /\ Goto("caller", "end")
  /\ UNCHANGED <<store, asks, snap, lock, stop, calls, quiet, agent, wire, inbox>>

AnnounceEnd ==
  /\ At("caller", "end")
  /\ EmitTurn(act["caller"].run, calls, "completed")
  /\ Goto("caller", "done")
  /\ UNCHANGED <<store, live, lock, stop, calls, quiet, agent, wire, inbox>>

Return ==
  /\ At("caller", "done") \/ At("caller", "fail")
  /\ lock' = NoActor
  /\ Becomes("caller", Rest)
  /\ UNCHANGED <<store, live, asks, snap, stop, calls, quiet, agent, wire, inbox>>

Caller == \/ Lock \/ Check("check1", "choose") \/ Check("check2", "load")
          \/ Check("check3", "send") \/ Choose \/ Replace \/ Create \/ AnnounceStart
          \/ Spawn \/ SetUp \/ SetUpFails \/ MarkRunning \/ AnnounceUp \/ Adopt
          \/ Load \/ OpenTurn \/ AnnounceTurn \/ Send \/ Answered
          \/ TurnFails \/ Collect \/ CompleteTexts \/ SettleTurn \/ AnnounceEnd
          \/ Return \/ Close("caller")

------------------------------------------------------------------------------
(* A stop request: the flag if a prompt is under way, then cancel_inner. *)

Stop(a) ==
  /\ a = "canceller" /\ At(a, "rest")
  /\ stop' = (stop \/ act["caller"].call # 0)
  /\ Becomes(a, [act[a] EXCEPT !.pc = "cancel", !.call = act["caller"].call])
  /\ UNCHANGED <<store, live, asks, snap, lock, calls, quiet, agent, wire, inbox>>

Cancel(a) ==
  /\ At(a, "cancel")
  /\ TakeIfAny(a, "stopped", "cancel")
  /\ UNCHANGED <<store, asks, snap, lock, stop, calls, quiet, agent, wire, inbox>>

Stopped(a) ==
  /\ At(a, "stopped")
  /\ quiet' = IF act[a].call = calls THEN calls ELSE quiet
  /\ Becomes(a, Rest)
  /\ UNCHANGED <<store, live, asks, snap, lock, stop, calls, agent, wire, inbox>>

Canceller(a) == a = "canceller" /\ (Cancel(a) \/ Stopped(a) \/ Close(a))

------------------------------------------------------------------------------
(* delete_chat, and delete_chat_if_empty after a prompt that has failed. One    *)
(* deletion for each call of the caller is considered.                          *)

Delete(a) ==
  /\ a = "deleter" /\ At(a, "rest")
  /\ chat
  /\ act[a].call < calls
  /\ \E tidy \in BOOLEAN :
       /\ Becomes(a, [Rest EXCEPT !.pc = IF tidy THEN "enter" ELSE "look",
                                  !.tidy = tidy, !.call = calls])
       /\ stop' = (stop \/ (~tidy /\ act["caller"].call # 0))
  /\ UNCHANGED <<store, live, asks, snap, lock, calls, quiet, agent, wire, inbox>>

\* Mutant of Look: the deletion does not look again once it has the lock.
LookOnce(a, pc, found, next) ==
  /\ At(a, pc)
  /\ Goto(a, IF live.run # NoRun /\ pc = "look" THEN found ELSE next)
  /\ UNCHANGED <<store, live, asks, snap, lock, stop, calls, quiet, agent, wire, inbox>>

\* has_live_run
Look(a, pc, found, next) ==
  /\ At(a, pc)
  /\ Goto(a, IF live.run # NoRun THEN found ELSE next)
  /\ UNCHANGED <<store, live, asks, snap, lock, stop, calls, quiet, agent, wire, inbox>>

\* The deletion is over: with an error, too late, or done.
Leave(a) ==
  /\ lock' = IF lock = a THEN NoActor ELSE lock
  /\ Becomes(a, [Rest EXCEPT !.call = act[a].call])

\* The live run that was seen is cancelled. If it is gone, that is an error.
Interrupt(a, pc, next) ==
  /\ At(a, pc)
  /\ IF live.run # NoRun THEN Take(a, next, "cancel") /\ UNCHANGED lock
     ELSE Leave(a) /\ UNCHANGED live
  /\ UNCHANGED <<store, asks, snap, stop, calls, quiet, agent, wire, inbox>>

Enter(a) ==
  /\ At(a, "enter")
  /\ lock = NoActor
  /\ lock' = a
  /\ Goto(a, "look again")
  /\ UNCHANGED <<store, live, asks, snap, stop, calls, quiet, agent, wire, inbox>>

\* A tidy deletion spares a chat with messages, or with jobs waiting.
Spare(a) ==
  /\ At(a, "erase")
  /\ act[a].tidy
  /\ Leave(a)
  /\ UNCHANGED <<store, live, asks, snap, stop, calls, quiet, agent, wire, inbox>>

Erased(rows) == [x \in DOMAIN rows |-> IF rows[x] = "none" THEN "none" ELSE "erased"]

\* The rows of the chat go with it.
Erase(a) ==
  /\ At(a, "erase")
  /\ act[a].tidy => ~spoken
  /\ chat' = FALSE
  /\ row' = Erased(row)
  /\ text' = Erased(text)
  /\ lock' = IF act[a].tidy THEN NoActor ELSE lock
  /\ Goto(a, "forget")
  /\ UNCHANGED <<spoken, live, asks, snap, stop, calls, quiet, agent, wire, inbox>>

Forget(a) ==
  /\ At(a, "forget")
  /\ snap' = Blank
  /\ Leave(a)
  /\ UNCHANGED <<store, live, asks, stop, calls, quiet, agent, wire, inbox>>

Deleter(a) ==
  /\ a = "deleter"
  /\ \/ Look(a, "look", "interrupt", "enter") \/ Interrupt(a, "interrupt", "enter")
     \/ Enter(a)
     \/ Look(a, "look again", "interrupt again", "erase")
     \/ Interrupt(a, "interrupt again", "erase")
     \/ Spare(a) \/ Erase(a) \/ Forget(a) \/ Close(a)

------------------------------------------------------------------------------
(* The agents: what they answer and say, in what order they like. *)

Reply(r) ==
  /\ agent[r] \in {"up", "dying"}
  /\ wire[r] \in {"setup", "asked"}
  /\ wire' = [wire EXCEPT ![r] = IF @ = "setup" THEN "ready" ELSE "answered"]
  /\ UNCHANGED <<store, live, asks, snap, lock, stop, act, calls, quiet, agent, inbox>>

Hear(r, item) == inbox' = [inbox EXCEPT ![r] = Append(@, item)]
Talks(r) == agent[r] \in {"up", "dying"} /\ Len(inbox[r]) < MaxInbox

Fresh == {m \in Msg : text[m] = "none"}
Chunks == UNION {{<<r, i>> : i \in {i \in DOMAIN inbox[r] : inbox[r][i][1] = "chunk"}} : r \in Run}

\* agent_message_chunk, with the call it belongs to. There must be a message left
\* for it.
SayChunk(r) ==
  /\ Talks(r)
  /\ Cardinality(Chunks) < Cardinality(Fresh)
  /\ Hear(r, <<"chunk", IF wire[r] = "asked" THEN calls ELSE 0>>)
  /\ UNCHANGED <<store, live, asks, snap, lock, stop, act, calls, quiet, agent, wire>>

\* session/request_permission, elicitation/create.
SayAsk(r) ==
  /\ Talks(r)
  /\ \E q \in Ask :
       /\ \A s \in Run : <<q, s>> \notin asks /\ \A i \in DOMAIN inbox[s] : inbox[s][i][2] # q
       /\ Hear(r, <<"ask", q>>)
  /\ UNCHANGED <<store, live, asks, snap, lock, stop, act, calls, quiet, agent, wire>>

Exit(r) ==
  /\ agent[r] = "up"
  /\ agent' = [agent EXCEPT ![r] = "dying"]
  /\ UNCHANGED <<store, live, asks, snap, lock, stop, act, calls, quiet, wire, inbox>>

\* The reader has come to the end of what the agent wrote; who waits for an
\* answer is told.
Reader(r) ==
  /\ agent[r] = "dying"
  /\ agent' = [agent EXCEPT ![r] = "gone"]
  /\ wire' = [wire EXCEPT ![r] = IF @ \in {"setup", "asked"} THEN "none" ELSE @]
  /\ Hear(r, <<"gone", 0>>)
  /\ UNCHANGED <<store, live, asks, snap, lock, stop, act, calls, quiet>>

------------------------------------------------------------------------------
(* handle_inbound, the worker of run r. *)

NextIs(r, what) ==
  /\ At(r, "rest")
  /\ inbox[r] # <<>>
  /\ Head(inbox[r])[1] = what
  /\ inbox' = [inbox EXCEPT ![r] = Tail(@)]

\* A chunk of the live run finds the message it continues, or makes one.
HearChunk(r) ==
  /\ NextIs(r, "chunk")
  /\ IF live.run # r THEN UNCHANGED <<text, live, act, spoken>>
     ELSE \E m \in live.open \cup Fresh :
            /\ live' = [live EXCEPT !.open = @ \cup {m}]
            /\ text' = [text EXCEPT ![m] = IF m \in live.open THEN @ ELSE "streaming"]
            /\ spoken' = TRUE
            /\ Becomes(r, [Rest EXCEPT !.pc = "append", !.msgs = {m},
                                       !.call = Head(inbox[r])[2]])
  /\ UNCHANGED <<chat, row, asks, snap, lock, stop, calls, quiet, agent, wire>>

\* append_text_delta: an UPDATE by id again.
AppendText(r) ==
  /\ At(r, "append")
  /\ text' = [m \in Msg |-> IF m \in act[r].msgs /\ text[m] # "erased" THEN "streaming"
                            ELSE text[m]]
  /\ Becomes(r, Rest)
  /\ UNCHANGED <<chat, row, spoken, live, asks, snap, lock, stop, calls, quiet,
                 agent, wire, inbox>>

\* Mutant of HearAsk: the worker does not ask whether its run is still live.
HearAskUnchecked(r) ==
  LET q == <<Head(inbox[r])[2], r>>
  IN  /\ NextIs(r, "ask")
      /\ asks' = asks \cup {q}
      /\ snap' = IF snap.run \in {NoRun, r} THEN [snap EXCEPT !.asks = @ \cup {q}] ELSE snap
      /\ UNCHANGED <<store, live, lock, stop, act, calls, quiet, agent, wire>>

\* A request of the live run is pending and published at once.
HearAsk(r) ==
  LET q == <<Head(inbox[r])[2], r>>
  IN  /\ NextIs(r, "ask")
      /\ IF live.run # r THEN UNCHANGED <<asks, snap>>
         ELSE /\ asks' = asks \cup {q}
              /\ snap' = IF snap.run \in {NoRun, r} THEN [snap EXCEPT !.asks = @ \cup {q}]
                         ELSE snap
      /\ UNCHANGED <<store, live, lock, stop, act, calls, quiet, agent, wire>>

\* Mutant of HearGone: only a run with an open turn is closed.
HearGoneInTurn(r) ==
  /\ NextIs(r, "gone")
  /\ IF live.run = r /\ live.turn # 0 THEN Take(r, "rest", "gone") ELSE UNCHANGED <<live, act>>
  /\ UNCHANGED <<store, asks, snap, lock, stop, calls, quiet, agent, wire>>

\* Disconnected
HearGone(r) ==
  /\ NextIs(r, "gone")
  /\ IF live.run = r THEN Take(r, "rest", "gone") ELSE UNCHANGED <<live, act>>
  /\ UNCHANGED <<store, asks, snap, lock, stop, calls, quiet, agent, wire>>

\* The barrier is acknowledged, to whoever may still wait for it.
HearBarrier(r) ==
  /\ NextIs(r, "barrier")
  /\ IF At("caller", "sync") /\ act["caller"].run = r THEN Goto("caller", "collect")
     ELSE UNCHANGED act
  /\ UNCHANGED <<store, live, asks, snap, lock, stop, calls, quiet, agent, wire>>

Worker(r) == HearChunk(r) \/ AppendText(r) \/ HearAsk(r) \/ HearGone(r) \/ HearBarrier(r)
             \/ Close(r)

\* respond_to_agent: the request is claimed whatever becomes of the answer. An
\* answer that cannot be sent takes the agent down.
Respond ==
  \E q \in asks :
    /\ asks' = asks \ {q}
    /\ snap' = [snap EXCEPT !.asks = @ \ {q}]
    /\ \/ UNCHANGED agent
       \/ /\ live.run = q[2] /\ agent[live.run] = "up"
          /\ agent' = [agent EXCEPT ![live.run] = "dying"]
    /\ UNCHANGED <<store, live, lock, stop, act, calls, quiet, wire, inbox>>

------------------------------------------------------------------------------

Next == \/ Begin \/ Caller \/ Respond
        \/ \E a \in Others : Stop(a) \/ Canceller(a) \/ Delete(a) \/ Deleter(a)
        \/ \E r \in Run : Reply(r) \/ SayChunk(r) \/ SayAsk(r) \/ Exit(r) \/ Reader(r) \/ Worker(r)

\* Threads that have begun go on; a request to an agent ends with its deadline at
\* the latest; a process that has ended is noticed. Agents need not answer.
Fairness == /\ WF_vars(Caller)
            /\ \A a \in Others : WF_vars(Canceller(a)) /\ WF_vars(Deleter(a))
            /\ \A r \in Run : WF_vars(Reader(r)) /\ WF_vars(Worker(r))

Spec == Init /\ [][Next]_vars /\ Fairness

------------------------------------------------------------------------------
(* Type correctness *)

Item == ({"chunk"} \X (0..MaxCalls)) \cup ({"ask"} \X Ask) \cup {<<"gone", 0>>, <<"barrier", 0>>}
Why == {"cancel", "prompt", "replace", "start", "gone"}
Step == {"asks", "kill", "texts", "turn", "row", "run"}

Place == {"rest", "lock", "check1", "choose", "replace", "create", "announce", "spawn", "setup",
          "mark", "announceUp", "adopt", "check2", "load", "open", "begin", "check3", "send",
          "wait", "sync", "collect", "complete", "settle", "end", "done", "fail",
          "cancel", "stopped", "look", "interrupt", "enter", "look again", "interrupt again",
          "erase", "forget", "append"}

LiveRun == [run : Run \cup {NoRun}, ready : BOOLEAN, turn : 0..MaxCalls, open : SUBSET Msg]
Snapshot == [run : Run \cup {NoRun}, status : RunStatus \cup {"none"}, turn : 0..MaxCalls,
             phase : {"none", "started", "completed", "cancelled", "failed"},
             asks : SUBSET (Ask \X Run)]
Thread == [pc : Place, run : Run \cup {NoRun}, turn : 0..MaxCalls, msgs : SUBSET Msg,
           todo : Seq(Step), end : Why \cup {"none"}, call : 0..MaxCalls, tidy : BOOLEAN]

\* Every row, snapshot, thread and inbox holds what its column or type allows.
TypeOK ==
  /\ chat \in BOOLEAN /\ spoken \in BOOLEAN /\ stop \in BOOLEAN
  /\ row \in [Run -> RunStatus \cup {"none", "erased"}]
  /\ text \in [Msg -> {"none", "streaming", "complete", "interrupted", "erased"}]
  /\ live \in LiveRun
  /\ asks \subseteq Ask \X Run
  /\ snap \in Snapshot
  /\ lock \in {NoActor, "caller", "deleter"}
  /\ calls \in 0..MaxCalls /\ quiet \in 0..calls
  /\ agent \in [Run -> {"none", "up", "dying", "gone"}]
  /\ wire \in [Run -> {"none", "setup", "ready", "asked", "answered"}]
  /\ act \in [Actor -> Thread]
  /\ inbox \in [Run -> Seq(Item)]

------------------------------------------------------------------------------
(* Safety *)

ToClose(a) == {act[a].todo[i] : i \in DOMAIN act[a].todo}

\* A question of an agent is pending only while its run is live or somebody is
\* about to drop the questions of that run: an inbound worker does not leave one
\* behind after the run has been taken from it (inbound.rs:96-106).
AsksAreOwned ==
  \A q \in asks : \/ live.run = q[2]
                  \/ \E a \in Actor : act[a].run = q[2] /\ "asks" \in ToClose(a)

\* What a client is shown as pending it can answer, and what the live agent waits
\* for a client is shown.
AsksAreShown ==
  /\ snap.asks \subseteq asks
  /\ \A q \in asks : live.run = q[2] => q \in snap.asks

\* Both together: a question has somebody who answers it or drops it, and is shown
\* exactly where it waits for a client (inbound.rs:96-106, agent_requests.rs).
AsksAreKept == AsksAreOwned /\ AsksAreShown

\* Nobody is at work and nothing is waiting to be handled.
AtRest == /\ \A a \in Actor : At(a, "rest")
          /\ \A r \in Run : inbox[r] = <<>>
          /\ lock = NoActor

\* However starts, prompts, stops, deletions and lost agents have overtaken one
\* another: once all is at rest the last snapshot, the live run and the processes
\* agree. No turn is left open, no client sees a run that is gone, no process
\* runs that nothing refers to, and a live run is stored and shown as running.
SettledAtRest ==
  AtRest =>
    /\ live.turn = 0 /\ snap.phase # "started"
    /\ \A r \in Run : agent[r] = "up" => live.run = r
    /\ IF live.run = NoRun THEN asks = {} /\ snap.status \notin {"starting", "running"}
       ELSE /\ snap.run = live.run /\ snap.status = "running"
            /\ row[live.run] = "running"

\* A stop request that has returned for a prompt is final, though it may have come
\* before the agent was started: no running agent has the prompt, but for one that a
\* deletion of the chat has taken and is about to kill, and when the prompt has
\* returned too no run is live.
StopIsFinal ==
  quiet = calls /\ calls # 0 =>
    /\ \A r \in Run : agent[r] = "up" /\ wire[r] = "asked" =>
         "deleter" \in Others /\ act["deleter"].run = r /\ "kill" \in ToClose("deleter")
    /\ At("caller", "rest") => live = NoLive

\* The messages of a turn are completed only when all that the agent said before
\* its answer is in them (prompt.rs:374-376).
TextIsWhole ==
  \A r \in Run :
    act["caller"].pc \in {"collect", "complete"} /\ act["caller"].run = r =>
      /\ \A i \in DOMAIN inbox[r] : inbox[r][i] # <<"chunk", calls>>
      /\ ~(At(r, "append") /\ act[r].call = calls)

\* No run outlives its chat: neither one started while the deletion waited for the
\* prompt lock nor one started by who waited behind it.
NoLiveWithoutChat == ~chat => live = NoLive

\* Once a snapshot shows a run as over, no late event of that run shows it as
\* alive or opens a turn, unless the chat was forgotten in between.
OverStaysOver ==
  [][snap.status \in Terminal /\ snap'.run = snap.run =>
       snap'.status \in Terminal /\ snap'.phase # "started"]_vars

------------------------------------------------------------------------------
(* Liveness *)

\* Every start, prompt, stop and deletion returns, whatever the agents do.
AllReturn == \A a \in Actor \ Run : ~At(a, "rest") ~> At(a, "rest")

\* No client watches a turn that never ends.
TurnsEnd == snap.phase = "started" ~> snap.phase # "started"

\* A run whose process has ended does not stay live.
LossIsNoticed == \A r \in Run : agent[r] = "dying" ~> live.run # r

\* Whatever is begun ends: calls, turns, and runs without a process.
AllEnds == AllReturn /\ TurnsEnd /\ LossIsNoticed

=============================================================================
