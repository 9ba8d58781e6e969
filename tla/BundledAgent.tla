---------------------------- MODULE BundledAgent ----------------------------
(***************************************************************************)
(* The agent that ships with Amarcode (crates/amarcode-acp): sessions kept *)
(* in memory and in one store file, and turns that alternate between the   *)
(* model provider and tools.                                               *)
(*                                                                         *)
(* Every chat has a process of its own, and all processes share the store  *)
(* file: an update reads the file, replaces the entry of its session and   *)
(* writes the file back, under a lock that only the process itself knows.  *)
(* A process handles client requests one at a time; turns run beside them. *)
(*                                                                         *)
(* A history is a sequence of messages.  `calls` are the tool calls an     *)
(* assistant message makes or a tool message answers, `holds` the calls    *)
(* whose outcome can be read from the message (a summary holds those of    *)
(* the messages it stands for), `task` the turn whose prompt it is.        *)
(***************************************************************************)
EXTENDS Naturals, SequencesExt

CONSTANTS
  Session,     \* the sessions, each served by one process at a time
  Turn,        \* prompts
  Call,        \* tool calls the model may make, each at most once
  MaxRounds,   \* MAX_TOOL_ROUNDS
  MaxCalls,    \* MAX_TOOL_CALLS
  Window,      \* the context window, in messages
  MaxFaults,   \* how often, in all, the store file cannot be written or the client
               \* closes or loads a session whose turn is under way
  NoTurn, Nothing

ASSUME AgentLimits == /\ {MaxRounds, MaxCalls, Window, MaxFaults} \subseteq Nat
                      /\ Window >= 4
                      /\ NoTurn \notin Turn

VARIABLES
  up,      \* up[s]: the process that serves s runs
  mem,     \* mem[s]: the session in the memory of its process, or Nothing
  disk,    \* disk[s]: the history the store file has for s, or Nothing
  io,      \* io[s]: what the process of s has read and is about to put
  turn,    \* turn[t]: the task that executes turn t
  kept,    \* kept[s]: calls whose outcome has been saved for s (history)
  torn,    \* sessions whose latest turn began with another one at work (history)
  faults   \* failed writes, and closes and loads under a turn (bound)

agentVars == <<up, mem, disk, io, turn, kept, torn, faults>>

-----------------------------------------------------------------------------
(* Messages and histories. *)

Roles == {"user", "assistant", "tool"}
Message == [role: Roles, calls: SUBSET Call, holds: SUBSET Call, task: Turn \cup {NoTurn}]

Says(role, calls, holds) == [role |-> role, calls |-> calls, holds |-> holds, task |-> NoTurn]
PromptOf(t) == [Says("user", {}, {}) EXCEPT !.task = t]
Asks(calls) == Says("assistant", calls, {})
Result(c)   == Says("tool", {c}, {c})
Skipped(c)  == Says("tool", {c}, {})       \* "tool not executed ..."
Note        == Says("assistant", {}, {})   \* "Stopped: ..." and plain answers

SkippedAll(calls) == LET one(c) == Skipped(c) IN SetToSeq({one(c) : c \in calls})
Holds(h) == UNION {h[i].holds : i \in 1..Len(h)}

\* What is sent to the provider must pair calls and results: the results of a
\* message follow it directly, and no result stands alone.
Balanced(h) ==
  \A i \in 1..Len(h) :
    /\ h[i].role = "assistant" =>
         \E n \in 0..(Len(h) - i) :
           /\ n = Cardinality(h[i].calls)
           /\ {h[j].calls : j \in (i+1)..(i+n)} = {{c} : c \in h[i].calls}
           /\ \A j \in (i+1)..(i+n) : h[j].role = "tool"
    /\ h[i].role = "tool" =>
         \E k \in 1..(i-1) : h[k].role = "assistant" /\ h[i].calls \subseteq h[k].calls

\* history_token_budget: the window leaves room for the tools and the output.
Fits(h) == Len(h) <= Window

\* summarize_batch, for one batch after the other: what the provider makes of
\* messages that are to be left out.
Summary(older) == Says("assistant", {}, Holds(older))

\* compaction_plan and finish: the first prompt stays, then a summary of what
\* is oldest, then as many whole exchanges as fit; the latest prompt stays too.
Compacted(h) ==
  LET users  == {i \in 1..Len(h) : h[i].role = "user"}
      first  == Min(users)
      last   == Max(users)
      rest   == SelectSeq([i \in 1..Len(h) |-> i], LAMBDA i : i \notin {first, last})
      pinned == Cardinality({first, last})
      Splits == {b \in 1..Len(rest) :
                   /\ pinned + 1 + Len(rest) - b <= Window
                   /\ b < Len(rest) => h[rest[b + 1]].role # "tool"}
      older  == Min(Splits)
      from   == IF older = Len(rest) THEN Len(h) + 1 ELSE rest[older + 1]
  IN  <<h[first], Summary([i \in 1..older |-> h[rest[i]]])>>
      \o (IF first # last /\ from > last THEN <<h[last]>> ELSE <<>>)
      \o SubSeq(h, from, Len(h))

-----------------------------------------------------------------------------
(* Sessions. *)

NoWork == [at |-> "idle", of |-> Nothing, history |-> <<>>, todo |-> {}, made |-> {},
           doing |-> {}, round |-> 0, used |-> 0, ext |-> "no", late |-> FALSE,
           heard |-> FALSE, keeps |-> FALSE]

UnderWay(t) == turn[t].at \notin {"idle", "over", "dead"}

AgentInit ==
  /\ up = [s \in Session |-> FALSE]
  /\ mem = [s \in Session |-> Nothing]
  /\ disk = [s \in Session |-> Nothing]
  /\ io = [s \in Session |-> Nothing]
  /\ turn = [t \in Turn |-> NoWork]
  /\ kept = [s \in Session |-> {}]
  /\ torn = {}
  /\ faults = 0

Loaded(h) == [history |-> h, active |-> NoTurn]
Free(s) == up[s] /\ io[s] = Nothing
Quiet(s) == \A t \in Turn : turn[t].of = s => ~UnderWay(t)

\* upsert: the file is read; Write puts it back with the entry of s replaced.
\* The lock on the sessions is held from here to there.  What two turns save that
\* are at work in the session at once does not count as kept.
Save(s, put) == io' = [io EXCEPT ![s] = [seen |-> disk, put |-> put]]

Write(s) ==
  /\ io[s] # Nothing
  /\ io' = [io EXCEPT ![s] = Nothing]
  /\ \/ /\ disk' = [io[s].seen EXCEPT ![s] = io[s].put]
        /\ kept' = [kept EXCEPT ![s] =
                      CASE io[s].put = Nothing -> {}
                        [] s \in torn -> @
                        [] OTHER -> @ \cup Holds(io[s].put)]
        /\ UNCHANGED faults
     \/ /\ faults < MaxFaults
        /\ faults' = faults + 1
        /\ UNCHANGED <<disk, kept>>
  /\ UNCHANGED <<up, mem, turn, torn>>

\* A process starts with every saved session in memory.
Spawn(s) ==
  /\ ~up[s]
  /\ up' = [up EXCEPT ![s] = TRUE]
  /\ mem' = [mem EXCEPT ![s] = IF disk[s] = Nothing THEN Nothing ELSE Loaded(disk[s])]
  /\ UNCHANGED <<disk, io, turn, kept, torn, faults>>

\* The process is killed, or dies, at any point.
Die(s) ==
  /\ up[s]
  /\ up' = [up EXCEPT ![s] = FALSE]
  /\ mem' = [mem EXCEPT ![s] = Nothing]
  /\ io' = [io EXCEPT ![s] = Nothing]
  /\ turn' = [t \in Turn |-> IF turn[t].of = s /\ UnderWay(t)
                             THEN [NoWork EXCEPT !.at = "dead", !.of = s, !.made = turn[t].made]
                             ELSE turn[t]]
  /\ UNCHANGED <<disk, kept, torn, faults>>

NewSession(s) ==
  /\ Free(s) /\ Quiet(s)
  /\ mem[s] = Nothing /\ disk[s] = Nothing
  /\ mem' = [mem EXCEPT ![s] = Loaded(<<>>)]
  /\ Save(s, <<>>)
  /\ UNCHANGED <<up, disk, turn, kept, torn, faults>>

\* How a turn learns that it is no longer wanted: it is asked to stop, or the
\* sender it listens to is dropped with the session that is replaced.
Signalled(s, how) ==
  [t \in Turn |-> IF mem[s] # Nothing /\ mem[s].active = t /\ turn[t].ext = "no"
                  THEN [turn[t] EXCEPT !.ext = how] ELSE turn[t]]

\* At any time, but only so often under a turn.
Interferes(s) ==
  /\ Free(s)
  /\ Quiet(s) \/ faults < MaxFaults
  /\ faults' = IF Quiet(s) THEN faults ELSE faults + 1

\* session/load and session/resume replace the session in memory.
Restore(s) ==
  /\ Interferes(s)
  /\ disk[s] # Nothing
  /\ mem' = [mem EXCEPT ![s] = Loaded(disk[s])]
  /\ turn' = Signalled(s, "gone")
  /\ UNCHANGED <<up, disk, io, kept, torn>>

Close(s) ==
  /\ Interferes(s)
  /\ mem[s] # Nothing
  /\ mem' = [mem EXCEPT ![s] = Nothing]
  /\ turn' = Signalled(s, "asked")
  /\ UNCHANGED <<up, disk, io, kept, torn>>

Delete(s) ==
  /\ Free(s)
  /\ mem[s] # Nothing \/ disk[s] # Nothing
  /\ mem' = [mem EXCEPT ![s] = Nothing]
  /\ turn' = Signalled(s, "asked")
  /\ IF disk[s] = Nothing THEN UNCHANGED io ELSE Save(s, Nothing)
  /\ UNCHANGED <<up, disk, kept, torn, faults>>

SetModel(s) ==
  /\ Free(s) /\ mem[s] # Nothing
  /\ Save(s, mem[s].history)
  /\ UNCHANGED <<up, mem, disk, turn, kept, torn, faults>>

\* session/cancel, or the cancellation of the prompt request: both stop the
\* turn the session is busy with.
Cancel(s) ==
  /\ Free(s) /\ mem[s] # Nothing
  /\ \E t \in Turn : mem[s].active = t /\ turn[t].ext = "no"
  /\ turn' = Signalled(s, "asked")
  /\ UNCHANGED <<up, mem, disk, io, kept, torn, faults>>

\* Prompts, too, are taken one after the other.
NextPrompt == Head(SetToSeq({t \in Turn : turn[t].at = "idle"}))

Begin(t, s) ==
  /\ turn[t].at = "idle" /\ t = NextPrompt
  /\ Free(s) /\ mem[s] # Nothing
  /\ mem[s].active = NoTurn
  /\ LET h == Append(mem[s].history, PromptOf(t))
     IN  /\ mem' = [mem EXCEPT ![s] = [history |-> h, active |-> t]]
         /\ turn' = [turn EXCEPT ![t] = [NoWork EXCEPT !.at = "top", !.of = s, !.history = h]]
  /\ torn' = IF Quiet(s) THEN torn \ {s} ELSE torn \cup {s}
  /\ UNCHANGED <<up, disk, io, kept, faults>>

-----------------------------------------------------------------------------
(* The execution of a turn. *)

\* The relay task passes a cancellation on, or announces the deadline.
Relay(t) ==
  /\ UnderWay(t) /\ turn[t].at # "ending" /\ ~turn[t].heard
  /\ turn' = [turn EXCEPT ![t].heard = TRUE, ![t].late = (turn[t].ext = "no")]
  /\ UNCHANGED <<up, mem, disk, io, kept, torn, faults>>

Step(t, at) == turn[t].at = at

Ends(t, h, keeps) ==
  /\ turn' = [turn EXCEPT ![t] = [NoWork EXCEPT !.at = "ending", !.of = turn[t].of,
                                   !.made = turn[t].made, !.ext = turn[t].ext, !.keeps = keeps,
                                   !.history = IF keeps THEN h ELSE <<>>]]
  /\ UNCHANGED <<up, mem, disk, io, kept, torn, faults>>

\* limited_turn; the note may not reach the client.
Limited(t, h) == Ends(t, Append(h, Note), TRUE) \/ Ends(t, h, FALSE)

\* cancelled_or_limited
Interrupted(t, h) ==
  /\ turn[t].heard
  /\ \/ turn[t].ext = "asked" /\ Ends(t, h, TRUE)
     \/ turn[t].ext # "asked" /\ turn[t].late /\ Limited(t, h)
     \/ turn[t].ext # "asked" /\ ~turn[t].late /\ Ends(t, h, FALSE)

Fails(t) == \/ Interrupted(t, turn[t].history)
            \/ ~turn[t].heard /\ Ends(t, turn[t].history, FALSE)

\* The history reaches the session in memory, whoever owns it by now, and the
\* store.
Checkpoint(t, h, then) ==
  LET s == turn[t].of IN
  /\ Free(s)
  /\ turn' = [turn EXCEPT ![t] = then]
  /\ IF mem[s] = Nothing THEN UNCHANGED <<mem, io>>
     ELSE /\ mem' = [mem EXCEPT ![s].history = h]
          /\ Save(s, h)
  /\ UNCHANGED <<up, disk, kept, torn, faults>>

Top(t) ==
  /\ Step(t, "top")
  /\ LET h == turn[t].history IN
     \/ Fails(t)
     \/ ~turn[t].heard /\ Limited(t, h)    \* the cost budget, or the rounds, are used up
     \/ /\ ~turn[t].heard /\ turn[t].round < MaxRounds
        /\ IF Fits(h)
           THEN Checkpoint(t, h, [turn[t] EXCEPT !.at = "model"])
           ELSE /\ turn' = [turn EXCEPT ![t].at = "summary"]
                /\ UNCHANGED <<up, mem, disk, io, kept, torn, faults>>

Summarise(t) ==
  /\ Step(t, "summary")
  /\ \/ LET h == Compacted(turn[t].history)
        IN  Checkpoint(t, h, [turn[t] EXCEPT !.at = "model", !.history = h])
     \/ Limited(t, turn[t].history)
     \/ Fails(t)

\* Calls are given identifiers of their own; which ones makes no difference.
Fresh == SetToSeq(Call \ UNION {turn[t].made : t \in Turn})

\* stream_completion: the calls that the events of a stream, or an answer in one
\* piece, put together.
Completions == {ToSet(SubSeq(Fresh, 1, n)) : n \in 0..Len(Fresh)}

Answer(t) ==
  /\ Step(t, "model")
  /\ \/ Ends(t, Append(turn[t].history, Note), TRUE)
     \/ \E calls \in Completions :
          LET h == Append(turn[t].history, Asks(calls)) IN
          \/ /\ calls # {}
             /\ turn' = [turn EXCEPT ![t].at = "tool", ![t].history = h, ![t].todo = calls,
                                     ![t].made = @ \cup calls]
             /\ UNCHANGED <<up, mem, disk, io, kept, torn, faults>>
          \/ Limited(t, h \o SkippedAll(calls))    \* finish_reason "length"
     \/ Fails(t)

SkipTools(t) ==
  /\ Step(t, "tool") /\ turn[t].todo # {}
  /\ LET h == turn[t].history \o SkippedAll(turn[t].todo)
     IN  \/ Interrupted(t, h)
         \/ ~turn[t].heard /\ turn[t].used >= MaxCalls /\ Limited(t, h)

StartTool(t) ==
  /\ Step(t, "tool")
  /\ ~turn[t].heard /\ turn[t].used < MaxCalls
  /\ turn[t].todo # {}
  /\ turn' = [turn EXCEPT ![t].at = "exec", ![t].used = @ + 1,
                          ![t].doing = {Head(SetToSeq(turn[t].todo))}]
  /\ UNCHANGED <<up, mem, disk, io, kept, torn, faults>>

\* Mutant of ToolDone: only what the turn goes on with is saved.
ToolDoneUnanswered(t) ==
  /\ Step(t, "exec")
  /\ \E c \in turn[t].doing :
       LET h == Append(turn[t].history, Result(c))
       IN  Checkpoint(t, h, [turn[t] EXCEPT !.at = "tool", !.doing = {}, !.history = h,
                                            !.todo = @ \ {c}])

\* The outcome joins the history; what is saved answers the calls still to be
\* executed as well.
ToolDone(t) ==
  /\ Step(t, "exec")
  /\ \E c \in turn[t].doing :
       LET h    == Append(turn[t].history, Result(c))
           todo == turn[t].todo \ {c}
       IN  Checkpoint(t, h \o SkippedAll(todo),
                      [turn[t] EXCEPT !.at = "tool", !.doing = {}, !.history = h, !.todo = todo])

\* ProgressTracker: rounds repeat themselves.  The calls of the model are told
\* apart by their identifiers, which it leaves out, so any round may be one.
NoProgress(t) == ~turn[t].heard /\ Limited(t, turn[t].history)

NextRound(t) ==
  /\ Step(t, "tool") /\ turn[t].todo = {}
  /\ \/ Interrupted(t, turn[t].history)
     \/ NoProgress(t)
     \/ /\ ~turn[t].heard
        /\ turn' = [turn EXCEPT ![t].at = "top", ![t].round = @ + 1]
        /\ UNCHANGED <<up, mem, disk, io, kept, torn, faults>>


\* Mutant of Finish: only a turn that keeps its history frees the session.
FinishStaysActive(t) ==
  LET s == turn[t].of IN
  /\ Step(t, "ending") /\ Free(s)
  /\ IF mem[s] # Nothing /\ mem[s].active = t /\ turn[t].keeps
     THEN mem' = [mem EXCEPT ![s] = Loaded(turn[t].history)] /\ Save(s, turn[t].history)
     ELSE UNCHANGED <<mem, io>>
  /\ turn' = [turn EXCEPT ![t] = [NoWork EXCEPT !.at = "over", !.of = s, !.made = turn[t].made]]
  /\ UNCHANGED <<up, disk, kept, torn, faults>>

\* finish_turn and the answer to the prompt request.
Finish(t) ==
  LET s == turn[t].of IN
  /\ Step(t, "ending") /\ Free(s)
  /\ IF mem[s] # Nothing /\ mem[s].active = t
     THEN LET h == IF turn[t].keeps THEN turn[t].history ELSE mem[s].history
          IN  mem' = [mem EXCEPT ![s] = Loaded(h)] /\ Save(s, h)
     ELSE UNCHANGED <<mem, io>>
  /\ turn' = [turn EXCEPT ![t] = [NoWork EXCEPT !.at = "over", !.of = s, !.made = turn[t].made]]
  /\ UNCHANGED <<up, disk, kept, torn, faults>>

TurnStep(t) == \/ Top(t) \/ Summarise(t) \/ Answer(t) \/ SkipTools(t) \/ StartTool(t)
               \/ ToolDone(t) \/ NextRound(t) \/ Finish(t)

ClientStep(s) == \/ NewSession(s) \/ Restore(s) \/ Close(s) \/ Delete(s) \/ SetModel(s)
                 \/ Cancel(s)

AgentNext ==
  \/ \E s \in Session : Spawn(s) \/ Die(s) \/ ClientStep(s) \/ Write(s)
  \/ \E t \in Turn, s \in Session : Begin(t, s)
  \/ \E t \in Turn : Relay(t) \/ TurnStep(t)

\* A lock that is freed reaches whoever waits for it (tokio's mutex is a queue),
\* writes return, and neither provider nor tool holds a turn beyond its deadline.
AgentFairness ==
  /\ \A s \in Session : WF_agentVars(Write(s))
  /\ \A t \in Turn : SF_agentVars(TurnStep(t))

AgentSpec == AgentInit /\ [][AgentNext]_agentVars /\ AgentFairness

-----------------------------------------------------------------------------
(* Properties. *)

AgentTypeOK ==
  /\ up \in [Session -> BOOLEAN]
  /\ \A s \in Session :
       /\ mem[s] # Nothing => mem[s].history \in Seq(Message) /\ mem[s].active \in Turn \cup {NoTurn}
       /\ disk[s] # Nothing => disk[s] \in Seq(Message)
       /\ io[s] # Nothing => up[s] /\ DOMAIN io[s].seen = Session
       /\ kept[s] \subseteq Call
  /\ \A t \in Turn :
       /\ turn[t].at \in {"idle", "top", "summary", "model", "tool", "exec", "ending", "over", "dead"}
       /\ turn[t].history \in Seq(Message)
       /\ turn[t].ext \in {"no", "asked", "gone"}
       /\ turn[t].doing \subseteq turn[t].todo /\ turn[t].todo \subseteq turn[t].made
       /\ turn[t].made \subseteq Call
       /\ turn[t].round \in 0..MaxRounds /\ turn[t].used \in 0..MaxCalls
  /\ torn \subseteq Session
  /\ faults \in 0..MaxFaults

\* What is saved, and what every request carries, pairs calls and results, so
\* that the next prompt can continue; a request also fits the window and still
\* shows the task it is about.
RequestsAreWhole ==
  /\ \A s \in Session : /\ disk[s] # Nothing => Balanced(disk[s])
                        /\ mem[s] # Nothing => Balanced(mem[s].history)
  /\ \A t \in Turn : turn[t].at = "model" =>
       /\ Balanced(turn[t].history)
       /\ Len(turn[t].history) <= Window
       /\ \E i \in 1..Len(turn[t].history) : turn[t].history[i].task = t


\* Every prompt is answered, unless its process dies: also a prompt whose
\* session the client closes, loads again or deletes under it, with another prompt
\* at work there or not; and the session is free for the next prompt.
PromptsAnswered ==
  \A t \in Turn : UnderWay(t) ~>
    ~UnderWay(t) /\ \A s \in Session : mem[s] # Nothing => mem[s].active # t
=============================================================================
