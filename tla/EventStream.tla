----------------------------- MODULE EventStream -----------------------------
(***************************************************************************)
(* How the desktop keeps up with its daemon: the stream of snapshots of a  *)
(* chat's session that the daemon sends, the queries that read the same,   *)
(* and the screen that shows the newest of them, over the connection of    *)
(* DesktopConnection.                                                      *)
(*                                                                         *)
(* One window, one chat.  A snapshot is known by its daemon, the instance  *)
(* of the daemon and its revision.                                         *)
(***************************************************************************)
EXTENDS DesktopConnection, Sequences

CONSTANT Cap   \* events that wait for a subscriber

ASSUME CapHolds == Cap \in Nat \ {0}

VARIABLES
  daemon,    \* daemon[d]: the instance that runs on target d, its revision
  sub,       \* the subscription: how far it is, its daemon and endpoint, events on the way
  ui,        \* the window's stream: to be retried, being opened, on
  load,      \* the query whose answer the window waits for
  shown      \* the snapshot on the screen, or Nil

vars == <<connVars, daemon, sub, ui, load, shown>>
idleConn == <<saved, save, holder, tunnel, port, sup, unseen, state, notice>>

Now(d) == [of |-> d, inst |-> daemon[d].inst, rev |-> daemon[d].rev]
NoSub == [at |-> "none", of |-> Nil, end |-> Nil, q |-> <<>>]
NoLoad == [at |-> "none", got |-> Nil]

Init ==
  /\ ConnInit
  /\ daemon = [d \in Target |-> [inst |-> 0, rev |-> 0]]
  /\ sub = NoSub /\ ui = "opening" /\ load = NoLoad /\ shown = Nil

\* A subscription that is over: of what was on the way to the window some still
\* arrives.
Ends == \E n \in 0..Len(sub.q) :
          sub' = [sub EXCEPT !.at = "ended", !.q = SubSeq(sub.q, 1, n)]

-----------------------------------------------------------------------------
(* The daemon. *)

Subscribed(d) == sub.of = d /\ sub.at \in {"acked", "streaming"}

\* Mutant of Change: events a slow subscriber has missed are skipped.
ChangeSkips(d) ==
  /\ Upset
  /\ daemon' = [daemon EXCEPT ![d] = [inst |-> @.inst, rev |-> @.rev + 1]]
  /\ IF ~Subscribed(d) \/ Len(sub.q) >= Cap THEN UNCHANGED sub
     ELSE sub' = [sub EXCEPT !.q = Append(@, Now(d)')]
  /\ UNCHANGED <<idleConn, ui, load, shown>>

\* publish: the revision advances and the event is sent under one lock; a
\* subscriber that lags behind is cut off.
Change(d) ==
  /\ Upset
  /\ daemon' = [daemon EXCEPT ![d] = [inst |-> @.inst, rev |-> @.rev + 1]]
  /\ IF ~Subscribed(d) THEN UNCHANGED sub
     ELSE IF Len(sub.q) < Cap THEN sub' = [sub EXCEPT !.q = Append(@, Now(d)')]
     ELSE Ends
  /\ UNCHANGED <<idleConn, ui, load, shown>>

Restart(d) ==
  /\ Upset
  /\ daemon' = [daemon EXCEPT ![d] = [inst |-> @.inst + 1, rev |-> 0]]
  /\ IF Subscribed(d) THEN Ends ELSE UNCHANGED sub
  /\ UNCHANGED <<idleConn, ui, load, shown>>

\* The receiver is registered before the acknowledgement is written, and the
\* snapshots the daemon retains go out before what has reached the receiver.
Subscribe ==
  /\ ui = "opening" /\ sub.at = "none"
  /\ Reach(saved)
  /\ sub' = [at |-> "acked", of |-> saved, end |-> IF saved = Local THEN Nil ELSE state.end,
             q |-> <<>>]
  /\ UNCHANGED <<connVars, daemon, ui, load, shown>>

Replay ==
  /\ sub.at = "acked"
  /\ \E retained \in BOOLEAN :
       /\ daemon[sub.of].rev > 0 => retained
       /\ sub' = [sub EXCEPT !.at = "streaming", !.q = IF retained THEN <<Now(sub.of)>> \o @ ELSE @]
  /\ UNCHANGED <<connVars, daemon, ui, load, shown>>

\* The tunnel that carries the stream is gone.
Break ==
  /\ sub.at \in {"acked", "streaming"} /\ sub.of \in Remote
  /\ ~(Open(sub.of) /\ EndOf(tunnel) = sub.end)
  /\ Ends
  /\ UNCHANGED <<connVars, daemon, ui, load, shown>>

-----------------------------------------------------------------------------
(* The window's stream: subscribe_events and ensureDaemonEventStream. *)

\* A new generation: answers that are on their way are not for it.
Turn(phase) == ui' = phase /\ load' = NoLoad

\* The receivers of changes are made before the subscription.
Retry ==
  /\ ui = "retry"
  /\ Turn("opening") /\ notice' = FALSE
  /\ UNCHANGED <<saved, save, holder, tunnel, port, upsets, sup, unseen, state>>
  /\ UNCHANGED <<daemon, sub, shown>>

SubscribeFails ==
  /\ ui = "opening" /\ sub.at = "none"
  /\ IF Reach(saved) THEN Upset ELSE UNCHANGED upsets
  /\ Turn("retry")
  /\ UNCHANGED <<saved, save, holder, tunnel, port, sup, unseen, state, notice>>
  /\ UNCHANGED <<daemon, sub, shown>>

\* Mutant of Streams: changes are watched for only once the stream is there.
StreamsUnwatched ==
  /\ ui = "opening" /\ sub.at # "none"
  /\ ui' = "on" /\ load' = [NoLoad EXCEPT !.at = "sent"] /\ notice' = FALSE
  /\ UNCHANGED <<saved, save, holder, tunnel, port, upsets, sup, unseen, state>>
  /\ UNCHANGED <<daemon, sub, shown>>

\* The stream is on: the screen loads the chat.
Streams ==
  /\ ui = "opening" /\ sub.at # "none" /\ ~notice
  /\ ui' = "on" /\ load' = [NoLoad EXCEPT !.at = "sent"]
  /\ UNCHANGED <<connVars, daemon, sub, shown>>

\* The settings or the endpoint have changed, or the stream has ended.
Rejected ==
  /\ \/ notice /\ (ui = "on" \/ (ui = "opening" /\ sub.at # "none"))
     \/ sub.at = "ended" /\ (ui = "opening" \/ (ui = "on" /\ sub.q = <<>>))
  /\ Turn("retry") /\ sub' = NoSub
  /\ UNCHANGED <<connVars, daemon, shown>>

\* Mutant of Newer: what comes last is shown.
Latest(s) == s

\* rememberSessionSnapshot
Newer(s) == IF /\ shown # Nil /\ shown.of = s.of /\ shown.inst = s.inst
               /\ shown.rev > s.rev
            THEN shown ELSE s

Hear ==
  /\ ui = "on" /\ sub.q # <<>>
  /\ shown' = Newer(Head(sub.q))
  /\ sub' = [sub EXCEPT !.q = Tail(@)]
  /\ UNCHANGED <<connVars, daemon, ui, load>>

-----------------------------------------------------------------------------
(* Queries: loadLiveChat.  A newer query takes the place of the one before. *)

Ask ==
  /\ Upset
  /\ load' = [NoLoad EXCEPT !.at = "sent"]
  /\ UNCHANGED <<idleConn, daemon, sub, ui, shown>>

Answer ==
  /\ load.at = "sent" /\ Reach(saved)
  /\ load' = [at |-> "answered", got |-> Now(saved)]
  /\ UNCHANGED <<connVars, daemon, sub, ui, shown>>

\* A query that fails while the stream is on is begun again.
AskFails ==
  /\ load.at = "sent" /\ ui # "on"
  /\ load' = NoLoad
  /\ UNCHANGED <<connVars, daemon, sub, ui, shown>>

Apply ==
  /\ load.at = "answered"
  /\ shown' = Newer(load.got) /\ load' = NoLoad
  /\ UNCHANGED <<connVars, daemon, sub, ui>>

\* Once settings are saved the window starts anew.
Reload ==
  /\ save.at = "reload"
  /\ save' = [at |-> "idle", to |-> Nil]
  /\ Turn("opening") /\ notice' = FALSE
  /\ sub' = NoSub /\ shown' = Nil
  /\ UNCHANGED <<saved, holder, tunnel, port, upsets, sup, unseen, state>>
  /\ UNCHANGED <<daemon>>

-----------------------------------------------------------------------------

Window == Retry \/ Subscribe \/ SubscribeFails \/ Streams \/ Rejected \/ Hear
Query == Answer \/ AskFails \/ Apply
Sends == Replay \/ Break

Next ==
  \/ \E d \in Target : Change(d) \/ Restart(d)
  \/ Sends \/ Window \/ Query \/ Ask \/ Reload
  \/ ConnNext /\ UNCHANGED <<daemon, sub, ui, load, shown>>

\* Threads and timers run, requests end; what fails for good fails finitely often.
Spec == /\ Init /\ [][Next]_vars
        /\ WF_vars(Sends) /\ WF_vars(Window) /\ WF_vars(Query) /\ WF_vars(Reload)
        /\ WF_vars(Supervise /\ UNCHANGED <<daemon, sub, ui, load, shown>>)
        /\ WF_vars(Saving /\ UNCHANGED <<daemon, sub, ui, load, shown>>)

-----------------------------------------------------------------------------
(* Properties. *)

Snapshot == [of : Target, inst : Nat, rev : Nat]

StreamTypeOK ==
  /\ daemon \in [Target -> [inst : Nat, rev : Nat]]
  /\ sub \in [at : {"none", "acked", "streaming", "ended"}, of : Target \cup {Nil},
              end : Endpoint \cup {Nil}, q : Seq(Snapshot)]
  /\ sub.at # "none" => sub.of \in Target
  /\ Len(sub.q) <= Cap + 1 /\ (sub.at = "acked" => Len(sub.q) <= Cap)
  /\ ui \in {"retry", "opening", "on"}
  /\ ui = "on" => sub.at # "none"
  /\ ui = "retry" => sub.at = "none"
  /\ load \in [at : {"none", "sent", "answered"}, got : Snapshot \cup {Nil}]
  /\ load.at = "answered" => load.got \in Snapshot
  /\ shown \in Snapshot \cup {Nil}

TypeOK == ConnTypeOK /\ StreamTypeOK

\* A stream that the window has on and does not give up comes from the daemon of
\* the saved settings, and never through another endpoint than the published one.
StreamIsSelected ==
  ui = "on" /\ ~notice => /\ sub.of = saved
                          /\ saved \in Remote => sub.end = state.end \/ state.end = Nil

\* What is shown of one instance of a daemon never goes back to an earlier
\* revision, whichever of events, replayed snapshots and answers come first.
NeverBackwards ==
  [][ shown # Nil /\ shown' # Nil /\ shown.of = shown'.of /\ shown.inst = shown'.inst
      => shown.rev <= shown'.rev ]_vars

\* When changes cease, the screen shows the session as it is at the daemon of the
\* settings, whatever restarted, broke or lagged before.
CatchesUp == <>[](shown = Now(saved))
=============================================================================
