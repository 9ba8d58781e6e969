------------------------------- MODULE X11Mux -------------------------------
(***************************************************************************)
(* The X11 streams multiplexed over a remote terminal (crates/daemon/src/   *)
(* x11.rs).  Each end of the terminal has a Mux: a table of peers, one task  *)
(* for each that carries blocks between a local socket and the queue of     *)
(* events, and that queue, which the loop of the end empties into the        *)
(* WebSocket.  On the server the local sockets are those of X programs, on   *)
(* the client that of the X server of the user.                             *)
(*                                                                         *)
(* A block is counted, not carried: a stream keeps how many blocks its      *)
(* program has made, how many of them were sent and how many it has got.    *)
(***************************************************************************)
EXTENDS Naturals, SequencesExt

CONSTANTS
  MaxId,      \* channels a session opens (bound)
  MaxPeers,   \* MAX_CONNECTIONS, 32 in the code
  Window,     \* WINDOW, 8 in the code
  MaxEvents   \* room in the queue of events, 64 in the code

VARIABLES
  peers,    \* peers[e][i]: the entry of channel i in the table of end e, and its task
  events,   \* events[e]: frames the tasks of e have for the other end
  last,     \* last[e]: last_id
  stream    \* stream[e][i]: the local socket of the channel

muxVars == <<peers, events, last, stream>>

End == {"client", "server"}
Other(e) == IF e = "client" THEN "server" ELSE "client"
Channel == 1..MaxId

Frame(kind, i) == [kind |-> kind, id |-> i]
X11 == {"open", "data", "ack", "close"}

NoPeer == [listed |-> FALSE, task |-> "none", credits |-> 0, out |-> 0, input |-> 0,
           how |-> "none"]
NewPeer(task) == [NoPeer EXCEPT !.listed = TRUE, !.task = task, !.credits = Window]
NoStream == [ready |-> FALSE, made |-> 0, sent |-> 0, held |-> 0, got |-> 0, ended |-> FALSE]

MuxInit == /\ peers = [e \in End |-> [i \in Channel |-> NoPeer]]
           /\ events = [e \in End |-> <<>>]
           /\ last = [e \in End |-> 0]
           /\ stream = [e \in End |-> [i \in Channel |-> NoStream]]

-----------------------------------------------------------------------------
(* The table. *)

Listed(e) == {i \in Channel : peers[e][i].listed}
CanOpen(e) == Cardinality(Listed(e)) < MaxPeers

\* Mux::open. The server has the socket of a program; the client connects to its
\* X server once it has seen the credentials that come first.
MayOpen(e, i) == i > last[e] /\ CanOpen(e)
OpenPeer(e, i) ==
  /\ last' = [last EXCEPT ![e] = i]
  /\ peers' = [peers EXCEPT ![e][i] = NewPeer(IF e = "server" THEN "bridge" ELSE "setup")]
  /\ stream' = IF e = "server" THEN [stream EXCEPT ![e][i].ready = TRUE] ELSE stream

\* A task ends by itself in "eof" or "failed"; "closed" by a frame of the other
\* end, "dropped" with the session.
Aborted(p, how) == [p EXCEPT !.listed = FALSE, !.input = 0,
                             !.task = IF p.listed THEN "over" ELSE @,
                             !.how = IF p.listed /\ @ = "none" THEN how ELSE @]

\* Mutant of Admits: the entry of a channel must still be there for its frames.
AdmitsListed(e, f) ==
  LET p == peers[e][f.id]
  IN  CASE f.kind = "data" -> p.listed /\ p.input < Window
        [] f.kind = "ack" -> p.listed /\ p.out > 0
        [] f.kind = "close" -> p.listed
        [] OTHER -> FALSE

\* What Mux::receive does not answer with an error. Frames of a channel that is
\* gone are no error: they crossed its close.
Admits(e, f) ==
  LET p == peers[e][f.id]
  IN  CASE f.kind = "data" -> p.listed => p.input < Window /\ p.task # "over"
        [] f.kind = "ack" -> p.listed => p.out > 0
        [] f.kind = "close" -> TRUE
        [] OTHER -> FALSE

\* The task of the channel has ended and dropped its end of the input, but the
\* close it has said has not been taken from the queue: try_send fails.
TooLate(e, f) == f.kind = "data" /\ peers[e][f.id].listed /\ peers[e][f.id].task = "over"

Receive(e, f) ==
  LET p == peers[e][f.id]
  IN  peers' = [peers EXCEPT ![e][f.id] =
        IF ~p.listed THEN p
        ELSE CASE f.kind = "data" -> [p EXCEPT !.input = @ + 1]
               [] f.kind = "ack" -> [p EXCEPT !.out = @ - 1, !.credits = @ + 1]
               [] f.kind = "close" -> Aborted(p, "closed")]

\* Mux::next: the close of a task takes its entry out of the table on the way.
NextEvent(e) ==
  LET f == Head(events[e])
  IN  /\ events[e] # <<>>
      /\ events' = [events EXCEPT ![e] = Tail(@)]
      /\ peers' = IF f.kind # "close" THEN peers
                  ELSE [peers EXCEPT ![e][f.id] = Aborted(@, "none")]

\* The Mux is dropped with its session, and all tasks with it.
Dropped(e) == [i \in Channel |-> Aborted(peers[e][i], "dropped")]

-----------------------------------------------------------------------------
(* The tasks.  One that has something to say waits for room in the queue.    *)

Live(e, i) == peers[e][i].listed /\ peers[e][i].task # "over"
Bridging(e, i) == Live(e, i) /\ peers[e][i].task \in {"bridge", "drain"}
Say(e, f) == /\ Len(events[e]) < MaxEvents
             /\ events' = [events EXCEPT ![e] = Append(@, f)]

\* The result of the task is known; it says that the channel is closed.
EndTask(e, i, how) ==
  /\ peers' = [peers EXCEPT ![e][i].task = "over", ![e][i].how = how]
  /\ Say(e, Frame("close", i))

\* The first blocks are acknowledged and kept until they hold the credentials,
\* which rewrite_setup replaces. Then the client connects to its X server.
SetUpPeer(i) ==
  LET p == peers["client"][i]  held == stream["client"][i].held + 1
  IN  /\ Live("client", i) /\ p.task = "setup" /\ p.input > 0
      /\ Say("client", Frame("ack", i))
      /\ \/ /\ peers' = [peers EXCEPT !["client"][i].input = @ - 1]
            /\ stream' = [stream EXCEPT !["client"][i].held = held]
         \/ /\ peers' = [peers EXCEPT !["client"][i].input = @ - 1, !["client"][i].task = "bridge"]
            /\ stream' = [stream EXCEPT !["client"][i].held = 0, !["client"][i].got = held,
                                        !["client"][i].ready = TRUE]
      /\ UNCHANGED last

\* Wrong credentials, no X server to connect to, or TIMEOUT.
SetUpFails(i) ==
  /\ Live("client", i) /\ peers["client"][i].task = "setup"
  /\ EndTask("client", i, "failed")
  /\ UNCHANGED <<last, stream>>

\* The reading half of bridge: a block for a credit.
Reads(e, i) ==
  /\ Live(e, i) /\ peers[e][i].task = "bridge" /\ peers[e][i].credits > 0
  /\ stream[e][i].sent < stream[e][i].made
  /\ Say(e, Frame("data", i))
  /\ peers' = [peers EXCEPT ![e][i].credits = @ - 1, ![e][i].out = @ + 1]
  /\ stream' = [stream EXCEPT ![e][i].sent = @ + 1]
  /\ UNCHANGED last

\* The end of the stream, seen once there is a credit to read with.
ReadsEnd(e, i) ==
  /\ Live(e, i) /\ peers[e][i].task = "bridge" /\ peers[e][i].credits > 0
  /\ stream[e][i].ended /\ stream[e][i].sent = stream[e][i].made
  /\ peers' = [peers EXCEPT ![e][i].task = "drain"]
  /\ UNCHANGED <<events, last, stream>>

\* Mutant of Drains: the end of the stream closes the channel at once.
DrainsAtOnce(e, i) ==
  /\ Live(e, i) /\ peers[e][i].task = "drain"
  /\ EndTask(e, i, "eof")
  /\ UNCHANGED <<last, stream>>

\* "Do not let a close overtake bytes still queued at the peer": all credits
\* have to be back.
Drains(e, i) ==
  /\ Live(e, i) /\ peers[e][i].task = "drain" /\ peers[e][i].credits = Window
  /\ EndTask(e, i, "eof")
  /\ UNCHANGED <<last, stream>>

\* The writing half of bridge.
Writes(e, i) ==
  /\ Bridging(e, i) /\ peers[e][i].input > 0
  /\ Say(e, Frame("ack", i))
  /\ peers' = [peers EXCEPT ![e][i].input = @ - 1]
  /\ stream' = [stream EXCEPT ![e][i].got = @ + 1]
  /\ UNCHANGED last

\* Once the program has closed its socket, a write or a read of it may fail, which
\* ends both halves at once.
SocketFails(e, i) ==
  /\ Bridging(e, i) /\ stream[e][i].ended
  /\ peers[e][i].input > 0 \/ (peers[e][i].task = "bridge" /\ peers[e][i].credits > 0)
  /\ EndTask(e, i, "failed")
  /\ UNCHANGED <<last, stream>>

Task(e, i) == \/ Reads(e, i) \/ ReadsEnd(e, i) \/ Drains(e, i)
              \/ Writes(e, i) \/ SocketFails(e, i)
              \/ (e = "client" /\ (SetUpPeer(i) \/ SetUpFails(i)))

\* The X programs, and the X server of the user, at the other ends of the sockets;
\* blocks bounds what each of them writes.
Program(e, i, blocks) ==
  LET s == stream[e][i]
  IN  /\ Bridging(e, i) /\ s.ready /\ ~s.ended
      /\ \/ s.made < blocks /\ stream' = [stream EXCEPT ![e][i].made = @ + 1]
         \/ stream' = [stream EXCEPT ![e][i].ended = TRUE]
      /\ UNCHANGED <<peers, events, last>>
=============================================================================
