---------------------------- MODULE RemoteShell ----------------------------
(***************************************************************************)
(* A remote terminal: `amarcoded ssh` (crates/daemon/src/shell.rs), the      *)
(* WebSocket, the server's half of the session (crates/daemon/src/rpc/       *)
(* terminal.rs) with its PTY, and the X11 streams between them (X11Mux).     *)
(*                                                                         *)
(* Each half is a loop of select!: a branch is an action.  A branch that     *)
(* sends waits for the WebSocket to take the frame, and the loop with it:    *)
(* `blocked` holds the frame.  What is typed and shown is counted in chunks. *)
(***************************************************************************)
EXTENDS X11Mux

CONSTANTS
  Sessions,   \* the sessions considered (bounds): see `use`
  Pty,        \* chunks the kernel holds for each direction of the PTY
  Queue,      \* the channels between the loop and its threads, 16 in the code
  Credits,    \* TERMINAL_WINDOW, 8 in the code
  Socket,     \* frames the connection holds for each direction
  Nil

VARIABLES
  use,      \* bounds of this session: the x11 option ("off", "on", "auto"), the
            \* chunks typed and made, channels opened, blocks of each program,
            \* and whether the connection may be lost
  x11,      \* the session forwards X11
  client,   \* the client's loop
  server,   \* the server's loop
  link,     \* link[e]: frames from e to the other end
  blocked,  \* blocked[e]: the frame the loop of e waits to send, or Nil
  lost,     \* the connection has gone silent
  pty,      \* the PTY, its two threads and their channels
  shell,    \* the login shell, and whether a descendant keeps the PTY open
  fault     \* why an end called the other's frame an error (history)

vars == <<use, muxVars, x11, client, server, link, blocked, lost, pty, shell, fault>>

\* LocalDisplay::from_environment: DISPLAY names a local X server, and xauth
\* knows its cookie; or not.
FromEnvironment == {"found", "missing"}

\* The three ways to ask for forwarding; "on" insists.
Forwarding(flag) ==
  CASE flag = "off" -> {"none"}
    [] flag = "on" -> FromEnvironment
    [] flag = "auto" -> {IF d = "found" THEN d ELSE "none" : d \in FromEnvironment}

Init ==
  /\ MuxInit
  /\ use \in Sessions
  /\ \E d \in Forwarding(use.flag) :
       /\ x11 = (d = "found")
       /\ client = [at |-> IF d = "missing" THEN "done" ELSE "new", credits |-> Credits,
                    typed |-> 0, shown |-> 0, code |-> FALSE]
  /\ server = "new"
  /\ link = [e \in End |-> <<>>]
  /\ blocked = [e \in End |-> Nil]
  /\ lost = FALSE
  /\ pty = [input |-> 0, acks |-> 0, in |-> 0, out |-> 0, output |-> 0]
  /\ shell = [at |-> "none", left |-> FALSE, made |-> 0, final |-> 0, seen |-> FALSE]
  /\ fault = "none"

-----------------------------------------------------------------------------
(* The WebSocket. *)

F(kind) == Frame(kind, 0)
Ended(e) == IF e = "client" THEN client.at = "done" ELSE server = "done"
Free(e) == ~Ended(e) /\ blocked[e] = Nil

\* What an end that is gone is sent is dropped.
Put(e, f) ==
  IF Ended(Other(e)) THEN UNCHANGED <<link, blocked>>
  ELSE IF Len(link[e]) < Socket
       THEN link' = [link EXCEPT ![e] = Append(@, f)] /\ UNCHANGED blocked
       ELSE blocked' = [blocked EXCEPT ![e] = f] /\ UNCHANGED link

Flush(e) ==
  /\ ~Ended(e) /\ blocked[e] # Nil /\ ~lost /\ Len(link[e]) < Socket
  /\ link' = [link EXCEPT ![e] = Append(@, blocked[e])]
  /\ blocked' = [blocked EXCEPT ![e] = Nil]
  /\ UNCHANGED <<muxVars, x11, client, server, lost, pty, shell, fault>>

\* The next frame for end e.
Next1(e) == Head(link[Other(e)])
Arrives(e) == /\ Free(e) /\ ~lost /\ link[Other(e)] # <<>>
              /\ link' = [link EXCEPT ![Other(e)] = Tail(@)]
              /\ UNCHANGED <<blocked, x11, lost>>

Lose == /\ use.lossy /\ ~lost /\ ~(Ended("client") /\ Ended("server"))
        /\ lost' = TRUE
        /\ UNCHANGED <<muxVars, x11, client, server, link, blocked, pty, shell, fault>>

\* The session of an end is over: its Mux is dropped, and on the server the
\* ChildGuard, which stops the threads and kills the shell.
Leave(e) ==
  /\ peers' = [peers EXCEPT ![e] = Dropped(e)]
  /\ blocked' = [blocked EXCEPT ![e] = Nil]
  /\ IF e = "client"
     THEN client' = [client EXCEPT !.at = "done"] /\ UNCHANGED <<server, shell>>
     ELSE /\ server' = "done"
          /\ shell' = [shell EXCEPT !.at = IF @ = "up" THEN "killed" ELSE @]
          /\ UNCHANGED client

\* The connection ends before a frame does.
Rest(e) == UNCHANGED <<events, last, stream, x11, link, lost, pty, fault>>

\* Nothing takes the frame that e waits to send: 15 seconds.
Stalled(e) ==
  \/ lost \/ Ended(Other(e)) \/ blocked[Other(e)] # Nil
  \/ (e = "client" /\ pty.input = Queue)

WriteTimesOut(e) ==
  /\ ~Ended(e) /\ blocked[e] # Nil /\ Stalled(e)
  /\ Leave(e) /\ Rest(e)

-----------------------------------------------------------------------------
(* Opening. *)

\* The client asks for a terminal, with a cookie if it forwards X11.
Connect ==
  /\ client.at = "new"
  /\ Put("client", F("terminal"))
  /\ client' = [client EXCEPT !.at = IF x11 THEN "ask" ELSE "run"]
  /\ UNCHANGED <<muxVars, x11, server, lost, pty, shell, fault>>

\* The server finds a display number, and says so, if X11 is asked for.
Admit ==
  /\ server = "new" /\ Free("server") /\ ~lost /\ link["client"] # <<>>
  /\ link' = [link EXCEPT !["client"] = Tail(@),
                          !["server"] = IF x11 THEN Append(@, F("ready")) ELSE @]
  /\ server' = "start"
  /\ UNCHANGED <<muxVars, blocked, x11, lost, client, pty, shell, fault>>

\* It opens the PTY and starts the login shell.
Start ==
  /\ server = "start"
  /\ server' = "run" /\ shell' = [shell EXCEPT !.at = "up"]
  /\ UNCHANGED <<muxVars, client, link, blocked, x11, lost, pty, fault>>

\* There is no display number, or no PTY or shell can be had: the client is told.
Refuse ==
  /\ \/ server = "start" /\ Put("server", F("error"))
     \/ /\ server = "new" /\ Free("server") /\ ~lost /\ link["client"] # <<>>
        /\ link' = [link EXCEPT !["client"] = Tail(@), !["server"] = Append(@, F("error"))]
        /\ UNCHANGED blocked
  /\ server' = "exit"
  /\ UNCHANGED <<muxVars, x11, lost, client, pty, shell, fault>>

\* 10 seconds for the first frame, 10 seconds for the answer to it.
OpenTimesOut ==
  /\ server = "new" /\ (lost \/ (Ended("client") /\ link["client"] = <<>>))
  /\ Leave("server") /\ Rest("server")

AskTimesOut ==
  /\ client.at = "ask" /\ (lost \/ (Ended("server") /\ link["server"] = <<>>))
  /\ Leave("client") /\ Rest("client")

Answered ==
  /\ client.at = "ask" /\ Arrives("client")
  /\ client' = [client EXCEPT !.at = IF Next1("client").kind = "ready" THEN "run" ELSE "done"]
  /\ UNCHANGED <<muxVars, server, pty, shell, fault>>

-----------------------------------------------------------------------------
(* The client's loop. *)

Running(e) == Free(e) /\ IF e = "client" THEN client.at = "run" ELSE server = "run"

\* What the user types is sent for a credit where X11 shares the connection.
Type ==
  /\ Running("client") /\ client.typed < use.typed
  /\ x11 => client.credits > 0
  /\ client' = [client EXCEPT !.typed = @ + 1, !.credits = IF x11 THEN @ - 1 ELSE @]
  /\ Put("client", F("key"))
  /\ UNCHANGED <<muxVars, x11, server, lost, pty, shell, fault>>

\* The next event of the tasks, at either end.
Forward(e) ==
  /\ Running(e) /\ x11
  /\ NextEvent(e) /\ Put(e, Head(events[e]))
  /\ UNCHANGED <<last, stream, x11, client, server, lost, pty, shell, fault>>

\* Ctrl-C, a signal or the end of the input.
Quit ==
  /\ Running("client")
  /\ Leave("client") /\ Rest("client")

HearText ==
  /\ Running("client") /\ Arrives("client") /\ Next1("client").kind = "text"
  /\ client' = [client EXCEPT !.shown = @ + 1]
  /\ UNCHANGED <<muxVars, server, pty, shell, fault>>

HearAck ==
  /\ Running("client") /\ Arrives("client") /\ Next1("client").kind = "typed"
  /\ x11 /\ client.credits < Credits
  /\ client' = [client EXCEPT !.credits = @ + 1]
  /\ UNCHANGED <<muxVars, server, pty, shell, fault>>

HearOpen ==
  LET f == Next1("client")
  IN  /\ Running("client") /\ Arrives("client") /\ f.kind = "open"
      /\ x11 /\ MayOpen("client", f.id)
      /\ OpenPeer("client", f.id)
      /\ UNCHANGED <<events, client, server, pty, shell, fault>>

\* A frame of an open channel, at either end.
HearX11(e) ==
  LET f == Next1(e)
  IN  /\ Running(e) /\ (e = "server" => pty.input < Queue)
      /\ Arrives(e) /\ f.kind \in {"data", "ack", "close"}
      /\ x11 /\ Admits(e, f)
      /\ Receive(e, f)
      /\ UNCHANGED <<events, last, stream, client, server, pty, shell, fault>>

HearExit ==
  /\ Running("client") /\ ~lost /\ link["server"] # <<>>
  /\ Next1("client").kind \in {"exit", "error"}
  /\ peers' = [peers EXCEPT !["client"] = Dropped("client")]
  /\ client' = [client EXCEPT !.at = "done", !.code = Next1("client").kind = "exit"]
  /\ UNCHANGED <<events, last, stream, x11, server, link, blocked, lost, pty, shell, fault>>

\* The server has closed the connection.
HearEnd ==
  /\ Running("client") /\ Ended("server") /\ link["server"] = <<>> /\ ~lost
  /\ Leave("client") /\ Rest("client")

\* A frame that the end does not expect ends its session.
Unexpected(e) ==
  LET f == Next1(e)
  IN  CASE f.kind \in {"data", "ack", "close"} -> ~x11 \/ ~Admits(e, f)
        [] f.kind = "open" -> e = "server" \/ ~x11 \/ ~MayOpen(e, f.id)
        [] f.kind = "typed" -> ~x11 \/ client.credits >= Credits
        [] f.kind = "key" -> pty.input = Queue
        [] OTHER -> FALSE

Breaks(e) ==
  /\ Running(e) /\ (e = "server" => pty.input < Queue)
  /\ ~lost /\ link[Other(e)] # <<>> /\ Unexpected(e)
  /\ fault' = IF Next1(e).kind \in X11 /\ TooLate(e, Next1(e)) THEN "late data" ELSE "window"
  /\ Leave(e)
  /\ UNCHANGED <<events, last, stream, x11, link, lost, pty>>

-----------------------------------------------------------------------------
(* The server's loop. *)

\* What the writer thread has written is acknowledged, for credits.
AckTyped ==
  /\ Running("server") /\ x11 /\ pty.acks > 0
  /\ pty' = [pty EXCEPT !.acks = @ - 1]
  /\ Put("server", F("typed"))
  /\ UNCHANGED <<muxVars, x11, client, server, lost, shell, fault>>

\* An X program connects to the display of the session.
AcceptProgram ==
  LET i == last["server"] + 1
  IN  /\ Running("server") /\ x11 /\ i <= use.ids /\ CanOpen("server")
      /\ OpenPeer("server", i)
      /\ Put("server", Frame("open", i))
      /\ UNCHANGED <<events, x11, client, server, lost, pty, shell, fault>>

SendOutput ==
  /\ Running("server") /\ pty.output > 0
  /\ pty' = [pty EXCEPT !.output = @ - 1]
  /\ Put("server", F("text"))
  /\ UNCHANGED <<muxVars, x11, client, server, lost, shell, fault>>

SeeExit ==
  /\ Running("server") /\ shell.at = "exited" /\ ~shell.seen
  /\ shell' = [shell EXCEPT !.seen = TRUE]
  /\ UNCHANGED <<muxVars, x11, client, server, link, blocked, lost, pty, fault>>

\* The reader thread has seen the end of the PTY.
ReaderGone == shell.at = "exited" /\ ~shell.left /\ pty.out = 0

\* The output channel is closed and empty; or the shell has exited and a second
\* has brought no output, though something may keep the PTY open.
Exit ==
  /\ Running("server") /\ pty.output = 0
  /\ ReaderGone \/ (shell.seen /\ pty.out = 0)
  /\ Put("server", F("exit"))
  /\ server' = "exit"
  /\ UNCHANGED <<muxVars, x11, client, lost, pty, shell, fault>>

Exited ==
  /\ server = "exit" /\ blocked["server"] = Nil
  /\ Leave("server") /\ Rest("server")

\* Input is taken while there is room for it, or no frame is read at all.
TakeKey ==
  /\ Running("server") /\ pty.input < Queue
  /\ Arrives("server") /\ Next1("server").kind = "key"
  /\ pty' = [pty EXCEPT !.input = @ + 1]
  /\ UNCHANGED <<muxVars, client, server, shell, fault>>

SeeEnd ==
  /\ Running("server") /\ pty.input < Queue
  /\ Ended("client") /\ link["client"] = <<>>
  /\ Leave("server") /\ Rest("server")

\* Mutant of Heartbeat: a client whose frames are not read is not missed.
HeartbeatReading ==
  /\ Running("server") /\ lost /\ pty.input < Queue
  /\ Leave("server") /\ Rest("server")

\* 45 seconds without a frame, which may also be because none was read.
Heartbeat ==
  /\ Running("server") /\ (lost \/ pty.input = Queue)
  /\ Leave("server") /\ Rest("server")

-----------------------------------------------------------------------------
(* The PTY: its two threads, the shell, and what the shell leaves behind.     *)

Threads == server \in {"run", "exit"}
Host(p) == /\ pty' = p
           /\ UNCHANGED <<muxVars, x11, client, server, link, blocked, lost, shell, fault>>

WriteInput == /\ Threads /\ pty.input > 0 /\ pty.in < Pty
              /\ Host([pty EXCEPT !.input = @ - 1, !.in = @ + 1,
                                  !.acks = IF x11 THEN @ + 1 ELSE @])

ReadOutput == /\ Threads /\ pty.out > 0 /\ pty.output < Queue
              /\ Host([pty EXCEPT !.out = @ - 1, !.output = @ + 1])

\* A program reads what was typed, or reads and echoes it.
ShellReads ==
  /\ shell.at = "up" /\ pty.in > 0
  /\ Host([pty EXCEPT !.in = @ - 1])

ShellWrites ==
  /\ Threads /\ (shell.at = "up" \/ shell.left)
  /\ shell.made < use.made /\ pty.out < Pty
  /\ \E echo \in IF shell.at = "up" /\ pty.in > 0 THEN {0, 1} ELSE {0} :
       pty' = [pty EXCEPT !.out = @ + 1, !.in = @ - echo]
  /\ shell' = [shell EXCEPT !.made = @ + 1]
  /\ UNCHANGED <<muxVars, x11, client, server, link, blocked, lost, fault>>

ShellExits ==
  /\ shell.at = "up"
  /\ \E left \in BOOLEAN :
       shell' = [shell EXCEPT !.at = "exited", !.left = left, !.final = shell.made]
  /\ UNCHANGED <<muxVars, x11, client, server, link, blocked, lost, pty, fault>>

-----------------------------------------------------------------------------
Loop(e) ==
  \/ Flush(e) \/ WriteTimesOut(e) \/ Forward(e) \/ HearX11(e) \/ Breaks(e)
  \/ /\ e = "client"
     /\ \/ Connect \/ Answered \/ AskTimesOut
        \/ HearText \/ HearAck \/ HearOpen \/ HearExit \/ HearEnd
  \/ /\ e = "server"
     /\ \/ Admit \/ Start \/ OpenTimesOut
        \/ AckTyped \/ SendOutput \/ SeeExit \/ Exit \/ Exited
        \/ TakeKey \/ SeeEnd \/ Heartbeat

Rig == UNCHANGED <<x11, client, server, link, blocked, lost, pty, shell, fault>>

\* What goes on by itself: both loops, the tasks and the threads.
System ==
  \/ \E e \in End : Loop(e)
  \/ \E e \in End, i \in Channel : Task(e, i) /\ Rig
  \/ WriteInput \/ ReadOutput

\* What the user, the shell, the X programs and the network may do.
Outside ==
  \/ \E e \in End, i \in Channel : Program(e, i, use.blocks[e]) /\ Rig
  \/ ShellReads \/ ShellWrites \/ ShellExits
  \/ Refuse \/ AcceptProgram \/ Type \/ Quit \/ Lose

Next == (System \/ Outside) /\ UNCHANGED use

Spec == Init /\ [][Next]_vars

-----------------------------------------------------------------------------
(* Properties. *)

TypeOK ==
  /\ client.at \in {"new", "ask", "run", "done"} /\ client.credits \in 0..Credits
  /\ server \in {"new", "start", "run", "exit", "done"}
  /\ \A e \in End : Len(link[e]) <= Socket /\ Len(events[e]) <= MaxEvents
  /\ pty.input \in 0..Queue /\ pty.in \in 0..Pty /\ pty.out \in 0..Pty
  /\ \A e \in End, i \in Channel : peers[e][i].credits \in 0..Window

\* Neither end ever takes a frame of the other for an error: the windows of the
\* terminal and of every channel, the numbers of the channels and how many are
\* open agree, whatever is on its way. The exception is data for a channel whose
\* task has just ended (TooLate).
EndsAgree == fault # "window"

\* "Do not let a close overtake bytes still queued at the peer" (x11.rs:391): a
\* channel that is closed because its program has ended has delivered everything
\* the program wrote, unless the other end had not finished setting it up.
CloseComesLast ==
  \A e \in End, i \in Channel :
    peers[e][i].how = "eof" /\ peers[Other(e)][i].how = "closed" /\ stream[Other(e)][i].ready
      => stream[Other(e)][i].got = stream[e][i].made

\* The exit code comes after all that the shell has written.
CodeComesLast == client.code => client.shown >= shell.final

\* Both together: no end overtakes what was written before it, of a program that
\* draws or of the shell (x11.rs:391, terminal.rs:222-240).
EndsComeLast == CloseComesLast /\ CodeComesLast

\* Nobody waits for nobody: where neither loop, no task and no thread can go on,
\* a session whose shell, client or connection has ended is over at the server,
\* and at the client too if the connection works; and what has been typed or
\* shown lies only with those who need not read it.
NobodyIsStuck ==
  ~ENABLED System =>
    /\ shell.at = "exited" \/ Ended("client") \/ lost => Ended("server")
    /\ Ended("server") => Ended("client") \/ lost
    /\ server = "run" => pty.output = 0 /\ (pty.input > 0 => pty.in = Pty)
=============================================================================
