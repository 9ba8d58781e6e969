--------------------------- MODULE AgentHostProofs ---------------------------
(***************************************************************************)
(* Proofs about the commands of an agent: whoever stops a run, and         *)
(* whatever is being started, served or waited for as the stop comes, no   *)
(* command of the run goes on; and what a call has waited for is shown.    *)
(***************************************************************************)
EXTENDS AgentHost, SequenceTheorems, TLAPS

(***************************************************************************)
(* Runs: the process of the agent is that of the latest run, and a run     *)
(* that has been stopped does not come back.                               *)
(***************************************************************************)
Runs ==
  /\ \A c \in Command : Busy(c) => up
  /\ live \notin stopped
  /\ \A r \in stopped : r <= run
  /\ \A r \in Run : inbox[r] # <<>> => r <= run
  /\ \A w \in workers : w.run <= run
  /\ \A c \in Command : Exists(c) => term[c].run <= run

(***************************************************************************)
(* Requests: which the agent has made of a call, and where they are.       *)
(***************************************************************************)
Is(m, what, c) == m.what = what /\ m.call = c
InBox(r, what, c) == \E i \in DOMAIN inbox[r] : Is(inbox[r][i], what, c)
Serves(w, op, c) == w.op = op /\ w.call = c
Pending(op, c) == (\E r \in Run : InBox(r, op, c)) \/ \E w \in workers : Serves(w, op, c)

\* A terminal is created and waited for once.
Single(op, c) ==
  /\ \A r, s \in Run : InBox(r, op, c) /\ InBox(s, op, c) => r = s
  /\ \A r \in Run : \A i, j \in DOMAIN inbox[r] :
       Is(inbox[r][i], op, c) /\ Is(inbox[r][j], op, c) => i = j
  /\ \A r \in Run : InBox(r, op, c) => \A w \in workers : ~Serves(w, op, c)
  /\ \A v, w \in workers : Serves(v, op, c) /\ Serves(w, op, c) => v = w
Singles == \A c \in Command : Single("create", c) /\ Single("wait", c)

\* What a call has not asked for yet.
Early == {"none", "start", "cleared", "asking"}
Ahead(at) ==
  IF at \in Early THEN Requests
  ELSE IF at = "creating" THEN Requests \ {"create"}
  ELSE IF at = "waiting" THEN {"kill", "output", "release"}
  ELSE {}
Ordered == \A c \in Command : \A op \in Ahead(tool[c].at) : ~Pending(op, c)

\* Nothing has been shown for a call that has no command yet.
Fresh ==
  \A c \in Command : tool[c].at \in Early =>
    ~Exists(c) /\ \A r \in Run : ~InBox(r, "bind", c)

\* What a call at work has asked for is under way in the latest run.
AtHome ==
  /\ \A r \in Run, c \in Command : \A op \in Requests \cup {"bind"} :
       InBox(r, op, c) /\ Busy(c) => r = run
  /\ \A w \in workers : Busy(w.call) => w.run = run
  /\ \A c \in Command : Exists(c) /\ Busy(c) => term[c].run = run
  /\ \A r \in Run, c \in Command : InBox(r, "update", c) => Exists(c) /\ term[c].run = r

Awaited ==
  \A c \in Command :
    /\ tool[c].at = "asking" => mail[c].op = "ask"
    /\ tool[c].at = "creating" =>
         mail[c].op = "create" /\ (mail[c].answer # Nil => ~Pending("create", c))
    /\ tool[c].at = "waiting" => mail[c].op = "wait" /\ ~Pending("create", c)

(***************************************************************************)
(* Terminals.                                                              *)
(***************************************************************************)
Places ==
  /\ \A w \in workers :
       /\ w.at = "live" => w.op = "create"
       /\ w.at = "poll" => w.op = "wait"
       /\ w.at \in {"join", "join none"} => w.op \in {"wait", "release"}
       /\ w.at \in {"poll", "join", "join none"} => Exists(w.call)
       /\ w.op \in {"release"} /\ w.at \in {"join", "join none"} => ~term[w.call].running
  /\ \A c \in Command : Exists(c) /\ ~term[c].listed /\ term[c].running => c \in doomed

(***************************************************************************)
(* Service: the client of a run knows of a terminal, and the terminal is   *)
(* bound to its call, before it is waited for; who waits first has the     *)
(* readers, and joins them; so all the command has written is shown, with  *)
(* its exit, when the wait is answered.                                    *)
(***************************************************************************)
Open(c) == live = run /\ Listed(run, c)
Finished(c) ==
  /\ Exists(c) /\ Drained(term[c]) /\ term[c].bound /\ term[c].client
  /\ term[c].shown = Snap(term[c])

Called(c) ==
  /\ (tool[c].at = "creating" /\ mail[c].answer = "yes") \/ tool[c].at = "waiting" =>
       (Open(c) => term[c].client)
  /\ Exists(c) /\ term[c].taken => tool[c].at \notin Early \cup {"creating"}
  /\ tool[c].at = "waiting" /\ mail[c].answer = "yes" => Finished(c)
  /\ tool[c].exited => Finished(c)

Boxed(c) ==
  tool[c].at = "waiting" =>
    \A r \in Run : \A i \in DOMAIN inbox[r] : Is(inbox[r][i], "wait", c) =>
      /\ (\E j \in 1..i-1 : Is(inbox[r][j], "bind", c)) \/ (Open(c) => term[c].bound)
      /\ Exists(c) => ~term[c].taken

Waiter(w) ==
  w.op = "wait" /\ tool[w.call].at = "waiting" =>
    /\ w.at = "new" /\ Open(w.call) => term[w.call].bound
    /\ w.at \in {"new", "poll"} /\ Exists(w.call) => ~term[w.call].taken
    /\ w.at \in {"poll", "join"} => term[w.call].bound /\ term[w.call].client
    /\ w.at # "join none"
    /\ w.at = "done" /\ w.ok => Finished(w.call)

Served == (\A c \in Command : Called(c) /\ Boxed(c)) /\ \A w \in workers : Waiter(w)

\* What was published last is in the inbox, or it is stored.
Stored(c) ==
  /\ ~Exists(c) => part[c] = Nil
  /\ \A r \in Run : Exists(c) /\ term[c].run = r /\ live = r =>
       /\ ~InBox(r, "update", c) => part[c] = term[c].shown
       /\ \A i \in DOMAIN inbox[r] :
            /\ Is(inbox[r][i], "update", c)
            /\ \A j \in DOMAIN inbox[r] : j > i => ~Is(inbox[r][j], "update", c)
            => inbox[r][i].snap = term[c].shown
Published == \A c \in Command : Stored(c)

IInv ==
  /\ TypeOK /\ Runs /\ Singles /\ Ordered /\ Fresh /\ AtHome /\ Awaited
  /\ Places /\ Served /\ Published
  /\ StoppedRunsNothing

-----------------------------------------------------------------------------
(* Messages, terminals and workers. *)

Update(c, s) == [Msg("update", c) EXCEPT !.snap = s]

\* What the parts of a message are.
LEMMA Messages ==
  /\ \A c \in Command, what \in Requests \cup {"ask", "bind"} :
       Msg(what, c) \in Message /\ Msg(what, c).what = what /\ Msg(what, c).call = c
  /\ Gone \in Message /\ Gone.what = "gone"
  /\ Msg("detach", Nil) \in Message /\ Msg("detach", Nil).what = "detach"
  /\ \A c \in Command, s \in Snapshot :
       /\ Update(c, s) \in Message
       /\ Update(c, s).what = "update" /\ Update(c, s).call = c /\ Update(c, s).snap = s
<1>1. \A c \in Command, s \in Snapshot : Update(c, s) = [what |-> "update", call |-> c, snap |-> s]
  BY DEF Update, Msg
<1>2. \A c \in Command, s \in Snapshot : Update(c, s) \in [what : {"update"}, call : Command, snap : Snapshot]
  BY <1>1
<1>3. \A c \in Command, what \in Requests \cup {"ask", "bind"} :
        Msg(what, c) \in [what : Requests \cup {"ask", "bind"}, call : Command, snap : {Nil}]
  BY DEF Msg
<1> QED
  BY <1>1, <1>2, <1>3 DEF Message, Gone, Msg

LEMMA MessageParts ==
  ASSUME NEW m \in Message
  PROVE  /\ m.what \in Requests \cup {"ask", "bind"} => m.call \in Command
         /\ m.what = "update" => m.call \in Command /\ m.snap \in Snapshot
         /\ m.what \in Requests \cup {"ask", "bind", "update", "gone", "detach"}
BY DEF Message, Requests, Gone, Msg

LEMMA TerminalParts ==
  ASSUME NEW x \in Terminal
  PROVE  /\ x # Nil
         /\ x.run \in Run
         /\ x.running \in BOOLEAN /\ x.left \in BOOLEAN /\ x.taken \in BOOLEAN
         /\ x.listed \in BOOLEAN /\ x.released \in BOOLEAN /\ x.bound \in BOOLEAN
         /\ x.watched \in BOOLEAN /\ x.client \in BOOLEAN
         /\ x.wrote \in 0..1 /\ x.read \in 0..1
         /\ x.shown \in Snapshot \cup {Nil}
         /\ Snap(x) \in Snapshot /\ Snap(x).out = x.read /\ Snap(x).exit = ~x.running
BY HostConstants DEF HostConstants, Terminal, Snap, Snapshot

\* The terminal y is x but for what it has published.
Alike(y, x) ==
  /\ y.run = x.run /\ y.running = x.running /\ y.left = x.left /\ y.wrote = x.wrote
  /\ y.read = x.read /\ y.taken = x.taken /\ y.listed = x.listed /\ y.released = x.released
  /\ y.bound = x.bound /\ y.watched = x.watched /\ y.client = x.client

LEMMA Shows ==
  ASSUME NEW x \in Terminal, NEW y, y = [x EXCEPT !.shown = Snap(x)]
  PROVE  y \in Terminal /\ Alike(y, x) /\ y.shown = Snap(x)
<1>1. Snap(x) \in Snapshot \cup {Nil}
  BY TerminalParts
<1> QED
  BY <1>1 DEF Terminal, Alike

LEMMA StartedParts ==
  ASSUME NEW r \in Run
  PROVE  /\ Started(r) \in Terminal
         /\ Started(r).run = r /\ Started(r).running /\ Started(r).listed
         /\ ~Started(r).taken /\ ~Started(r).bound /\ ~Started(r).client
         /\ Started(r).shown = Nil /\ Started(r).read = 0 /\ Started(r).wrote = 0
BY DEF Started, Terminal

\* What the requests of publish_snapshot amount to.
Shape == term \in [Command -> Terminal \cup {Nil}] /\ inbox \in [Run -> Seq(Message)]
LEMMA PublishSays ==
  ASSUME Shape, NEW c \in Command, NEW x \in Terminal, Publish(c, x)
  PROVE  \E y \in Terminal :
           /\ Alike(y, x)
           /\ term' = [term EXCEPT ![c] = y]
           /\ \/ y = x /\ ~News(x) /\ inbox' = inbox
              \/ /\ News(x) /\ y.shown = Snap(x)
                 /\ inbox' = [inbox EXCEPT ![x.run] = Append(@, Update(c, Snap(x)))]
<1>1. CASE News(x)
  <2> DEFINE y == [x EXCEPT !.shown = Snap(x)]
  <2>1. y \in Terminal /\ Alike(y, x) /\ y.shown = Snap(x)
    BY Shows
  <2>2. term' = [term EXCEPT ![c] = y]
    BY <1>1 DEF Publish
  <2>3. inbox' = [inbox EXCEPT ![x.run] = Append(@, Update(c, Snap(x)))]
    BY <1>1 DEF Publish, Update
  <2> HIDE DEF y
  <2> QED
    BY <1>1, <2>1, <2>2, <2>3
<1>2. CASE ~News(x)
  <2>1. term' = [term EXCEPT ![c] = x] /\ inbox' = inbox /\ Alike(x, x)
    BY <1>2 DEF Publish, Alike
  <2> QED
    BY <1>2, <2>1
<1> QED
  BY <1>1, <1>2

LEMMA WorkerParts ==
  ASSUME NEW w \in Worker
  PROVE  /\ w.run \in Run /\ w.call \in Command /\ w.op \in Requests /\ w.ok \in BOOLEAN
         /\ w.at \in {"new", "live", "poll", "join", "join none", "done"}
BY DEF Worker

\* A thread that goes on stays what it is.
Turned(w, v, at, ok) ==
  v.run = w.run /\ v.call = w.call /\ v.op = w.op /\ v.at = at /\ v.ok = ok
LEMMA BecomesSays ==
  ASSUME workers \subseteq Worker, NEW w \in workers, NEW at, NEW ok \in BOOLEAN,
         at \in {"new", "live", "poll", "join", "join none", "done"}, Becomes(w, at, ok)
  PROVE  \E v \in Worker :
           /\ Turned(w, v, at, ok)
           /\ workers' = (workers \ {w}) \cup {v}
<1> DEFINE v == [w EXCEPT !.at = at, !.ok = ok]
<1>1. w \in Worker
  OBVIOUS
<1>2. v \in Worker /\ Turned(w, v, at, ok)
  BY <1>1 DEF Worker, Turned
<1>3. workers' = (workers \ {w}) \cup {v}
  BY DEF Becomes
<1> HIDE DEF v
<1> QED
  BY <1>2, <1>3

LEMMA ThreadParts ==
  ASSUME NEW r \in Run, NEW m \in Message, m.what \in Requests
  PROVE  /\ Thread(r, m) \in Worker
         /\ Thread(r, m).run = r /\ Thread(r, m).call = m.call /\ Thread(r, m).op = m.what
         /\ Thread(r, m).at = "new" /\ ~Thread(r, m).ok
BY MessageParts DEF Thread, Worker

\* The agent sends one message, or the pair with which a command is awaited.
LEMMA SendsOne ==
  ASSUME Shape, run \in Run, NEW c \in Command, NEW what, Sends(c, <<what>>)
  PROVE  /\ inbox' = [inbox EXCEPT ![run] = Append(@, Msg(what, c))]
         /\ mail' = [mail EXCEPT ![c] = Awaits(what)]
         /\ full' = full
<1> DEFINE s == [i \in 1..Len(<<what>>) |-> Msg(<<what>>[i], c)]
<1>1. Len(<<what>>) = 1 /\ <<what>>[1] = what
  OBVIOUS
<1>2. s = <<Msg(what, c)>>
  BY <1>1 DEF Msg
<1>3. inbox' = [inbox EXCEPT ![run] = @ \o s]
  BY DEF Sends
<1>4. inbox[run] \in Seq(Message)
  BY DEF Shape
<1>5. inbox[run] \o <<Msg(what, c)>> = Append(inbox[run], Msg(what, c))
  BY <1>4 DEF Msg
<1>6. mail' = [mail EXCEPT ![c] = Awaits(what)] /\ full' = full
  BY <1>1 DEF Sends, Last
<1> HIDE DEF s
<1> QED
  BY <1>2, <1>3, <1>5, <1>6

LEMMA AppendTwo ==
  ASSUME NEW S, NEW s \in Seq(S), NEW a \in S, NEW b \in S
  PROVE  s \o <<a, b>> = Append(Append(s, a), b)
<1>1. Append(s, a) \in Seq(S) /\ Append(Append(s, a), b) \in Seq(S)
  OBVIOUS
<1>2. Len(s \o <<a, b>>) = Len(Append(Append(s, a), b))
  OBVIOUS
<1>3. \A i \in 1..Len(s \o <<a, b>>) : (s \o <<a, b>>)[i] = Append(Append(s, a), b)[i]
  OBVIOUS
<1> QED
  BY <1>1, <1>2, <1>3, SeqEqual, s \o <<a, b>> \in Seq(S)

LEMMA SendsTwo ==
  ASSUME Shape, run \in Run, NEW c \in Command, Sends(c, <<"bind", "wait">>)
  PROVE  /\ inbox' = [inbox EXCEPT ![run] = Append(Append(@, Msg("bind", c)), Msg("wait", c))]
         /\ mail' = [mail EXCEPT ![c] = Awaits("wait")]
         /\ full' = full
<1> DEFINE q == <<"bind", "wait">>
<1> DEFINE s == [i \in 1..Len(q) |-> Msg(q[i], c)]
<1>1. Len(q) = 2 /\ q[1] = "bind" /\ q[2] = "wait"
  OBVIOUS
<1>2. s = <<Msg("bind", c), Msg("wait", c)>>
  BY <1>1 DEF Msg
<1>3. inbox' = [inbox EXCEPT ![run] = @ \o s]
  BY DEF Sends
<1>4. inbox[run] \in Seq(Message)
  BY DEF Shape
<1>5. inbox[run] \o <<Msg("bind", c), Msg("wait", c)>>
        = Append(Append(inbox[run], Msg("bind", c)), Msg("wait", c))
  BY <1>4, Messages, AppendTwo
<1>6. mail' = [mail EXCEPT ![c] = Awaits("wait")] /\ full' = full
  BY <1>1 DEF Sends, Last
<1> HIDE DEF s
<1> QED
  BY <1>2, <1>3, <1>5, <1>6

LEMMA AwaitsParts ==
  ASSUME NEW op \in Requests \cup {"none", "ask"}
  PROVE  Awaits(op) \in Mail /\ Awaits(op).op = op /\ Awaits(op).answer = Nil
BY DEF Awaits, Mail

-----------------------------------------------------------------------------
(* What the steps do to terminals. *)

\* The terminal y is x without its entry in the table.
Delisted(y, x) ==
  /\ y.run = x.run /\ y.running = x.running /\ y.left = x.left /\ y.wrote = x.wrote
  /\ y.read = x.read /\ y.taken = x.taken /\ y.bound = x.bound
  /\ y.client = x.client /\ y.shown = x.shown /\ ~y.listed

\* release_run.
LEMMA ReleaseSays ==
  ASSUME term \in [Command -> Terminal \cup {Nil}], NEW r \in Run, ReleaseRun(r)
  PROVE  /\ term' \in [Command -> Terminal \cup {Nil}]
         /\ doomed' = doomed \cup {c \in Command : Listed(r, c)}
         /\ \A c \in Command :
              /\ Listed(r, c) => term'[c] \in Terminal /\ Delisted(term'[c], term[c])
              /\ ~Listed(r, c) => term'[c] = term[c]
<1>1. \A c \in Command : Listed(r, c) =>
        /\ [term[c] EXCEPT !.listed = FALSE] \in Terminal
        /\ Delisted([term[c] EXCEPT !.listed = FALSE], term[c])
  <2> TAKE c \in Command
  <2> HAVE Listed(r, c)
  <2>1. term[c] \in Terminal
    BY DEF Listed, Exists
  <2> QED
    BY <2>1 DEF Terminal, Delisted
<1>2. term' = [c \in Command |-> IF Listed(r, c) THEN [term[c] EXCEPT !.listed = FALSE] ELSE term[c]]
  BY DEF ReleaseRun
<1>3. \A c \in Command : term'[c] = IF Listed(r, c) THEN [term[c] EXCEPT !.listed = FALSE] ELSE term[c]
  BY <1>2
<1>4. \A c \in Command : term[c] \in Terminal \cup {Nil}
  OBVIOUS
<1>5. \A c \in Command : term'[c] \in Terminal \cup {Nil}
  BY <1>1, <1>3, <1>4
<1>6. term' \in [Command -> Terminal \cup {Nil}]
  BY <1>2, <1>5
<1>7. doomed' = doomed \cup {c \in Command : Listed(r, c)}
  BY DEF ReleaseRun
<1> QED
  BY <1>1, <1>3, <1>6, <1>7

\* What publish_snapshot does with a terminal that has become x.
Posted(c, x, y) ==
  /\ Alike(y, x)
  /\ term' = [term EXCEPT ![c] = y]
  /\ \/ y = x /\ ~News(x) /\ inbox' = inbox
     \/ /\ News(x) /\ y.shown = Snap(x)
        /\ inbox' = [inbox EXCEPT ![x.run] = Append(@, Update(c, Snap(x)))]

LEMMA PostedSays ==
  ASSUME Shape, NEW c \in Command, NEW x \in Terminal, Publish(c, x)
  PROVE  \E y \in Terminal : Posted(c, x, y)
BY PublishSays DEF Posted

\* The parts in which terminals take part in a run and in its end.
Same(x, z) ==
  /\ x.run = z.run /\ x.wrote = z.wrote /\ x.read = z.read /\ x.left = z.left
  /\ x.bound = z.bound /\ x.client = z.client /\ x.shown = z.shown

LEMMA ReapSays ==
  ASSUME Shape, NEW c \in Command, Exists(c), Reap(c)
  PROVE  \E x, y \in Terminal :
           /\ Same(x, term[c]) /\ ~x.running /\ x.listed = term[c].listed /\ x.taken = term[c].taken
           /\ Posted(c, x, y)
<1> DEFINE x == [Killed(term[c]) EXCEPT !.released = TRUE]
<1>1. term[c] \in Terminal
  BY DEF Exists, Shape
<1>2. x \in Terminal /\ Same(x, term[c]) /\ ~x.running /\ x.listed = term[c].listed /\ x.taken = term[c].taken
  BY <1>1 DEF Killed, Terminal, Same
<1>3. Publish(c, x)
  BY DEF Reap
<1> HIDE DEF x
<1> QED
  BY <1>2, <1>3, PostedSays

LEMMA ObserveSays ==
  ASSUME Shape, NEW c \in Command, Observe(c)
  PROVE  /\ Exists(c)
         /\ \E x, y \in Terminal :
              /\ Same(x, term[c]) /\ x.running = term[c].running
              /\ x.listed = term[c].listed /\ x.taken = term[c].taken
              /\ \/ y = x /\ term' = [term EXCEPT ![c] = y] /\ inbox' = inbox
                 \/ Posted(c, x, y)
<1>0. Exists(c) /\ term[c] \in Terminal
  BY DEF Exists, Shape, Observe
<1>1. CASE term[c].released
  <2> DEFINE x == [term[c] EXCEPT !.watched = FALSE]
  <2>1. x \in Terminal /\ Same(x, term[c]) /\ x.running = term[c].running
        /\ x.listed = term[c].listed /\ x.taken = term[c].taken
    BY <1>0 DEF Terminal, Same
  <2>2. term' = [term EXCEPT ![c] = x] /\ inbox' = inbox
    BY <1>1 DEF Observe
  <2> HIDE DEF x
  <2> QED
    BY <1>0, <2>1, <2>2
<1>2. CASE ~term[c].released
  <2> DEFINE over == term[c].bound /\ ~term[c].running /\ (term[c].taken \/ Drained(term[c]))
             x == [term[c] EXCEPT !.watched = ~over]
  <2>1. Publish(c, x)
    BY <1>2 DEF Observe
  <2> HIDE DEF over
  <2>2. x \in Terminal /\ Same(x, term[c]) /\ x.running = term[c].running
        /\ x.listed = term[c].listed /\ x.taken = term[c].taken
    BY <1>0 DEF Terminal, Same
  <2> HIDE DEF x
  <2>3. \E y \in Terminal : Posted(c, x, y)
    BY <2>1, <2>2, PostedSays
  <2> QED
    BY <1>0, <2>2, <2>3
<1> QED
  BY <1>1, <1>2

\* The process goes on by itself, or its output is read.
Further(y, x) ==
  /\ y.read <= y.wrote /\ (y.running => x.running)
  /\ y.run = x.run /\ y.listed = x.listed /\ y.taken = x.taken
  /\ y.bound = x.bound /\ y.client = x.client /\ y.shown = x.shown
Ran(c, y) == term' = [term EXCEPT ![c] = y] /\ Further(y, term[c]) /\ ~Drained(term[c])
LEMMA RunsSays ==
  ASSUME Shape, NEW c \in Command, CommandRuns(c) \/ Drain(c),
         Exists(c) => term[c].read <= term[c].wrote
  PROVE  /\ Exists(c) /\ inbox' = inbox
         /\ \E y \in Terminal : Ran(c, y)
<1>0. Exists(c) /\ term[c] \in Terminal /\ inbox' = inbox
  BY DEF Exists, Shape, CommandRuns, Drain
<1>1. ASSUME term[c].wrote = 0, term[c].running \/ term[c].left,
             term' = [term EXCEPT ![c].wrote = 1]
      PROVE  \E y \in Terminal : Ran(c, y)
  <2> DEFINE y == [term[c] EXCEPT !.wrote = 1]
  <2>1. y \in Terminal /\ Further(y, term[c])
    BY <1>0 DEF Terminal, Further
  <2>2. term' = [term EXCEPT ![c] = y]
    BY <1>1
  <2>3. ~Drained(term[c])
    BY <1>1 DEF Drained
  <2> HIDE DEF y
  <2> QED
    BY <2>1, <2>2, <2>3 DEF Ran
<1>2. ASSUME NEW l \in BOOLEAN, term[c].running,
             term' = [term EXCEPT ![c] = [@ EXCEPT !.running = FALSE, !.left = l]]
      PROVE  \E y \in Terminal : Ran(c, y)
  <2> DEFINE y == [term[c] EXCEPT !.running = FALSE, !.left = l]
  <2>1. y \in Terminal /\ Further(y, term[c])
    BY <1>0 DEF Terminal, Further
  <2>2. term' = [term EXCEPT ![c] = y]
    BY <1>2
  <2>3. ~Drained(term[c])
    BY <1>2 DEF Drained
  <2> HIDE DEF y
  <2> QED
    BY <2>1, <2>2, <2>3 DEF Ran
<1>3. ASSUME term[c].left, term' = [term EXCEPT ![c].left = FALSE]
      PROVE  \E y \in Terminal : Ran(c, y)
  <2> DEFINE y == [term[c] EXCEPT !.left = FALSE]
  <2>1. y \in Terminal /\ Further(y, term[c])
    BY <1>0 DEF Terminal, Further
  <2>2. term' = [term EXCEPT ![c] = y]
    BY <1>3
  <2>3. ~Drained(term[c])
    BY <1>3 DEF Drained
  <2> HIDE DEF y
  <2> QED
    BY <2>1, <2>2, <2>3 DEF Ran
<1>4. ASSUME term[c].read < term[c].wrote, term' = [term EXCEPT ![c].read = term[c].wrote]
      PROVE  \E y \in Terminal : Ran(c, y)
  <2> DEFINE y == [term[c] EXCEPT !.read = term[c].wrote]
  <2>1. y \in Terminal /\ Further(y, term[c])
    BY <1>0 DEF Terminal, Further
  <2>2. term' = [term EXCEPT ![c] = y]
    BY <1>4
  <2>3. ~Drained(term[c])
    BY <1>0, <1>4, TerminalParts DEF Drained
  <2> HIDE DEF y
  <2> QED
    BY <2>1, <2>2, <2>3 DEF Ran
<1>5. CASE CommandRuns(c)
  BY <1>0, <1>1, <1>2, <1>3, <1>5 DEF CommandRuns
<1>6. CASE Drain(c)
  BY <1>0, <1>4, <1>6 DEF Drain
<1> QED
  BY <1>5, <1>6

-----------------------------------------------------------------------------
(* What the threads that serve requests do. *)

\* A thread goes on: it is w before and v after.
Replaces(w, v) == workers' = (workers \ {w}) \cup {v}

LEMMA KillSays ==
  ASSUME Shape, workers \subseteq Worker, NEW w \in Worker, Kill(w)
  PROVE  /\ Finds(w, "kill") /\ inbox' = inbox
         /\ \E v \in Worker : Replaces(w, v) /\ Turned(w, v, "done", TRUE)
         /\ \E y \in Terminal :
              /\ term' = [term EXCEPT ![w.call] = y]
              /\ Same(y, term[w.call]) /\ ~y.running
              /\ y.listed = term[w.call].listed /\ y.taken = term[w.call].taken
<1>1. w \in workers /\ Finds(w, "kill") /\ inbox' = inbox /\ Becomes(w, "done", TRUE)
  BY DEF Kill, Finds
<1>2. \E v \in Worker : Replaces(w, v) /\ Turned(w, v, "done", TRUE)
  BY <1>1, BecomesSays DEF Replaces
<1> DEFINE y == Killed(term[w.call])
<1>3. w.call \in Command /\ term[w.call] \in Terminal
  BY <1>1, WorkerParts DEF Finds, Listed, Exists, Shape
<1>4. y \in Terminal /\ Same(y, term[w.call]) /\ ~y.running
      /\ y.listed = term[w.call].listed /\ y.taken = term[w.call].taken
  BY <1>3 DEF Killed, Terminal, Same
<1>5. term' = [term EXCEPT ![w.call] = y]
  BY DEF Kill
<1> HIDE DEF y
<1> QED
  BY <1>1, <1>2, <1>4, <1>5

\* join_readers begins: at `join` with the readers, if nobody took them before.
Joining(w, x, y, v) ==
  /\ Replaces(w, v)
  /\ Turned(w, v, IF x.taken THEN "join none" ELSE "join", FALSE)
  /\ term' = [term EXCEPT ![w.call] = y]
  /\ Same(y, x) /\ y.running = x.running /\ y.listed = x.listed /\ y.taken

LEMMA TakesReaders ==
  ASSUME workers \subseteq Worker, NEW w \in workers, NEW x \in Terminal, TakeReaders(w, x)
  PROVE  inbox' = inbox /\ \E y \in Terminal, v \in Worker : Joining(w, x, y, v)
<1> DEFINE at == IF x.taken THEN "join none" ELSE "join"
           y == [x EXCEPT !.taken = TRUE]
<1>1. at \in {"new", "live", "poll", "join", "join none", "done"} /\ Becomes(w, at, FALSE)
  BY DEF TakeReaders
<1>2. PICK v \in Worker : Replaces(w, v) /\ Turned(w, v, at, FALSE)
  <2> HIDE DEF at
  <2> QED
    BY <1>1, BecomesSays DEF Replaces
<1>3. y \in Terminal /\ Same(y, x) /\ y.running = x.running /\ y.listed = x.listed /\ y.taken
  BY DEF Terminal, Same
<1>4. term' = [term EXCEPT ![w.call] = y] /\ inbox' = inbox
  BY DEF TakeReaders
<1> HIDE DEF y
<1> QED
  BY <1>2, <1>3, <1>4 DEF Joining

LEMMA ReleaseStarts ==
  ASSUME Shape, workers \subseteq Worker, NEW w \in Worker, Release(w)
  PROVE  /\ Finds(w, "release") /\ inbox' = inbox
         /\ \E x, y \in Terminal, v \in Worker :
              /\ Same(x, term[w.call]) /\ ~x.running
              /\ x.listed = term[w.call].listed /\ x.taken = term[w.call].taken
              /\ Joining(w, x, y, v)
<1> DEFINE x == Killed(term[w.call])
<1>1. w \in workers /\ Finds(w, "release") /\ TakeReaders(w, x)
  BY DEF Release, Finds
<1>2. w.call \in Command /\ term[w.call] \in Terminal
  BY <1>1, WorkerParts DEF Finds, Listed, Exists, Shape
<1>3. x \in Terminal /\ Same(x, term[w.call]) /\ ~x.running
      /\ x.listed = term[w.call].listed /\ x.taken = term[w.call].taken
  BY <1>2 DEF Killed, Terminal, Same
<1> HIDE DEF x
<1> QED
  BY <1>1, <1>3, TakesReaders

LEMMA ExitedSays ==
  ASSUME Shape, workers \subseteq Worker, NEW w \in Worker, Exited(w), Exists(w.call)
  PROVE  /\ w \in workers /\ w.at = "poll" /\ inbox' = inbox /\ ~term[w.call].running
         /\ \E y \in Terminal, v \in Worker : Joining(w, term[w.call], y, v)
<1>1. w \in workers /\ w.at = "poll" /\ TakeReaders(w, term[w.call]) /\ ~term[w.call].running
  BY DEF Exited
<1>2. w.call \in Command /\ term[w.call] \in Terminal
  BY <1>1, WorkerParts DEF Exists, Shape
<1> QED
  BY <1>1, <1>2, TakesReaders

LEMMA JoinedSays ==
  ASSUME Shape, workers \subseteq Worker, NEW w \in Worker, Joined(w), Exists(w.call)
  PROVE  /\ w \in workers
         /\ w.at = "join none" \/ (w.at = "join" /\ Drained(term[w.call]))
         /\ \E v \in Worker : Replaces(w, v) /\ Turned(w, v, "done", TRUE)
         /\ \E x, y \in Terminal :
              /\ Same(x, term[w.call]) /\ x.running = term[w.call].running
              /\ x.taken = term[w.call].taken
              /\ x.listed = (w.op = "wait" /\ term[w.call].listed)
              /\ Posted(w.call, x, y)
<1>1. w \in workers /\ Becomes(w, "done", TRUE)
      /\ (w.at = "join none" \/ (w.at = "join" /\ Drained(term[w.call])))
  BY DEF Joined
<1>2. w.call \in Command /\ term[w.call] \in Terminal
  BY <1>1, WorkerParts DEF Exists, Shape
<1>3. \E v \in Worker : Replaces(w, v) /\ Turned(w, v, "done", TRUE)
  BY <1>1, BecomesSays DEF Replaces
<1> DEFINE x == IF w.op = "wait" THEN term[w.call]
                ELSE [term[w.call] EXCEPT !.released = TRUE, !.listed = FALSE]
<1>4. Publish(w.call, x)
  BY DEF Joined
<1>5. /\ x \in Terminal /\ Same(x, term[w.call]) /\ x.running = term[w.call].running
      /\ x.taken = term[w.call].taken
      /\ x.listed = (w.op = "wait" /\ term[w.call].listed)
  <2>1. CASE w.op = "wait"
    <3>1. x = term[w.call]
      BY <2>1, Zenon
    <3> HIDE DEF x
    <3> QED
      BY <1>2, <2>1, <3>1, TerminalParts DEF Same
  <2>2. CASE w.op # "wait"
    <3>1. x = [term[w.call] EXCEPT !.released = TRUE, !.listed = FALSE]
      BY <2>2, Zenon
    <3> QED
      BY <1>2, <2>2, <3>1 DEF Terminal, Same
  <2> QED
    BY <2>1, <2>2
<1> HIDE DEF x
<1> QED
  BY <1>1, <1>2, <1>3, <1>4, <1>5, PostedSays

LEMMA CreateSays ==
  ASSUME workers \subseteq Worker, NEW w \in Worker, NEW cleared, Create(w, cleared)
  PROVE  /\ w \in workers /\ w.at = "live" /\ w.op = "create" /\ ~Exists(w.call) /\ inbox' = inbox
         /\ \E v \in Worker :
              /\ Replaces(w, v)
              /\ \/ Turned(w, v, "done", TRUE) /\ term' = [term EXCEPT ![w.call] = Started(w.run)]
                 \/ Turned(w, v, "done", FALSE) /\ term' = term
<1>1. w \in workers /\ w.at = "live" /\ w.op = "create" /\ ~Exists(w.call) /\ inbox' = inbox
  BY DEF Create
<1>2. \/ term' = [term EXCEPT ![w.call] = Started(w.run)] /\ Becomes(w, "done", TRUE)
      \/ term' = term /\ Becomes(w, "done", FALSE)
  BY DEF Create
<1> QED
  BY <1>1, <1>2, BecomesSays DEF Replaces

\* The response to a run that is live.
Responds(w, y) ==
  /\ live = w.run
  /\ Answered(w.call, w.op, IF w.ok THEN "yes" ELSE "no")
  /\ doomed' = doomed
  /\ \/ /\ w.op = "create" /\ w.ok /\ Listed(w.run, w.call)
        /\ term' = [term EXCEPT ![w.call] = y]
        /\ y.run = term[w.call].run /\ y.wrote = term[w.call].wrote /\ y.read = term[w.call].read
        /\ y.left = term[w.call].left /\ y.bound = term[w.call].bound
        /\ y.shown = term[w.call].shown /\ y.running = term[w.call].running
        /\ y.listed = term[w.call].listed /\ y.taken = term[w.call].taken /\ y.client
     \/ ~(w.op = "create" /\ w.ok /\ Listed(w.run, w.call)) /\ term' = term

LEMMA RespondSays ==
  ASSUME Shape, workers \subseteq Worker, NEW w \in Worker, Respond(w)
  PROVE  /\ w \in workers /\ w.at = "done" /\ workers' = workers \ {w} /\ inbox' = inbox
         /\ \/ live # w.run /\ ReleaseRun(w.run) /\ mail' = mail
            \/ \E y \in Terminal : Responds(w, y)
<1>1. w \in workers /\ w.at = "done" /\ workers' = workers \ {w} /\ inbox' = inbox
  BY DEF Respond
<1>2. ASSUME live = w.run
      PROVE  \E y \in Terminal : Responds(w, y)
  <2>0. Answered(w.call, w.op, IF w.ok THEN "yes" ELSE "no") /\ doomed' = doomed
    BY <1>2 DEF Respond
  <2>1. CASE w.op = "create" /\ w.ok /\ Listed(w.run, w.call)
    <3> DEFINE y == [term[w.call] EXCEPT !.client = TRUE, !.watched = TRUE]
    <3>1. w.call \in Command /\ term[w.call] \in Terminal
      BY <2>1, WorkerParts DEF Listed, Exists, Shape
    <3>2. y \in Terminal
        /\ y.run = term[w.call].run /\ y.wrote = term[w.call].wrote /\ y.read = term[w.call].read
        /\ y.left = term[w.call].left /\ y.bound = term[w.call].bound
        /\ y.shown = term[w.call].shown /\ y.running = term[w.call].running
        /\ y.listed = term[w.call].listed /\ y.taken = term[w.call].taken /\ y.client
      BY <3>1 DEF Terminal
    <3>3. term' = [term EXCEPT ![w.call] = y]
      BY <1>2, <2>1 DEF Respond
    <3> HIDE DEF y
    <3> QED
      BY <1>2, <2>0, <2>1, <3>2, <3>3 DEF Responds
  <2>2. CASE ~(w.op = "create" /\ w.ok /\ Listed(w.run, w.call))
    <3>1. term' = term
      BY <1>2, <2>2 DEF Respond
    <3>2. Started(w.run) \in Terminal
      BY StartedParts, WorkerParts
    <3> QED
      BY <1>2, <2>0, <2>2, <3>1, <3>2 DEF Responds
  <2> QED
    BY <2>1, <2>2
<1>3. ASSUME live # w.run
      PROVE  ReleaseRun(w.run) /\ mail' = mail
  BY <1>3 DEF Respond
<1> QED
  BY <1>1, <1>2, <1>3

\* bind_tool.
Binds(r, c, y) ==
  /\ Same(y, [term[c] EXCEPT !.bound = TRUE, !.shown = y.shown])
  /\ y.running = term[c].running /\ y.listed = term[c].listed /\ y.taken = term[c].taken
  /\ term' = [term EXCEPT ![c] = y]
  /\ \/ y.shown = term[c].shown /\ ~News(y) /\ inbox' = [inbox EXCEPT ![r] = Tail(@)]
     \/ /\ y.client /\ y.shown = Snap(y)
        /\ inbox' = [inbox EXCEPT ![r] = Append(Tail(@), Update(c, Snap(y)))]

LEMMA TailTyped ==
  ASSUME NEW S, NEW s \in Seq(S), s # <<>>
  PROVE  /\ Tail(s) \in Seq(S) /\ Len(Tail(s)) = Len(s) - 1 /\ Head(s) \in S /\ Head(s) = s[1]
         /\ \A i \in 1..Len(Tail(s)) : Tail(s)[i] = s[i + 1]
         /\ Len(s) \in Nat \ {0}
OBVIOUS

LEMMA BindSays ==
  ASSUME Shape, NEW r \in Run, HearBind(r)
  PROVE  /\ inbox[r] # <<>> /\ Head(inbox[r]) \in Message /\ Head(inbox[r]).what = "bind"
         /\ Head(inbox[r]).call \in Command
         /\ LET c == Head(inbox[r]).call
            IN  \/ /\ live # r \/ ~Listed(r, c)
                   /\ inbox' = [inbox EXCEPT ![r] = Tail(@)] /\ term' = term
                \/ live = r /\ Listed(r, c) /\ \E y \in Terminal : Binds(r, c, y)
<1> DEFINE c == Head(inbox[r]).call
<1>1. inbox[r] # <<>> /\ Head(inbox[r]) \in Message /\ Head(inbox[r]).what = "bind"
  BY TailTyped DEF HearBind, Next1, Shape
<1>2. c \in Command
  <2>1. \A m \in Message : m.what = "bind" => m.call \in Command
    BY MessageParts
  <2> QED
    BY <1>1, <2>1, Zenon
<1>3. CASE live # r \/ ~Listed(r, c)
  BY <1>1, <1>2, <1>3, Zenon DEF HearBind, Handled
<1>4. CASE live = r /\ Listed(r, c)
  <2> DEFINE x == [term[c] EXCEPT !.bound = TRUE]
             y == IF News(x) THEN [x EXCEPT !.shown = Snap(x)] ELSE x
  <2>1. term[c] \in Terminal
    BY <1>2, <1>4 DEF Listed, Exists, Shape
  <2>2. x \in Terminal /\ x.run = term[c].run /\ x.wrote = term[c].wrote /\ x.read = term[c].read
        /\ x.left = term[c].left /\ x.bound /\ x.client = term[c].client
        /\ x.shown = term[c].shown
        /\ x.running = term[c].running /\ x.listed = term[c].listed /\ x.taken = term[c].taken
    BY <2>1, Zenon DEF Terminal
  <2>3. /\ term' = [term EXCEPT ![c] = y]
        /\ inbox' = [inbox EXCEPT ![r] =
             Tail(@) \o IF News(x) THEN <<Update(c, Snap(x))>> ELSE <<>>]
    BY <1>4, Zenon DEF HearBind, Update
  <2>4. Tail(inbox[r]) \in Seq(Message)
    BY <1>1, TailTyped DEF Shape
  <2> HIDE DEF x, c
  <2>5. CASE News(x)
    <3>1. Snap(x) \in Snapshot /\ Update(c, Snap(x)) \in Message
      BY <1>2, <2>2, TerminalParts, Messages
    <3>2. Tail(inbox[r]) \o <<Update(c, Snap(x))>> = Append(Tail(inbox[r]), Update(c, Snap(x)))
      BY <2>4, <3>1
    <3>3. y = [x EXCEPT !.shown = Snap(x)]
      BY <2>5
    <3>4. y \in Terminal /\ Alike(y, x) /\ y.shown = Snap(x)
      BY ONLY <2>2, <3>3, Shows
    <3> HIDE DEF y
    <3>5. y.client /\ Snap(y) = Snap(x)
      BY <2>5, <3>4 DEF News, Alike, Snap
    <3>6. Same(y, [term[c] EXCEPT !.bound = TRUE, !.shown = y.shown])
      BY <2>1, <2>2, <3>4 DEF Same, Alike, Terminal
    <3>7. inbox' = [inbox EXCEPT ![r] = Append(Tail(@), Update(c, Snap(y)))]
      BY <2>3, <2>5, <3>2, <3>5
    <3>8. Binds(r, c, y)
      BY <2>2, <2>3, <3>4, <3>5, <3>6, <3>7 DEF Binds, Alike
    <3> QED
      BY <1>1, <1>2, <1>4, <3>4, <3>8 DEF c
  <2>6. CASE ~News(x)
    <3>1. y = x
      BY <2>6
    <3> HIDE DEF y
    <3>2. Tail(inbox[r]) \o <<>> = Tail(inbox[r])
      BY <2>4
    <3>3. inbox' = [inbox EXCEPT ![r] = Tail(@)]
      BY <2>3, <2>6, <3>2
    <3>4. Same(y, [term[c] EXCEPT !.bound = TRUE, !.shown = y.shown])
      BY <2>1, <2>2, <3>1 DEF Same, Terminal
    <3>5. Binds(r, c, y)
      BY <2>2, <2>3, <2>6, <3>1, <3>3, <3>4 DEF Binds
    <3> QED
      BY <1>1, <1>2, <1>4, <2>2, <3>1, <3>5 DEF c
  <2> QED
    BY <2>5, <2>6
<1> QED
  BY <1>3, <1>4

-----------------------------------------------------------------------------
(* Types, part by part. *)

TermOK ==
  /\ term \in [Command -> Terminal \cup {Nil}]
  /\ \A c \in Command : Exists(c) => term[c].read <= term[c].wrote /\ term[c].run <= run
DoomOK == doomed \subseteq Command /\ \A c \in doomed : Exists(c) /\ ~term[c].listed
BoxOK == inbox \in [Run -> Seq(Message)] /\ \A r \in Run : inbox[r] # <<>> => r <= run
CrewOK == workers \subseteq Worker /\ \A w \in workers : w.run <= run
LifeOK ==
  /\ live \in 0..MaxRun /\ stopping \in 0..MaxRun /\ stopped \subseteq Run
  /\ run \in 0..MaxRun /\ up \in BOOLEAN /\ (up => run > 0) /\ live \in {0, run}
  /\ live \notin stopped /\ \A r \in stopped : r <= run
  /\ told \in BOOLEAN /\ full \in BOOLEAN /\ slow \in Nat
ToolOK == tool \in [Command -> Tool] /\ \A c \in Command : Busy(c) => up
TalkOK ==
  /\ asks \subseteq Command
  /\ answers \subseteq [call : Command, run : 0..MaxRun, allow : {"no", "once", "always"},
                        recorded : BOOLEAN]
MailOK == mail \in [Command -> Mail]
PartOK == part \in [Command -> Snapshot \cup {Nil}]

Base == /\ TermOK /\ DoomOK /\ BoxOK /\ CrewOK /\ LifeOK /\ ToolOK /\ TalkOK /\ MailOK /\ PartOK

LEMMA BaseIs == Base <=> TypeOK /\ Runs
BY DEF Base, TermOK, DoomOK, BoxOK, CrewOK, LifeOK, ToolOK, TalkOK, MailOK, PartOK, TypeOK,
       HostTypeOK, Runs

LEMMA BaseShape == Base => Shape /\ workers \subseteq Worker
BY DEF Base, TermOK, BoxOK, CrewOK, Shape

\* One terminal is set.
LEMMA TermSet ==
  ASSUME TermOK, NEW c \in Command, NEW y \in Terminal, term' = [term EXCEPT ![c] = y]
  PROVE  /\ term' \in [Command -> Terminal \cup {Nil}]
         /\ term'[c] = y /\ Exists(c)'
         /\ \A d \in Command : d # c => term'[d] = term[d]
<1>1. y # Nil
  BY TerminalParts
<1> QED
  BY <1>1 DEF TermOK, Exists

LEMMA TermKept ==
  ASSUME TermOK, DoomOK, run' = run,
         NEW c \in Command, NEW y \in Terminal, term' = [term EXCEPT ![c] = y],
         y.read <= y.wrote, y.run <= run,
         doomed' \subseteq doomed, c \in doomed' => ~y.listed
  PROVE  TermOK' /\ DoomOK'
<1>1. /\ term' \in [Command -> Terminal \cup {Nil}]
      /\ term'[c] = y /\ Exists(c)'
      /\ \A d \in Command : d # c => term'[d] = term[d]
  BY TermSet
<1>2. TermOK'
  BY <1>1 DEF TermOK, Exists
<1>3. DoomOK'
  BY <1>1 DEF DoomOK, Exists
<1> QED
  BY <1>2, <1>3

\* Messages come at the end of an inbox, or leave at its head.
LEMMA BoxAppend ==
  ASSUME BoxOK, NEW r \in Run, r <= run, run' = run, NEW m \in Message,
         inbox' = [inbox EXCEPT ![r] = Append(@, m)]
  PROVE  BoxOK'
<1>1. Append(inbox[r], m) \in Seq(Message)
  BY DEF BoxOK
<1>2. inbox' \in [Run -> Seq(Message)]
  BY <1>1 DEF BoxOK
<1>3. \A s \in Run : s # r => inbox'[s] = inbox[s]
  BY DEF BoxOK
<1> QED
  BY <1>2, <1>3 DEF BoxOK

LEMMA BoxTail ==
  ASSUME BoxOK, NEW r \in Run, inbox[r] # <<>>, run' = run,
         inbox' = [inbox EXCEPT ![r] = Tail(@)]
  PROVE  BoxOK' /\ r <= run /\ Head(inbox[r]) \in Message
<1>1. Tail(inbox[r]) \in Seq(Message) /\ Head(inbox[r]) \in Message
  BY TailTyped DEF BoxOK
<1>2. inbox' \in [Run -> Seq(Message)]
  BY <1>1 DEF BoxOK
<1>3. \A s \in Run : s # r => inbox'[s] = inbox[s]
  BY DEF BoxOK
<1>4. r <= run
  BY DEF BoxOK
<1> QED
  BY <1>1, <1>2, <1>3, <1>4 DEF BoxOK

LEMMA CrewGoes ==
  ASSUME CrewOK, NEW w \in workers, NEW v \in Worker, Replaces(w, v), v.run = w.run, run' = run
  PROVE  CrewOK'
BY DEF CrewOK, Replaces

LEMMA PostedKeeps ==
  ASSUME TermOK, DoomOK, BoxOK, run' = run, NEW c \in Command, NEW x \in Terminal, NEW y \in Terminal,
         Posted(c, x, y), x.read <= x.wrote, x.run <= run,
         doomed' \subseteq doomed, c \in doomed' => ~x.listed
  PROVE  TermOK' /\ DoomOK' /\ BoxOK'
<1>1. TermOK' /\ DoomOK'
  BY TermKept DEF Posted, Alike
<1>2. Update(c, Snap(x)) \in Message /\ x.run \in Run
  BY TerminalParts, Messages
<1>3. BoxOK'
  <2>1. CASE inbox' = inbox
    BY <2>1 DEF BoxOK
  <2>2. CASE inbox' = [inbox EXCEPT ![x.run] = Append(@, Update(c, Snap(x)))]
    BY <1>2, <2>2, BoxAppend
  <2> QED
    BY <2>1, <2>2 DEF Posted
<1> QED
  BY <1>1, <1>3

\* Nothing of the agent changes.
Host == UNCHANGED <<run, up, told, full, tool, slow>>

LEMMA ReleaseKeeps ==
  ASSUME TermOK, DoomOK, run' = run, NEW r \in Run, ReleaseRun(r)
  PROVE  TermOK' /\ DoomOK'
<1>1. /\ term' \in [Command -> Terminal \cup {Nil}]
      /\ doomed' = doomed \cup {c \in Command : Listed(r, c)}
      /\ \A c \in Command :
           /\ Listed(r, c) => term'[c] \in Terminal /\ Delisted(term'[c], term[c])
           /\ ~Listed(r, c) => term'[c] = term[c]
  BY ReleaseSays DEF TermOK
<1>2. \A c \in Command : Listed(r, c) => Exists(c)
  BY DEF Listed
<1>3. ASSUME NEW c \in Command, Exists(c)'
      PROVE  term'[c].read <= term'[c].wrote /\ term'[c].run <= run
  BY <1>1, <1>2, <1>3 DEF TermOK, Delisted, Exists
<1>4. TermOK'
  BY <1>1, <1>3 DEF TermOK
<1>5. ASSUME NEW c \in doomed'
      PROVE  c \in Command /\ Exists(c)' /\ ~term'[c].listed
  <2>1. CASE Listed(r, c) /\ c \in Command
    BY <1>1, <2>1, TerminalParts DEF Delisted, Exists
  <2>2. CASE c \in doomed
    <3>1. c \in Command /\ Exists(c) /\ ~term[c].listed
      BY <2>2 DEF DoomOK
    <3>2. ~Listed(r, c)
      BY <3>1 DEF Listed
    <3> QED
      BY <1>1, <3>1, <3>2 DEF Exists
  <2> QED
    BY <1>1, <2>1, <2>2
<1>6. DoomOK'
  BY <1>5 DEF DoomOK
<1> QED
  BY <1>4, <1>6

-----------------------------------------------------------------------------
(* Each part stays as it is when its variables do. *)
LEMMA Frames ==
  /\ TermOK /\ UNCHANGED <<term, run>> => TermOK'
  /\ DoomOK /\ UNCHANGED <<term, doomed>> => DoomOK'
  /\ BoxOK /\ UNCHANGED <<inbox, run>> => BoxOK'
  /\ CrewOK /\ UNCHANGED <<workers, run>> => CrewOK'
  /\ LifeOK /\ UNCHANGED <<live, stopping, stopped, run, up, told, full, slow>> => LifeOK'
  /\ ToolOK /\ UNCHANGED <<tool, up>> => ToolOK'
  /\ TalkOK /\ UNCHANGED <<asks, answers>> => TalkOK'
  /\ MailOK /\ UNCHANGED mail => MailOK'
  /\ PartOK /\ UNCHANGED part => PartOK'
BY DEF TermOK, DoomOK, BoxOK, CrewOK, LifeOK, ToolOK, TalkOK, MailOK, PartOK, Exists, Busy

-----------------------------------------------------------------------------
(* The daemon's steps. *)

LEMMA ReapBase == ASSUME Base, Host, NEW c \in Command, Reap(c) PROVE Base'
<1>1. c \in doomed /\ Exists(c) /\ ~term[c].listed /\ doomed' = doomed \ {c}
  BY DEF Base, DoomOK, Reap
<1>2. PICK x \in Terminal, y \in Terminal :
        Same(x, term[c]) /\ x.listed = term[c].listed /\ Posted(c, x, y)
  BY <1>1, BaseShape, ReapSays
<1>3. x.read <= x.wrote /\ x.run <= run
  BY <1>1, <1>2 DEF Base, TermOK, Same
<1>4. TermOK' /\ DoomOK' /\ BoxOK'
  BY <1>1, <1>2, <1>3, PostedKeeps DEF Base, Host
<1> QED
  BY <1>4, Frames DEF Base, Host, Reap

LEMMA ObserveBase == ASSUME Base, Host, NEW c \in Command, Observe(c) PROVE Base'
<1>0. Exists(c) /\ doomed' = doomed
  BY BaseShape, ObserveSays DEF Observe
<1>1. PICK x \in Terminal, y \in Terminal :
        /\ Same(x, term[c]) /\ x.listed = term[c].listed
        /\ \/ y = x /\ term' = [term EXCEPT ![c] = y] /\ inbox' = inbox
           \/ Posted(c, x, y)
  BY BaseShape, ObserveSays
<1>2. x.read <= x.wrote /\ x.run <= run /\ (c \in doomed' => ~x.listed)
  BY <1>0, <1>1 DEF Base, TermOK, DoomOK, Same
<1>3. TermOK' /\ DoomOK' /\ BoxOK'
  <2>1. CASE y = x /\ term' = [term EXCEPT ![c] = y] /\ inbox' = inbox
    BY <1>0, <1>2, <2>1, TermKept, Frames DEF Base, Host
  <2>2. CASE Posted(c, x, y)
    BY <1>0, <1>2, <2>2, PostedKeeps DEF Base, Host
  <2> QED
    BY <1>1, <2>1, <2>2
<1> QED
  BY <1>3, Frames DEF Base, Host, Observe

LEMMA RunsBase == ASSUME Base, Host, NEW c \in Command, CommandRuns(c) \/ Drain(c) PROVE Base'
<1>1. Exists(c) => term[c].read <= term[c].wrote
  BY DEF Base, TermOK
<1>2. PICK y \in Terminal : Ran(c, y)
  BY <1>1, BaseShape, RunsSays
<1>3. Exists(c) /\ doomed' = doomed
  BY <1>1, BaseShape, RunsSays DEF CommandRuns, Drain
<1>4. y.read <= y.wrote /\ y.run <= run /\ (c \in doomed' => ~y.listed)
  BY <1>2, <1>3 DEF Base, TermOK, DoomOK, Ran, Further
<1>5. TermOK' /\ DoomOK'
  BY <1>2, <1>3, <1>4, TermKept DEF Base, Host, Ran
<1> QED
  BY <1>5, Frames DEF Base, Host, CommandRuns, Drain

\* A thread only goes on.
LEMMA TurnBase ==
  ASSUME Base, Host, NEW w \in Worker,
         Refused(w) \/ Admit(w) \/ Output(w) \/ Wait(w)
  PROVE  Base' /\ w \in workers /\ \E v \in Worker : Replaces(w, v) /\ v.run = w.run
                                 /\ v.call = w.call /\ v.op = w.op
<1>1. w \in workers
  BY DEF Refused, Admit, Output, Wait, Finds
<1>2. \/ Becomes(w, "done", FALSE) \/ Becomes(w, "live", FALSE)
      \/ Becomes(w, "done", TRUE) \/ Becomes(w, "poll", FALSE)
  BY DEF Refused, Admit, Output, Wait
<1>3. PICK v \in Worker : Replaces(w, v) /\ v.run = w.run /\ v.call = w.call /\ v.op = w.op
  <2>1. PICK at \in {"done", "live", "poll"}, ok \in BOOLEAN : Becomes(w, at, ok)
    BY <1>2, Zenon
  <2>2. PICK v \in Worker : Replaces(w, v) /\ Turned(w, v, at, ok)
    BY <1>1, <2>1, BaseShape, BecomesSays DEF Replaces
  <2>3. v.run = w.run /\ v.call = w.call /\ v.op = w.op
    BY <2>2, Zenon DEF Turned
  <2> QED
    BY <2>2, <2>3, Zenon
<1>4. CrewOK'
  BY <1>1, <1>3, CrewGoes DEF Base, Host
<1>5. Base'
  BY <1>4, Frames DEF Base, Host, Refused, Admit, Output, Wait
<1> QED
  BY <1>1, <1>3, <1>5

LEMMA KillBase == ASSUME Base, Host, NEW w \in Worker, Kill(w) PROVE Base'
<1>1. w \in workers /\ w.call \in Command /\ Exists(w.call)
  BY WorkerParts DEF Kill, Finds, Listed
<1>2. PICK v \in Worker : Replaces(w, v) /\ Turned(w, v, "done", TRUE)
  BY BaseShape, KillSays
<1>3. PICK y \in Terminal :
        term' = [term EXCEPT ![w.call] = y] /\ Same(y, term[w.call]) /\ y.listed = term[w.call].listed
  BY BaseShape, KillSays
<1>4. doomed' = doomed /\ y.read <= y.wrote /\ y.run <= run /\ (w.call \in doomed' => ~y.listed)
  BY <1>1, <1>3 DEF Base, TermOK, DoomOK, Same, Kill
<1>5. TermOK' /\ DoomOK' /\ CrewOK'
  BY <1>1, <1>2, <1>3, <1>4, TermKept, CrewGoes DEF Base, Host, Turned
<1> QED
  BY <1>5, Frames DEF Base, Host, Kill

LEMMA JoiningBase ==
  ASSUME Base, Host, NEW w \in workers, Exists(w.call),
         NEW x \in Terminal, NEW y \in Terminal, NEW v \in Worker, Joining(w, x, y, v),
         Same(x, term[w.call]), x.listed = term[w.call].listed,
         UNCHANGED <<live, inbox, grants, asks, answers, doomed, stopping, stopped, mail, part>>
  PROVE  Base'
<1>1. w.call \in Command
  BY WorkerParts DEF Base, CrewOK
<1>2. y.read <= y.wrote /\ y.run <= run /\ (w.call \in doomed' => ~y.listed)
  BY <1>1 DEF Base, TermOK, DoomOK, Same, Joining
<1>3. TermOK' /\ DoomOK' /\ CrewOK'
  BY <1>1, <1>2, TermKept, CrewGoes DEF Base, Host, Joining, Turned
<1> QED
  BY <1>3, Frames DEF Base, Host

LEMMA ReleaseBase == ASSUME Base, Host, NEW w \in Worker, Release(w) PROVE Base'
<1>1. w \in workers /\ Exists(w.call)
  BY DEF Release, Finds, Listed
<1>2. PICK x \in Terminal, y \in Terminal, v \in Worker :
        Same(x, term[w.call]) /\ x.listed = term[w.call].listed /\ Joining(w, x, y, v)
  BY BaseShape, ReleaseStarts
<1> QED
  BY <1>1, <1>2, JoiningBase DEF Release, TakeReaders

LEMMA ExitedBase == ASSUME Base, Host, NEW w \in Worker, Exited(w), Exists(w.call) PROVE Base'
<1>1. w \in workers /\ w.call \in Command /\ term[w.call] \in Terminal
  BY WorkerParts DEF Exited, Exists, Base, TermOK
<1>2. PICK y \in Terminal, v \in Worker : Joining(w, term[w.call], y, v)
  BY BaseShape, ExitedSays
<1>3. Same(term[w.call], term[w.call])
  BY DEF Same
<1> QED
  BY <1>1, <1>2, <1>3, JoiningBase DEF Exited, TakeReaders

LEMMA JoinedBase == ASSUME Base, Host, NEW w \in Worker, Joined(w), Exists(w.call) PROVE Base'
<1>1. w \in workers /\ w.call \in Command /\ doomed' = doomed
  BY WorkerParts DEF Joined
<1>2. PICK v \in Worker : Replaces(w, v) /\ Turned(w, v, "done", TRUE)
  BY BaseShape, JoinedSays
<1>3. PICK x \in Terminal, y \in Terminal :
        /\ Same(x, term[w.call]) /\ x.listed = (w.op = "wait" /\ term[w.call].listed)
        /\ Posted(w.call, x, y)
  BY BaseShape, JoinedSays
<1>4. x.read <= x.wrote /\ x.run <= run /\ (w.call \in doomed' => ~x.listed)
  BY <1>1, <1>3 DEF Base, TermOK, DoomOK, Same
<1>5. TermOK' /\ DoomOK' /\ BoxOK' /\ CrewOK'
  BY <1>1, <1>2, <1>3, <1>4, PostedKeeps, CrewGoes DEF Base, Host, Turned
<1> QED
  BY <1>5, Frames DEF Base, Host, Joined

LEMMA CreateBase == ASSUME Base, Host, NEW w \in Worker, NEW cleared, Create(w, cleared) PROVE Base'
<1>1. w \in workers /\ ~Exists(w.call) /\ w.call \in Command /\ w.run \in Run /\ w.run <= run
  BY WorkerParts DEF Create, Base, CrewOK
<1>2. PICK v \in Worker :
        /\ Replaces(w, v)
        /\ \/ Turned(w, v, "done", TRUE) /\ term' = [term EXCEPT ![w.call] = Started(w.run)]
           \/ Turned(w, v, "done", FALSE) /\ term' = term
  BY BaseShape, CreateSays
<1>3. CrewOK' /\ doomed' = doomed
  BY <1>1, <1>2, CrewGoes DEF Base, Host, Turned, Create
<1>4. w.call \notin doomed
  BY <1>1 DEF Base, DoomOK
<1>5. TermOK' /\ DoomOK'
  <2>1. CASE term' = [term EXCEPT ![w.call] = Started(w.run)]
    <3>1. Started(w.run).read <= Started(w.run).wrote
      BY <1>1, StartedParts
    <3> QED
      BY <1>1, <1>3, <1>4, <2>1, <3>1, StartedParts, TermKept DEF Base, Host
  <2>2. CASE term' = term
    BY <1>3, <2>2, Frames DEF Base, Host
  <2> QED
    BY <1>2, <2>1, <2>2
<1> QED
  BY <1>3, <1>5, Frames DEF Base, Host, Create

\* Answers that come are of the kind that can be awaited.
LEMMA AnsweredTyped ==
  ASSUME MailOK, NEW c \in Command, NEW op, NEW answer \in {"yes", "no", "once", "always"},
         Answered(c, op, answer)
  PROVE  /\ MailOK'
         /\ \A d \in Command : mail'[d].op = mail[d].op
         /\ \A d \in Command : d # c => mail'[d] = mail[d]
         /\ mail'[c] = mail[c] \/ (mail[c] = Awaits(op) /\ mail'[c].answer = answer)
<1>1. CASE mail[c] = Awaits(op)
  <2>1. mail' = [mail EXCEPT ![c].answer = answer]
    BY <1>1 DEF Answered
  <2> QED
    BY <1>1, <2>1 DEF MailOK, Mail
<1>2. CASE mail[c] # Awaits(op)
  <2>1. mail' = mail
    BY <1>2 DEF Answered
  <2> QED
    BY <2>1 DEF MailOK
<1> QED
  BY <1>1, <1>2

LEMMA RespondBase == ASSUME Base, Host, NEW w \in Worker, Respond(w) PROVE Base'
<1>0. w \in workers /\ workers' = workers \ {w} /\ w.call \in Command /\ w.run \in Run
  BY WorkerParts DEF Respond
<1>1. CrewOK'
  BY <1>0 DEF Base, CrewOK, Host
<1>2. TermOK' /\ DoomOK' /\ MailOK'
  <2>1. CASE live # w.run /\ ReleaseRun(w.run) /\ mail' = mail
    BY <1>0, <2>1, ReleaseKeeps, Frames DEF Base, Host
  <2>2. ASSUME NEW y \in Terminal, Responds(w, y)
        PROVE  TermOK' /\ DoomOK' /\ MailOK'
    <3>1. MailOK'
      <4> DEFINE a == IF w.ok THEN "yes" ELSE "no"
      <4>1. a \in {"yes", "no", "once", "always"} /\ Answered(w.call, w.op, a)
        BY <2>2 DEF Responds
      <4> HIDE DEF a
      <4> QED
        BY <1>0, <4>1, AnsweredTyped DEF Base
    <3>2. CASE term' = term
      BY <2>2, <3>1, <3>2, Frames DEF Base, Host, Responds
    <3>3. CASE term' # term
      <4>1. Listed(w.run, w.call) /\ term' = [term EXCEPT ![w.call] = y]
            /\ y.run = term[w.call].run /\ y.wrote = term[w.call].wrote
            /\ y.read = term[w.call].read /\ y.listed = term[w.call].listed /\ doomed' = doomed
        BY <2>2, <3>3 DEF Responds
      <4>2. term[w.call] \in Terminal /\ Exists(w.call)
        BY <1>0, <4>1 DEF Listed, Exists, Base, TermOK
      <4> QED
        BY <1>0, <3>1, <4>1, <4>2, TermKept DEF Base, TermOK, DoomOK, Host
    <3> QED
      BY <3>2, <3>3
  <2> QED
    BY <2>1, <2>2, BaseShape, RespondSays
<1> QED
  BY <1>1, <1>2, Frames DEF Base, Host, Respond

-----------------------------------------------------------------------------
(* The inbound worker, users and the ends of runs. *)

\* The message at the head.
LEMMA HeadIs ==
  ASSUME Base, NEW r \in Run, NEW what, Next1(r, what)
  PROVE  /\ inbox[r] # <<>> /\ Head(inbox[r]) \in Message /\ Head(inbox[r]).what \in what
         /\ r <= run /\ inbox[r] \in Seq(Message)
BY TailTyped DEF Base, BoxOK, Next1

LEMMA HearRequestBase == ASSUME Base, Host, NEW r \in Run, HearRequest(r) PROVE Base'
<1>1. inbox[r] # <<>> /\ Head(inbox[r]) \in Message /\ Head(inbox[r]).what \in Requests /\ r <= run
  BY HeadIs DEF HearRequest
<1>2. Thread(r, Head(inbox[r])) \in Worker /\ Thread(r, Head(inbox[r])).run = r
  BY <1>1, ThreadParts
<1>3. workers' = workers \cup {Thread(r, Head(inbox[r]))}
  BY DEF HearRequest
<1>4. CrewOK'
  BY <1>1, <1>2, <1>3 DEF Base, CrewOK, Host
<1>5. BoxOK'
  BY <1>1, BoxTail DEF Base, Host, HearRequest, Handled
<1> QED
  BY <1>4, <1>5, Frames DEF Base, Host, HearRequest

LEMMA HearAskBase == ASSUME Base, Host, NEW r \in Run, HearAsk(r) PROVE Base'
<1>1. inbox[r] # <<>> /\ Head(inbox[r]) \in Message /\ Head(inbox[r]).what = "ask"
  BY HeadIs DEF HearAsk
<1>2. Head(inbox[r]).call \in Command
  BY <1>1, MessageParts
<1>3. BoxOK'
  BY <1>1, BoxTail DEF Base, Host, HearAsk, Handled
<1>4. TalkOK'
  BY <1>2 DEF Base, TalkOK, HearAsk
<1> QED
  BY <1>3, <1>4, Frames DEF Base, Host, HearAsk

LEMMA HearUpdateBase == ASSUME Base, Host, NEW r \in Run, HearUpdate(r) PROVE Base'
<1>1. inbox[r] # <<>> /\ Head(inbox[r]) \in Message /\ Head(inbox[r]).what = "update"
  BY HeadIs DEF HearUpdate
<1>2. Head(inbox[r]).call \in Command /\ Head(inbox[r]).snap \in Snapshot
  BY <1>1, MessageParts
<1>3. BoxOK'
  BY <1>1, BoxTail DEF Base, Host, HearUpdate, Handled
<1>4. PartOK'
  BY <1>2 DEF Base, PartOK, HearUpdate
<1> QED
  BY <1>3, <1>4, Frames DEF Base, Host, HearUpdate

LEMMA HearBindBase == ASSUME Base, Host, NEW r \in Run, HearBind(r) PROVE Base'
<1> DEFINE c == Head(inbox[r]).call
<1>1. inbox[r] # <<>> /\ c \in Command /\ doomed' = doomed
  <2>1. inbox[r] # <<>> /\ c \in Command
    BY BaseShape, BindSays, Zenon
  <2>2. doomed' = doomed
    BY DEF HearBind
  <2> QED
    BY <2>1, <2>2
<1>2. CASE inbox' = [inbox EXCEPT ![r] = Tail(@)] /\ term' = term
  <2>1. BoxOK'
    BY <1>1, <1>2, BoxTail DEF Base, Host
  <2> QED
    BY <1>2, <2>1, Frames DEF Base, Host, HearBind
<1>3. ASSUME Listed(r, c), NEW y \in Terminal, Binds(r, c, y)
      PROVE  Base'
  <2>1. Exists(c) /\ term[c] \in Terminal
    BY <1>1, <1>3 DEF Listed, Exists, Base, TermOK
  <2>2. y.run = term[c].run /\ y.wrote = term[c].wrote /\ y.read = term[c].read
    BY <1>3, <2>1 DEF Binds, Same, Terminal
  <2>3. term' = [term EXCEPT ![c] = y] /\ y.listed = term[c].listed
    BY <1>3 DEF Binds
  <2>4. TermOK' /\ DoomOK'
    BY <1>1, <2>1, <2>2, <2>3, TermKept DEF Base, TermOK, DoomOK, Host
  <2>5. Tail(inbox[r]) \in Seq(Message) /\ r <= run
    BY <1>1, TailTyped DEF Base, BoxOK
  <2>6. Update(c, Snap(y)) \in Message
    BY <1>1, TerminalParts, Messages
  <2>7. Append(Tail(inbox[r]), Update(c, Snap(y))) \in Seq(Message)
    BY <2>5, <2>6
  <2>8. \E s \in Seq(Message) : inbox' = [inbox EXCEPT ![r] = s]
    BY <1>3, <2>5, <2>7 DEF Binds
  <2>9. BoxOK'
    BY <2>5, <2>8 DEF Base, BoxOK, Host
  <2> QED
    BY <2>4, <2>9, Frames DEF Base, Host, HearBind
<1> QED
  BY <1>2, <1>3, BaseShape, BindSays

LEMMA HearGoneBase == ASSUME Base, Host, NEW r \in Run, HearGone(r) PROVE Base'
<1>1. inbox[r] # <<>> /\ r <= run /\ Tail(inbox[r]) \in Seq(Message)
  BY HeadIs, TailTyped DEF HearGone
<1>2. <<Msg("detach", Nil)>> \o Tail(inbox[r]) \in Seq(Message)
  BY <1>1, Messages
<1>3. BoxOK'
  <2> DEFINE q == <<Msg("detach", Nil)>> \o Tail(inbox[r])
  <2>1. inbox' = [inbox EXCEPT ![r] = q]
    BY DEF HearGone
  <2> HIDE DEF q
  <2>2. q \in Seq(Message)
    BY <1>2 DEF q
  <2> QED
    BY <1>1, <2>1, <2>2 DEF Base, BoxOK, Host
<1>4. TermOK' /\ DoomOK'
  BY ReleaseKeeps DEF Base, Host, HearGone
<1> QED
  BY <1>3, <1>4, Frames DEF Base, Host, HearGone

LEMMA DetachBase == ASSUME Base, Host, NEW r \in Run, Detach(r) PROVE Base'
<1>1. inbox[r] # <<>>
  BY HeadIs DEF Detach
<1>2. BoxOK'
  BY <1>1, BoxTail DEF Base, Host, Detach, Handled
<1>3. 0 \notin stopped
  BY DEF Base, LifeOK, Run
<1>4. LifeOK'
  BY <1>3, HostConstants DEF Base, LifeOK, Host, Detach, HostConstants
<1>5. TalkOK'
  BY DEF Base, TalkOK, Detach
<1> QED
  BY <1>2, <1>4, <1>5, Frames DEF Base, Host, Detach

LEMMA ClaimBase == ASSUME Base, Host, NEW c \in Command, Claim(c) PROVE Base'
<1>1. PICK allow \in {"no", "once", "always"} :
        answers' = answers \cup {[call |-> c, run |-> live, allow |-> allow, recorded |-> FALSE]}
  BY DEF Claim
<1>2. live \in 0..MaxRun
  BY DEF Base, LifeOK
<1>3. [call |-> c, run |-> live, allow |-> allow, recorded |-> FALSE] \in
        [call : Command, run : 0..MaxRun, allow : {"no", "once", "always"}, recorded : BOOLEAN]
  BY <1>1, <1>2
<1>4. TalkOK'
  <2> DEFINE a == [call |-> c, run |-> live, allow |-> allow, recorded |-> FALSE]
             R == [call : Command, run : 0..MaxRun, allow : {"no", "once", "always"},
                   recorded : BOOLEAN]
  <2>1. a \in R /\ answers' = answers \cup {a} /\ answers \subseteq R
    BY <1>1, <1>3 DEF Base, TalkOK
  <2> HIDE DEF a, R
  <2>2. answers' \subseteq R
    BY <2>1
  <2> QED
    BY <2>2 DEF Base, TalkOK, Claim, R
<1> QED
  BY <1>4, Frames DEF Base, Host, Claim

LEMMA RecordBase == ASSUME Base, Host, NEW a \in answers, Record(a) PROVE Base'
<1>1. [a EXCEPT !.recorded = TRUE] \in
        [call : Command, run : 0..MaxRun, allow : {"no", "once", "always"}, recorded : BOOLEAN]
  BY DEF Base, TalkOK
<1>2. answers' = (answers \ {a}) \cup {[a EXCEPT !.recorded = TRUE]}
  BY DEF Record
<1>3. TalkOK'
  BY <1>1, <1>2 DEF Base, TalkOK, Record
<1> QED
  BY <1>3, Frames DEF Base, Host, Record

LEMMA TellBase == ASSUME Base, Host, NEW a \in answers, Tell(a) PROVE Base'
<1>1. a.call \in Command /\ a.allow \in {"no", "once", "always"}
  BY DEF Base, TalkOK
<1>2. MailOK'
  BY <1>1, AnsweredTyped DEF Base, Tell
<1>3. TalkOK'
  BY DEF Base, TalkOK, Tell
<1> QED
  BY <1>2, <1>3, Frames DEF Base, Host, Tell

LEMMA StopRunBase == ASSUME Base, Host, NEW r \in Run, StopRun(r) PROVE Base'
<1>1. 0 \notin stopped
  BY DEF Base, LifeOK, Run
<1>2. LifeOK'
  BY <1>1, HostConstants DEF Base, LifeOK, Host, StopRun, HostConstants, Run
<1>3. TalkOK'
  BY DEF Base, TalkOK, StopRun
<1> QED
  BY <1>2, <1>3, Frames DEF Base, Host, StopRun

LEMMA StopReleasesBase == ASSUME Base, Host, NEW r \in Run, StopReleases(r) PROVE Base'
<1>1. LifeOK'
  BY HostConstants DEF Base, LifeOK, Host, StopReleases, HostConstants
<1>2. TermOK' /\ DoomOK'
  BY ReleaseKeeps DEF Base, Host, StopReleases
<1> QED
  BY <1>1, <1>2, Frames DEF Base, Host, StopReleases

-----------------------------------------------------------------------------
(* The agent. *)

\* A call at work is that of a process that is there, so its run is known.
LEMMA BusyRuns ==
  ASSUME Base, NEW c \in Command, tool[c].at \notin {"none", "done", "dead"}
  PROVE  Busy(c) /\ up /\ run \in Run
BY HostConstants DEF Base, ToolOK, LifeOK, Busy, Run, HostConstants

Working == {"start", "cleared", "asking", "creating", "waiting", "killing", "reading", "releasing"}

\* A call goes to another place and sends one message.
LEMMA SendBase ==
  ASSUME Base, NEW c \in Command, Busy(c), NEW t \in Tool, t.at \in Working,
         tool' = [tool EXCEPT ![c] = t], AgentOnly, slow' \in Nat,
         NEW what \in Requests \cup {"ask"}, Sends(c, <<what>>)
  PROVE  /\ Base'
         /\ inbox' = [inbox EXCEPT ![run] = Append(@, Msg(what, c))]
         /\ mail' = [mail EXCEPT ![c] = Awaits(what)]
         /\ run \in Run
<1>1. run \in Run
  BY BusyRuns DEF Busy
<1>2. /\ inbox' = [inbox EXCEPT ![run] = Append(@, Msg(what, c))]
      /\ mail' = [mail EXCEPT ![c] = Awaits(what)] /\ full' = full
  BY <1>1, BaseShape, SendsOne
<1>3. Msg(what, c) \in Message
  BY Messages
<1>4. run <= run
  BY DEF Base, LifeOK
<1>5. BoxOK'
  BY <1>1, <1>2, <1>3, <1>4, BoxAppend DEF Base, AgentOnly
<1>6. MailOK'
  BY <1>2, AwaitsParts DEF Base, MailOK
<1>7. ToolOK'
  BY DEF Base, ToolOK, Busy, AgentOnly
<1>8. LifeOK'
  BY <1>2 DEF Base, LifeOK, AgentOnly
<1> QED
  BY <1>1, <1>2, <1>5, <1>6, <1>7, <1>8, Frames DEF Base, AgentOnly

LEMMA SendTwoBase ==
  ASSUME Base, NEW c \in Command, Busy(c), NEW t \in Tool, t.at \in Working,
         tool' = [tool EXCEPT ![c] = t], AgentOnly, slow' \in Nat, Sends(c, <<"bind", "wait">>)
  PROVE  /\ Base'
         /\ inbox' = [inbox EXCEPT ![run] = Append(Append(@, Msg("bind", c)), Msg("wait", c))]
         /\ mail' = [mail EXCEPT ![c] = Awaits("wait")]
         /\ run \in Run
<1>1. run \in Run /\ inbox[run] \in Seq(Message)
  BY BusyRuns DEF Busy, Base, BoxOK
<1>2. /\ inbox' = [inbox EXCEPT ![run] = Append(Append(@, Msg("bind", c)), Msg("wait", c))]
      /\ mail' = [mail EXCEPT ![c] = Awaits("wait")] /\ full' = full
  BY <1>1, BaseShape, SendsTwo
<1>3. Msg("bind", c) \in Message /\ Msg("wait", c) \in Message
  BY Messages DEF Requests
<1>4. Append(Append(inbox[run], Msg("bind", c)), Msg("wait", c)) \in Seq(Message)
  BY <1>1, <1>3
<1>5. BoxOK'
  <2>1. inbox' \in [Run -> Seq(Message)]
    BY <1>1, <1>2, <1>4 DEF Base, BoxOK
  <2>2. \A s \in Run : s # run => inbox'[s] = inbox[s]
    BY <1>1, <1>2 DEF Base, BoxOK
  <2>3. run' = run /\ run <= run
    BY DEF Base, LifeOK, AgentOnly
  <2> QED
    BY <2>1, <2>2, <2>3 DEF Base, BoxOK
<1>6. MailOK'
  BY <1>2, AwaitsParts DEF Base, MailOK, Requests
<1>7. ToolOK'
  BY DEF Base, ToolOK, Busy, AgentOnly
<1>8. LifeOK'
  BY <1>2 DEF Base, LifeOK, AgentOnly
<1> QED
  BY <1>1, <1>2, <1>5, <1>6, <1>7, <1>8, Frames DEF Base, AgentOnly

LEMMA LeaveBase ==
  ASSUME Base, NEW c \in Command, Leaves(c), full' \in BOOLEAN, slow' \in Nat
  PROVE  /\ Base' /\ inbox' = inbox
         /\ \E t \in Tool : t.at = "done" /\ t.exited = tool[c].exited /\ tool' = [tool EXCEPT ![c] = t]
         /\ mail' = [mail EXCEPT ![c] = Awaits("none")]
<1> DEFINE t == Over(c, "done")
<1>1. t \in Tool /\ t.at = "done" /\ t.exited = tool[c].exited
  BY DEF Base, ToolOK, Over, Tool
<1>2. tool' = [tool EXCEPT ![c] = t] /\ inbox' = inbox /\ mail' = [mail EXCEPT ![c] = Awaits("none")]
  BY DEF Leaves
<1> HIDE DEF t
<1>3. ToolOK'
  BY <1>1, <1>2 DEF Base, ToolOK, Busy, Leaves, AgentOnly
<1>4. MailOK'
  BY <1>2, AwaitsParts DEF Base, MailOK
<1>5. LifeOK'
  BY DEF Base, LifeOK, Leaves, AgentOnly
<1> QED
  BY <1>1, <1>2, <1>3, <1>4, <1>5, Frames DEF Base, Leaves, AgentOnly

LEMMA MoveBase ==
  ASSUME Base, NEW c \in Command, Busy(c), NEW t \in Tool, t.at \in Working,
         tool' = [tool EXCEPT ![c] = t], AgentOnly, UNCHANGED <<inbox, mail>>,
         full' \in BOOLEAN, slow' \in Nat
  PROVE  Base'
<1>1. ToolOK'
  BY DEF Base, ToolOK, Busy, AgentOnly
<1>2. LifeOK'
  BY DEF Base, LifeOK, AgentOnly
<1> QED
  BY <1>1, <1>2, Frames DEF Base, AgentOnly

-----------------------------------------------------------------------------
(* The ways a call goes on. *)

Stepped(c, t) == tool' = [tool EXCEPT ![c] = t] /\ AgentOnly /\ slow' \in Nat /\ full' \in BOOLEAN
Follows(from, to, what) ==
  <<from, to, what>> \in {<<"start", "asking", "ask">>, <<"cleared", "creating", "create">>,
                          <<"waiting", "reading", "output">>, <<"waiting", "killing", "kill">>,
                          <<"killing", "reading", "output">>, <<"reading", "releasing", "release">>}

Left(c) == Leaves(c) /\ Busy(c) /\ full' \in BOOLEAN /\ slow' \in Nat
Moved(c, t) ==
  /\ Stepped(c, t) /\ tool[c].at \in {"start", "asking"} /\ t.at = "cleared"
  /\ t.exited = tool[c].exited /\ UNCHANGED <<inbox, mail>>
Sent(c, t, what) ==
  /\ Stepped(c, t) /\ Sends(c, <<what>>) /\ Follows(tool[c].at, t.at, what)
  /\ \/ t.exited = tool[c].exited
     \/ tool[c].at = "waiting" /\ what = "output" /\ t.exited = Got(c, "yes")
SentTwo(c, t) ==
  /\ Stepped(c, t) /\ Sends(c, <<"bind", "wait">>)
  /\ tool[c].at = "creating" /\ t.at = "waiting" /\ t.exited = tool[c].exited /\ Got(c, "yes")

LEMMA ToolMoves ==
  ASSUME Base, NEW c \in Command, NEW at \in Working
  PROVE  /\ [tool[c] EXCEPT !.at = at] \in Tool
         /\ [tool[c] EXCEPT !.at = at].at = at
         /\ [tool[c] EXCEPT !.at = at].exited = tool[c].exited
BY DEF Base, ToolOK, Tool, Working

LEMMA GoesSays ==
  ASSUME Base, NEW c \in Command, NEW at \in Working, Goes(c, at), slow' \in Nat, full' \in BOOLEAN
  PROVE  \E t \in Tool : Stepped(c, t) /\ t.at = at /\ t.exited = tool[c].exited
<1> DEFINE t == [tool[c] EXCEPT !.at = at]
<1>1. t \in Tool /\ t.at = at /\ t.exited = tool[c].exited
  BY ToolMoves
<1>2. tool' = [tool EXCEPT ![c] = t]
  BY DEF Goes
<1> HIDE DEF t
<1> QED
  BY <1>1, <1>2 DEF Stepped, Goes

LEMMA SendSays ==
  ASSUME Base, NEW c \in Command, NEW at \in Working, NEW what,
         Goes(c, at), Sends(c, <<what>>), slow' \in Nat, Follows(tool[c].at, at, what)
  PROVE  \E t \in Tool : Sent(c, t, what)
<1>1. full' \in BOOLEAN
  BY DEF Base, LifeOK, Sends
<1>2. PICK t \in Tool : Stepped(c, t) /\ t.at = at /\ t.exited = tool[c].exited
  BY <1>1, GoesSays
<1> QED
  BY <1>2 DEF Sent

\* The step of a call is one of these.
LEMMA ToolSays ==
  ASSUME Base, NEW c \in Command, ToolStep(c)
  PROVE  \/ Left(c)
         \/ \E t \in Tool : Moved(c, t) \/ SentTwo(c, t)
         \/ \E t \in Tool : \E what \in Requests \cup {"ask"} : Sent(c, t, what)
<1>0. slow' \in Nat
  BY DEF Base, LifeOK, ToolStep, Late
<1>00. full \in BOOLEAN
  BY DEF Base, LifeOK
<1> USE DEF At
<1>1. CASE Alone(c)
  BY <1>0, <1>00, <1>1 DEF Alone, Left, Busy
<1>2. CASE Clear(c)
  <2> DEFINE t == [tool[c] EXCEPT !.at = "cleared", !.auto = TRUE]
  <2>1. t \in Tool /\ t.at = "cleared" /\ t.exited = tool[c].exited
    BY DEF Base, ToolOK, Tool
  <2>2. tool' = [tool EXCEPT ![c] = t]
    BY <1>2 DEF Clear
  <2> HIDE DEF t
  <2>3. Moved(c, t)
    BY <1>0, <1>00, <1>2, <2>1, <2>2 DEF Clear, Moved, Stepped, Silent
  <2> QED
    BY <2>1, <2>3
<1>3. CASE Ask(c)
  <2>1. Goes(c, "asking") /\ Sends(c, <<"ask">>) /\ tool[c].at = "start"
    BY <1>3 DEF Ask
  <2>2. Follows(tool[c].at, "asking", "ask") /\ "asking" \in Working
    BY <2>1 DEF Follows, Working
  <2> QED
    BY <1>0, <2>1, <2>2, SendSays
<1>4. CASE Allowed(c)
  <2>1. CASE Leaves(c) /\ UNCHANGED full
    BY <1>0, <1>00, <1>4, <2>1 DEF Allowed, Left, Busy
  <2>2. CASE Goes(c, "cleared") /\ UNCHANGED <<inbox, mail>> /\ full' \in BOOLEAN
    <3>1. PICK t \in Tool : Stepped(c, t) /\ t.at = "cleared" /\ t.exited = tool[c].exited
      BY <1>0, <2>2, GoesSays DEF Working
    <3>2. Moved(c, t)
      BY <1>4, <2>2, <3>1 DEF Allowed, Moved
    <3> QED
      BY <3>2
  <2> QED
    BY <1>00, <1>4, <2>1, <2>2 DEF Allowed, Silent
<1>5. CASE RunCommand(c)
  <2>1. Goes(c, "creating") /\ Sends(c, <<"create">>) /\ tool[c].at = "cleared"
    BY <1>5 DEF RunCommand
  <2>2. Follows(tool[c].at, "creating", "create") /\ "creating" \in Working /\ "create" \in Requests
    BY <2>1 DEF Follows, Working, Requests
  <2> QED
    BY <1>0, <2>1, <2>2, SendSays
<1>6. CASE Created(c)
  <2>1. CASE Leaves(c) /\ UNCHANGED full
    BY <1>0, <1>00, <1>6, <2>1 DEF Created, Left, Busy
  <2>2. CASE Got(c, "yes") /\ Goes(c, "waiting") /\ Sends(c, <<"bind", "wait">>)
    <3>1. full' \in BOOLEAN
      BY <1>00, <2>2 DEF Sends
    <3>2. PICK t \in Tool : Stepped(c, t) /\ t.at = "waiting" /\ t.exited = tool[c].exited
      BY <1>0, <2>2, <3>1, GoesSays DEF Working
    <3>3. SentTwo(c, t)
      BY <1>6, <2>2, <3>2 DEF Created, SentTwo
    <3> QED
      BY <3>3
  <2> QED
    BY <1>6, <2>1, <2>2 DEF Created
<1>7. CASE Waited(c)
  <2> DEFINE e == Got(c, "yes")
             t == [tool[c] EXCEPT !.at = "reading", !.exited = e]
  <2>0. e \in BOOLEAN
    BY DEF Got
  <2>00. tool' = [tool EXCEPT ![c] = t]
    BY <1>7 DEF Waited
  <2> HIDE DEF e
  <2>1. t \in Tool /\ t.at = "reading" /\ t.exited = e
    BY <2>0 DEF Base, ToolOK, Tool
  <2> HIDE DEF t
  <2>2. AgentOnly /\ Sends(c, <<"output">>) /\ tool[c].at = "waiting" /\ full' \in BOOLEAN
    BY <1>00, <1>7 DEF Waited, Sends
  <2>3. Sent(c, t, "output")
    BY <1>0, <2>00, <2>1, <2>2 DEF Sent, Stepped, Follows, e
  <2> QED
    BY <2>1, <2>3 DEF Requests
<1>8. CASE Cancelled(c)
  <2>1. CASE Leaves(c) /\ UNCHANGED full /\ tool[c].at \in {"asking", "cleared"}
    BY <1>0, <1>00, <1>8, <2>1 DEF Cancelled, Left, Busy
  <2>2. CASE Goes(c, "killing") /\ Sends(c, <<"kill">>) /\ tool[c].at = "waiting"
    <3>1. Follows(tool[c].at, "killing", "kill") /\ "killing" \in Working /\ "kill" \in Requests
      BY <2>2 DEF Follows, Working, Requests
    <3> QED
      BY <1>0, <2>2, <3>1, SendSays
  <2> QED
    BY <1>8, <2>1, <2>2 DEF Cancelled
<1>9. CASE Cleanup(c)
  <2>1. CASE Leaves(c) /\ UNCHANGED full /\ tool[c].at = "releasing"
    BY <1>0, <1>00, <2>1 DEF Left, Busy
  <2>2. CASE Goes(c, "reading") /\ Sends(c, <<"output">>) /\ tool[c].at = "killing"
    <3>1. Follows(tool[c].at, "reading", "output") /\ "reading" \in Working /\ "output" \in Requests
      BY <2>2 DEF Follows, Working, Requests
    <3> QED
      BY <1>0, <2>2, <3>1, SendSays
  <2>3. CASE Goes(c, "releasing") /\ Sends(c, <<"release">>) /\ tool[c].at = "reading"
    <3>1. Follows(tool[c].at, "releasing", "release") /\ "releasing" \in Working /\ "release" \in Requests
      BY <2>3 DEF Follows, Working, Requests
    <3> QED
      BY <1>0, <2>3, <3>1, SendSays
  <2> QED
    BY <1>9, <2>1, <2>2, <2>3 DEF Cleanup
<1>10. CASE GiveUp(c)
  BY <1>0, <1>00, <1>10 DEF GiveUp, Left
<1> QED
  BY <1>1, <1>2, <1>3, <1>4, <1>5, <1>6, <1>7, <1>8, <1>9, <1>10 DEF ToolStep

LEMMA ToolBase == ASSUME Base, NEW c \in Command, ToolStep(c) PROVE Base'
<1>1. CASE Left(c)
  BY <1>1, LeaveBase DEF Left
<1>2. ASSUME NEW t \in Tool, Moved(c, t)
      PROVE  Base'
  BY <1>2, MoveBase DEF Moved, Stepped, Busy, Working
<1>3. ASSUME NEW t \in Tool, SentTwo(c, t)
      PROVE  Base'
  BY <1>3, SendTwoBase DEF SentTwo, Stepped, Busy, Working
<1>4. ASSUME NEW t \in Tool, NEW what \in Requests \cup {"ask"}, Sent(c, t, what)
      PROVE  Base'
  <2>1. t.at \in Working /\ Busy(c)
    BY <1>4 DEF Sent, Follows, Working, Busy
  <2> QED
    BY <1>4, <2>1, SendBase DEF Sent, Stepped
<1> QED
  BY <1>1, <1>2, <1>3, <1>4, ToolSays

LEMMA BeginBase == ASSUME Base, NEW c \in Command, Begin(c) PROVE Base'
<1> DEFINE t == [tool[c] EXCEPT !.at = "start"]
<1>1. t \in Tool /\ t.at = "start"
  BY DEF Base, ToolOK, Tool
<1>2. tool' = [tool EXCEPT ![c] = t]
  BY DEF Begin
<1> HIDE DEF t
<1>3. ToolOK'
  BY <1>1, <1>2 DEF Base, ToolOK, Busy, Begin
<1>4. LifeOK'
  BY DEF Base, LifeOK, Begin, hostVars
<1> QED
  BY <1>3, <1>4, Frames DEF Base, Begin, hostVars

LEMMA StopTurnBase == ASSUME Base, StopTurn PROVE Base'
<1>1. LifeOK'
  BY DEF Base, LifeOK, StopTurn, hostVars
<1> QED
  BY <1>1, Frames DEF Base, StopTurn, hostVars

LEMMA StartBase == ASSUME Base, Start PROVE Base'
<1>0. MaxRun \in Nat /\ Nat \subseteq Int
  BY HostConstants DEF HostConstants
<1>1. run \in 0..MaxRun /\ run' = run + 1 /\ run < MaxRun /\ live' = run'
  BY DEF Base, LifeOK, Start
<1>2. run' \in 0..MaxRun /\ run' > 0 /\ run < run'
  BY <1>0, <1>1
<1>3. \A r \in Run : r <= run => r <= run'
  BY <1>0, <1>1 DEF Run
<1>4. stopped' = stopped /\ stopped \subseteq Run /\ \A r \in stopped : r <= run
  BY DEF Base, LifeOK, Start
<1>5. run' \notin stopped
  BY <1>0, <1>1, <1>2, <1>4
<1>6. LifeOK'
  BY <1>1, <1>2, <1>3, <1>4, <1>5 DEF Base, LifeOK, Start
<1>7. TermOK'
  BY <1>3, TerminalParts DEF Base, TermOK, Start, Exists
<1>8. BoxOK' /\ CrewOK'
  BY <1>3, WorkerParts DEF Base, BoxOK, CrewOK, Start
<1>9. ToolOK'
  BY DEF Base, ToolOK, Start, Busy
<1> QED
  BY <1>6, <1>7, <1>8, <1>9, Frames DEF Base, Start

LEMMA DiesBase ==
  ASSUME Base, Dies
  PROVE  /\ Base' /\ run \in Run
         /\ inbox' = [inbox EXCEPT ![run] = Append(@, Gone)]
         /\ \A c \in Command :
              /\ mail'[c] = Awaits("none")
              /\ tool'[c].at = IF Busy(c) THEN "dead" ELSE tool[c].at
              /\ tool'[c].exited = tool[c].exited
<1>1. run \in Run /\ run <= run /\ run' = run
  BY HostConstants DEF Base, LifeOK, Dies, Run, HostConstants
<1>2. BoxOK'
  BY <1>1, Messages, BoxAppend DEF Base, Dies
<1>3. \A c \in Command :
        /\ Over(c, "dead") \in Tool /\ Over(c, "dead").at = "dead"
        /\ Over(c, "dead").exited = tool[c].exited /\ tool[c] \in Tool
  BY DEF Base, ToolOK, Over, Tool
<1>4. tool' = [c \in Command |-> IF Busy(c) THEN Over(c, "dead") ELSE tool[c]]
  BY DEF Dies
<1>5. \A c \in Command : tool'[c] = IF Busy(c) THEN Over(c, "dead") ELSE tool[c]
  BY <1>4
<1>6. tool' \in [Command -> Tool]
  BY <1>3, <1>4
<1>7. \A c \in Command : ~Busy(c)'
  BY <1>3, <1>5 DEF Busy
<1>8. ToolOK'
  BY <1>6, <1>7 DEF ToolOK
<1>9. mail' = [c \in Command |-> Awaits("none")]
  BY DEF Dies
<1>10. MailOK'
  BY <1>9, AwaitsParts DEF MailOK
<1>11. LifeOK'
  BY DEF Base, LifeOK, Dies
<1>12. Base'
  BY <1>2, <1>8, <1>10, <1>11, Frames DEF Base, Dies
<1> QED
  BY <1>1, <1>3, <1>5, <1>9, <1>12 DEF Dies

-----------------------------------------------------------------------------
(* Where threads are, and what a stop leaves. *)

\* A terminal stays that of its run, and its command does not come back.
Ages ==
  \A d \in Command : Exists(d) =>
    Exists(d)' /\ term'[d].run = term[d].run /\ (term'[d].running => term[d].running)

LEMMA AgesAll ==
  ASSUME TermOK, NEW c \in Command, NEW y \in Terminal, term' = [term EXCEPT ![c] = y],
         Exists(c) => y.run = term[c].run /\ (y.running => term[c].running)
  PROVE  Ages
BY TermSet DEF Ages, Exists

LEMMA AgesReleased ==
  ASSUME TermOK, NEW r \in Run, ReleaseRun(r)
  PROVE  /\ Ages
         /\ \A d \in Command : Exists(d)' => Exists(d)
         /\ \A d \in Command : Exists(d) =>
              /\ term'[d].running = term[d].running
              /\ term'[d].listed => term[d].listed /\ term[d].run # r
              /\ Listed(r, d) => d \in doomed'
              /\ term[d].run # r => term'[d] = term[d]
<1>1. /\ doomed' = doomed \cup {c \in Command : Listed(r, c)}
      /\ \A c \in Command :
           /\ Listed(r, c) => term'[c] \in Terminal /\ Delisted(term'[c], term[c])
           /\ ~Listed(r, c) => term'[c] = term[c]
  BY ReleaseSays DEF TermOK
<1>2. \A c \in Command : Listed(r, c) => Exists(c) /\ term[c].run = r
  BY DEF Listed
<1> QED
  BY <1>1, <1>2, TerminalParts DEF Ages, Delisted, Exists, Listed

LEMMA Still ==
  ASSUME term' = term
  PROVE  Ages /\ \A d \in Command : Exists(d)' => Exists(d)
BY DEF Ages, Exists

\* Where a thread is says what it serves, and what it has seen.
Fits(w) ==
  /\ w.at = "live" => w.op = "create"
  /\ w.at = "poll" => w.op = "wait"
  /\ w.at \in {"join", "join none"} => w.op \in {"wait", "release"}
  /\ w.at \in {"poll", "join", "join none"} => Exists(w.call)
  /\ w.op \in {"release"} /\ w.at \in {"join", "join none"} => ~term[w.call].running
Dooms == \A c \in Command : Exists(c) /\ ~term[c].listed /\ term[c].running => c \in doomed

LEMMA PlacesIs == Places <=> (\A w \in workers : Fits(w)) /\ Dooms
BY DEF Places, Fits, Dooms

LEMMA FitsOn == ASSUME Ages, NEW w \in Worker, Fits(w) PROVE Fits(w)'
BY WorkerParts DEF Ages, Fits

Rests == Places /\ StoppedRunsNothing

\* The steps that end no run: threads that are there go on, and what is taken
\* out of the table is to be killed.
LEMMA RestsOn ==
  ASSUME Rests, Ages, UNCHANGED <<stopped, stopping>>,
         \A v \in workers' : Fits(v)',
         \A w \in workers : \E v \in workers' : v.run = w.run,
         \A d \in Command : d \in doomed => d \in doomed' \/ ~term'[d].running,
         \A d \in Command : Exists(d)' /\ ~Exists(d) =>
           term'[d].listed /\ \E v \in workers' : v.run = term'[d].run,
         \A d \in Command : Exists(d) /\ term[d].listed /\ ~term'[d].listed /\ term'[d].running =>
           d \in doomed',
         \A d \in Command : Exists(d)' => term'[d].listed \in BOOLEAN /\ term'[d].running \in BOOLEAN
  PROVE  Rests'
<1>1. Dooms /\ Dooms'
  <2>1. Dooms
    BY PlacesIs DEF Rests
  <2>2. ASSUME NEW d \in Command, Exists(d)', ~term'[d].listed, term'[d].running
        PROVE  d \in doomed'
    BY <2>1, <2>2 DEF Dooms, Ages
  <2> QED
    BY <2>1, <2>2 DEF Dooms
<1>2. ASSUME NEW d \in Command, Exists(d)', term'[d].run \in stopped', term'[d].running
      PROVE  \/ term'[d].run = stopping'
             \/ d \in doomed'
             \/ \E w \in workers' : w.run = term'[d].run
  BY <1>2 DEF Rests, StoppedRunsNothing, Ages
<1> QED
  BY <1>1, <1>2, PlacesIs DEF Rests, Places, Fits, Dooms, StoppedRunsNothing

\* Every terminal is there as it was but for one.
LEMMA TermTyped ==
  ASSUME Base'
  PROVE  \A d \in Command : Exists(d)' =>
           /\ term'[d] \in Terminal
           /\ term'[d].listed \in BOOLEAN /\ term'[d].running \in BOOLEAN
BY TerminalParts DEF Base, TermOK, Exists

\* No thread, no terminal: nothing changes.
LEMMA RestsSame ==
  ASSUME Rests, UNCHANGED <<stopped, stopping, doomed, term, workers>>
  PROVE  Rests'
BY DEF Rests, Places, StoppedRunsNothing, Exists

\* One terminal changes, and no thread.
LEMMA RestsTerm ==
  ASSUME Base, Base', Rests, UNCHANGED <<stopped, stopping, workers>>,
         NEW c \in Command, NEW y \in Terminal, term' = [term EXCEPT ![c] = y],
         Exists(c), y.run = term[c].run, y.running => term[c].running,
         y.listed = term[c].listed,
         \A d \in doomed : d \in doomed' \/ (d = c /\ ~y.running)
  PROVE  Rests'
<1>1. Ages
  BY AgesAll DEF Base
<1>2. /\ term'[c] = y
      /\ \A d \in Command : d # c => term'[d] = term[d]
  BY TermSet DEF Base
<1>3. \A w \in workers : w \in Worker /\ Fits(w)
  BY PlacesIs DEF Rests, Base, CrewOK
<1>4. \A w \in workers' : Fits(w)'
  BY <1>1, <1>3, FitsOn
<1>5. \A d \in Command : d \in doomed => d \in doomed' \/ ~term'[d].running
  BY <1>2
<1>6. \A d \in Command : Exists(d)' => Exists(d)
  BY <1>2 DEF Exists
<1>7. \A d \in Command : Exists(d) /\ term[d].listed => term'[d].listed
  BY <1>2
<1>8. \A w \in workers : \E v \in workers' : v.run = w.run
  OBVIOUS
<1> QED
  BY <1>1, <1>4, <1>5, <1>6, <1>7, <1>8, RestsOn, TermTyped

\* One thread goes on.
LEMMA RestsTurn ==
  ASSUME Base, Base', Rests, UNCHANGED <<stopped, stopping, doomed>>, Ages,
         NEW w \in workers, NEW v \in Worker, Replaces(w, v), v.run = w.run, Fits(v)',
         \A d \in Command : Exists(d)' /\ ~Exists(d) =>
           term'[d].listed /\ term'[d].run = v.run,
         \A d \in Command : Exists(d) /\ term[d].listed /\ ~term'[d].listed => ~term'[d].running
  PROVE  Rests'
<1>1. \A x \in workers : x \in Worker /\ Fits(x)
  BY PlacesIs DEF Rests, Base, CrewOK
<1>2. \A x \in workers' : Fits(x)'
  BY <1>1, FitsOn DEF Replaces
<1>3. v \in workers' /\ \A x \in workers : \E z \in workers' : z.run = x.run
  BY DEF Replaces
<1>4. \A d \in Command : d \in doomed => d \in doomed' \/ ~term'[d].running
  OBVIOUS
<1> QED
  BY <1>2, <1>3, <1>4, RestsOn, TermTyped

\* A run is released: what is left of it is to be killed.
LEMMA RestsReleased ==
  ASSUME Base, Rests, NEW r \in Run, ReleaseRun(r), stopped' = stopped,
         stopping' \in {stopping, 0}, stopping' = stopping \/ stopping = r,
         workers' \subseteq workers, \A w \in workers \ workers' : w.run = r
  PROVE  Rests'
<1>1. /\ Ages
      /\ \A d \in Command : Exists(d)' => Exists(d)
      /\ \A d \in Command : Exists(d) =>
           /\ term'[d].running = term[d].running
           /\ term'[d].listed => term[d].listed /\ term[d].run # r
           /\ Listed(r, d) => d \in doomed'
           /\ term[d].run # r => term'[d] = term[d]
  BY AgesReleased DEF Base
<1>2. doomed \subseteq doomed'
  BY DEF ReleaseRun
<1>3. (\A w \in workers : w \in Worker /\ Fits(w)) /\ Dooms
  BY PlacesIs DEF Rests, Base, CrewOK
<1>4. \A w \in workers' : Fits(w)'
  BY <1>1, <1>3, FitsOn
<1>5. ASSUME NEW d \in Command, Exists(d)', term'[d].running, term'[d].run = r
      PROVE  d \in doomed'
  BY <1>1, <1>2, <1>3, <1>5 DEF Listed, Dooms, Ages
<1>6. ASSUME NEW d \in Command, Exists(d)', term'[d].running, ~term'[d].listed
      PROVE  d \in doomed'
  <2>1. CASE term'[d].run = r
    BY <1>5, <1>6, <2>1
  <2>2. CASE term'[d].run # r
    BY <1>1, <1>2, <1>3, <1>6, <2>2 DEF Dooms, Ages
  <2> QED
    BY <2>1, <2>2
<1>7. ASSUME NEW d \in Command, Exists(d)', term'[d].run \in stopped', term'[d].running
      PROVE  \/ term'[d].run = stopping'
             \/ d \in doomed'
             \/ \E w \in workers' : w.run = term'[d].run
  <2>1. CASE term'[d].run = r
    BY <1>5, <1>7, <2>1
  <2>2. CASE term'[d].run # r
    <3>1. Exists(d) /\ term[d].run = term'[d].run /\ term[d].running
      BY <1>1, <1>7 DEF Ages
    <3> QED
      BY <1>2, <1>7, <2>2, <3>1 DEF Rests, StoppedRunsNothing
  <2> QED
    BY <2>1, <2>2
<1> QED
  BY <1>4, <1>6, <1>7 DEF Rests, Places, Fits, StoppedRunsNothing

-----------------------------------------------------------------------------
(* The steps of the daemon and of the world. *)

LEMMA ThreadIs ==
  ASSUME Base, Rests, NEW w \in workers
  PROVE  w \in Worker /\ Fits(w) /\ w.call \in Command /\ w.run \in Run
BY WorkerParts, PlacesIs DEF Base, CrewOK, Rests

\* A thread that has only been told how its request goes on fits.
LEMMA FitsAt ==
  ASSUME NEW w \in Worker, NEW v \in Worker, NEW ok, Turned(w, v, "done", ok)
  PROVE  Fits(v) /\ Fits(v)'
BY DEF Turned, Fits

LEMMA ReapRests == ASSUME Base, Rests, Host, NEW c \in Command, Reap(c) PROVE Base' /\ Rests'
<1>1. Base'
  BY ReapBase
<1>2. c \in doomed /\ Exists(c) /\ doomed' = doomed \ {c} /\ UNCHANGED <<stopped, stopping, workers>>
  BY DEF Base, DoomOK, Reap
<1>3. PICK x \in Terminal, y \in Terminal :
        Same(x, term[c]) /\ ~x.running /\ x.listed = term[c].listed /\ Posted(c, x, y)
  BY <1>2, BaseShape, ReapSays
<1>4. /\ term' = [term EXCEPT ![c] = y]
      /\ y.run = term[c].run /\ ~y.running /\ y.listed = term[c].listed
  BY <1>3 DEF Posted, Alike, Same
<1> QED
  BY <1>1, <1>2, <1>4, RestsTerm

LEMMA ObserveRests == ASSUME Base, Rests, Host, NEW c \in Command, Observe(c) PROVE Base' /\ Rests'
<1>1. Base'
  BY ObserveBase
<1>2. Exists(c) /\ doomed' = doomed /\ UNCHANGED <<stopped, stopping, workers>>
  BY BaseShape, ObserveSays DEF Observe
<1>3. PICK x \in Terminal, y \in Terminal :
        /\ Same(x, term[c]) /\ x.running = term[c].running /\ x.listed = term[c].listed
        /\ \/ y = x /\ term' = [term EXCEPT ![c] = y] /\ inbox' = inbox
           \/ Posted(c, x, y)
  BY BaseShape, ObserveSays
<1>4. /\ term' = [term EXCEPT ![c] = y]
      /\ y.run = term[c].run /\ y.running = term[c].running /\ y.listed = term[c].listed
  BY <1>3 DEF Posted, Alike, Same
<1> QED
  BY <1>1, <1>2, <1>4, RestsTerm

LEMMA RunsRests ==
  ASSUME Base, Rests, Host, NEW c \in Command, CommandRuns(c) \/ Drain(c)
  PROVE  Base' /\ Rests'
<1>1. Base'
  BY RunsBase
<1>2. Exists(c) => term[c].read <= term[c].wrote
  BY DEF Base, TermOK
<1>3. PICK y \in Terminal : Ran(c, y)
  BY <1>2, BaseShape, RunsSays
<1>4. Exists(c) /\ doomed' = doomed /\ UNCHANGED <<stopped, stopping, workers>>
  BY <1>2, BaseShape, RunsSays DEF CommandRuns, Drain
<1>5. /\ term' = [term EXCEPT ![c] = y]
      /\ y.run = term[c].run /\ (y.running => term[c].running) /\ y.listed = term[c].listed
  BY <1>3 DEF Ran, Further
<1> QED
  BY <1>1, <1>4, <1>5, RestsTerm

LEMMA TurnRests ==
  ASSUME Base, Rests, Host, NEW w \in workers,
         Refused(w) \/ Admit(w) \/ Output(w) \/ Wait(w)
  PROVE  Base' /\ Rests'
<1>1. w \in Worker /\ Fits(w) /\ w.call \in Command /\ w.run \in Run
  BY ThreadIs
<1>2. Base'
  BY <1>1, TurnBase
<1>3. UNCHANGED <<stopped, stopping, doomed, term>>
  BY DEF Refused, Admit, Output, Wait
<1>4. \/ Becomes(w, "done", FALSE) \/ Becomes(w, "done", TRUE)
      \/ Becomes(w, "live", FALSE) /\ w.op = "create"
      \/ Becomes(w, "poll", FALSE) /\ w.op = "wait" /\ Exists(w.call)
  BY DEF Refused, Admit, Output, Wait, Finds, Listed
<1>5. PICK v \in Worker :
        /\ Replaces(w, v) /\ v.run = w.run /\ v.call = w.call /\ v.op = w.op
        /\ \/ v.at = "done"
           \/ v.at = "live" /\ w.op = "create"
           \/ v.at = "poll" /\ w.op = "wait" /\ Exists(w.call)
  <2>1. ASSUME Becomes(w, "done", FALSE) \/ Becomes(w, "done", TRUE)
        PROVE  \E v \in Worker : Replaces(w, v) /\ (Turned(w, v, "done", FALSE) \/ Turned(w, v, "done", TRUE))
    BY <2>1, BaseShape, BecomesSays DEF Replaces
  <2>2. ASSUME Becomes(w, "live", FALSE)
        PROVE  \E v \in Worker : Replaces(w, v) /\ Turned(w, v, "live", FALSE)
    BY <2>2, BaseShape, BecomesSays DEF Replaces
  <2>3. ASSUME Becomes(w, "poll", FALSE)
        PROVE  \E v \in Worker : Replaces(w, v) /\ Turned(w, v, "poll", FALSE)
    BY <2>3, BaseShape, BecomesSays DEF Replaces
  <2> QED
    BY <1>4, <2>1, <2>2, <2>3 DEF Turned
<1>6. Fits(v)'
  BY <1>3, <1>5 DEF Fits, Exists
<1> QED
  BY <1>2, <1>3, <1>5, <1>6, Still, RestsTurn

LEMMA KillRests == ASSUME Base, Rests, Host, NEW w \in workers, Kill(w) PROVE Base' /\ Rests'
<1>1. w \in Worker /\ Fits(w) /\ w.call \in Command /\ w.run \in Run
  BY ThreadIs
<1>2. Base' /\ Exists(w.call) /\ UNCHANGED <<stopped, stopping, doomed>>
  BY <1>1, KillBase DEF Kill, Finds, Listed
<1>3. PICK v \in Worker : Replaces(w, v) /\ Turned(w, v, "done", TRUE)
  BY <1>1, BaseShape, KillSays
<1>4. PICK y \in Terminal :
        /\ term' = [term EXCEPT ![w.call] = y]
        /\ Same(y, term[w.call]) /\ ~y.running /\ y.listed = term[w.call].listed
  BY <1>1, BaseShape, KillSays
<1>5. Ages
  BY <1>1, <1>4, AgesAll DEF Base, Same
<1>6. \A d \in Command : /\ Exists(d)' => Exists(d)
                         /\ term[d].listed => term'[d].listed
  BY <1>1, <1>2, <1>4, TermSet DEF Base, Exists
<1>7. v.run = w.run /\ Fits(v)'
  BY <1>1, <1>3, FitsAt DEF Turned
<1> QED
  BY <1>2, <1>3, <1>5, <1>6, <1>7, RestsTurn

LEMMA JoiningRests ==
  ASSUME Base, Base', Rests, NEW w \in workers, w.op \in {"wait", "release"}, Exists(w.call),
         NEW x \in Terminal, NEW y \in Terminal, NEW v \in Worker, Joining(w, x, y, v),
         x.run = term[w.call].run, x.running => term[w.call].running,
         x.listed = term[w.call].listed,
         w.op = "release" => ~x.running,
         UNCHANGED <<stopped, stopping, doomed>>
  PROVE  Rests'
<1>1. w \in Worker /\ Fits(w) /\ w.call \in Command /\ w.run \in Run
  BY ThreadIs
<1>2. /\ term' = [term EXCEPT ![w.call] = y]
      /\ y.run = term[w.call].run /\ y.running = x.running /\ y.listed = term[w.call].listed
  BY DEF Joining, Same
<1>3. Ages
  BY <1>1, <1>2, AgesAll DEF Base
<1>4. /\ term'[w.call] = y /\ Exists(w.call)'
      /\ \A d \in Command : /\ Exists(d)' => Exists(d)
                            /\ term[d].listed => term'[d].listed
  BY <1>1, <1>2, TermSet DEF Base, Exists
<1>5. Replaces(w, v) /\ v.run = w.run /\ v.op = w.op /\ v.call = w.call
      /\ v.at \in {"join", "join none"}
  BY DEF Joining, Turned
<1>6. Fits(v)'
  BY <1>2, <1>4, <1>5 DEF Fits
<1> QED
  BY <1>3, <1>4, <1>5, <1>6, RestsTurn

LEMMA ReleaseRests == ASSUME Base, Rests, Host, NEW w \in workers, Release(w) PROVE Base' /\ Rests'
<1>1. w \in Worker /\ Fits(w) /\ w.call \in Command /\ w.run \in Run
  BY ThreadIs
<1>2. Base' /\ Exists(w.call) /\ w.op = "release" /\ UNCHANGED <<stopped, stopping, doomed>>
  BY <1>1, ReleaseBase DEF Release, TakeReaders, Finds, Listed
<1>3. PICK x \in Terminal, y \in Terminal, v \in Worker :
        /\ Same(x, term[w.call]) /\ ~x.running /\ x.listed = term[w.call].listed
        /\ Joining(w, x, y, v)
  BY <1>1, BaseShape, ReleaseStarts
<1>4. x.run = term[w.call].run
  BY <1>3 DEF Same
<1> QED
  BY <1>2, <1>3, <1>4, JoiningRests

LEMMA ExitedRests == ASSUME Base, Rests, Host, NEW w \in workers, Exited(w) PROVE Base' /\ Rests'
<1>1. w \in Worker /\ Fits(w) /\ w.call \in Command /\ w.run \in Run
  BY ThreadIs
<1>2. w.at = "poll" /\ w.op = "wait" /\ Exists(w.call) /\ UNCHANGED <<stopped, stopping, doomed>>
  BY <1>1 DEF Exited, TakeReaders, Fits
<1>3. Base' /\ term[w.call] \in Terminal
  BY <1>1, <1>2, ExitedBase DEF Base, TermOK, Exists
<1>4. PICK y \in Terminal, v \in Worker : Joining(w, term[w.call], y, v)
  BY <1>1, <1>2, BaseShape, ExitedSays
<1> QED
  BY <1>2, <1>3, <1>4, JoiningRests

LEMMA JoinedRests == ASSUME Base, Rests, Host, NEW w \in workers, Joined(w) PROVE Base' /\ Rests'
<1>1. w \in Worker /\ Fits(w) /\ w.call \in Command /\ w.run \in Run
  BY ThreadIs
<1>2. w.at \in {"join", "join none"} /\ Exists(w.call) /\ UNCHANGED <<stopped, stopping, doomed>>
      /\ (w.op # "wait" => ~term[w.call].running)
  BY <1>1 DEF Joined, Fits
<1>3. Base' /\ term[w.call] \in Terminal
  BY <1>1, <1>2, JoinedBase DEF Base, TermOK, Exists
<1>4. PICK v \in Worker : Replaces(w, v) /\ Turned(w, v, "done", TRUE)
  BY <1>1, <1>2, BaseShape, JoinedSays
<1>5. PICK x \in Terminal, y \in Terminal :
        /\ Same(x, term[w.call]) /\ x.running = term[w.call].running
        /\ x.listed = (w.op = "wait" /\ term[w.call].listed)
        /\ Posted(w.call, x, y)
  BY <1>1, <1>2, BaseShape, JoinedSays
<1>6. /\ term' = [term EXCEPT ![w.call] = y]
      /\ y.run = term[w.call].run /\ y.running = term[w.call].running
      /\ y.listed = (w.op = "wait" /\ term[w.call].listed)
  BY <1>5 DEF Posted, Alike, Same
<1>7. Ages
  BY <1>1, <1>6, AgesAll DEF Base
<1>8. /\ term'[w.call] = y /\ Exists(w.call)'
      /\ \A d \in Command : d # w.call => term'[d] = term[d]
  BY <1>1, <1>6, TermSet DEF Base
<1>9. \A d \in Command : Exists(d)' => Exists(d)
  BY <1>2, <1>8 DEF Exists
<1>10. \A d \in Command : Exists(d) /\ term[d].listed /\ ~term'[d].listed => ~term'[d].running
  BY <1>2, <1>6, <1>8, TerminalParts
<1>11. v.run = w.run /\ Fits(v)'
  BY <1>1, <1>4, FitsAt DEF Turned
<1> QED
  BY <1>2, <1>3, <1>4, <1>7, <1>9, <1>10, <1>11, RestsTurn

LEMMA CreateRests ==
  ASSUME Base, Rests, Host, NEW w \in workers, NEW cleared, Create(w, cleared)
  PROVE  Base' /\ Rests'
<1>1. w \in Worker /\ Fits(w) /\ w.call \in Command /\ w.run \in Run
  BY ThreadIs
<1>2. Base' /\ ~Exists(w.call) /\ UNCHANGED <<stopped, stopping, doomed>>
  BY <1>1, CreateBase DEF Create
<1>3. PICK v \in Worker :
        /\ Replaces(w, v)
        /\ \/ Turned(w, v, "done", TRUE) /\ term' = [term EXCEPT ![w.call] = Started(w.run)]
           \/ Turned(w, v, "done", FALSE) /\ term' = term
  BY <1>1, BaseShape, CreateSays
<1>4. v.run = w.run /\ Fits(v)'
  BY <1>1, <1>3, FitsAt DEF Turned
<1>5. CASE term' = term
  BY <1>2, <1>3, <1>4, <1>5, Still, RestsTurn
<1>6. CASE term' = [term EXCEPT ![w.call] = Started(w.run)]
  <2>1. Started(w.run) \in Terminal /\ Started(w.run).run = w.run /\ Started(w.run).listed
    BY <1>1, StartedParts
  <2>2. Ages
    BY <1>1, <1>2, <1>6, <2>1, AgesAll DEF Base
  <2>3. /\ term'[w.call] = Started(w.run)
        /\ \A d \in Command : d # w.call => term'[d] = term[d]
    BY <1>1, <1>6, <2>1, TermSet DEF Base
  <2>4. \A d \in Command : Exists(d)' /\ ~Exists(d) => term'[d].listed /\ term'[d].run = v.run
    BY <1>4, <2>1, <2>3 DEF Exists
  <2>5. \A d \in Command : Exists(d) /\ term[d].listed => term'[d].listed
    BY <1>2, <2>3
  <2> QED
    BY <1>2, <1>3, <1>4, <2>2, <2>4, <2>5, RestsTurn
<1> QED
  BY <1>3, <1>5, <1>6

LEMMA RespondRests == ASSUME Base, Rests, Host, NEW w \in workers, Respond(w) PROVE Base' /\ Rests'
<1>1. w \in Worker /\ Fits(w) /\ w.call \in Command /\ w.run \in Run
  BY ThreadIs
<1>2. Base' /\ workers' = workers \ {w} /\ UNCHANGED <<stopped, stopping>>
  BY <1>1, RespondBase DEF Respond
<1>3. CASE live # w.run /\ ReleaseRun(w.run)
  BY <1>1, <1>2, <1>3, RestsReleased
<1>4. ASSUME NEW y \in Terminal, Responds(w, y)
      PROVE  Rests'
  <2>1. doomed' = doomed /\ w.run \notin stopped
    BY <1>4 DEF Responds, Base, LifeOK
  <2>2. /\ Ages
        /\ \A d \in Command : /\ Exists(d)' => Exists(d)
                              /\ Exists(d) /\ term[d].listed => term'[d].listed
    <3>1. CASE term' = term
      BY <3>1, Still
    <3>2. CASE term' # term
      <4>1. /\ Exists(w.call) /\ term' = [term EXCEPT ![w.call] = y]
            /\ y.run = term[w.call].run /\ y.running = term[w.call].running
            /\ y.listed = term[w.call].listed
        BY <1>4, <3>2 DEF Responds, Listed
      <4>2. Ages
        BY <1>1, <4>1, AgesAll DEF Base
      <4>3. term'[w.call] = y /\ \A d \in Command : d # w.call => term'[d] = term[d]
        BY <1>1, <4>1, TermSet DEF Base
      <4> QED
        BY <4>1, <4>2, <4>3 DEF Exists
    <3> QED
      BY <3>1, <3>2
  <2>3. \A v \in workers' : Fits(v)'
    BY <1>2, <2>2, ThreadIs, FitsOn
  <2>4. Dooms /\ Dooms'
    BY <2>1, <2>2, TermTyped, <1>2, PlacesIs DEF Dooms, Rests, Ages
  <2>5. StoppedRunsNothing'
    BY <1>2, <2>1, <2>2 DEF Rests, StoppedRunsNothing, Ages
  <2>6. Places'
    BY <2>3, <2>4 DEF Places, Fits, Dooms
  <2> QED
    BY <2>5, <2>6 DEF Rests
<1> QED
  BY <1>1, <1>2, <1>3, <1>4, BaseShape, RespondSays

-----------------------------------------------------------------------------
(* Inbound workers, users, and the ends of runs. *)

LEMMA HearRequestRests ==
  ASSUME Base, Rests, Host, NEW r \in Run, HearRequest(r)
  PROVE  Base' /\ Rests'
<1> DEFINE v == Thread(r, Head(inbox[r]))
<1>1. v \in Worker /\ v.at = "new"
  BY HeadIs, ThreadParts DEF HearRequest
<1>2. workers' = workers \cup {v} /\ UNCHANGED <<stopped, stopping, doomed, term>>
  BY DEF HearRequest
<1> HIDE DEF v
<1>3. \A x \in workers' : Fits(x)'
  BY <1>1, <1>2, Still, FitsOn, ThreadIs DEF Fits
<1>4. Base'
  BY HearRequestBase
<1> QED
  BY <1>2, <1>3, <1>4, Still, RestsOn, TermTyped

LEMMA HearBindRests ==
  ASSUME Base, Rests, Host, NEW r \in Run, HearBind(r)
  PROVE  Base' /\ Rests'
<1>1. Base' /\ UNCHANGED <<stopped, stopping, doomed, workers>>
  BY HearBindBase, Zenon DEF HearBind
<1> DEFINE c == Head(inbox[r]).call
<1>2. c \in Command
  BY BaseShape, BindSays
<1>3. CASE term' = term
  BY <1>1, <1>3, RestsSame
<1>4. ASSUME Listed(r, c), NEW y \in Terminal, Binds(r, c, y)
      PROVE  Rests'
  <2> HIDE DEF c
  <2>1. Exists(c) /\ term[c] \in Terminal
    BY <1>2, <1>4 DEF Listed, Exists, Base, TermOK
  <2>2. y.run = term[c].run /\ y.running = term[c].running /\ y.listed = term[c].listed
        /\ term' = [term EXCEPT ![c] = y]
    BY <1>4, <2>1 DEF Binds, Same, Terminal
  <2> QED
    BY <1>1, <1>2, <2>1, <2>2, RestsTerm
<1>5. term' = term \/ (Listed(r, c) /\ \E y \in Terminal : Binds(r, c, y))
  BY BaseShape, BindSays, Zenon
<1> HIDE DEF c
<1> QED
  BY <1>1, <1>3, <1>4, <1>5

LEMMA HearRests == ASSUME Base, Rests, Host, NEW r \in Run, Hear(r) PROVE Base' /\ Rests'
<1>1. CASE HearGone(r)
  <2>1. ReleaseRun(r) /\ UNCHANGED <<stopped, stopping, workers>>
    BY <1>1 DEF HearGone
  <2> QED
    BY <1>1, <2>1, HearGoneBase, RestsReleased
<1>2. CASE HearAsk(r) \/ HearUpdate(r) \/ Detach(r)
  <2>1. Base'
    BY <1>2, HearAskBase, HearUpdateBase, DetachBase
  <2>2. UNCHANGED <<stopped, stopping, doomed, term, workers>>
    BY <1>2 DEF HearAsk, HearUpdate, Detach
  <2> QED
    BY <2>1, <2>2, RestsSame
<1> QED
  BY <1>1, <1>2, HearRequestRests, HearBindRests DEF Hear

LEMMA UserRests ==
  ASSUME Base, Rests, Host,
         (\E c \in Command : Claim(c)) \/ (\E a \in answers : Record(a) \/ Tell(a))
  PROVE  Base' /\ Rests'
<1>1. Base'
  BY ClaimBase, RecordBase, TellBase
<1>2. UNCHANGED <<stopped, stopping, doomed, term, workers>>
  BY DEF Claim, Record, Tell
<1> QED
  BY <1>1, <1>2, RestsSame

LEMMA StopRests ==
  ASSUME Base, Rests, Host, NEW r \in Run, StopRun(r) \/ StopReleases(r)
  PROVE  Base' /\ Rests'
<1>1. CASE StopRun(r)
  <2>1. /\ stopping = 0 /\ stopping' = r /\ stopped' = stopped \cup {r}
        /\ UNCHANGED <<doomed, term, workers>>
    BY <1>1 DEF StopRun
  <2>2. \A c \in Command : Exists(c) => term[c].run # 0
    BY TerminalParts DEF Base, TermOK, Exists, Run
  <2>3. Rests'
    BY <2>1, <2>2 DEF Rests, Places, StoppedRunsNothing, Exists
  <2> QED
    BY <1>1, <2>3, StopRunBase
<1>2. CASE StopReleases(r)
  <2>1. ReleaseRun(r) /\ stopping = r /\ stopping' = 0 /\ UNCHANGED <<stopped, workers>>
    BY <1>2 DEF StopReleases
  <2> QED
    BY <1>2, <2>1, StopReleasesBase, RestsReleased
<1> QED
  BY <1>1, <1>2

LEMMA DaemonRests ==
  ASSUME Base, Rests, Host, Daemon \/ World
  PROVE  Base' /\ Rests'
<1>1. ASSUME NEW w \in workers, ThreadStep(w) \/ Create(w, tool[w.call].auto)
      PROVE  Base' /\ Rests'
  BY <1>1, TurnRests, KillRests, ReleaseRests, ExitedRests, JoinedRests, RespondRests, CreateRests
     DEF ThreadStep
<1> QED
  BY <1>1, ReapRests, ObserveRests, RunsRests, HearRests, UserRests, StopRests DEF Daemon, World

LEMMA AgentRests ==
  ASSUME Base, Rests,
         Start \/ StopTurn \/ Dies \/ \E c \in Command : Begin(c) \/ ToolStep(c)
  PROVE  Base' /\ Rests'
<1>1. Base'
  BY StartBase, StopTurnBase, DiesBase, BeginBase, ToolBase
<1>2. ASSUME NEW c \in Command, ToolStep(c)
      PROVE  UNCHANGED <<stopped, stopping, doomed, term, workers>>
  BY <1>2, ToolSays DEF Left, Moved, Sent, SentTwo, Stepped, Leaves, AgentOnly
<1>3. UNCHANGED <<stopped, stopping, doomed, term, workers>>
  BY <1>2 DEF Start, StopTurn, Dies, Begin, hostVars
<1> QED
  BY <1>1, <1>3, RestsSame

LEMMA NextRests == ASSUME Base, Rests, [Next]_vars PROVE Base' /\ Rests'
<1>1. CASE UNCHANGED vars
  <2>1. Base'
    BY <1>1, Frames DEF Base, vars, hostVars
  <2> QED
    BY <1>1, <2>1, RestsSame DEF vars, hostVars
<1>2. CASE (Daemon \/ World) /\ UNCHANGED <<run, up, told, full, tool, slow>>
  BY <1>2, DaemonRests DEF Host
<1>3. CASE Start \/ StopTurn \/ Dies \/ \E c \in Command : Begin(c) \/ ToolStep(c)
  BY <1>3, AgentRests
<1> QED
  BY <1>1, <1>2, <1>3 DEF Next

LEMMA InitBase == Init => Base
<1> SUFFICES ASSUME Init PROVE Base
  OBVIOUS
<1>1. MaxRun \in Nat
  BY HostConstants DEF HostConstants
<1>2. <<>> \in Seq(Message)
  OBVIOUS
<1>3. BoxOK
  <2>1. inbox = [r \in Run |-> <<>>]
    BY DEF Init, HostInit
  <2> QED
    BY <1>2, <2>1 DEF BoxOK
<1>4. NoTool \in Tool /\ ToolOK
  <2>1. NoTool \in Tool /\ NoTool.at = "none"
    BY DEF NoTool, Tool
  <2>2. tool = [c \in Command |-> NoTool]
    BY DEF Init
  <2> QED
    BY <2>1, <2>2 DEF ToolOK, Busy
<1>5. MailOK
  <2>1. mail = [c \in Command |-> Awaits("none")]
    BY DEF Init, HostInit
  <2> QED
    BY <2>1, AwaitsParts DEF MailOK
<1>6. TermOK /\ DoomOK /\ PartOK
  <2>1. /\ term = [c \in Command |-> Nil] /\ doomed = {}
        /\ part = [c \in Command |-> Nil]
    BY DEF Init, HostInit
  <2>2. \A c \in Command : ~Exists(c)
    BY <2>1 DEF Exists
  <2> QED
    BY <2>1, <2>2 DEF TermOK, DoomOK, PartOK
<1>7. CrewOK /\ LifeOK /\ TalkOK
  <2>1. live = 0 /\ stopping = 0 /\ stopped = {} /\ workers = {} /\ asks = {} /\ answers = {}
        /\ run = 0 /\ slow = 0
    BY DEF Init, HostInit
  <2>2. ~up /\ up \in BOOLEAN /\ told \in BOOLEAN /\ full \in BOOLEAN
    BY DEF Init
  <2>3. CrewOK /\ TalkOK
    BY <2>1 DEF CrewOK, TalkOK
  <2>4. LifeOK
    BY <1>1, <2>1, <2>2 DEF LifeOK
  <2> QED
    BY <2>3, <2>4
<1> QED
  BY <1>3, <1>4, <1>5, <1>6, <1>7 DEF Base

LEMMA InitRests == Init => Rests
BY DEF Init, HostInit, Rests, Places, StoppedRunsNothing, Exists

-----------------------------------------------------------------------------
(* How inboxes change. *)

\* The messages that matter to calls.
Kinds == Requests \cup {"bind", "update"}

\* q becomes p: its first d messages leave it; updates may come at its end.
Slides(q, p, d) ==
  /\ \A i \in DOMAIN p : p[i].what \in Kinds =>
       \/ i + d \in DOMAIN q /\ p[i] = q[i + d]
       \/ i + d \notin DOMAIN q /\ p[i].what = "update"
  /\ \A j \in DOMAIN q : q[j].what \in Kinds /\ j > d => j - d \in DOMAIN p /\ p[j - d] = q[j]

LEMMA KindsAre ==
  /\ Requests \subseteq Kinds /\ "bind" \in Kinds /\ "update" \in Kinds
  /\ "gone" \notin Kinds /\ "detach" \notin Kinds /\ "ask" \notin Kinds
  /\ "update" \notin Requests /\ "bind" \notin Requests
  /\ {"create", "wait", "kill", "output", "release"} = Requests
BY DEF Kinds, Requests

LEMMA SlidesSame == ASSUME NEW q \in Seq(Message) PROVE Slides(q, q, 0)
BY DEF Slides

LEMMA SlidesAppend ==
  ASSUME NEW q \in Seq(Message), NEW m \in Message, m.what \in Kinds => m.what = "update"
  PROVE  /\ Slides(q, Append(q, m), 0)
         /\ DOMAIN Append(q, m) = DOMAIN q \cup {Len(q) + 1}
         /\ Append(q, m)[Len(q) + 1] = m /\ Len(q) + 1 \notin DOMAIN q
         /\ \A i \in DOMAIN q : Append(q, m)[i] = q[i]
<1>1. /\ DOMAIN Append(q, m) = DOMAIN q \cup {Len(q) + 1}
      /\ Append(q, m)[Len(q) + 1] = m /\ Len(q) + 1 \notin DOMAIN q
      /\ \A i \in DOMAIN q : Append(q, m)[i] = q[i] /\ i \in Int /\ i > 0
  OBVIOUS
<1> QED
  BY <1>1 DEF Slides

LEMMA SlidesTail ==
  ASSUME NEW q \in Seq(Message), q # <<>>
  PROVE  /\ Slides(q, Tail(q), 1)
         /\ \A i \in DOMAIN Tail(q) : i + 1 \in DOMAIN q /\ Tail(q)[i] = q[i + 1] /\ i > 0
         /\ \A j \in DOMAIN q : j = 1 \/ (j - 1 \in DOMAIN Tail(q) /\ Tail(q)[j - 1] = q[j])
         /\ 1 \in DOMAIN q /\ Head(q) = q[1]
<1>1. /\ \A i \in DOMAIN Tail(q) : i + 1 \in DOMAIN q /\ Tail(q)[i] = q[i + 1] /\ i > 0
      /\ \A j \in DOMAIN q : j = 1 \/ (j - 1 \in DOMAIN Tail(q) /\ Tail(q)[j - 1] = q[j] /\ j > 1)
      /\ 1 \in DOMAIN q /\ Head(q) = q[1]
  BY TailTyped
<1>2. ~(1 > 1)
  OBVIOUS
<1> QED
  BY <1>1, <1>2 DEF Slides

\* The inbound worker has shown the terminal with its call.
LEMMA SlidesBind ==
  ASSUME NEW q \in Seq(Message), q # <<>>, NEW m \in Message, m.what = "update"
  PROVE  /\ Slides(q, Append(Tail(q), m), 1)
         /\ Len(q) \in DOMAIN Append(Tail(q), m) /\ Append(Tail(q), m)[Len(q)] = m
         /\ \A i \in DOMAIN Append(Tail(q), m) :
              \/ i + 1 \in DOMAIN q /\ Append(Tail(q), m)[i] = q[i + 1]
              \/ i = Len(q) /\ i + 1 \notin DOMAIN q
<1> DEFINE t == Tail(q)
           p == Append(t, m)
<1>1. t \in Seq(Message) /\ Len(t) = Len(q) - 1 /\ Len(q) \in Nat /\ Len(q) > 0
  BY TailTyped
<1>2. \A i \in 1..Len(t) : t[i] = q[i + 1]
  BY TailTyped
<1>3. \A j \in DOMAIN q : j = 1 \/ (j - 1 \in DOMAIN t /\ t[j - 1] = q[j])
  BY SlidesTail
<1>4. /\ DOMAIN p = 1..Len(q) /\ p[Len(q)] = m
      /\ \A i \in 1..Len(t) : p[i] = t[i]
  <2> HIDE DEF t
  <2> QED
    BY <1>1
<1>5. DOMAIN q = 1..Len(q) /\ DOMAIN t = 1..Len(t)
  BY <1>1
<1> HIDE DEF p, t
<1>6. \A i \in DOMAIN p : \/ i + 1 \in DOMAIN q /\ p[i] = q[i + 1]
                          \/ i = Len(q) /\ i + 1 \notin DOMAIN q
  BY <1>1, <1>2, <1>4, <1>5
<1>7. \A j \in DOMAIN q : j > 1 => j - 1 \in DOMAIN p /\ p[j - 1] = q[j]
  BY <1>1, <1>3, <1>4, <1>5
<1>8. Slides(q, p, 1)
  BY <1>4, <1>6, <1>7 DEF Slides
<1>9. Len(q) \in DOMAIN p
  BY <1>1, <1>4
<1> QED
  BY <1>4, <1>6, <1>8, <1>9 DEF p, t

\* The loss of the agent is dealt with in two steps.
LEMMA SlidesGone ==
  ASSUME NEW q \in Seq(Message), q # <<>>, Head(q).what = "gone"
  PROVE  /\ Slides(q, <<Msg("detach", Nil)>> \o Tail(q), 0)
         /\ \A i \in DOMAIN (<<Msg("detach", Nil)>> \o Tail(q)) : i \in DOMAIN q
<1> DEFINE t == Tail(q)
           m == Msg("detach", Nil)
           p == <<m>> \o t
<1>1. t \in Seq(Message) /\ Len(t) = Len(q) - 1 /\ Len(q) \in Nat /\ Len(q) > 0 /\ q[1].what = "gone"
  BY TailTyped
<1>2. \A i \in 1..Len(t) : t[i] = q[i + 1]
  BY TailTyped
<1>3. m \in Message /\ m.what = "detach"
  BY Messages
<1>4. /\ DOMAIN p = 1..Len(q) /\ p[1] = m
      /\ \A i \in 2..Len(q) : p[i] = t[i - 1]
  <2> HIDE DEF t, m
  <2> QED
    BY <1>1, <1>3
<1>5. DOMAIN q = 1..Len(q)
  BY <1>1
<1> HIDE DEF p, t, m
<1>6. \A i \in 2..Len(q) : p[i] = q[i]
  BY <1>1, <1>2, <1>4
<1>7. \A i \in 1..Len(q) : i = 1 \/ i \in 2..Len(q)
  BY <1>1
<1>8. Slides(q, p, 0)
  BY <1>1, <1>3, <1>4, <1>5, <1>6, <1>7, KindsAre DEF Slides
<1> QED
  BY <1>4, <1>5, <1>8 DEF p, t, m

\* No request is made: messages leave the inboxes at their heads, and what is
\* published of a terminal comes at the end of the inbox of its run.
Slid(d) == \A r \in Run : Slides(inbox[r], inbox'[r], d[r])
Newer(d, r, i) == i + d[r] \notin DOMAIN inbox[r]
Told(d) ==
  \A r \in Run, c \in Command : \A i \in DOMAIN inbox'[r] :
    Is(inbox'[r][i], "update", c) /\ Newer(d, r, i) =>
      Exists(c)' /\ term'[c].run = r /\ inbox'[r][i].snap = term'[c].shown
Tells(d, r, c) == \E i \in DOMAIN inbox'[r] : Is(inbox'[r][i], "update", c) /\ Newer(d, r, i)
Quiet(d) ==
  /\ d \in [Run -> {0, 1}]
  /\ Slid(d) /\ Told(d)
  /\ \A c \in Command : Exists(c) /\ term'[c].shown # term[c].shown => Tells(d, term[c].run, c)

AllShown == \A c \in Command : Exists(c) => term'[c].shown = term[c].shown
Zero == [s \in Run |-> 0]
One(r) == [s \in Run |-> IF s = r THEN 1 ELSE 0]

LEMMA Counts ==
  /\ Zero \in [Run -> {0, 1}] /\ \A s \in Run : Zero[s] = 0
  /\ \A r \in Run : /\ One(r) \in [Run -> {0, 1}] /\ One(r)[r] = 1
                    /\ \A s \in Run : s # r => One(r)[s] = 0
BY DEF Zero, One

LEMMA BoxTyped ==
  ASSUME Base, NEW r \in Run
  PROVE  /\ inbox[r] \in Seq(Message)
         /\ \A i \in DOMAIN inbox[r] : i \in Nat /\ i > 0 /\ i + 0 = i /\ inbox[r][i] \in Message
BY DEF Base, BoxOK

LEMMA QuietSame == ASSUME Base, inbox' = inbox, AllShown PROVE Quiet(Zero)
<1>1. Slid(Zero)
  BY BoxTyped, Counts, SlidesSame DEF Slid
<1>2. Told(Zero)
  BY BoxTyped, Counts DEF Told, Newer
<1> QED
  BY <1>1, <1>2, Counts DEF Quiet, AllShown

LEMMA QuietTail ==
  ASSUME Base, NEW r \in Run, inbox[r] # <<>>, inbox' = [inbox EXCEPT ![r] = Tail(@)], AllShown
  PROVE  Quiet(One(r))
<1>1. inbox'[r] = Tail(inbox[r]) /\ \A s \in Run : s # r => inbox'[s] = inbox[s]
  BY DEF Base, BoxOK
<1>2. \A s \in Run : Slides(inbox[s], inbox'[s], One(r)[s])
  BY <1>1, BoxTyped, Counts, SlidesSame, SlidesTail
<1>3. \A s \in Run : \A i \in DOMAIN inbox'[s] : i + One(r)[s] \in DOMAIN inbox[s]
  <2>1. \A i \in DOMAIN inbox'[r] : i + One(r)[r] \in DOMAIN inbox[r]
    BY <1>1, BoxTyped, Counts, SlidesTail
  <2>2. \A s \in Run : s # r => \A i \in DOMAIN inbox'[s] : i + One(r)[s] \in DOMAIN inbox[s]
    BY <1>1, BoxTyped, Counts
  <2> QED
    BY <2>1, <2>2
<1>4. Slid(One(r)) /\ Told(One(r))
  <2>1. Slid(One(r))
    BY <1>2 DEF Slid
  <2>2. Told(One(r))
    BY <1>3 DEF Told, Newer
  <2> QED
    BY <2>1, <2>2
<1> QED
  BY <1>4, Counts DEF Quiet, AllShown

LEMMA QuietGone ==
  ASSUME Base, NEW r \in Run, inbox[r] # <<>>, Head(inbox[r]).what = "gone",
         inbox' = [inbox EXCEPT ![r] = <<Msg("detach", Nil)>> \o Tail(@)], AllShown
  PROVE  Quiet(Zero)
<1> DEFINE q == <<Msg("detach", Nil)>> \o Tail(inbox[r])
<1>1. inbox'[r] = q /\ \A s \in Run : s # r => inbox'[s] = inbox[s]
  BY DEF Base, BoxOK
<1>2. Slides(inbox[r], q, 0) /\ \A i \in DOMAIN q : i \in DOMAIN inbox[r]
  BY BoxTyped, SlidesGone
<1> HIDE DEF q
<1>3. \A s \in Run : Slides(inbox[s], inbox'[s], Zero[s])
  BY <1>1, <1>2, BoxTyped, Counts, SlidesSame
<1>4. \A s \in Run : \A i \in DOMAIN inbox'[s] : i \in DOMAIN inbox[s]
  BY <1>1, <1>2
<1>5. \A s \in Run : \A i \in DOMAIN inbox'[s] : i + Zero[s] \in DOMAIN inbox[s]
  BY <1>4, BoxTyped, Counts
<1>6. Slid(Zero) /\ Told(Zero)
  BY <1>3, <1>5 DEF Slid, Told, Newer
<1> QED
  BY <1>6, Counts DEF Quiet, AllShown

\* A message that is no request comes at the end of an inbox.
LEMMA QuietAppend ==
  ASSUME Base, NEW r \in Run, NEW m \in Message, m.what \notin Kinds,
         inbox' = [inbox EXCEPT ![r] = Append(@, m)], AllShown
  PROVE  Quiet(Zero)
<1> DEFINE q == Append(inbox[r], m)
<1>1. inbox'[r] = q /\ \A s \in Run : s # r => inbox'[s] = inbox[s]
  BY DEF Base, BoxOK
<1>2. /\ Slides(inbox[r], q, 0)
      /\ \A i \in DOMAIN q : i \in DOMAIN inbox[r] \/ q[i] = m
  BY BoxTyped, SlidesAppend
<1> HIDE DEF q
<1>3. \A s \in Run : Slides(inbox[s], inbox'[s], Zero[s])
  BY <1>1, <1>2, BoxTyped, Counts, SlidesSame
<1>4. \A s \in Run : \A i \in DOMAIN inbox'[s] : i \in DOMAIN inbox[s] \/ inbox'[s][i] = m
  BY <1>1, <1>2
<1>5. \A s \in Run : \A i \in DOMAIN inbox'[s] : i + Zero[s] \in DOMAIN inbox[s] \/ inbox'[s][i] = m
  BY <1>4, BoxTyped, Counts
<1>6. Slid(Zero) /\ Told(Zero)
  BY <1>3, <1>5, KindsAre DEF Slid, Told, Newer, Is
<1> QED
  BY <1>6, Counts DEF Quiet, AllShown

LEMMA QuietPosted ==
  ASSUME Base, NEW c \in Command, Exists(c), NEW x \in Terminal, NEW y \in Terminal,
         Posted(c, x, y), x.run = term[c].run, x.shown = term[c].shown
  PROVE  Quiet(Zero)
<1>1. /\ term'[c] = y /\ Exists(c)'
      /\ \A d \in Command : d # c => term'[d] = term[d]
  BY TermSet DEF Base, Posted
<1>2. CASE y = x /\ inbox' = inbox
  BY <1>1, <1>2, QuietSame DEF AllShown
<1>3. ASSUME y.shown = Snap(x), inbox' = [inbox EXCEPT ![x.run] = Append(@, Update(c, Snap(x)))]
      PROVE  Quiet(Zero)
  <2> DEFINE r == x.run
             m == Update(c, Snap(x))
             q == Append(inbox[r], m)
  <2>1. r \in Run /\ m \in Message /\ m.what = "update" /\ m.call = c /\ m.snap = y.shown
    BY <1>3, TerminalParts, Messages
  <2>2. inbox'[r] = q /\ \A s \in Run : s # r => inbox'[s] = inbox[s]
    BY <1>3, <2>1 DEF Base, BoxOK
  <2>3. y.run = r /\ term[c].run = r
    BY DEF Posted, Alike
  <2> HIDE DEF r, m
  <2>4. /\ Slides(inbox[r], q, 0)
        /\ Len(inbox[r]) + 1 \in DOMAIN q /\ q[Len(inbox[r]) + 1] = m
        /\ Len(inbox[r]) + 1 \notin DOMAIN inbox[r]
        /\ Len(inbox[r]) + 1 + 0 = Len(inbox[r]) + 1
        /\ \A i \in DOMAIN q : i \in DOMAIN inbox[r] \/ q[i] = m
    BY <2>1, BoxTyped, SlidesAppend
  <2> HIDE DEF q
  <2>5. \A s \in Run : Slides(inbox[s], inbox'[s], Zero[s])
    BY <2>2, <2>4, BoxTyped, Counts, SlidesSame
  <2>6. \A s \in Run : \A i \in DOMAIN inbox'[s] :
          i \in DOMAIN inbox[s] \/ (s = r /\ inbox'[s][i] = m)
    BY <2>2, <2>4
  <2>7. \A s \in Run : \A i \in DOMAIN inbox'[s] :
          i + Zero[s] \in DOMAIN inbox[s] \/ (s = r /\ inbox'[s][i] = m)
    BY <2>6, BoxTyped, Counts
  <2>8. Tells(Zero, r, c)
    <3>1. Is(m, "update", c)
      BY <2>1 DEF Is
    <3> QED
      BY <2>1, <2>2, <2>4, <3>1, Counts DEF Tells, Newer
  <2>9. Slid(Zero)
    BY <2>5 DEF Slid
  <2>10. Told(Zero)
    BY <1>1, <2>1, <2>3, <2>7 DEF Told, Newer, Is
  <2> QED
    BY <1>1, <2>3, <2>8, <2>9, <2>10, Counts DEF Quiet
<1> QED
  BY <1>2, <1>3 DEF Posted

LEMMA QuietBinds ==
  ASSUME Base, NEW r \in Run, inbox[r] # <<>>, NEW c \in Command, Listed(r, c),
         NEW y \in Terminal, Binds(r, c, y)
  PROVE  Quiet(One(r))
<1>0. Exists(c) /\ term[c] \in Terminal /\ term[c].run = r
  BY DEF Listed, Exists, Base, TermOK
<1>1. term' = [term EXCEPT ![c] = y] /\ y.run = r
  BY <1>0 DEF Binds, Same, Terminal
<1>2. /\ term'[c] = y /\ Exists(c)'
      /\ \A d \in Command : d # c => term'[d] = term[d]
  BY <1>1, TermSet DEF Base
<1>3. CASE y.shown = term[c].shown /\ inbox' = [inbox EXCEPT ![r] = Tail(@)]
  BY <1>2, <1>3, QuietTail DEF AllShown
<1>4. ASSUME y.shown = Snap(y), inbox' = [inbox EXCEPT ![r] = Append(Tail(@), Update(c, Snap(y)))]
      PROVE  Quiet(One(r))
  <2> DEFINE m == Update(c, Snap(y))
             q == Append(Tail(inbox[r]), m)
             n == Len(inbox[r])
  <2>1. m \in Message /\ m.what = "update" /\ m.call = c /\ m.snap = y.shown
    BY <1>4, TerminalParts, Messages
  <2>2. inbox'[r] = q /\ \A s \in Run : s # r => inbox'[s] = inbox[s]
    BY <1>4 DEF Base, BoxOK
  <2> HIDE DEF m
  <2>3. /\ Slides(inbox[r], q, 1)
        /\ n \in DOMAIN q /\ q[n] = m
        /\ \A i \in DOMAIN q : \/ i + 1 \in DOMAIN inbox[r] /\ q[i] = inbox[r][i + 1]
                               \/ i = n /\ i + 1 \notin DOMAIN inbox[r]
    BY <2>1, BoxTyped, SlidesBind
  <2> HIDE DEF q
  <2>4. n + 1 \notin DOMAIN inbox[r]
    <3>1. inbox[r] \in Seq(Message)
      BY BoxTyped
    <3> QED
      BY <3>1
  <2> HIDE DEF n
  <2>5. \A s \in Run : Slides(inbox[s], inbox'[s], One(r)[s])
    BY <2>2, <2>3, BoxTyped, Counts, SlidesSame
  <2>6. \A s \in Run : \A i \in DOMAIN inbox'[s] :
          i + One(r)[s] \in DOMAIN inbox[s] \/ (s = r /\ inbox'[s][i] = m)
    BY <2>2, <2>3, BoxTyped, Counts
  <2>7. Tells(One(r), r, c)
    <3>1. Is(m, "update", c)
      BY <2>1 DEF Is
    <3> QED
      BY <2>2, <2>3, <2>4, <3>1, Counts DEF Tells, Newer
  <2>8. Slid(One(r))
    BY <2>5 DEF Slid
  <2>9. Told(One(r))
    BY <1>1, <1>2, <2>1, <2>6 DEF Told, Newer, Is
  <2> QED
    BY <1>0, <1>2, <2>7, <2>8, <2>9, Counts DEF Quiet
<1> QED
  BY <1>3, <1>4 DEF Binds

-----------------------------------------------------------------------------
(* Requests. *)

Asked == Singles /\ Ordered /\ Fresh /\ AtHome /\ Awaited

CrewOn ==
  \/ workers' \subseteq workers
  \/ \E w \in workers, v \in Worker :
       Replaces(w, v) /\ v.run = w.run /\ v.call = w.call /\ v.op = w.op

\* A request that is in an inbox was there before.
LEMMA Older ==
  ASSUME Base, Base', NEW d, Quiet(d), NEW r \in Run, NEW i \in DOMAIN inbox'[r],
         inbox'[r][i].what \in Requests \cup {"bind"}
  PROVE  i + d[r] \in DOMAIN inbox[r] /\ inbox'[r][i] = inbox[r][i + d[r]]
         /\ i \in Nat /\ d[r] \in {0, 1}
<1>1. i \in Nat /\ d[r] \in {0, 1}
  <2>1. inbox'[r] \in Seq(Message)
    BY DEF Base, BoxOK
  <2> QED
    BY <2>1 DEF Quiet
<1> QED
  BY <1>1, KindsAre DEF Quiet, Slid, Slides, Kinds

LEMMA BoxFrom ==
  ASSUME Base, Base', NEW d, Quiet(d), NEW r \in Run, NEW c, NEW op \in Requests \cup {"bind"},
         InBox(r, op, c)'
  PROVE  InBox(r, op, c)
BY Older DEF InBox, Is

LEMMA CrewFrom ==
  ASSUME CrewOn, NEW v \in workers'
  PROVE  \E w \in workers : w.run = v.run /\ w.call = v.call /\ w.op = v.op
BY DEF CrewOn, Replaces

LEMMA PendingFrom ==
  ASSUME Base, Base', NEW d, Quiet(d), CrewOn, NEW c, NEW op \in Requests, Pending(op, c)'
  PROVE  Pending(op, c)
<1>1. CASE \E r \in Run : InBox(r, op, c)'
  BY <1>1, BoxFrom DEF Pending
<1>2. CASE \E v \in workers' : Serves(v, op, c)
  BY <1>2, CrewFrom DEF Pending, Serves
<1> QED
  BY <1>1, <1>2 DEF Pending

LEMMA SingleFrom ==
  ASSUME Base, Base', NEW d, Quiet(d), CrewOn, NEW c, NEW op \in Requests, Single(op, c)
  PROVE  Single(op, c)'
<1>1. \A r, s \in Run : InBox(r, op, c)' /\ InBox(s, op, c)' => r = s
  BY BoxFrom DEF Single
<1>2. ASSUME NEW r \in Run, NEW i \in DOMAIN inbox'[r], NEW j \in DOMAIN inbox'[r],
             Is(inbox'[r][i], op, c), Is(inbox'[r][j], op, c)
      PROVE  i = j
  <2>1. /\ i + d[r] \in DOMAIN inbox[r] /\ inbox'[r][i] = inbox[r][i + d[r]] /\ i \in Nat
        /\ j + d[r] \in DOMAIN inbox[r] /\ inbox'[r][j] = inbox[r][j + d[r]] /\ j \in Nat
        /\ d[r] \in {0, 1}
    BY <1>2, Older DEF Is
  <2>2. i + d[r] = j + d[r]
    BY <1>2, <2>1 DEF Single
  <2> QED
    BY <2>1, <2>2
<1>3. ASSUME NEW r \in Run, InBox(r, op, c)', NEW w \in workers', Serves(w, op, c)
      PROVE  FALSE
  <2>1. PICK x \in workers : Serves(x, op, c)
    BY <1>3, CrewFrom DEF Serves
  <2>2. InBox(r, op, c)
    BY <1>3, BoxFrom
  <2> QED
    BY <2>1, <2>2 DEF Single
<1>4. ASSUME NEW v \in workers', NEW w \in workers', Serves(v, op, c), Serves(w, op, c)
      PROVE  v = w
  BY <1>4 DEF CrewOn, Replaces, Single, Serves
<1> QED
  BY <1>1, <1>2, <1>3, <1>4 DEF Single

\* How far calls may be after a step that makes no request.
CallsOn ==
  \A c \in Command :
    /\ Ahead(tool'[c].at) \subseteq Ahead(tool[c].at)
    /\ tool'[c].at \in Early => tool[c].at \in Early
    /\ Busy(c)' => run' = run /\ (Busy(c) \/ tool[c].at \in Early)
    /\ tool'[c].at \in {"asking", "creating", "waiting"} =>
         /\ tool'[c].at = tool[c].at /\ mail'[c].op = mail[c].op
         /\ mail'[c] = mail[c] \/ (tool[c].at = "creating" => ~Pending("create", c)')

LEMMA AheadIs ==
  /\ \A at : at \in Early => Ahead(at) = Requests
  /\ Ahead("creating") = Requests \ {"create"}
  /\ Ahead("waiting") = {"kill", "output", "release"}
  /\ \A at : at \notin Early \cup {"creating", "waiting"} => Ahead(at) = {}
  /\ \A at : Ahead(at) \subseteq Requests
BY DEF Ahead, Early, Requests

LEMMA AskedStep ==
  ASSUME Base, Base', Asked, NEW d, Quiet(d), Ages, CallsOn, Singles',
         \A c \in Command, op \in Requests : Pending(op, c)' => Pending(op, c),
         \A w \in workers' : \/ \E x \in workers : x.run = w.run /\ x.call = w.call
                            \/ \E op \in Requests : InBox(w.run, op, w.call),
         \A c \in Command : Exists(c)' /\ ~Exists(c) =>
           Pending("create", c) /\ (Busy(c)' => term'[c].run = run')
  PROVE  Asked'
<1>2. Ordered'
  BY AheadIs DEF Asked, Ordered, CallsOn
<1>3. Fresh'
  <2>1. ASSUME NEW c \in Command, tool'[c].at \in Early
        PROVE  ~Exists(c)' /\ \A r \in Run : ~InBox(r, "bind", c)'
    <3>1. tool[c].at \in Early /\ ~Pending("create", c)
      BY <2>1, AheadIs DEF CallsOn, Asked, Ordered, Requests
    <3> QED
      BY <3>1, BoxFrom DEF Asked, Fresh
  <2> QED
    BY <2>1 DEF Fresh
<1>4. AtHome'
  <2>1. ASSUME NEW c \in Command, Busy(c)'
        PROVE  /\ \A r \in Run, op \in Requests \cup {"bind"} : InBox(r, op, c)' => r = run'
               /\ \A w \in workers' : w.call = c => w.run = run'
               /\ Exists(c)' => term'[c].run = run'
    <3>1. run' = run /\ (Busy(c) \/ tool[c].at \in Early)
      BY <2>1 DEF CallsOn
    <3>2. CASE Busy(c)
      <4>1. \A r \in Run, op \in Requests \cup {"bind"} : InBox(r, op, c) => r = run
        BY <3>2 DEF Asked, AtHome
      <4>2. \A r \in Run, op \in Requests \cup {"bind"} : InBox(r, op, c)' => r = run
        BY <4>1, BoxFrom
      <4>3. \A w \in workers' : w.call = c => w.run = run
        <5> SUFFICES ASSUME NEW w \in workers', w.call = c
                     PROVE  w.run = run
          OBVIOUS
        <5>1. w.run \in Run
          BY WorkerParts DEF Base, CrewOK
        <5>2. CASE \E x \in workers : x.run = w.run /\ x.call = w.call
          BY <3>2, <5>2 DEF Asked, AtHome
        <5>3. CASE \E op \in Requests : InBox(w.run, op, w.call)
          BY <4>1, <5>1, <5>3
        <5> QED
          BY <5>2, <5>3
      <4>4. Exists(c)' => term'[c].run = run
        BY <2>1, <3>1, <3>2 DEF Asked, AtHome, Ages
      <4> QED
        BY <3>1, <4>2, <4>3, <4>4
    <3>3. CASE tool[c].at \in Early
      <4>1. /\ \A op \in Requests : ~Pending(op, c)
            /\ ~Exists(c) /\ \A r \in Run : ~InBox(r, "bind", c)
        BY <3>3, AheadIs DEF Asked, Ordered, Fresh
      <4>2. \A op \in Requests : ~Pending(op, c)'
        BY <4>1
      <4>3. \A r \in Run : ~InBox(r, "bind", c)'
        BY <4>1, BoxFrom
      <4>4. \A w \in workers' : w.call # c
        <5>1. workers' \subseteq Worker
          BY DEF Base, CrewOK
        <5> QED
          BY <4>2, <5>1, WorkerParts DEF Pending, Serves
      <4>5. ~Exists(c)'
        BY <4>1 DEF Requests
      <4> QED
        BY <4>2, <4>3, <4>4, <4>5 DEF Pending
    <3> QED
      BY <3>1, <3>2, <3>3
  <2>2. ASSUME NEW r \in Run, NEW c \in Command, InBox(r, "update", c)'
        PROVE  Exists(c)' /\ term'[c].run = r
    <3>1. PICK i \in DOMAIN inbox'[r] : Is(inbox'[r][i], "update", c)
      BY <2>2 DEF InBox
    <3>2. CASE Newer(d, r, i)
      BY <3>1, <3>2 DEF Quiet, Told
    <3>3. CASE ~Newer(d, r, i)
      <4>1. inbox'[r][i] = inbox[r][i + d[r]] /\ i + d[r] \in DOMAIN inbox[r]
        BY <3>1, <3>3, KindsAre DEF Quiet, Slid, Slides, Newer, Is
      <4>2. InBox(r, "update", c)
        BY <3>1, <4>1 DEF InBox
      <4> QED
        BY <4>2 DEF Asked, AtHome, Ages
    <3> QED
      BY <3>2, <3>3
  <2>3. \A w \in workers' : w.call \in Command
    <3>1. workers' \subseteq Worker
      BY DEF Base, CrewOK
    <3> QED
      BY <3>1, WorkerParts
  <2> QED
    BY <2>1, <2>2, <2>3 DEF AtHome
<1>5. Awaited'
  <2>1. ASSUME NEW c \in Command, ~Pending("create", c)
        PROVE  ~Pending("create", c)'
    BY <2>1 DEF Requests
  <2>2. ASSUME NEW c \in Command
        PROVE  /\ tool'[c].at = "asking" => mail'[c].op = "ask"
               /\ tool'[c].at = "creating" =>
                    mail'[c].op = "create" /\ (mail'[c].answer # Nil => ~Pending("create", c)')
               /\ tool'[c].at = "waiting" => mail'[c].op = "wait" /\ ~Pending("create", c)'
    BY <2>1 DEF Asked, Awaited, CallsOn
  <2> QED
    BY <2>2 DEF Awaited
<1> QED
  BY <1>2, <1>3, <1>4, <1>5 DEF Asked

LEMMA AskedOn ==
  ASSUME Base, Base', Asked, NEW d, Quiet(d), CrewOn, Ages, CallsOn,
         \A c \in Command : Exists(c)' /\ ~Exists(c) =>
           Pending("create", c) /\ (Busy(c)' => term'[c].run = run')
  PROVE  Asked'
<1>1. Singles'
  BY SingleFrom DEF Asked, Singles, Requests
<1>2. \A c \in Command, op \in Requests : Pending(op, c)' => Pending(op, c)
  BY PendingFrom
<1>3. \A w \in workers' : \E x \in workers : x.run = w.run /\ x.call = w.call
  BY CrewFrom
<1> QED
  BY <1>1, <1>2, <1>3, AskedStep

\* The inbound worker starts a thread for a request.
LEMMA HearRequestAsked ==
  ASSUME Base, Base', Host, Asked, NEW r \in Run, HearRequest(r)
  PROVE  Asked'
<1> DEFINE m == inbox[r][1]
           v == Thread(r, m)
<1>1. /\ inbox[r] # <<>> /\ 1 \in DOMAIN inbox[r] /\ Head(inbox[r]) = m /\ m \in Message
      /\ m.what \in Requests
      /\ inbox' = [inbox EXCEPT ![r] = Tail(@)]
      /\ workers' = workers \cup {v}
      /\ UNCHANGED <<term, mail, tool, run>>
  BY HeadIs, BoxTyped, SlidesTail DEF HearRequest, Handled, Next1, Host
<1>2. v \in Worker /\ v.run = r /\ v.call = m.call /\ v.op = m.what
  BY <1>1, ThreadParts
<1> HIDE DEF v
<1>3. Quiet(One(r))
  BY <1>1, QuietTail DEF AllShown
<1>4. ASSUME NEW c, NEW op, Serves(v, op, c)
      PROVE  Is(m, op, c) /\ InBox(r, op, c)
  BY <1>1, <1>2, <1>4 DEF Serves, Is, InBox
<1>5. ASSUME NEW s \in Run, NEW c, NEW op \in Requests, InBox(s, op, c)'
      PROVE  \E i \in DOMAIN inbox[s] : Is(inbox[s][i], op, c) /\ (s = r => i # 1)
  <2>1. PICK i \in DOMAIN inbox'[s] : Is(inbox'[s][i], op, c)
    BY <1>5 DEF InBox
  <2>2. /\ i + One(r)[s] \in DOMAIN inbox[s] /\ inbox'[s][i] = inbox[s][i + One(r)[s]] /\ i \in Nat
    BY <1>3, <2>1, Older DEF Is
  <2>3. i > 0
    <3>1. inbox'[s] \in Seq(Message)
      BY DEF Base, BoxOK
    <3> QED
      BY <3>1
  <2>4. s = r => i + One(r)[s] # 1
    BY <2>2, <2>3, Counts
  <2> QED
    BY <2>1, <2>2, <2>4
<1>6. ASSUME NEW c, NEW op \in Requests, Single(op, c)
      PROVE  Single(op, c)'
  <2>1. \A s, t \in Run : InBox(s, op, c)' /\ InBox(t, op, c)' => s = t
    BY <1>3, <1>6, BoxFrom DEF Single
  <2>2. ASSUME NEW s \in Run, NEW i \in DOMAIN inbox'[s], NEW j \in DOMAIN inbox'[s],
               Is(inbox'[s][i], op, c), Is(inbox'[s][j], op, c)
        PROVE  i = j
    <3> DEFINE d == One(r)[s]
    <3>1. /\ i + d \in DOMAIN inbox[s] /\ inbox'[s][i] = inbox[s][i + d] /\ i \in Nat
          /\ j + d \in DOMAIN inbox[s] /\ inbox'[s][j] = inbox[s][j + d] /\ j \in Nat
          /\ d \in {0, 1}
      BY <1>3, <2>2, Older DEF Is
    <3> HIDE DEF d
    <3>2. i + d = j + d
      BY <1>6, <2>2, <3>1 DEF Single
    <3> QED
      BY <3>1, <3>2
  <2>3. ASSUME NEW s \in Run, InBox(s, op, c)', NEW w \in workers', Serves(w, op, c)
        PROVE  FALSE
    <3>1. PICK i \in DOMAIN inbox[s] : Is(inbox[s][i], op, c) /\ (s = r => i # 1)
      BY <1>5, <2>3
    <3>2. InBox(s, op, c)
      BY <3>1 DEF InBox
    <3>3. w \notin workers
      BY <1>6, <2>3, <3>2 DEF Single
    <3>4. w = v
      BY <1>1, <2>3, <3>3
    <3>5. s = r
      BY <1>4, <1>6, <2>3, <3>2, <3>4 DEF Single
    <3>6. Is(inbox[r][1], op, c)
      BY <1>4, <2>3, <3>4
    <3> QED
      BY <1>1, <1>6, <3>1, <3>5, <3>6 DEF Single
  <2>4. ASSUME NEW x \in workers', NEW y \in workers', Serves(x, op, c), Serves(y, op, c)
        PROVE  x = y
    <3>1. CASE x = v \/ y = v
      <4>1. InBox(r, op, c)
        BY <1>4, <2>4, <3>1
      <4> QED
        BY <1>1, <1>6, <2>4, <3>1, <4>1 DEF Single
    <3>2. CASE x \in workers /\ y \in workers
      BY <1>6, <2>4, <3>2 DEF Single
    <3> QED
      BY <1>1, <3>1, <3>2
  <2> QED
    BY <2>1, <2>2, <2>3, <2>4 DEF Single
<1>7. Singles'
  BY <1>6 DEF Asked, Singles, Requests
<1>8. \A c \in Command, op \in Requests : Pending(op, c)' => Pending(op, c)
  BY <1>1, <1>3, <1>4, BoxFrom DEF Pending
<1>9. \A w \in workers' : \/ \E x \in workers : x.run = w.run /\ x.call = w.call
                         \/ \E op \in Requests : InBox(w.run, op, w.call)
  BY <1>1, <1>2, <1>4 DEF Serves
<1>10. CallsOn
  BY <1>1 DEF CallsOn, Busy
<1> QED
  BY <1>1, <1>3, <1>7, <1>8, <1>9, <1>10, Still, AskedStep

\* Call c has put requests into the inbox of the latest run, one of each kind.
Adds(c, whats) ==
  /\ \A s \in Run : \A i \in DOMAIN inbox'[s] :
       \/ i \in DOMAIN inbox[s] /\ inbox'[s][i] = inbox[s][i]
       \/ s = run /\ i \notin DOMAIN inbox[s] /\ inbox'[s][i].call = c /\ inbox'[s][i].what \in whats
  /\ \A s \in Run : \A i \in DOMAIN inbox[s] : i \in DOMAIN inbox'[s]
  /\ \A i, j \in DOMAIN inbox'[run] :
       i \notin DOMAIN inbox[run] /\ j \notin DOMAIN inbox[run]
       /\ inbox'[run][i].what = inbox'[run][j].what => i = j

LEMMA AddsOne ==
  ASSUME Base, run \in Run, NEW c \in Command, NEW what \in Requests \cup {"ask"},
         inbox' = [inbox EXCEPT ![run] = Append(@, Msg(what, c))]
  PROVE  Adds(c, {what})
<1> DEFINE m == Msg(what, c)
           q == Append(inbox[run], m)
<1>1. inbox[run] \in Seq(Message) /\ m \in Message /\ m.what = what /\ m.call = c
  BY BoxTyped, Messages
<1> HIDE DEF m
<1>2. /\ DOMAIN q = DOMAIN inbox[run] \cup {Len(inbox[run]) + 1}
      /\ q[Len(inbox[run]) + 1] = m
      /\ \A i \in DOMAIN inbox[run] : q[i] = inbox[run][i]
  BY <1>1
<1>3. inbox'[run] = q /\ \A s \in Run : s # run => inbox'[s] = inbox[s]
  BY DEF Base, BoxOK, m
<1> HIDE DEF q
<1> QED
  BY <1>1, <1>2, <1>3 DEF Adds

LEMMA AddsTwo ==
  ASSUME Base, run \in Run, NEW c \in Command,
         inbox' = [inbox EXCEPT ![run] = Append(Append(@, Msg("bind", c)), Msg("wait", c))]
  PROVE  /\ Adds(c, {"bind", "wait"})
         /\ \A i \in DOMAIN inbox'[run] : i \notin DOMAIN inbox[run] /\ inbox'[run][i].what = "wait" =>
              \E j \in 1..i-1 : Is(inbox'[run][j], "bind", c)
<1> DEFINE a == Msg("bind", c)
           b == Msg("wait", c)
           n == Len(inbox[run])
           q == Append(Append(inbox[run], a), b)
<1>1. inbox[run] \in Seq(Message) /\ a \in Message /\ a.what = "bind" /\ a.call = c
      /\ b \in Message /\ b.what = "wait" /\ b.call = c
  BY BoxTyped, Messages DEF Requests
<1> HIDE DEF a, b
<1>2. /\ DOMAIN q = DOMAIN inbox[run] \cup {n + 1, n + 2}
      /\ q[n + 1] = a /\ q[n + 2] = b
      /\ \A i \in DOMAIN inbox[run] : q[i] = inbox[run][i]
      /\ n \in Nat
  BY <1>1
<1>3. inbox'[run] = q /\ \A s \in Run : s # run => inbox'[s] = inbox[s]
  BY DEF Base, BoxOK, a, b
<1> HIDE DEF q, n
<1>4. Adds(c, {"bind", "wait"})
  <2>1. \A s \in Run : \A i \in DOMAIN inbox'[s] :
          \/ i \in DOMAIN inbox[s] /\ inbox'[s][i] = inbox[s][i]
          \/ s = run /\ i \notin DOMAIN inbox[s] /\ (i = n + 1 \/ i = n + 2)
             /\ inbox'[s][i].call = c /\ inbox'[s][i].what \in {"bind", "wait"}
    BY <1>1, <1>2, <1>3
  <2>2. \A s \in Run : \A i \in DOMAIN inbox[s] : i \in DOMAIN inbox'[s]
    BY <1>2, <1>3
  <2>3. inbox'[run][n + 1].what = "bind" /\ inbox'[run][n + 2].what = "wait"
    BY <1>1, <1>2, <1>3
  <2>4. \A i, j \in DOMAIN inbox'[run] :
          i \notin DOMAIN inbox[run] /\ j \notin DOMAIN inbox[run]
          /\ inbox'[run][i].what = inbox'[run][j].what => i = j
    BY <2>1, <2>3
  <2> QED
    BY <2>1, <2>2, <2>4 DEF Adds
<1>5. ASSUME NEW i \in DOMAIN inbox'[run], i \notin DOMAIN inbox[run], inbox'[run][i].what = "wait"
      PROVE  \E j \in 1..i-1 : Is(inbox'[run][j], "bind", c)
  <2>1. i = n + 2
    BY <1>1, <1>2, <1>3, <1>5
  <2>2. n + 1 \in 1..i-1 /\ Is(inbox'[run][n + 1], "bind", c)
    BY <1>1, <1>2, <1>3, <2>1 DEF Is
  <2> QED
    BY <2>2
<1> QED
  BY <1>4, <1>5

LEMMA AddsBox ==
  ASSUME Base, run \in Run, NEW c, NEW whats, Adds(c, whats),
         NEW s \in Run, NEW op, NEW e, InBox(s, op, e)'
  PROVE  InBox(s, op, e) \/ (s = run /\ op \in whats /\ e = c)
BY DEF Adds, InBox, Is

LEMMA AddsSingle ==
  ASSUME Base, run \in Run, NEW c, NEW whats, Adds(c, whats), workers' = workers,
         NEW op \in Requests, NEW e, Single(op, e), op \in whats /\ e = c => ~Pending(op, e)
  PROVE  Single(op, e)'
<1>1. CASE op \in whats /\ e = c
  <2>1. /\ \A s \in Run : ~InBox(s, op, e)
        /\ \A w \in workers : ~Serves(w, op, e)
    BY <1>1 DEF Pending
  <2>2. \A s \in Run : InBox(s, op, e)' => s = run
    BY <2>1, AddsBox
  <2>3. \A s \in Run : \A i, j \in DOMAIN inbox'[s] :
          Is(inbox'[s][i], op, e) /\ Is(inbox'[s][j], op, e) => i = j
    BY <2>1 DEF Adds, InBox, Is
  <2> QED
    BY <2>1, <2>2, <2>3 DEF Single
<1>2. CASE ~(op \in whats /\ e = c)
  <2>1. \A s \in Run : InBox(s, op, e)' => InBox(s, op, e)
    BY <1>2, AddsBox
  <2>2. \A s \in Run : \A i \in DOMAIN inbox'[s] :
          Is(inbox'[s][i], op, e) => i \in DOMAIN inbox[s] /\ Is(inbox[s][i], op, e)
    BY <1>2 DEF Adds, Is
  <2> QED
    BY <2>1, <2>2 DEF Single
<1> QED
  BY <1>1, <1>2

LEMMA AddsAsked ==
  ASSUME Base, Base', Asked, run \in Run, NEW c \in Command, NEW whats, Adds(c, whats),
         UNCHANGED <<workers, term, run>>, Busy(c),
         NEW t, tool' = [tool EXCEPT ![c] = t],
         NEW last \in Requests \cup {"ask"}, mail' = [mail EXCEPT ![c] = Awaits(last)],
         "update" \notin whats,
         \A op \in {"create", "wait"} : op \in whats => ~Pending(op, c),
         \A op \in Ahead(t.at) : op \in Ahead(tool[c].at) /\ op \notin whats,
         t.at \in Early => tool[c].at \in Early /\ "bind" \notin whats,
         t.at = "asking" => last = "ask",
         t.at = "creating" => last = "create",
         t.at = "waiting" => last = "wait" /\ ~Pending("create", c) /\ "create" \notin whats
  PROVE  Asked'
<1>0. /\ tool'[c] = t /\ \A e \in Command : e # c => tool'[e] = tool[e]
      /\ mail'[c] = Awaits(last) /\ \A e \in Command : e # c => mail'[e] = mail[e]
  BY DEF Base, ToolOK, MailOK
<1>1. Singles'
  BY AddsSingle DEF Asked, Singles, Requests
<1>2. ASSUME NEW e, NEW op, Pending(op, e)', ~(e = c /\ op \in whats)
      PROVE  Pending(op, e)
  BY <1>2, AddsBox DEF Pending
<1>3. Ordered'
  BY <1>0, <1>2 DEF Asked, Ordered
<1>4. Fresh'
  <2>1. ASSUME NEW e \in Command, tool'[e].at \in Early
        PROVE  ~Exists(e)' /\ \A r \in Run : ~InBox(r, "bind", e)'
    <3>1. tool[e].at \in Early /\ ~(e = c /\ "bind" \in whats)
      BY <1>0, <2>1
    <3>2. ~Exists(e)'
      BY <3>1 DEF Asked, Fresh, Exists
    <3> QED
      BY <3>1, <3>2, AddsBox DEF Asked, Fresh
  <2> QED
    BY <2>1 DEF Fresh
<1>5. AtHome'
  <2>1. \A e \in Command : Busy(e)' => Busy(e)
    BY <1>0 DEF Busy
  <2>2. \A r \in Run, e \in Command : \A op \in Requests \cup {"bind"} :
          InBox(r, op, e)' /\ Busy(e)' => r = run'
    BY <2>1, AddsBox DEF Asked, AtHome
  <2>3. \A r \in Run, e \in Command : InBox(r, "update", e)' => Exists(e)' /\ term'[e].run = r
    BY AddsBox DEF Asked, AtHome, Exists
  <2>4. \A w \in workers : w.call \in Command
    BY WorkerParts DEF Base, CrewOK
  <2>5. \A w \in workers' : Busy(w.call)' => w.run = run'
    BY <2>1, <2>4 DEF Asked, AtHome
  <2>6. \A e \in Command : Exists(e)' /\ Busy(e)' => term'[e].run = run'
    BY <2>1 DEF Asked, AtHome, Exists
  <2> QED
    BY <2>2, <2>3, <2>5, <2>6 DEF AtHome
<1>6. Awaited'
  <2>0. Awaits(last).op = last /\ Awaits(last).answer = Nil
    BY AwaitsParts
  <2>1. \A e \in Command : e # c => (Pending("create", e)' => Pending("create", e))
    BY <1>2
  <2>2. ASSUME NEW e \in Command, e # c
        PROVE  /\ tool'[e].at = "asking" => mail'[e].op = "ask"
               /\ tool'[e].at = "creating" =>
                    mail'[e].op = "create" /\ (mail'[e].answer # Nil => ~Pending("create", e)')
               /\ tool'[e].at = "waiting" => mail'[e].op = "wait" /\ ~Pending("create", e)'
    BY <1>0, <2>1, <2>2 DEF Asked, Awaited
  <2>3. /\ tool'[c].at = "asking" => mail'[c].op = "ask"
        /\ tool'[c].at = "creating" =>
             mail'[c].op = "create" /\ (mail'[c].answer # Nil => ~Pending("create", c)')
        /\ tool'[c].at = "waiting" => mail'[c].op = "wait" /\ ~Pending("create", c)'
    BY <1>0, <1>2, <2>0
  <2> QED
    BY <2>2, <2>3 DEF Awaited
<1> QED
  BY <1>1, <1>3, <1>4, <1>5, <1>6 DEF Asked

LEMMA SentAsked ==
  ASSUME Base, Asked, NEW c \in Command, NEW t \in Tool, NEW what \in Requests \cup {"ask"},
         Sent(c, t, what)
  PROVE  /\ Base' /\ Asked' /\ run \in Run /\ Adds(c, {what}) /\ Busy(c)
         /\ tool' = [tool EXCEPT ![c] = t] /\ mail' = [mail EXCEPT ![c] = Awaits(what)]
         /\ AgentOnly
<1>1. Follows(tool[c].at, t.at, what) /\ tool' = [tool EXCEPT ![c] = t] /\ AgentOnly
  BY DEF Sent, Stepped
<1>2. Busy(c) /\ t.at \in Working
  BY <1>1 DEF Follows, Busy, Working
<1>3. /\ Base' /\ run \in Run
      /\ inbox' = [inbox EXCEPT ![run] = Append(@, Msg(what, c))]
      /\ mail' = [mail EXCEPT ![c] = Awaits(what)]
  BY <1>2, SendBase DEF Sent, Stepped
<1>4. Adds(c, {what})
  BY <1>3, AddsOne
<1>5. ASSUME what = "create"
      PROVE  ~Pending("create", c)
  <2>1. tool[c].at = "cleared"
    BY <1>1, <1>5 DEF Follows
  <2> QED
    BY <2>1, AheadIs DEF Asked, Ordered, Early, Requests
<1>6. what # "wait" /\ what # "update" /\ what # "bind"
  BY <1>1 DEF Follows
<1>7. \A op \in Ahead(t.at) : op \in Ahead(tool[c].at) /\ op # what
  <2>1. CASE t.at = "asking"
    BY <1>1, <2>1, AheadIs DEF Follows, Early, Requests
  <2>2. CASE t.at = "creating"
    BY <1>1, <2>2, AheadIs DEF Follows, Early
  <2>3. CASE t.at \in {"reading", "killing", "releasing"}
    BY <2>3, AheadIs DEF Early
  <2> QED
    BY <1>1, <2>1, <2>2, <2>3 DEF Follows
<1>8. /\ t.at \in Early => tool[c].at \in Early
      /\ t.at = "asking" => what = "ask"
      /\ t.at = "creating" => what = "create"
      /\ t.at # "waiting"
  BY <1>1 DEF Follows, Early
<1>9. UNCHANGED <<workers, term, run>>
  BY <1>1 DEF AgentOnly
<1>10. Asked'
  <2> DEFINE whats == {what}
  <2>1. "update" \notin whats /\ "bind" \notin whats
    BY <1>6
  <2>2. \A op \in {"create", "wait"} : op \in whats => ~Pending(op, c)
    BY <1>5, <1>6
  <2>3. Adds(c, whats) /\ \A op \in Ahead(t.at) : op \in Ahead(tool[c].at) /\ op \notin whats
    BY <1>4, <1>7
  <2> HIDE DEF whats
  <2> QED
    BY <1>1, <1>2, <1>3, <1>8, <1>9, <2>1, <2>2, <2>3, AddsAsked
<1> QED
  BY <1>1, <1>2, <1>3, <1>4, <1>10

LEMMA SentTwoAsked ==
  ASSUME Base, Asked, NEW c \in Command, NEW t \in Tool, SentTwo(c, t)
  PROVE  /\ Base' /\ Asked' /\ run \in Run /\ Adds(c, {"bind", "wait"}) /\ Busy(c)
         /\ \A i \in DOMAIN inbox'[run] : i \notin DOMAIN inbox[run] /\ inbox'[run][i].what = "wait" =>
              \E j \in 1..i-1 : Is(inbox'[run][j], "bind", c)
         /\ tool' = [tool EXCEPT ![c] = t] /\ mail' = [mail EXCEPT ![c] = Awaits("wait")]
         /\ AgentOnly
<1>1. tool[c].at = "creating" /\ t.at = "waiting" /\ tool' = [tool EXCEPT ![c] = t] /\ AgentOnly
      /\ mail[c].answer = "yes"
  BY DEF SentTwo, Stepped, Got
<1>2. Busy(c) /\ t.at \in Working
  BY <1>1 DEF Busy, Working
<1>3. /\ Base' /\ run \in Run
      /\ inbox' = [inbox EXCEPT ![run] = Append(Append(@, Msg("bind", c)), Msg("wait", c))]
      /\ mail' = [mail EXCEPT ![c] = Awaits("wait")]
  BY <1>2, SendTwoBase DEF SentTwo, Stepped
<1>4. /\ Adds(c, {"bind", "wait"})
      /\ \A i \in DOMAIN inbox'[run] : i \notin DOMAIN inbox[run] /\ inbox'[run][i].what = "wait" =>
           \E j \in 1..i-1 : Is(inbox'[run][j], "bind", c)
  BY <1>3, AddsTwo
<1>5. ~Pending("create", c) /\ ~Pending("wait", c)
  <2>1. "yes" # Nil
    BY HostConstants DEF HostConstants
  <2> QED
    BY <1>1, <2>1, AheadIs DEF Asked, Ordered, Awaited, Requests
<1>6. \A op \in Ahead(t.at) : op \in Ahead(tool[c].at) /\ op \notin {"bind", "wait"}
  BY <1>1, AheadIs DEF Requests
<1>7. t.at \notin Early /\ "wait" \in Requests
  BY <1>1 DEF Early, Requests
<1>8. UNCHANGED <<workers, term, run>>
  BY <1>1 DEF AgentOnly
<1>9. Asked'
  <2> DEFINE whats == {"bind", "wait"}
  <2>1. "update" \notin whats /\ "create" \notin whats
    OBVIOUS
  <2>2. \A op \in {"create", "wait"} : op \in whats => ~Pending(op, c)
    BY <1>5
  <2>3. t.at # "asking" /\ t.at # "creating"
    BY <1>1
  <2>4. Adds(c, whats) /\ \A op \in Ahead(t.at) : op \in Ahead(tool[c].at) /\ op \notin whats
    BY <1>4, <1>6
  <2> HIDE DEF whats
  <2> QED
    BY <1>1, <1>2, <1>3, <1>5, <1>7, <1>8, <2>1, <2>2, <2>3, <2>4, AddsAsked
<1> QED
  BY <1>1, <1>2, <1>3, <1>4, <1>9

-----------------------------------------------------------------------------
(* Service. *)

\* Nothing happens to call c that its service depends on.
Firm(c) ==
  /\ tool'[c].at \in {"creating", "waiting"} => tool'[c].at = tool[c].at /\ mail'[c] = mail[c]
  /\ tool'[c].at \in Early => tool[c].at \in Early
  /\ tool'[c].exited => tool[c].exited
  /\ Open(c)' => Open(c)
  /\ Exists(c)' => Exists(c)
  /\ Exists(c) => /\ term[c].bound => term'[c].bound
                  /\ term[c].client => term'[c].client
  /\ Finished(c) => Finished(c)'
Steady(c) == Firm(c) /\ (Exists(c) /\ term'[c].taken => term[c].taken)

LEMMA OpenExists == ASSUME NEW c, Open(c) PROVE Exists(c)
BY DEF Open, Listed

LEMMA CalledOn == ASSUME NEW c \in Command, Called(c), Steady(c) PROVE Called(c)'
BY OpenExists DEF Called, Steady, Firm

LEMMA BoxedOn ==
  ASSUME Base, Base', NEW d, Quiet(d), NEW c \in Command, Boxed(c), Steady(c),
         \A r \in Run : d[r] = 1 /\ Is(inbox[r][1], "bind", c) /\ tool[c].at = "waiting" =>
           (Open(c)' => term'[c].bound)
  PROVE  Boxed(c)'
<1> SUFFICES ASSUME tool'[c].at = "waiting", NEW r \in Run, NEW i \in DOMAIN inbox'[r],
                    Is(inbox'[r][i], "wait", c)
             PROVE  /\ (\E j \in 1..i-1 : Is(inbox'[r][j], "bind", c)) \/ (Open(c)' => term'[c].bound)
                    /\ Exists(c)' => ~term'[c].taken
  BY DEF Boxed
<1>1. /\ i + d[r] \in DOMAIN inbox[r] /\ inbox'[r][i] = inbox[r][i + d[r]] /\ i \in Nat
      /\ d[r] \in {0, 1}
  BY Older DEF Is, Requests
<1>2. tool[c].at = "waiting" /\ Is(inbox[r][i + d[r]], "wait", c)
  BY <1>1 DEF Steady, Firm
<1>3. Exists(c)' => ~term'[c].taken
  BY <1>1, <1>2 DEF Boxed, Steady, Firm
<1>4. CASE Open(c) => term[c].bound
  BY <1>3, <1>4, OpenExists DEF Steady, Firm
<1>5. ASSUME NEW j \in 1..(i + d[r])-1, Is(inbox[r][j], "bind", c)
      PROVE  (\E k \in 1..i-1 : Is(inbox'[r][k], "bind", c)) \/ (Open(c)' => term'[c].bound)
  <2>1. j \in DOMAIN inbox[r] /\ j \in Nat /\ j > 0 /\ j < i + d[r]
    <3>1. inbox[r] \in Seq(Message)
      BY BoxTyped
    <3> QED
      BY <1>1, <3>1
  <2>2. CASE j > d[r]
    <3>1. j - d[r] \in DOMAIN inbox'[r] /\ inbox'[r][j - d[r]] = inbox[r][j]
      BY <1>5, <2>1, <2>2, KindsAre DEF Quiet, Slid, Slides, Is
    <3>2. j - d[r] \in 1..i-1
      BY <1>1, <2>1, <2>2
    <3> QED
      BY <1>5, <3>1, <3>2
  <2>3. CASE ~(j > d[r])
    <3>1. j = 1 /\ d[r] = 1
      BY <1>1, <2>1, <2>3
    <3> QED
      BY <1>2, <1>5, <3>1
  <2> QED
    BY <2>2, <2>3
<1> QED
  BY <1>1, <1>2, <1>3, <1>4, <1>5 DEF Boxed

LEMMA WaiterOn ==
  ASSUME NEW w \in Worker, Waiter(w), Steady(w.call),
         w.at \in {"poll", "join"} => Exists(w.call)
  PROVE  Waiter(w)'
BY OpenExists DEF Waiter, Steady, Firm

\* All calls are left alone.
LEMMA ServedOn ==
  ASSUME Base, Base', Rests, Served, NEW d, Quiet(d),
         \A c \in Command : Steady(c),
         \A r \in Run, c \in Command :
           d[r] = 1 /\ Is(inbox[r][1], "bind", c) /\ tool[c].at = "waiting" =>
             (Open(c)' => term'[c].bound),
         \A v \in workers' : v \in workers \/ Waiter(v)'
  PROVE  Served'
<1>1. \A c \in Command : Called(c)' /\ Boxed(c)'
  BY CalledOn, BoxedOn DEF Served
<1>2. ASSUME NEW w \in workers
      PROVE  Waiter(w)'
  <2>1. w \in Worker /\ w.call \in Command /\ Fits(w) /\ Waiter(w)
    BY ThreadIs DEF Served
  <2> QED
    BY <2>1, WaiterOn, TermTyped DEF Fits
<1> QED
  BY <1>1, <1>2 DEF Served

-----------------------------------------------------------------------------
(* What is shown. *)

LEMMA StoredOn ==
  ASSUME Base, Base', Asked, NEW d, Quiet(d), Ages, NEW c \in Command, Stored(c),
         part'[c] = part[c],
         live' = live \/ (Exists(c)' => live' # term'[c].run),
         \A r \in Run : d[r] = 1 /\ live' = r => ~Is(inbox[r][1], "update", c),
         Exists(c)' /\ ~Exists(c) => term'[c].shown = Nil /\ inbox' = inbox
  PROVE  Stored(c)'
<1>1. ~Exists(c)' => part'[c] = Nil
  BY DEF Stored, Ages
<1>2. ASSUME NEW r \in Run, Exists(c)', term'[c].run = r, live' = r, ~Exists(c)
      PROVE  /\ part'[c] = term'[c].shown
             /\ ~InBox(r, "update", c)'
  <2>1. part'[c] = Nil /\ term'[c].shown = Nil /\ inbox' = inbox
    BY <1>2 DEF Stored
  <2>2. ~InBox(r, "update", c)
    BY <1>2 DEF Asked, AtHome
  <2> QED
    BY <2>1, <2>2 DEF InBox
<1>3. ASSUME NEW r \in Run, Exists(c)', term'[c].run = r, live' = r, Exists(c)
      PROVE  /\ ~InBox(r, "update", c)' => part'[c] = term'[c].shown
             /\ \A i \in DOMAIN inbox'[r] :
                  /\ Is(inbox'[r][i], "update", c)
                  /\ \A j \in DOMAIN inbox'[r] : j > i => ~Is(inbox'[r][j], "update", c)
                  => inbox'[r][i].snap = term'[c].shown
  <2> DEFINE q == inbox[r]
             p == inbox'[r]
             e == d[r]
  <2>0. live = r /\ term[c].run = r /\ e \in {0, 1}
    BY <1>3 DEF Ages, Quiet
  <2>1. q \in Seq(Message) /\ p \in Seq(Message) /\ Slides(q, p, e)
    BY <2>0, BoxTyped DEF Quiet, Slid, Base, BoxOK
  <2>2. e = 1 => ~Is(q[1], "update", c)
    BY <1>3, <2>0
  <2>3. \A i \in DOMAIN p : Is(p[i], "update", c) /\ i + e \notin DOMAIN q => p[i].snap = term'[c].shown
    BY <2>0 DEF Quiet, Told, Newer
  <2>4. term'[c].shown # term[c].shown =>
          \E i \in DOMAIN p : Is(p[i], "update", c) /\ i + e \notin DOMAIN q
    BY <1>3, <2>0 DEF Quiet, Tells, Newer
  <2>5. /\ (\A i \in DOMAIN q : ~Is(q[i], "update", c)) => part[c] = term[c].shown
        /\ \A i \in DOMAIN q :
             /\ Is(q[i], "update", c)
             /\ \A j \in DOMAIN q : j > i => ~Is(q[j], "update", c)
             => q[i].snap = term[c].shown
    BY <1>3, <2>0 DEF Stored, InBox
  <2> HIDE DEF q, p, e
  <2>6. \A i \in DOMAIN p : Is(p[i], "update", c) /\ i + e \in DOMAIN q => p[i] = q[i + e]
    BY <2>1, KindsAre DEF Slides, Is
  <2>7. \A j \in DOMAIN q : Is(q[j], "update", c) => j > e /\ j - e \in DOMAIN p /\ p[j - e] = q[j]
    <3>1. \A j \in DOMAIN q : j \in Nat /\ j > 0
      BY <2>1
    <3>2. \A j \in DOMAIN q : Is(q[j], "update", c) => j > e
      BY <2>0, <2>2, <3>1
    <3> QED
      BY <2>1, <3>2, KindsAre DEF Slides, Is
  <2>8. ASSUME \A i \in DOMAIN p : ~Is(p[i], "update", c)
        PROVE  part[c] = term'[c].shown
    BY <2>4, <2>5, <2>7, <2>8
  <2>9. ASSUME NEW i \in DOMAIN p, Is(p[i], "update", c),
               \A j \in DOMAIN p : j > i => ~Is(p[j], "update", c)
        PROVE  p[i].snap = term'[c].shown
    <3>1. CASE i + e \notin DOMAIN q
      BY <2>3, <2>9, <3>1
    <3>2. CASE i + e \in DOMAIN q
      <4>1. /\ \A j \in DOMAIN q : j \in Nat /\ j <= Len(q)
            /\ \A j \in DOMAIN p : j \in Nat /\ j > 0
            /\ \A j \in Nat : j > 0 /\ j <= Len(q) => j \in DOMAIN q
            /\ Len(q) \in Nat
        BY <2>1
      <4>2. term'[c].shown = term[c].shown
        <5> SUFFICES ASSUME NEW k \in DOMAIN p, Is(p[k], "update", c), k + e \notin DOMAIN q
                     PROVE  FALSE
          BY <2>4
        <5>1. k > i
          BY <2>0, <3>2, <4>1
        <5> QED
          BY <2>9, <5>1
      <4>3. \A j \in DOMAIN q : j > i + e => ~Is(q[j], "update", c)
        <5> SUFFICES ASSUME NEW j \in DOMAIN q, j > i + e, Is(q[j], "update", c)
                     PROVE  FALSE
          OBVIOUS
        <5>1. j - e \in DOMAIN p /\ Is(p[j - e], "update", c)
          BY <2>7
        <5>2. j - e > i
          BY <2>0, <4>1
        <5> QED
          BY <2>9, <5>1, <5>2
      <4> QED
        BY <2>5, <2>6, <2>9, <3>2, <4>2, <4>3
    <3> QED
      BY <3>1, <3>2
  <2> QED
    BY <2>8, <2>9 DEF InBox, p
<1>4. ASSUME NEW r \in Run, Exists(c)', term'[c].run = r, live' = r
      PROVE  /\ ~InBox(r, "update", c)' => part'[c] = term'[c].shown
             /\ \A i \in DOMAIN inbox'[r] :
                  /\ Is(inbox'[r][i], "update", c)
                  /\ \A j \in DOMAIN inbox'[r] : j > i => ~Is(inbox'[r][j], "update", c)
                  => inbox'[r][i].snap = term'[c].shown
  BY <1>2, <1>3, <1>4 DEF InBox
<1> QED
  BY <1>1, <1>4 DEF Stored

\* The inbound worker stores a snapshot.
LEMMA HearUpdatePublished ==
  ASSUME Base, Base', Asked, Published, NEW r \in Run, HearUpdate(r)
  PROVE  Published'
<1> PICK m, q, t, c : m = inbox[r][1] /\ q = inbox[r] /\ t = Tail(q) /\ c = m.call
  OBVIOUS
<1>1. /\ q # <<>> /\ 1 \in DOMAIN q /\ Head(q) = m /\ m \in Message
      /\ m.what = "update" /\ q \in Seq(Message)
      /\ inbox' = [inbox EXCEPT ![r] = t] /\ term' = term /\ live' = live
      /\ part' = IF live = r THEN [part EXCEPT ![c] = m.snap] ELSE part
  BY HeadIs, BoxTyped, SlidesTail DEF HearUpdate, Handled, Next1
<1>2. c \in Command /\ InBox(r, "update", c)
  BY <1>1, MessageParts DEF InBox, Is
<1>3. Exists(c) /\ term[c].run = r
  BY <1>2 DEF Asked, AtHome
<1>4. Quiet(One(r))
  BY <1>1, QuietTail DEF AllShown
<1>5. Ages /\ \A e \in Command : Exists(e)' => Exists(e)
  BY <1>1, Still
<1>6. ASSUME NEW e \in Command, e # c \/ live # r
      PROVE  Stored(e)'
  <2>1. part'[e] = part[e]
    BY <1>1, <1>6 DEF Base, PartOK
  <2>2. \A s \in Run : One(r)[s] = 1 /\ live' = s => ~Is(inbox[s][1], "update", e)
    <3> SUFFICES ASSUME NEW s \in Run, One(r)[s] = 1, live = s
                 PROVE  ~Is(inbox[s][1], "update", e)
      BY <1>1
    <3>1. s = r
      BY Counts
    <3> QED
      BY <1>6, <3>1 DEF Is
  <2>3. Stored(e)
    BY DEF Published
  <2> QED
    BY <1>1, <1>4, <1>5, <2>1, <2>2, <2>3, StoredOn
<1>7. ASSUME live = r
      PROVE  Stored(c)'
  <2>1. part'[c] = m.snap
    BY <1>1, <1>2, <1>7 DEF Base, PartOK
  <2>2. inbox'[r] = t
    BY <1>1 DEF Base, BoxOK
  <2>3. /\ \A i \in DOMAIN q :
             /\ Is(q[i], "update", c)
             /\ \A j \in DOMAIN q : j > i => ~Is(q[j], "update", c)
             => q[i].snap = term[c].shown
    BY <1>2, <1>3, <1>7 DEF Published, Stored
  <2>4. /\ \A i \in DOMAIN t : i + 1 \in DOMAIN q /\ t[i] = q[i + 1] /\ i > 0
        /\ \A j \in DOMAIN q : j = 1 \/ (j - 1 \in DOMAIN t /\ t[j - 1] = q[j])
    BY <1>1, SlidesTail
  <2>5. \A j \in DOMAIN q : j \in Nat
    BY <1>1
  <2>6. \A i \in DOMAIN t : i \in Nat
    <3>1. t \in Seq(Message)
      BY <1>1, TailTyped
    <3> QED
      BY <3>1
  <2>7. m = q[1] /\ m.what = "update" /\ m.call = c
    BY <1>1
  <2>8. ASSUME \A i \in DOMAIN t : ~Is(t[i], "update", c)
        PROVE  m.snap = term[c].shown
    <3>1. \A j \in DOMAIN q : j > 1 => ~Is(q[j], "update", c)
      <4> SUFFICES ASSUME NEW j \in DOMAIN q, j > 1
                   PROVE  ~Is(q[j], "update", c)
        OBVIOUS
      <4>1. j # 1
        BY <2>5
      <4> QED
        BY <2>4, <2>8, <4>1
    <3> QED
      BY <1>1, <2>3, <2>7, <3>1 DEF Is
  <2>9. ASSUME NEW i \in DOMAIN t, Is(t[i], "update", c),
               \A j \in DOMAIN t : j > i => ~Is(t[j], "update", c)
        PROVE  t[i].snap = term[c].shown
    <3>1. \A j \in DOMAIN q : j > i + 1 => ~Is(q[j], "update", c)
      <4> SUFFICES ASSUME NEW j \in DOMAIN q, j > i + 1
                   PROVE  ~Is(q[j], "update", c)
        OBVIOUS
      <4>1. j # 1 /\ j - 1 > i
        BY <2>5, <2>6, <2>4
      <4> QED
        BY <2>4, <2>9, <4>1
    <3> QED
      BY <2>3, <2>4, <2>9, <3>1
  <2>10. live' = r /\ term' = term /\ Exists(c)
    BY <1>1, <1>3, <1>7
  <2> QED
    BY <1>3, <2>1, <2>2, <2>8, <2>9, <2>10 DEF Stored, InBox, Exists
<1> QED
  BY <1>2, <1>6, <1>7 DEF Published

-----------------------------------------------------------------------------
(* The steps that only touch a terminal. *)

All == Asked /\ Served /\ Published

\* No update leaves an inbox, and the live run is what it was or has no terminal.
LEMMA AllOn ==
  ASSUME Base, Base', Rests, All, NEW d, Quiet(d), CrewOn, Ages, CallsOn,
         \A c \in Command : Exists(c)' => Exists(c),
         \A c \in Command : Steady(c),
         \A r \in Run, c \in Command :
           d[r] = 1 /\ Is(inbox[r][1], "bind", c) /\ tool[c].at = "waiting" =>
             (Open(c)' => term'[c].bound),
         \A v \in workers' : v \in workers \/ Waiter(v)',
         part' = part,
         live' = live \/ (\A c \in Command : Exists(c)' => live' # term'[c].run),
         \A r \in Run, c \in Command : d[r] = 1 /\ live' = r => ~Is(inbox[r][1], "update", c)
  PROVE  All'
<1>1. Asked'
  BY AskedOn DEF All
<1>2. Served'
  BY ServedOn DEF All
<1>3. ASSUME NEW c \in Command
      PROVE  Stored(c)'
  <2>1. live' = live \/ (Exists(c)' => live' # term'[c].run)
    OBVIOUS
  <2>2. Stored(c) /\ Asked
    BY DEF All, Published
  <2>3. \A r \in Run : d[r] = 1 /\ live' = r => ~Is(inbox[r][1], "update", c)
    OBVIOUS
  <2> QED
    BY <2>1, <2>2, <2>3, StoredOn
<1> QED
  BY <1>1, <1>2, <1>3 DEF All, Published

LEMMA HostCalls == ASSUME Host, mail' = mail PROVE CallsOn
BY DEF Host, CallsOn, Busy

\* No message leaves an inbox, and the chat stays what it is.
LEMMA AllZero ==
  ASSUME Base, Base', Rests, All, Host, Quiet(Zero), CrewOn, Ages, CallsOn,
         \A c \in Command : Exists(c)' => Exists(c),
         \A c \in Command : Steady(c),
         \A v \in workers' : v \in workers \/ Waiter(v)',
         UNCHANGED <<part, live>>
  PROVE  All'
<1>1. \A r \in Run : Zero[r] # 1
  BY Counts
<1> QED
  BY <1>1, AllOn

LEMMA SteadyTerm ==
  ASSUME Base, Base', Host, NEW c \in Command, NEW y \in Terminal, term' = [term EXCEPT ![c] = y],
         Exists(c), UNCHANGED <<mail, live>>,
         y.run = term[c].run, y.listed => term[c].listed, y.taken => term[c].taken,
         term[c].bound => y.bound, term[c].client => y.client,
         Finished(c) => Finished(c)'
  PROVE  \A e \in Command : Steady(e)
<1>1. term'[c] = y /\ \A e \in Command : e # c => term'[e] = term[e]
  BY TermSet DEF Base
<1>2. \A e \in Command : Exists(e)' => Exists(e)
  BY <1>1 DEF Exists
<1>3. \A e \in Command : Open(e)' => Open(e)
  BY <1>1, <1>2 DEF Open, Listed, Host
<1>4. \A e \in Command : Finished(e) => Finished(e)'
  BY <1>1 DEF Finished, Exists
<1> QED
  BY <1>1, <1>2, <1>3, <1>4 DEF Steady, Firm, Host

LEMMA FinishedSame ==
  ASSUME Base, NEW c \in Command, NEW y \in Terminal, term' = [term EXCEPT ![c] = y],
         Same(y, term[c]), y.running => term[c].running, Finished(c)
  PROVE  Finished(c)'
<1>1. term'[c] = y /\ Exists(c)'
  BY TermSet DEF Base
<1>2. term[c] \in Terminal
  BY DEF Finished, Exists, Base, TermOK
<1>3. y.running = term[c].running
  BY <1>2, TerminalParts DEF Finished, Drained
<1>4. Drained(y) /\ y.bound /\ y.client /\ y.shown = Snap(y)
  BY <1>3 DEF Finished, Drained, Same, Snap
<1> QED
  BY <1>1, <1>4 DEF Finished

LEMMA FinishedPosted ==
  ASSUME Base, NEW c \in Command, NEW x \in Terminal, NEW y \in Terminal, Posted(c, x, y),
         Same(x, term[c]), x.running => term[c].running, Finished(c)
  PROVE  Finished(c)'
<1>1. term[c] \in Terminal
  BY DEF Finished, Exists, Base, TermOK
<1>2. x.running = term[c].running
  BY <1>1, TerminalParts DEF Finished, Drained
<1>3. x.shown = Snap(x)
  BY <1>2 DEF Finished, Same, Snap
<1>4. y = x
  BY <1>3 DEF Posted, News
<1> QED
  BY <1>4, FinishedSame DEF Posted

\* The steps of the threads that no request waits for.
LEMMA AloneAll ==
  ASSUME Base, Base', Rests, All, Host, NEW c \in Command, Exists(c), Quiet(Zero),
         NEW y \in Terminal, term' = [term EXCEPT ![c] = y],
         y.run = term[c].run, y.running => term[c].running, y.listed => term[c].listed,
         y.taken => term[c].taken,
         term[c].bound => y.bound, term[c].client => y.client,
         Finished(c) => Finished(c)', UNCHANGED <<workers, mail, live, part>>
  PROVE  All'
<1>1. Ages
  BY AgesAll DEF Base
<1>2. \A e \in Command : Exists(e)' => Exists(e)
  BY TermSet DEF Base, Exists
<1>3. CrewOn /\ \A v \in workers' : v \in workers
  BY DEF CrewOn
<1>4. CallsOn
  BY HostCalls
<1>5. \A e \in Command : Steady(e)
  BY SteadyTerm
<1> QED
  BY <1>1, <1>2, <1>3, <1>4, <1>5, AllZero

LEMMA TermShown ==
  ASSUME Base, NEW c \in Command, NEW y \in Terminal, term' = [term EXCEPT ![c] = y],
         Exists(c) => y.shown = term[c].shown
  PROVE  AllShown
<1>1. term'[c] = y /\ \A e \in Command : e # c => term'[e] = term[e]
  BY TermSet DEF Base
<1> QED
  BY <1>1 DEF AllShown

LEMMA ReapAll == ASSUME Base, Rests, All, Host, NEW c \in Command, Reap(c) PROVE All'
<1>1. Base'
  BY ReapBase
<1>2. c \in doomed /\ Exists(c) /\ UNCHANGED <<workers, mail, live, part>>
  BY DEF Base, DoomOK, Reap
<1>3. PICK x \in Terminal, y \in Terminal :
        /\ Same(x, term[c]) /\ ~x.running /\ x.listed = term[c].listed /\ x.taken = term[c].taken
        /\ Posted(c, x, y)
  BY <1>2, BaseShape, ReapSays
<1>4. Quiet(Zero) /\ (Finished(c) => Finished(c)')
  BY <1>2, <1>3, QuietPosted, FinishedPosted DEF Same
<1>5. /\ term' = [term EXCEPT ![c] = y]
      /\ y.run = term[c].run /\ ~y.running /\ y.listed = term[c].listed
      /\ y.taken = term[c].taken /\ y.bound = term[c].bound /\ y.client = term[c].client
  BY <1>3 DEF Posted, Alike, Same
<1> QED
  BY <1>1, <1>2, <1>4, <1>5, AloneAll

LEMMA ObserveAll == ASSUME Base, Rests, All, Host, NEW c \in Command, Observe(c) PROVE All'
<1>1. Base' /\ Exists(c) /\ UNCHANGED <<workers, mail, live, part>>
  BY ObserveBase, BaseShape, ObserveSays DEF Observe
<1>2. PICK x \in Terminal, y \in Terminal :
        /\ Same(x, term[c]) /\ x.running = term[c].running
        /\ x.listed = term[c].listed /\ x.taken = term[c].taken
        /\ \/ y = x /\ term' = [term EXCEPT ![c] = y] /\ inbox' = inbox
           \/ Posted(c, x, y)
  BY BaseShape, ObserveSays
<1>3. Quiet(Zero) /\ (Finished(c) => Finished(c)')
  <2>1. CASE Posted(c, x, y)
    BY <1>1, <1>2, <2>1, QuietPosted, FinishedPosted DEF Same
  <2>2. CASE y = x /\ term' = [term EXCEPT ![c] = y] /\ inbox' = inbox
    BY <1>1, <1>2, <2>2, QuietSame, TermShown, FinishedSame DEF Same
  <2> QED
    BY <1>2, <2>1, <2>2
<1>4. /\ term' = [term EXCEPT ![c] = y]
      /\ y.run = term[c].run /\ y.running = term[c].running /\ y.listed = term[c].listed
      /\ y.taken = term[c].taken /\ y.bound = term[c].bound /\ y.client = term[c].client
  BY <1>2 DEF Posted, Alike, Same
<1> QED
  BY <1>1, <1>3, <1>4, AloneAll

LEMMA RunsAll ==
  ASSUME Base, Rests, All, Host, NEW c \in Command, CommandRuns(c) \/ Drain(c)
  PROVE  All'
<1>1. Exists(c) => term[c].read <= term[c].wrote
  BY DEF Base, TermOK
<1>2. PICK y \in Terminal : Ran(c, y)
  BY <1>1, BaseShape, RunsSays
<1>3. Base' /\ Exists(c) /\ inbox' = inbox /\ UNCHANGED <<workers, mail, live, part>>
  BY <1>1, RunsBase, BaseShape, RunsSays DEF CommandRuns, Drain
<1>4. /\ term' = [term EXCEPT ![c] = y] /\ ~Drained(term[c])
      /\ y.run = term[c].run /\ (y.running => term[c].running) /\ y.listed = term[c].listed
      /\ y.taken = term[c].taken /\ y.bound = term[c].bound /\ y.client = term[c].client
      /\ y.shown = term[c].shown
  BY <1>2 DEF Ran, Further
<1>5. Quiet(Zero) /\ ~Finished(c)
  BY <1>3, <1>4, TermShown, QuietSame DEF Finished
<1> QED
  BY <1>3, <1>4, <1>5, AloneAll

-----------------------------------------------------------------------------
(* The steps of the threads. *)

LEMMA AllServed ==
  ASSUME Base, Base', Rests, All, Host, Quiet(Zero), CrewOn, Ages, CallsOn,
         \A c \in Command : Exists(c)' => Exists(c),
         Served', UNCHANGED <<part, live>>
  PROVE  All'
<1>1. Asked'
  BY AskedOn DEF All
<1>2. \A r \in Run : Zero[r] # 1
  BY Counts
<1>3. ASSUME NEW c \in Command
      PROVE  Stored(c)'
  <2>1. Stored(c) /\ Asked
    BY DEF All, Published
  <2> QED
    BY <1>2, <2>1, StoredOn
<1> QED
  BY <1>1, <1>3 DEF All, Published

\* One thread goes on, and leaves its terminal as served as it was.
LEMMA ThreadAll ==
  ASSUME Base, Base', Rests, All, Host, NEW w \in workers, NEW v \in Worker, Replaces(w, v),
         v.run = w.run, v.call = w.call, v.op = w.op, Waiter(v)', Quiet(Zero), Ages,
         \A c \in Command : Exists(c)' => Exists(c),
         \A c \in Command : Steady(c), UNCHANGED <<mail, live, part>>
  PROVE  All'
<1>1. CrewOn /\ \A u \in workers' : u \in workers \/ Waiter(u)'
  BY DEF CrewOn, Replaces
<1>2. CallsOn
  BY HostCalls
<1> QED
  BY <1>1, <1>2, AllZero

\* A call at work on a terminal of the live run.
LEMMA HomeIs ==
  ASSUME Base, Rests, Asked, NEW w \in workers, Busy(w.call), live = w.run, Listed(w.run, w.call)
  PROVE  Open(w.call)
BY ThreadIs DEF Asked, AtHome, Open

LEMMA SteadySame ==
  ASSUME Host, UNCHANGED <<term, mail, live>>
  PROVE  \A c \in Command : Steady(c)
BY DEF Host, Steady, Firm, Open, Listed, Exists, Finished

LEMMA TurnAll ==
  ASSUME Base, Rests, All, Host, NEW w \in workers,
         Refused(w) \/ Admit(w) \/ Output(w) \/ Wait(w)
  PROVE  All'
<1>1. w \in Worker /\ Fits(w) /\ w.call \in Command /\ w.run \in Run
  BY ThreadIs
<1>2. Base' /\ UNCHANGED <<term, inbox, mail, live, part>>
  BY <1>1, TurnBase DEF Refused, Admit, Output, Wait
<1>3. \A c \in Command : Steady(c)
  BY <1>2, SteadySame
<1>4. Quiet(Zero)
  BY <1>2, QuietSame DEF AllShown
<1>5. Waiter(w) /\ Called(w.call) /\ Asked
  BY <1>1 DEF All, Served
<1>6. ASSUME NEW v \in Worker, Replaces(w, v), v.run = w.run, v.call = w.call, v.op = w.op, Waiter(v)'
      PROVE  All'
  BY <1>2, <1>3, <1>4, <1>6, Still, ThreadAll
<1>7. CASE Refused(w)
  <2>1. PICK v \in Worker : Replaces(w, v) /\ Turned(w, v, "done", FALSE)
    BY <1>7, BaseShape, BecomesSays DEF Refused, Replaces
  <2>2. Waiter(v)'
    BY <2>1 DEF Turned, Waiter
  <2> QED
    BY <1>6, <2>1, <2>2 DEF Turned
<1>8. CASE Admit(w)
  <2>1. PICK v \in Worker : Replaces(w, v) /\ Turned(w, v, "live", FALSE)
    BY <1>8, BaseShape, BecomesSays DEF Admit, Replaces
  <2>2. Waiter(v)'
    BY <1>8, <2>1 DEF Turned, Waiter, Admit
  <2> QED
    BY <1>6, <2>1, <2>2 DEF Turned
<1>9. CASE Output(w)
  <2>1. PICK v \in Worker : Replaces(w, v) /\ Turned(w, v, "done", TRUE)
    BY <1>9, BaseShape, BecomesSays DEF Output, Replaces
  <2>2. Waiter(v)'
    BY <1>9, <2>1 DEF Turned, Waiter, Output, Finds
  <2> QED
    BY <1>6, <2>1, <2>2 DEF Turned
<1>10. CASE Wait(w)
  <2>1. PICK v \in Worker : Replaces(w, v) /\ Turned(w, v, "poll", FALSE)
    BY <1>10, BaseShape, BecomesSays DEF Wait, Replaces
  <2>2. w.at = "new" /\ w.op = "wait" /\ live = w.run /\ Listed(w.run, w.call) /\ Exists(w.call)
    BY <1>10 DEF Wait, Finds, Listed
  <2>3. ASSUME tool[w.call].at = "waiting"
        PROVE  /\ term[w.call].bound /\ term[w.call].client /\ ~term[w.call].taken
    <3>1. Busy(w.call)
      BY <2>3 DEF Busy
    <3>2. Open(w.call)
      BY <1>5, <2>2, <3>1, HomeIs
    <3> QED
      BY <1>5, <2>2, <2>3, <3>2 DEF Waiter, Called
  <2>4. Waiter(v)'
    BY <1>2, <2>1, <2>3 DEF Turned, Waiter, Host
  <2> QED
    BY <1>6, <2>1, <2>4 DEF Turned
<1> QED
  BY <1>7, <1>8, <1>9, <1>10

LEMMA KillAll == ASSUME Base, Rests, All, Host, NEW w \in workers, Kill(w) PROVE All'
<1>1. w \in Worker /\ Fits(w) /\ w.call \in Command /\ w.run \in Run
  BY ThreadIs
<1>2. Base' /\ Exists(w.call) /\ w.op = "kill" /\ UNCHANGED <<inbox, mail, live, part>>
  BY <1>1, KillBase DEF Kill, Finds, Listed
<1>3. PICK v \in Worker : Replaces(w, v) /\ Turned(w, v, "done", TRUE)
  BY <1>1, BaseShape, KillSays
<1>4. PICK y \in Terminal :
        /\ term' = [term EXCEPT ![w.call] = y] /\ Same(y, term[w.call]) /\ ~y.running
        /\ y.listed = term[w.call].listed /\ y.taken = term[w.call].taken
  BY <1>1, BaseShape, KillSays
<1>5. Ages /\ \A d \in Command : Exists(d)' => Exists(d)
  BY <1>1, <1>2, <1>4, AgesAll, TermSet DEF Base, Same, Exists
<1>6. Finished(w.call) => Finished(w.call)'
  BY <1>1, <1>4, FinishedSame
<1>7. \A c \in Command : Steady(c)
  BY <1>1, <1>2, <1>4, <1>6, SteadyTerm DEF Same
<1>8. Quiet(Zero)
  BY <1>1, <1>2, <1>4, TermShown, QuietSame DEF Same
<1>9. v.run = w.run /\ v.call = w.call /\ v.op = w.op /\ Waiter(v)'
  BY <1>2, <1>3 DEF Turned, Waiter
<1> QED
  BY <1>2, <1>3, <1>5, <1>7, <1>8, <1>9, ThreadAll

LEMMA JoinedAll == ASSUME Base, Rests, All, Host, NEW w \in workers, Joined(w) PROVE All'
<1>1. w \in Worker /\ Fits(w) /\ w.call \in Command /\ w.run \in Run
  BY ThreadIs
<1>2. Exists(w.call) /\ UNCHANGED <<mail, live, part>>
  BY <1>1 DEF Joined, Fits
<1>3. Base' /\ term[w.call] \in Terminal
  BY <1>1, <1>2, JoinedBase DEF Base, TermOK, Exists
<1>4. PICK v \in Worker : Replaces(w, v) /\ Turned(w, v, "done", TRUE)
  BY <1>1, <1>2, BaseShape, JoinedSays
<1>5. PICK x \in Terminal, y \in Terminal :
        /\ Same(x, term[w.call]) /\ x.running = term[w.call].running
        /\ x.taken = term[w.call].taken
        /\ x.listed = (w.op = "wait" /\ term[w.call].listed)
        /\ Posted(w.call, x, y)
  BY <1>1, <1>2, BaseShape, JoinedSays
<1>6. /\ term' = [term EXCEPT ![w.call] = y]
      /\ y.run = term[w.call].run /\ y.running = term[w.call].running
      /\ (y.listed => term[w.call].listed) /\ y.taken = term[w.call].taken
      /\ y.bound = term[w.call].bound /\ y.client = term[w.call].client
  BY <1>5 DEF Posted, Alike, Same
<1>7. Ages
  BY <1>1, <1>6, AgesAll DEF Base
<1>8. term'[w.call] = y /\ Exists(w.call)' /\ \A d \in Command : d # w.call => term'[d] = term[d]
  BY <1>1, <1>6, TermSet DEF Base
<1>9. \A d \in Command : Exists(d)' => Exists(d)
  BY <1>2, <1>8 DEF Exists
<1>10. Quiet(Zero) /\ (Finished(w.call) => Finished(w.call)')
  BY <1>1, <1>2, <1>5, QuietPosted, FinishedPosted DEF Same
<1>11. \A c \in Command : Steady(c)
  BY <1>1, <1>2, <1>3, <1>6, <1>10, SteadyTerm
<1>12. Waiter(v)'
  <2>1. ASSUME w.op = "wait", tool[w.call].at = "waiting"
        PROVE  Finished(w.call)'
    <3>1. Waiter(w)
      BY DEF All, Served
    <3>2. Drained(term[w.call]) /\ term[w.call].bound /\ term[w.call].client
      BY <1>1, <1>2, <2>1, <3>1, BaseShape, JoinedSays DEF Waiter
    <3>3. Drained(y) /\ Snap(y) = Snap(x) /\ y.bound /\ y.client
      BY <1>5, <3>2 DEF Posted, Alike, Same, Drained, Snap
    <3>4. y.shown = Snap(y)
      BY <1>5, <3>3 DEF Posted, News, Alike
    <3> QED
      BY <1>8, <3>3, <3>4 DEF Finished
  <2> QED
    BY <1>4, <2>1 DEF Waiter, Turned, Host
<1> QED
  BY <1>2, <1>3, <1>4, <1>7, <1>9, <1>10, <1>11, <1>12, ThreadAll DEF Turned

\* The readers of the terminal of call c are only taken when no other waits for it.
Closed(c) ==
  /\ tool[c].at \notin Early \cup {"creating"}
  /\ tool[c].at = "waiting" =>
       /\ \A r \in Run : ~InBox(r, "wait", c)
       /\ \A u \in workers : u \in workers' => ~Serves(u, "wait", c)

LEMMA ServedTaken ==
  ASSUME Base, Base', Rests, Served, Host, Quiet(Zero),
         \A c \in Command : Firm(c), \A c \in Command : Steady(c) \/ Closed(c),
         \A v \in workers' : v \in workers \/ Waiter(v)'
  PROVE  Served'
<1>0. /\ \A r \in Run : Zero[r] # 1
      /\ "wait" \in Requests
  BY Counts DEF Requests
<1>1. ASSUME NEW c \in Command, Steady(c)
      PROVE  Called(c)' /\ Boxed(c)'
  BY <1>0, <1>1, CalledOn, BoxedOn DEF Served
<1>2. ASSUME NEW c \in Command, Closed(c)
      PROVE  Called(c)' /\ Boxed(c)'
  <2>1. Called(c) /\ Firm(c) /\ tool' = tool
    BY DEF Served, Host
  <2>2. Called(c)'
    BY <1>2, <2>1, OpenExists DEF Called, Firm, Closed
  <2>3. tool[c].at = "waiting" => \A r \in Run : ~InBox(r, "wait", c)'
    BY <1>0, <1>2, BoxFrom DEF Closed
  <2>4. Boxed(c)'
    BY <2>1, <2>3 DEF Boxed, InBox
  <2> QED
    BY <2>2, <2>4
<1>3. ASSUME NEW w \in workers, w \in workers'
      PROVE  Waiter(w)'
  <2>1. w \in Worker /\ w.call \in Command /\ Fits(w) /\ Waiter(w)
    BY ThreadIs DEF Served
  <2>2. CASE Steady(w.call)
    BY <2>1, <2>2, WaiterOn, TermTyped DEF Fits
  <2>3. CASE Closed(w.call)
    BY <1>3, <2>3 DEF Closed, Waiter, Serves, Host
  <2> QED
    BY <2>1, <2>2, <2>3
<1> QED
  BY <1>1, <1>2, <1>3 DEF Served

LEMMA FirmTerm ==
  ASSUME Base, Base', Host, NEW c \in Command, NEW y \in Terminal, term' = [term EXCEPT ![c] = y],
         Exists(c), UNCHANGED <<mail, live>>,
         y.run = term[c].run, y.listed => term[c].listed,
         term[c].bound => y.bound, term[c].client => y.client,
         Finished(c) => Finished(c)'
  PROVE  /\ \A e \in Command : Firm(e)
         /\ \A e \in Command : e # c => Steady(e)
<1>1. term'[c] = y /\ \A e \in Command : e # c => term'[e] = term[e]
  BY TermSet DEF Base
<1>2. \A e \in Command : Exists(e)' => Exists(e)
  BY <1>1 DEF Exists
<1>3. \A e \in Command : Open(e)' => Open(e)
  BY <1>1, <1>2 DEF Open, Listed, Host
<1>4. \A e \in Command : Finished(e) => Finished(e)'
  BY <1>1 DEF Finished, Exists
<1>5. \A e \in Command : Firm(e)
  BY <1>1, <1>2, <1>3, <1>4 DEF Firm, Host
<1> QED
  BY <1>1, <1>5 DEF Steady

LEMMA JoiningAll ==
  ASSUME Base, Base', Rests, All, Host, NEW w \in workers, Exists(w.call),
         NEW x \in Terminal, NEW y \in Terminal, NEW v \in Worker, Joining(w, x, y, v),
         Same(x, term[w.call]), x.running => term[w.call].running,
         x.listed = term[w.call].listed,
         inbox' = inbox, UNCHANGED <<mail, live, part>>,
         Closed(w.call), Waiter(v)'
  PROVE  All'
<1>1. w \in Worker /\ Fits(w) /\ w.call \in Command /\ w.run \in Run
  BY ThreadIs
<1>2. /\ term' = [term EXCEPT ![w.call] = y] /\ Same(y, term[w.call])
      /\ y.run = term[w.call].run /\ y.running = x.running /\ y.listed = term[w.call].listed
      /\ y.bound = term[w.call].bound /\ y.client = term[w.call].client
      /\ y.shown = term[w.call].shown
  BY DEF Joining, Same
<1>3. Finished(w.call) => Finished(w.call)'
  BY <1>1, <1>2, FinishedSame
<1>4. /\ \A e \in Command : Firm(e)
      /\ \A e \in Command : e # w.call => Steady(e)
  BY <1>1, <1>2, <1>3, FirmTerm
<1>5. Quiet(Zero)
  BY <1>1, <1>2, TermShown, QuietSame
<1>6. Replaces(w, v) /\ v.run = w.run /\ v.op = w.op /\ v.call = w.call
  BY DEF Joining, Turned
<1>7. CrewOn /\ \A u \in workers' : u \in workers \/ Waiter(u)'
  BY <1>6 DEF CrewOn, Replaces
<1>8. Served'
  BY <1>4, <1>5, <1>7, ServedTaken DEF All
<1>9. Ages
  BY <1>1, <1>2, AgesAll DEF Base
<1>10. \A e \in Command : Exists(e)' => Exists(e)
  BY <1>1, <1>2, TermSet DEF Base, Exists
<1>11. CallsOn
  BY HostCalls
<1> QED
  BY <1>5, <1>7, <1>8, <1>9, <1>10, <1>11, AllServed

LEMMA ReleaseAll == ASSUME Base, Rests, All, Host, NEW w \in workers, Release(w) PROVE All'
<1>1. w \in Worker /\ Fits(w) /\ w.call \in Command /\ w.run \in Run
  BY ThreadIs
<1>2. Base' /\ Exists(w.call) /\ w.op = "release" /\ UNCHANGED <<inbox, mail, live, part>>
  BY <1>1, ReleaseBase DEF Release, TakeReaders, Finds, Listed
<1>3. PICK x \in Terminal, y \in Terminal, v \in Worker :
        /\ Same(x, term[w.call]) /\ ~x.running /\ x.listed = term[w.call].listed
        /\ Joining(w, x, y, v)
  BY <1>1, BaseShape, ReleaseStarts
<1>4. Closed(w.call)
  <2>1. Pending("release", w.call)
    BY <1>2 DEF Pending, Serves
  <2>2. "release" \in Requests /\ "release" # "create"
    BY DEF Requests
  <2>3. "release" \notin Ahead(tool[w.call].at)
    BY <1>1, <2>1 DEF All, Asked, Ordered
  <2>4. tool[w.call].at \notin Early \cup {"creating", "waiting"}
    BY <2>2, <2>3, AheadIs
  <2> QED
    BY <2>4 DEF Closed
<1>5. Waiter(v)'
  BY <1>2, <1>3 DEF Waiter, Joining, Turned
<1> QED
  BY <1>2, <1>3, <1>4, <1>5, JoiningAll

LEMMA ExitedAll == ASSUME Base, Rests, All, Host, NEW w \in workers, Exited(w) PROVE All'
<1>1. w \in Worker /\ Fits(w) /\ w.call \in Command /\ w.run \in Run
  BY ThreadIs
<1>2. w.at = "poll" /\ w.op = "wait" /\ Exists(w.call) /\ UNCHANGED <<inbox, mail, live, part>>
  BY <1>1 DEF Exited, TakeReaders, Fits
<1>3. Base' /\ term[w.call] \in Terminal
  BY <1>1, <1>2, ExitedBase DEF Base, TermOK, Exists
<1>4. PICK y \in Terminal, v \in Worker : Joining(w, term[w.call], y, v)
  BY <1>1, <1>2, BaseShape, ExitedSays
<1>5. /\ Replaces(w, v) /\ v.call = w.call /\ v.op = w.op
      /\ v.at = IF term[w.call].taken THEN "join none" ELSE "join"
      /\ term'[w.call] = y /\ Same(y, term[w.call])
  BY <1>1, <1>4, TermSet DEF Joining, Turned, Base
<1>6. Closed(w.call)
  <2>1. Serves(w, "wait", w.call) /\ Pending("wait", w.call)
    BY <1>2 DEF Pending, Serves
  <2>2. Single("wait", w.call)
    BY <1>1 DEF All, Asked, Singles
  <2>3. \A r \in Run : ~InBox(r, "wait", w.call)
    BY <2>1, <2>2 DEF Single
  <2>4. \A u \in workers : Serves(u, "wait", w.call) => u = w
    BY <2>1, <2>2 DEF Single
  <2>5. w \in workers' => v = w
    BY <1>5 DEF Replaces
  <2>6. v.at # w.at
    BY <1>2, <1>5
  <2>7. tool[w.call].at \notin Early \cup {"creating"}
    <3>1. "wait" \notin Ahead(tool[w.call].at)
      BY <1>1, <2>1 DEF All, Asked, Ordered
    <3> QED
      BY <3>1, AheadIs DEF Requests
  <2> QED
    BY <2>3, <2>4, <2>5, <2>6, <2>7 DEF Closed
<1>7. Waiter(v)'
  <2>1. Waiter(w)
    BY DEF All, Served
  <2>2. tool[w.call].at = "waiting" =>
          ~term[w.call].taken /\ term[w.call].bound /\ term[w.call].client
    BY <1>2, <2>1 DEF Waiter
  <2>3. tool[w.call].at = "waiting" => v.at = "join" /\ y.bound /\ y.client
    BY <1>5, <2>2 DEF Same
  <2> QED
    BY <1>5, <2>3 DEF Waiter, Host
<1>8. Same(term[w.call], term[w.call])
  BY DEF Same
<1> QED
  BY <1>2, <1>3, <1>4, <1>6, <1>7, <1>8, JoiningAll

LEMMA CreateAll ==
  ASSUME Base, Rests, All, Host, NEW w \in workers, NEW cleared, Create(w, cleared)
  PROVE  All'
<1>1. w \in Worker /\ Fits(w) /\ w.call \in Command /\ w.run \in Run
  BY ThreadIs
<1>2. /\ Base' /\ ~Exists(w.call) /\ w.op = "create" /\ w.at = "live"
      /\ UNCHANGED <<inbox, mail, live, part>>
  BY <1>1, CreateBase DEF Create
<1>3. PICK v \in Worker :
        /\ Replaces(w, v)
        /\ \/ Turned(w, v, "done", TRUE) /\ term' = [term EXCEPT ![w.call] = Started(w.run)]
           \/ Turned(w, v, "done", FALSE) /\ term' = term
  BY <1>1, BaseShape, CreateSays
<1>4. v.run = w.run /\ v.call = w.call /\ v.op = "create" /\ Waiter(v)'
  BY <1>2, <1>3 DEF Turned, Waiter
<1>5. CASE term' = term
  <2>1. \A c \in Command : Steady(c)
    BY <1>2, <1>5, SteadySame
  <2>2. Quiet(Zero)
    BY <1>2, <1>5, QuietSame DEF AllShown
  <2> QED
    BY <1>2, <1>3, <1>4, <1>5, <2>1, <2>2, Still, ThreadAll
<1>6. CASE term' = [term EXCEPT ![w.call] = Started(w.run)]
  <2> DEFINE b == w.call
             y == Started(w.run)
  <2>1. /\ y \in Terminal /\ y.run = w.run /\ y.listed /\ ~y.taken /\ ~y.client /\ y.shown = Nil
    BY <1>1, StartedParts
  <2> HIDE DEF y
  <2>2. Ages
    BY <1>1, <1>2, <1>6, <2>1, AgesAll DEF Base, y
  <2>3. term'[b] = y /\ \A c \in Command : c # b => term'[c] = term[c]
    BY <1>1, <1>6, <2>1, TermSet DEF Base, y
  <2> HIDE DEF b
  <2>4. \A c \in Command : Exists(c)' /\ ~Exists(c) => c = b
    BY <2>3 DEF Exists
  <2>5. Quiet(Zero)
    BY <1>2, <1>6, <2>1, TermShown, QuietSame, <1>1 DEF y, b
  <2>6. Pending("create", b) /\ b \in Command /\ ~Exists(b)
    BY <1>1, <1>2 DEF Pending, Serves, b
  <2>7. Asked'
    <3>1. CrewOn /\ CallsOn
      BY <1>2, <1>3, <1>4, HostCalls DEF CrewOn
    <3>2. Busy(b)' => term'[b].run = run'
      BY <2>1, <2>3 DEF All, Asked, AtHome, Host, Busy, b
    <3> QED
      BY <1>2, <2>2, <2>4, <2>5, <2>6, <3>1, <3>2, AskedOn DEF All
  <2>8. ASSUME NEW c \in Command, c # b
        PROVE  Steady(c)
    BY <1>2, <2>3, <2>8 DEF Host, Steady, Firm, Open, Listed, Exists, Finished
  <2>9. /\ tool[b].at # "waiting" /\ (tool[b].at = "creating" => mail[b].answer = Nil)
        /\ ~tool[b].exited
    BY <2>6 DEF All, Asked, Awaited, Served, Called, Finished
  <2>10. Served'
    <3>1. \A r \in Run : Zero[r] # 1
      BY Counts
    <3>2. ASSUME NEW c \in Command
          PROVE  Called(c)' /\ Boxed(c)'
      <4>1. CASE c # b
        BY <1>2, <2>5, <2>8, <3>1, <4>1, CalledOn, BoxedOn DEF All, Served
      <4>2. CASE c = b
        <5>1. "yes" # Nil
          BY HostConstants DEF HostConstants
        <5>2. tool' = tool /\ mail' = mail
          BY <1>2 DEF Host
        <5>3. Called(b)'
          BY <2>1, <2>3, <2>9, <5>1, <5>2 DEF Called
        <5>4. Boxed(b)'
          BY <2>9, <5>2 DEF Boxed
        <5> QED
          BY <4>2, <5>3, <5>4
      <4> QED
        BY <4>1, <4>2
    <3>3. ASSUME NEW u \in workers'
          PROVE  Waiter(u)'
      <4>1. CASE u = v
        BY <1>4, <4>1
      <4>2. CASE u \in workers /\ u.call # b
        <5>1. u \in Worker /\ u.call \in Command /\ Fits(u) /\ Waiter(u)
          BY <4>2, ThreadIs DEF All, Served
        <5> QED
          BY <2>8, <4>2, <5>1, WaiterOn DEF Fits
      <4>3. CASE u.call = b
        BY <2>9, <4>3 DEF Waiter, Host
      <4> QED
        BY <1>3, <4>1, <4>2, <4>3 DEF Replaces
    <3> QED
      BY <3>2, <3>3 DEF Served
  <2>11. ASSUME NEW c \in Command
         PROVE  Stored(c)'
    <3>1. \A r \in Run : Zero[r] # 1
      BY Counts
    <3>2. Exists(c)' /\ ~Exists(c) => term'[c].shown = Nil /\ inbox' = inbox
      BY <1>2, <2>1, <2>3, <2>4
    <3>3. Stored(c) /\ Asked
      BY DEF All, Published
    <3> QED
      BY <1>2, <2>2, <2>5, <3>1, <3>2, <3>3, StoredOn
  <2> QED
    BY <2>7, <2>10, <2>11 DEF All, Published
<1> QED
  BY <1>3, <1>5, <1>6

LEMMA ReleasedIs ==
  ASSUME Base, NEW r \in Run, ReleaseRun(r), Host, UNCHANGED <<mail, live>>
  PROVE  AllShown /\ \A c \in Command : Steady(c)
<1>1. /\ \A c \in Command : Exists(c)' => Exists(c)
      /\ \A c \in Command : Exists(c) => Exists(c)' /\ term'[c].run = term[c].run
      /\ \A c \in Command : Exists(c) /\ term'[c].listed => term[c].listed
  BY AgesReleased DEF Base, Ages
<1>2. \A c \in Command :
        \/ term'[c] = term[c]
        \/ Delisted(term'[c], term[c])
  BY ReleaseSays DEF Base, TermOK
<1>3. \A c \in Command :
        /\ term'[c].bound = term[c].bound /\ term'[c].client = term[c].client
        /\ term'[c].taken = term[c].taken /\ term'[c].shown = term[c].shown
        /\ Drained(term'[c]) = Drained(term[c]) /\ Snap(term'[c]) = Snap(term[c])
  BY <1>2 DEF Delisted, Drained, Snap
<1>4. \A c \in Command : Open(c)' => Open(c)
  BY <1>1 DEF Open, Listed, Host
<1>5. \A c \in Command : Finished(c) => Finished(c)'
  BY <1>1, <1>3 DEF Finished
<1> QED
  BY <1>1, <1>3, <1>4, <1>5 DEF AllShown, Steady, Firm, Host

\* What becomes of a call that a thread has answered.
LEMMA AnsweredServed ==
  ASSUME Base, Base', Rests, Served, Host, inbox' = inbox, live' = live, workers' \subseteq workers,
         \A c \in Command :
           /\ Exists(c)' => Exists(c)
           /\ Open(c)' => Open(c)
           /\ Exists(c) => /\ term[c].bound => term'[c].bound
                           /\ term[c].client => term'[c].client
                           /\ term'[c].taken => term[c].taken
           /\ Finished(c) => Finished(c)',
         \A c \in Command :
           /\ tool[c].at = "creating" /\ mail'[c].answer = "yes" => (Open(c)' => term'[c].client)
           /\ tool[c].at = "waiting" /\ mail'[c].answer = "yes" => Finished(c)'
  PROVE  Served'
<1>1. tool' = tool
  BY DEF Host
<1>2. ASSUME NEW c \in Command
      PROVE  Called(c)' /\ Boxed(c)'
  <2>1. Called(c) /\ Boxed(c)
    BY DEF Served
  <2>2. Called(c)'
    BY <1>1, <2>1, OpenExists DEF Called
  <2>3. Boxed(c)'
    BY <1>1, <2>1, OpenExists DEF Boxed
  <2> QED
    BY <2>2, <2>3
<1>3. ASSUME NEW w \in workers'
      PROVE  Waiter(w)'
  <2>1. w \in Worker /\ w.call \in Command /\ Fits(w) /\ Waiter(w)
    BY ThreadIs DEF Served
  <2> QED
    BY <1>1, <2>1, OpenExists DEF Waiter, Fits
<1> QED
  BY <1>2, <1>3 DEF Served

LEMMA RespondAll == ASSUME Base, Rests, All, Host, NEW w \in workers, Respond(w) PROVE All'
<1>1. w \in Worker /\ Fits(w) /\ w.call \in Command /\ w.run \in Run /\ w.ok \in BOOLEAN
  BY ThreadIs, WorkerParts
<1>2. /\ Base' /\ workers' = workers \ {w} /\ w.at = "done"
      /\ UNCHANGED <<inbox, live, part>>
  BY <1>1, RespondBase DEF Respond
<1>3. CrewOn
  BY <1>2 DEF CrewOn
<1>4. CASE live # w.run /\ ReleaseRun(w.run) /\ mail' = mail
  <2>1. AllShown /\ \A c \in Command : Steady(c)
    BY <1>1, <1>2, <1>4, ReleasedIs
  <2>2. Ages /\ \A c \in Command : Exists(c)' => Exists(c)
    BY <1>1, <1>4, AgesReleased DEF Base
  <2>3. Quiet(Zero) /\ CallsOn
    BY <1>2, <1>4, <2>1, QuietSame, HostCalls
  <2> QED
    BY <1>2, <1>3, <2>1, <2>2, <2>3, AllZero
<1>5. ASSUME NEW y \in Terminal, Responds(w, y)
      PROVE  All'
  <2> DEFINE b == w.call
  <2>1. /\ live = w.run /\ Answered(b, w.op, IF w.ok THEN "yes" ELSE "no")
        /\ \/ term' = term
           \/ /\ Listed(w.run, b) /\ term' = [term EXCEPT ![b] = y]
              /\ y.run = term[b].run /\ y.wrote = term[b].wrote /\ y.read = term[b].read
              /\ y.left = term[b].left /\ y.bound = term[b].bound
              /\ y.shown = term[b].shown /\ y.running = term[b].running
              /\ y.listed = term[b].listed /\ y.taken = term[b].taken /\ y.client
        /\ w.op = "create" /\ w.ok /\ Listed(w.run, b) => term' = [term EXCEPT ![b] = y] /\ y.client
    BY <1>5 DEF Responds
  <2>2. b \in Command
    BY <1>1
  <2> HIDE DEF b
  <2>3. \/ term' = term
        \/ term'[b] = y /\ Exists(b) /\ \A c \in Command : c # b => term'[c] = term[c]
    BY <2>1, <2>2, TermSet DEF Base, Listed
  <2>4. \A c \in Command :
          /\ Exists(c)' <=> Exists(c)
          /\ Exists(c) =>
               /\ term'[c].run = term[c].run /\ term'[c].listed = term[c].listed
               /\ term'[c].running = term[c].running /\ term'[c].shown = term[c].shown
               /\ term'[c].bound = term[c].bound /\ term'[c].taken = term[c].taken
               /\ (term[c].client => term'[c].client)
               /\ Drained(term'[c]) = Drained(term[c]) /\ Snap(term'[c]) = Snap(term[c])
    <3>1. CASE term' = term
      BY <3>1 DEF Exists
    <3>2. CASE term' # term
      BY <2>1, <2>3, <3>2, TermSet, <2>2 DEF Exists, Drained, Snap, Base
    <3> QED
      BY <3>1, <3>2
  <2>5. Ages /\ AllShown
    BY <2>4 DEF Ages, AllShown
  <2>6. \A c \in Command : /\ Open(c)' => Open(c)
                           /\ Finished(c) => Finished(c)'
    BY <1>2, <2>4 DEF Open, Listed, Host, Finished
  <2>7. /\ \A c \in Command : mail'[c].op = mail[c].op
        /\ \A c \in Command : c # b => mail'[c] = mail[c]
        /\ \/ mail'[b] = mail[b]
           \/ mail[b] = Awaits(w.op) /\ mail'[b].answer = IF w.ok THEN "yes" ELSE "no"
    BY <2>1, <2>2, AnsweredTyped DEF Base
  <2>8. mail'[b] # mail[b] => mail[b].op = w.op
    BY <2>7 DEF Awaits
  <2>9. w.op = "create" => ~Pending("create", b)'
    <3>1. ASSUME w.op = "create"
          PROVE  ~Pending("create", b)'
      <4>1. Serves(w, "create", b) /\ Single("create", b)
        BY <2>2, <3>1 DEF Serves, b, All, Asked, Singles
      <4>2. /\ \A r \in Run : ~InBox(r, "create", b)
            /\ \A u \in workers : Serves(u, "create", b) => u = w
        BY <4>1 DEF Single
      <4>3. /\ \A r \in Run : ~InBox(r, "create", b)'
            /\ \A u \in workers' : ~Serves(u, "create", b)
        BY <1>2, <4>2 DEF InBox
      <4> QED
        BY <4>3 DEF Pending
    <3> QED
      BY <3>1
  <2>10. CallsOn
    <3>1. tool' = tool /\ run' = run
      BY DEF Host
    <3>2. ASSUME NEW c \in Command, tool[c].at = "creating", mail'[c] # mail[c]
          PROVE  ~Pending("create", c)'
      <4>1. c = b /\ mail[b].op = "create"
        BY <2>7, <3>2 DEF All, Asked, Awaited
      <4> QED
        BY <2>8, <2>9, <3>2, <4>1
    <3> QED
      BY <2>7, <3>1, <3>2 DEF CallsOn, Busy
  <2>11. ASSUME NEW c \in Command
         PROVE  /\ tool[c].at = "creating" /\ mail'[c].answer = "yes" => (Open(c)' => term'[c].client)
                /\ tool[c].at = "waiting" /\ mail'[c].answer = "yes" => Finished(c)'
    <3>1. Called(c)
      BY DEF All, Served
    <3>2. CASE mail'[c] = mail[c]
      BY <2>4, <2>6, <3>1, <3>2, OpenExists DEF Called
    <3>3. CASE mail'[c] # mail[c]
      <4>1. c = b /\ mail[b].op = w.op /\ (mail'[b].answer = "yes" => w.ok)
        BY <1>1, <2>7, <2>8, <3>3
      <4>2. ASSUME tool[c].at = "creating", mail'[c].answer = "yes", Open(c)'
            PROVE  term'[c].client
        <5>1. w.op = "create" /\ w.ok
          BY <2>2, <4>1, <4>2 DEF All, Asked, Awaited
        <5>2. Listed(w.run, b)
          BY <2>1, <2>6, <4>1, <4>2 DEF Open
        <5>3. term' = [term EXCEPT ![b] = y] /\ y.client
          BY <2>1, <5>1, <5>2
        <5> QED
          BY <2>2, <4>1, <5>3, TermSet DEF Base
      <4>3. ASSUME tool[c].at = "waiting", mail'[c].answer = "yes"
            PROVE  Finished(c)'
        <5>1. w.op = "wait" /\ w.ok
          BY <2>2, <4>1, <4>3 DEF All, Asked, Awaited
        <5>2. Finished(b)
          BY <1>2, <4>1, <4>3, <5>1 DEF All, Served, Waiter, b
        <5> QED
          BY <2>6, <4>1, <5>2
      <4> QED
        BY <4>2, <4>3
    <3> QED
      BY <3>2, <3>3
  <2>12. Served'
    <3>1. workers' \subseteq workers
      BY <1>2
    <3>2. \A c \in Command :
            /\ Exists(c)' => Exists(c)
            /\ Open(c)' => Open(c)
            /\ Exists(c) => /\ term[c].bound => term'[c].bound
                            /\ term[c].client => term'[c].client
                            /\ term'[c].taken => term[c].taken
            /\ Finished(c) => Finished(c)'
      BY <2>4, <2>6
    <3> QED
      BY <1>2, <2>11, <3>1, <3>2, AnsweredServed DEF All
  <2> QED
    BY <1>2, <1>3, <2>4, <2>5, <2>10, <2>12, QuietSame, AllServed
<1> QED
  BY <1>1, <1>2, <1>4, <1>5, BaseShape, RespondSays

-----------------------------------------------------------------------------
(* The inbound workers, users, and the ends of runs. *)

\* The inbound worker takes a message, and leaves terminals and calls alone.
LEMMA HeardAll ==
  ASSUME Base, Base', Rests, All, Host, NEW r \in Run, inbox[r] # <<>>,
         inbox[r][1].what \notin {"bind", "update"},
         inbox' = [inbox EXCEPT ![r] = Tail(@)],
         UNCHANGED <<term, workers, mail, part>>,
         live' = live \/ live' = 0
  PROVE  All'
<1>1. Quiet(One(r))
  BY QuietTail DEF AllShown
<1>2. Ages /\ \A c \in Command : Exists(c)' => Exists(c)
  BY Still
<1>3. \A c \in Command : Exists(c) => term[c].run # 0
  BY TerminalParts DEF Base, TermOK, Exists, Run
<1>4. \A c \in Command : Open(c)' => Open(c)
  BY <1>3 DEF Open, Listed, Host, Exists
<1>5. \A c \in Command : Steady(c)
  BY <1>4 DEF Host, Steady, Firm, Exists, Finished
<1>6. CrewOn /\ CallsOn
  BY HostCalls DEF CrewOn
<1>7. \A s \in Run : One(r)[s] = 1 => s = r
  BY Counts
<1>8. live' = live \/ \A c \in Command : Exists(c)' => live' # term'[c].run
  BY <1>3 DEF Exists
<1>9. \A s \in Run, c \in Command : One(r)[s] = 1 =>
        ~Is(inbox[s][1], "bind", c) /\ ~Is(inbox[s][1], "update", c)
  BY <1>7 DEF Is
<1> QED
  BY <1>1, <1>2, <1>5, <1>6, <1>8, <1>9, AllOn

LEMMA HearUpdateAll ==
  ASSUME Base, Rests, All, Host, NEW r \in Run, HearUpdate(r)
  PROVE  All'
<1>1. /\ Base' /\ inbox[r] # <<>> /\ inbox[r][1].what = "update"
      /\ inbox' = [inbox EXCEPT ![r] = Tail(@)]
      /\ UNCHANGED <<term, workers, mail, live>>
  BY HearUpdateBase, HeadIs, BoxTyped, SlidesTail DEF HearUpdate, Handled, Next1
<1>2. Quiet(One(r))
  BY <1>1, QuietTail DEF AllShown
<1>3. CrewOn /\ CallsOn /\ \A c \in Command : Steady(c)
  BY <1>1, HostCalls, SteadySame DEF CrewOn
<1>4. Asked'
  BY <1>1, <1>2, <1>3, Still, AskedOn DEF All
<1>5. \A s \in Run, c \in Command : One(r)[s] = 1 => ~Is(inbox[s][1], "bind", c)
  <2>1. \A s \in Run : One(r)[s] = 1 => s = r
    BY Counts
  <2> QED
    BY <1>1, <2>1 DEF Is
<1>6. Served'
  BY <1>1, <1>2, <1>3, <1>5, ServedOn DEF All
<1>7. Published'
  BY <1>1, HearUpdatePublished DEF All
<1> QED
  BY <1>4, <1>6, <1>7 DEF All

LEMMA HearRequestAll ==
  ASSUME Base, Rests, All, Host, NEW r \in Run, HearRequest(r)
  PROVE  All'
<1> PICK m, v : m = inbox[r][1] /\ v = Thread(r, m)
  OBVIOUS
<1>1. /\ Base' /\ inbox[r] # <<>> /\ 1 \in DOMAIN inbox[r] /\ m \in Message
      /\ m.what \in Requests
      /\ inbox' = [inbox EXCEPT ![r] = Tail(@)]
      /\ workers' = workers \cup {v}
      /\ UNCHANGED <<term, mail, live, part>>
  BY HearRequestBase, HeadIs, BoxTyped, SlidesTail DEF HearRequest, Handled, Next1
<1>2. v \in Worker /\ v.call = m.call /\ v.op = m.what /\ v.at = "new" /\ v.call \in Command
  BY <1>1, ThreadParts, WorkerParts
<1>3. Quiet(One(r))
  BY <1>1, QuietTail DEF AllShown
<1>4. \A c \in Command : Steady(c)
  BY <1>1, SteadySame
<1>5. Asked'
  BY <1>1, HearRequestAsked DEF All
<1>6. m.what # "bind" /\ m.what # "update"
  BY <1>1, KindsAre
<1>7. \A s \in Run, c \in Command : One(r)[s] = 1 =>
        ~Is(inbox[s][1], "bind", c) /\ ~Is(inbox[s][1], "update", c)
  <2>1. \A s \in Run : One(r)[s] = 1 => s = r
    BY Counts
  <2> QED
    BY <1>6, <2>1 DEF Is
<1>8. Waiter(v)'
  <2>1. ASSUME v.op = "wait", tool[v.call].at = "waiting"
        PROVE  /\ Open(v.call) => term[v.call].bound
               /\ Exists(v.call) => ~term[v.call].taken
    <3>1. Boxed(v.call) /\ Is(inbox[r][1], "wait", v.call)
      BY <1>2, <2>1 DEF All, Served, Is
    <3>2. ~\E j \in 1..1-1 : Is(inbox[r][j], "bind", v.call)
      <4>1. \A j \in 1..1-1 : FALSE
        BY ONLY TRUE
      <4> QED
        BY <4>1, Zenon
    <3> QED
      BY <1>1, <2>1, <3>1, <3>2 DEF Boxed
  <2> QED
    BY <1>1, <1>2, <2>1 DEF Waiter, Open, Listed, Exists, Host
<1>9. Served'
  BY <1>1, <1>3, <1>4, <1>7, <1>8, ServedOn DEF All
<1>10. ASSUME NEW c \in Command
       PROVE  Stored(c)'
  <2>1. Stored(c) /\ Asked /\ Ages /\ (Exists(c)' => Exists(c))
    BY <1>1, Still DEF All, Published
  <2> QED
    BY <1>1, <1>3, <1>7, <2>1, StoredOn
<1> QED
  BY <1>5, <1>9, <1>10 DEF All, Published

LEMMA HearBindAll ==
  ASSUME Base, Rests, All, Host, NEW r \in Run, HearBind(r)
  PROVE  All'
<1> PICK b : b = Head(inbox[r]).call
  OBVIOUS
<1>1. /\ Base' /\ inbox[r] # <<>> /\ 1 \in DOMAIN inbox[r] /\ b \in Command
      /\ inbox[r][1].what = "bind" /\ inbox[r][1].call = b
      /\ UNCHANGED <<workers, mail, live, part>>
  <2>1. inbox[r] # <<>> /\ b \in Command /\ Head(inbox[r]).what = "bind"
    BY BaseShape, BindSays
  <2>2. 1 \in DOMAIN inbox[r] /\ Head(inbox[r]) = inbox[r][1]
    BY <2>1, BoxTyped, SlidesTail
  <2> QED
    BY <2>1, <2>2, HearBindBase, Zenon DEF HearBind
<1>2. \A s \in Run : One(r)[s] = 1 => s = r
  BY Counts
<1>3. \A s \in Run, c \in Command : One(r)[s] = 1 => ~Is(inbox[s][1], "update", c)
  BY <1>1, <1>2 DEF Is
<1>4. CrewOn /\ CallsOn
  BY <1>1, HostCalls DEF CrewOn
<1>5. ASSUME term' = term, inbox' = [inbox EXCEPT ![r] = Tail(@)], live # r \/ ~Listed(r, b)
      PROVE  All'
  <2>1. Quiet(One(r))
    BY <1>1, <1>5, QuietTail DEF AllShown
  <2>2. \A c \in Command : Steady(c)
    BY <1>1, <1>5, SteadySame
  <2>3. ASSUME NEW s \in Run, NEW c \in Command, One(r)[s] = 1, Is(inbox[s][1], "bind", c),
               tool[c].at = "waiting", Open(c)'
        PROVE  term'[c].bound
    <3>1. s = r /\ c = b
      BY <1>1, <1>2, <2>3 DEF Is
    <3>2. InBox(r, "bind", b) /\ Busy(b)
      BY <1>1, <2>3, <3>1 DEF InBox, Is, Busy
    <3>3. r = run
      BY <1>1, <3>2 DEF All, Asked, AtHome
    <3>4. live = run /\ Listed(run, b)
      BY <1>1, <1>5, <2>3, <3>1 DEF Open, Listed, Host, Exists
    <3> QED
      BY <1>5, <3>3, <3>4
  <2> QED
    BY <1>1, <1>3, <1>4, <1>5, <2>1, <2>2, <2>3, Still, AllOn
<1>6. ASSUME Listed(r, b), NEW y \in Terminal, Binds(r, b, y)
      PROVE  All'
  <2>1. Exists(b) /\ term[b] \in Terminal
    BY <1>1, <1>6 DEF Listed, Exists, Base, TermOK
  <2>2. /\ term' = [term EXCEPT ![b] = y]
        /\ y.run = term[b].run /\ y.wrote = term[b].wrote /\ y.read = term[b].read
        /\ y.left = term[b].left /\ y.bound /\ y.client = term[b].client
        /\ y.running = term[b].running /\ y.listed = term[b].listed /\ y.taken = term[b].taken
    BY <1>6, <2>1 DEF Binds, Same, Terminal
  <2>3. term'[b] = y /\ Exists(b)'
    BY <1>1, <2>2, TermSet DEF Base
  <2>4. Quiet(One(r))
    BY <1>1, <1>6, QuietBinds
  <2>5. Ages /\ \A c \in Command : Exists(c)' => Exists(c)
    BY <1>1, <2>1, <2>2, AgesAll, TermSet DEF Base, Exists
  <2>6. Finished(b) => Finished(b)'
    <3>1. Snap(y) = Snap(term[b]) /\ Drained(y) = Drained(term[b])
      BY <2>2 DEF Snap, Drained
    <3>2. y.shown = term[b].shown \/ y.shown = Snap(y)
      BY <1>6 DEF Binds
    <3> QED
      BY <2>2, <2>3, <3>1, <3>2 DEF Finished
  <2>7. \A c \in Command : Steady(c)
    BY <1>1, <2>1, <2>2, <2>6, SteadyTerm
  <2>8. ASSUME NEW s \in Run, NEW c \in Command, One(r)[s] = 1, Is(inbox[s][1], "bind", c)
        PROVE  term'[c].bound
    BY <1>1, <1>2, <2>2, <2>3, <2>8 DEF Is
  <2> QED
    BY <1>1, <1>3, <1>4, <2>4, <2>5, <2>7, <2>8, AllOn
<1> QED
  BY <1>1, <1>5, <1>6, BaseShape, BindSays

LEMMA HearAll == ASSUME Base, Rests, All, Host, NEW r \in Run, Hear(r) PROVE All'
<1>1. CASE HearAsk(r) \/ Detach(r)
  <2>1. /\ Base' /\ inbox[r] # <<>> /\ inbox[r][1].what \in {"ask", "detach"}
        /\ inbox' = [inbox EXCEPT ![r] = Tail(@)]
        /\ UNCHANGED <<term, workers, mail, part>>
        /\ live' = live \/ live' = 0
    <3>1. PICK what \in {{"ask"}, {"detach"}} : Next1(r, what)
      BY <1>1 DEF HearAsk, Detach
    <3>2. inbox[r] # <<>> /\ Head(inbox[r]).what \in what
      BY <3>1, HeadIs
    <3>3. Head(inbox[r]) = inbox[r][1]
      BY <3>2, BoxTyped, SlidesTail
    <3>4. inbox[r][1].what \in {"ask", "detach"}
      BY <3>1, <3>2, <3>3
    <3>5. Base'
      BY <1>1, HearAskBase, DetachBase
    <3>6. /\ inbox' = [inbox EXCEPT ![r] = Tail(@)]
          /\ UNCHANGED <<term, workers, mail, part>>
          /\ live' = live \/ live' = 0
      BY <1>1 DEF HearAsk, Detach, Handled
    <3> QED
      BY <3>2, <3>4, <3>5, <3>6
  <2> QED
    BY <2>1, HeardAll
<1>2. CASE HearGone(r)
  <2>1. /\ Base' /\ inbox[r] # <<>> /\ Head(inbox[r]).what = "gone" /\ ReleaseRun(r)
        /\ inbox' = [inbox EXCEPT ![r] = <<Msg("detach", Nil)>> \o Tail(@)]
        /\ UNCHANGED <<live, workers, mail, part>>
    <3>1. inbox[r] # <<>> /\ Head(inbox[r]).what = "gone"
      BY <1>2, HeadIs DEF HearGone
    <3>2. Base'
      BY <1>2, HearGoneBase
    <3> QED
      BY <1>2, <3>1, <3>2 DEF HearGone
  <2>2. AllShown /\ \A c \in Command : Steady(c)
    BY <2>1, ReleasedIs
  <2>3. Quiet(Zero)
    BY <2>1, <2>2, QuietGone
  <2>4. Ages /\ \A c \in Command : Exists(c)' => Exists(c)
    BY <2>1, AgesReleased DEF Base
  <2>5. CrewOn /\ CallsOn
    BY <2>1, HostCalls DEF CrewOn
  <2> QED
    BY <2>1, <2>2, <2>3, <2>4, <2>5, AllZero
<1> QED
  BY <1>1, <1>2, HearRequestAll, HearBindAll, HearUpdateAll DEF Hear

LEMMA UserAll ==
  ASSUME Base, Rests, All, Host,
         (\E c \in Command : Claim(c)) \/ (\E a \in answers : Record(a) \/ Tell(a))
  PROVE  All'
<1>1. Base' /\ UNCHANGED <<term, inbox, workers, live, part>>
  BY ClaimBase, RecordBase, TellBase DEF Claim, Record, Tell
<1>2. Quiet(Zero) /\ CrewOn /\ Ages /\ \A c \in Command : Exists(c)' => Exists(c)
  BY <1>1, QuietSame, Still DEF AllShown, CrewOn
<1>3. \A c \in Command : /\ mail'[c].op = mail[c].op
                         /\ mail[c].op # "ask" => mail'[c] = mail[c]
  <2>1. CASE mail' = mail
    BY <2>1
  <2>2. ASSUME NEW a \in answers, Tell(a)
        PROVE  \A c \in Command : /\ mail'[c].op = mail[c].op
                                  /\ mail[c].op # "ask" => mail'[c] = mail[c]
    <3>1. a.call \in Command /\ a.allow \in {"yes", "no", "once", "always"}
      BY DEF Base, TalkOK
    <3>2. Answered(a.call, "ask", a.allow)
      BY <2>2 DEF Tell
    <3>3. Awaits("ask").op = "ask"
      BY DEF Awaits
    <3> QED
      BY <3>1, <3>2, <3>3, AnsweredTyped DEF Base
  <2> QED
    BY <2>1, <2>2 DEF Claim, Record
<1>4. \A c \in Command : tool[c].at \in {"creating", "waiting"} => mail'[c] = mail[c]
  BY <1>3 DEF All, Asked, Awaited
<1>5. CallsOn
  BY <1>3, <1>4 DEF CallsOn, Host, Busy
<1>6. \A c \in Command : Steady(c)
  BY <1>1, <1>4 DEF Host, Steady, Firm, Open, Listed, Exists, Finished
<1> QED
  BY <1>1, <1>2, <1>5, <1>6, AllZero

LEMMA StopAll ==
  ASSUME Base, Rests, All, Host, NEW r \in Run, StopRun(r) \/ StopReleases(r)
  PROVE  All'
<1>1. CASE StopRun(r)
  <2>1. Base' /\ live' = 0 /\ UNCHANGED <<term, inbox, workers, mail, part>>
    BY <1>1, StopRunBase DEF StopRun
  <2>2. Quiet(Zero) /\ CrewOn /\ CallsOn /\ Ages /\ \A c \in Command : Exists(c)' => Exists(c)
    BY <2>1, QuietSame, Still, HostCalls DEF AllShown, CrewOn
  <2>3. \A c \in Command : Exists(c) => term[c].run # 0
    BY TerminalParts DEF Base, TermOK, Exists, Run
  <2>4. \A c \in Command : Open(c)' => Open(c)
    BY <2>1, <2>3 DEF Open, Listed, Host, Exists
  <2>5. \A c \in Command : Steady(c)
    BY <2>1, <2>4 DEF Host, Steady, Firm, Exists, Finished
  <2>6. \A c \in Command : Exists(c)' => live' # term'[c].run
    BY <2>1, <2>3 DEF Exists
  <2>7. \A s \in Run : Zero[s] # 1
    BY Counts
  <2> QED
    BY <2>1, <2>2, <2>5, <2>6, <2>7, AllOn
<1>2. CASE StopReleases(r)
  <2>1. Base' /\ ReleaseRun(r) /\ UNCHANGED <<live, inbox, workers, mail, part>>
    BY <1>2, StopReleasesBase DEF StopReleases
  <2>2. AllShown /\ \A c \in Command : Steady(c)
    BY <2>1, ReleasedIs
  <2>3. Ages /\ \A c \in Command : Exists(c)' => Exists(c)
    BY <2>1, AgesReleased DEF Base
  <2>4. Quiet(Zero) /\ CrewOn /\ CallsOn
    BY <2>1, <2>2, QuietSame, HostCalls DEF CrewOn
  <2> QED
    BY <2>1, <2>2, <2>3, <2>4, AllZero
<1> QED
  BY <1>1, <1>2

LEMMA DaemonAll == ASSUME Base, Rests, All, Host, Daemon \/ World PROVE All'
<1>1. ASSUME NEW w \in workers, ThreadStep(w) \/ Create(w, tool[w.call].auto)
      PROVE  All'
  BY <1>1, TurnAll, KillAll, ReleaseAll, ExitedAll, JoinedAll, RespondAll, CreateAll
     DEF ThreadStep
<1> QED
  BY <1>1, ReapAll, ObserveAll, RunsAll, HearAll, UserAll, StopAll DEF Daemon, World

-----------------------------------------------------------------------------
(* The steps of the agent. *)

\* Calls go on without a request.
LEMMA SilentAll ==
  ASSUME Base, Base', Rests, All, Quiet(Zero), CallsOn, UNCHANGED <<term, workers, part>>,
         \A c \in Command : Steady(c),
         live' = live \/ \A c \in Command : Exists(c)' => live' # term'[c].run
  PROVE  All'
<1>1. \A r \in Run : Zero[r] # 1
  BY Counts
<1>2. CrewOn /\ Ages /\ (\A c \in Command : Exists(c)' => Exists(c)) /\ workers' \subseteq workers
  BY Still DEF CrewOn
<1> QED
  BY <1>1, <1>2, AllOn

\* One call goes on to a place where it waits for nothing.
LEMMA OneSilent ==
  ASSUME Base, Base', Rests, All, NEW c \in Command, NEW t \in Tool, tool' = [tool EXCEPT ![c] = t],
         UNCHANGED <<run, live, term, workers, part, inbox>>,
         mail' = mail \/ mail' = [mail EXCEPT ![c] = Awaits("none")],
         \/ t.at = "done"
         \/ t.at \in {"start", "cleared"} /\ tool[c].at \in Early,
         t.exited => tool[c].exited
  PROVE  All'
<1>1. /\ tool'[c] = t /\ \A e \in Command : e # c => tool'[e] = tool[e]
      /\ \A e \in Command : e # c => mail'[e] = mail[e]
  BY DEF Base, ToolOK, MailOK
<1>2. /\ t.at \notin {"asking", "creating", "waiting"}
      /\ Ahead(t.at) \subseteq Ahead(tool[c].at)
      /\ t.at \in Early => tool[c].at \in Early
      /\ t.at # "done" => tool[c].at \in Early
  BY AheadIs DEF Early
<1>3. CallsOn
  BY <1>1, <1>2 DEF CallsOn, Busy
<1>4. \A e \in Command : Steady(e)
  BY <1>1, <1>2 DEF Steady, Firm, Open, Listed, Exists, Finished
<1>5. Quiet(Zero)
  BY QuietSame DEF AllShown
<1> QED
  BY <1>3, <1>4, <1>5, SilentAll

LEMMA BeginAll == ASSUME Base, Rests, All, NEW c \in Command, Begin(c) PROVE All'
<1> PICK t : t = [tool[c] EXCEPT !.at = "start"]
  OBVIOUS
<1>1. t \in Tool /\ t.at = "start" /\ t.exited = tool[c].exited
  BY DEF Base, ToolOK, Tool
<1>2. tool' = [tool EXCEPT ![c] = t] /\ tool[c].at \in Early
  BY DEF Begin, Early
<1>3. Base'
  BY BeginBase
<1>4. UNCHANGED <<run, live, term, workers, part, inbox, mail>>
  BY DEF Begin, hostVars
<1> QED
  BY <1>1, <1>2, <1>3, <1>4, OneSilent

LEMMA StopTurnAll == ASSUME Base, Rests, All, StopTurn PROVE All'
<1>1. Base' /\ UNCHANGED <<run, live, term, workers, part, inbox, mail, tool>>
  BY StopTurnBase DEF StopTurn, hostVars
<1>2. CallsOn /\ Quiet(Zero)
  BY <1>1, QuietSame DEF AllShown, CallsOn, Busy
<1>3. \A c \in Command : Steady(c)
  BY <1>1 DEF Steady, Firm, Open, Listed, Exists, Finished
<1> QED
  BY <1>1, <1>2, <1>3, SilentAll

LEMMA StartAll == ASSUME Base, Rests, All, Start PROVE All'
<1>1. /\ Base' /\ run' = run + 1 /\ live' = run' /\ ~up
      /\ UNCHANGED <<term, workers, part, inbox, mail, tool>>
  BY StartBase DEF Start
<1>2. \A c \in Command : ~Busy(c)
  BY <1>1 DEF Base, ToolOK
<1>3. CallsOn /\ Quiet(Zero)
  BY <1>1, <1>2, QuietSame DEF AllShown, CallsOn, Busy
<1>4. \A c \in Command : Exists(c)' => live' # term'[c].run
  <2>1. MaxRun \in Nat
    BY HostConstants DEF HostConstants
  <2>2. \A c \in Command : Exists(c) => term[c].run <= run /\ term[c].run \in Run
    BY TermTyped, TerminalParts DEF Base, TermOK, Exists
  <2>3. run \in 0..MaxRun
    BY DEF Base, LifeOK
  <2>4. \A n \in Run : n <= run => n # run + 1
    BY <2>1, <2>3 DEF Run
  <2> QED
    BY <1>1, <2>2, <2>4 DEF Exists
<1>5. \A c \in Command : ~Open(c)'
  BY <1>1, <1>4 DEF Open, Listed, Exists
<1>6. \A c \in Command : Steady(c)
  BY <1>1, <1>5 DEF Steady, Firm, Exists, Finished
<1> QED
  BY <1>1, <1>3, <1>4, <1>6, SilentAll

LEMMA DiesAll == ASSUME Base, Rests, All, Dies PROVE All'
<1>1. /\ Base' /\ run \in Run
      /\ inbox' = [inbox EXCEPT ![run] = Append(@, Gone)]
      /\ \A c \in Command :
           /\ mail'[c] = Awaits("none")
           /\ tool'[c].at = IF Busy(c) THEN "dead" ELSE tool[c].at
           /\ tool'[c].exited = tool[c].exited
      /\ UNCHANGED <<live, run, term, workers, part>>
  BY DiesBase DEF Dies
<1>2. Quiet(Zero)
  <2>1. Gone \in Message /\ Gone.what \notin Kinds
    BY Messages, KindsAre
  <2> QED
    BY <1>1, <2>1, QuietAppend DEF AllShown
<1>3. \A c \in Command :
        /\ ~Busy(c)'
        /\ tool'[c].at \notin {"asking", "creating", "waiting"}
        /\ tool'[c].at = tool[c].at \/ tool'[c].at = "dead"
  BY <1>1 DEF Busy
<1>4. CallsOn
  <2>1. Ahead("dead") = {} /\ "dead" \notin Early
    BY AheadIs DEF Early
  <2> QED
    BY <1>3, <2>1 DEF CallsOn
<1>5. \A c \in Command : Steady(c)
  BY <1>1, <1>3 DEF Steady, Firm, Open, Listed, Exists, Finished, Early
<1> QED
  BY <1>1, <1>2, <1>4, <1>5, SilentAll

LEMMA AddsPublished ==
  ASSUME Base, Base', Published, run \in Run, NEW c \in Command, NEW whats, Adds(c, whats),
         "update" \notin whats, UNCHANGED <<term, part, live>>
  PROVE  Published'
<1> SUFFICES ASSUME NEW e \in Command PROVE Stored(e)'
  BY DEF Published
<1>1. Stored(e)
  BY DEF Published
<1>2. \A r \in Run : \A i \in DOMAIN inbox'[r] : Is(inbox'[r][i], "update", e) =>
        i \in DOMAIN inbox[r] /\ inbox'[r][i] = inbox[r][i]
  BY DEF Adds, Is
<1>3. \A r \in Run : \A i \in DOMAIN inbox[r] : i \in DOMAIN inbox'[r] /\ inbox'[r][i] = inbox[r][i]
  BY DEF Adds
<1> QED
  BY <1>1, <1>2, <1>3 DEF Stored, InBox, Exists

LEMMA AddsServed ==
  ASSUME Base, Base', Rests, Served, run \in Run, NEW c \in Command, NEW whats, Adds(c, whats),
         UNCHANGED <<workers, term, run, live>>,
         NEW t, tool' = [tool EXCEPT ![c] = t],
         NEW last, mail' = [mail EXCEPT ![c] = Awaits(last)],
         t.at \in Early \cup {"creating"} => tool[c].at \in Early \cup {"creating"},
         t.exited => tool[c].exited \/ (tool[c].at = "waiting" /\ mail[c].answer = "yes"),
         t.at = "waiting" =>
           /\ tool[c].at = "creating" /\ mail[c].answer = "yes"
           /\ ~Pending("wait", c)
           /\ \A i \in DOMAIN inbox'[run] :
                i \notin DOMAIN inbox[run] /\ inbox'[run][i].what = "wait" =>
                  \E j \in 1..i-1 : Is(inbox'[run][j], "bind", c)
  PROVE  Served'
<1>1. /\ tool'[c] = t /\ \A e \in Command : e # c => tool'[e] = tool[e]
      /\ mail'[c] = Awaits(last) /\ \A e \in Command : e # c => mail'[e] = mail[e]
      /\ Awaits(last).answer # "yes"
  BY HostConstants DEF Base, ToolOK, MailOK, Awaits, HostConstants
<1>2. \A e \in Command : /\ Exists(e)' = Exists(e)
                         /\ Open(e)' = Open(e)
                         /\ Finished(e)' = Finished(e)
  BY DEF Exists, Open, Listed, Finished
<1>3. \A e \in Command : Called(e) /\ Boxed(e)
  BY DEF Served
<1>4. ASSUME NEW e \in Command, e # c
      PROVE  Called(e)' /\ Boxed(e)'
  <2>1. Called(e)'
    BY <1>1, <1>2, <1>3, <1>4 DEF Called
  <2>2. ASSUME tool'[e].at = "waiting", NEW r \in Run, NEW i \in DOMAIN inbox'[r],
               Is(inbox'[r][i], "wait", e)
        PROVE  /\ (\E j \in 1..i-1 : Is(inbox'[r][j], "bind", e)) \/ (Open(e)' => term'[e].bound)
               /\ Exists(e)' => ~term'[e].taken
    <3>1. i \in DOMAIN inbox[r] /\ inbox'[r][i] = inbox[r][i]
      BY <1>4, <2>2 DEF Adds, Is
    <3>2. ASSUME NEW j \in 1..i-1
          PROVE  inbox'[r][j] = inbox[r][j]
      <4>1. inbox[r] \in Seq(Message)
        BY BoxTyped
      <4>2. j \in DOMAIN inbox[r]
        BY <3>1, <4>1
      <4> QED
        BY <4>2 DEF Adds
    <3>3. tool[e].at = "waiting"
      BY <1>1, <1>4, <2>2
    <3>4. /\ (\E j \in 1..i-1 : Is(inbox[r][j], "bind", e)) \/ (Open(e) => term[e].bound)
          /\ Exists(e) => ~term[e].taken
      BY <1>3, <2>2, <3>1, <3>3 DEF Boxed
    <3> QED
      BY <1>2, <3>2, <3>4
  <2> QED
    BY <2>1, <2>2 DEF Boxed
<1>5. Called(c)'
  BY <1>1, <1>2, <1>3 DEF Called, Early
<1>6. Boxed(c)'
  <2> SUFFICES ASSUME t.at = "waiting", NEW r \in Run, NEW i \in DOMAIN inbox'[r],
                      Is(inbox'[r][i], "wait", c)
               PROVE  /\ (\E j \in 1..i-1 : Is(inbox'[r][j], "bind", c)) \/ (Open(c)' => term'[c].bound)
                      /\ Exists(c)' => ~term'[c].taken
    BY <1>1 DEF Boxed
  <2>1. ~InBox(r, "wait", c)
    BY DEF Pending
  <2>2. r = run /\ i \notin DOMAIN inbox[r]
    BY <2>1 DEF Adds, InBox
  <2>3. \E j \in 1..i-1 : Is(inbox'[r][j], "bind", c)
    BY <2>2 DEF Is
  <2>4. Exists(c) => ~term[c].taken
    <3>1. Called(c)
      BY <1>3
    <3> QED
      BY <3>1 DEF Called
  <2> QED
    BY <1>2, <2>3, <2>4
<1>7. ASSUME NEW w \in workers
      PROVE  Waiter(w)'
  <2>1. Waiter(w) /\ w.call \in Command
    BY ThreadIs DEF Served
  <2>2. CASE w.call # c
    BY <1>1, <1>2, <2>1, <2>2 DEF Waiter
  <2>3. CASE w.call = c
    <3>1. tool'[c].at = "waiting" => w.op # "wait"
      BY <1>1, <2>3 DEF Pending, Serves
    <3> QED
      BY <2>3, <3>1 DEF Waiter
  <2> QED
    BY <2>2, <2>3
<1> QED
  BY <1>4, <1>5, <1>6, <1>7 DEF Served

LEMMA SentAll ==
  ASSUME Base, Rests, All, NEW c \in Command, NEW t \in Tool, NEW what \in Requests \cup {"ask"},
         Sent(c, t, what)
  PROVE  All'
<1> DEFINE whats == {what}
<1>1. /\ Base' /\ Asked' /\ run \in Run /\ Adds(c, whats) /\ Busy(c)
      /\ tool' = [tool EXCEPT ![c] = t] /\ mail' = [mail EXCEPT ![c] = Awaits(what)]
      /\ UNCHANGED <<workers, term, run, live, part>>
  BY SentAsked DEF All, AgentOnly
<1>2. "update" \notin whats
  BY KindsAre
<1> HIDE DEF whats
<1>3. Follows(tool[c].at, t.at, what)
  BY DEF Sent
<1>4. /\ t.at \in Early \cup {"creating"} => tool[c].at \in Early \cup {"creating"}
      /\ t.at # "waiting"
  BY <1>3 DEF Follows, Early
<1>5. t.exited => tool[c].exited \/ (tool[c].at = "waiting" /\ mail[c].answer = "yes")
  BY DEF Sent, Got
<1>6. Served'
  BY <1>1, <1>4, <1>5, AddsServed DEF All
<1>7. Published'
  BY <1>1, <1>2, AddsPublished DEF All
<1> QED
  BY <1>1, <1>6, <1>7 DEF All

LEMMA SentTwoAll ==
  ASSUME Base, Rests, All, NEW c \in Command, NEW t \in Tool, SentTwo(c, t)
  PROVE  All'
<1> DEFINE whats == {"bind", "wait"}
<1>1. /\ Base' /\ Asked' /\ run \in Run /\ Adds(c, whats)
      /\ \A i \in DOMAIN inbox'[run] : i \notin DOMAIN inbox[run] /\ inbox'[run][i].what = "wait" =>
           \E j \in 1..i-1 : Is(inbox'[run][j], "bind", c)
      /\ tool' = [tool EXCEPT ![c] = t] /\ mail' = [mail EXCEPT ![c] = Awaits("wait")]
      /\ UNCHANGED <<workers, term, run, live, part>>
  BY SentTwoAsked DEF All, AgentOnly
<1>2. "update" \notin whats
  OBVIOUS
<1> HIDE DEF whats
<1>3. tool[c].at = "creating" /\ t.at = "waiting" /\ mail[c].answer = "yes"
      /\ t.exited = tool[c].exited
  BY DEF SentTwo, Got
<1>4. ~Pending("wait", c)
  BY <1>3, AheadIs DEF All, Asked, Ordered, Requests
<1>5. Served'
  BY <1>1, <1>3, <1>4, AddsServed DEF All
<1>6. Published'
  BY <1>1, <1>2, AddsPublished DEF All
<1> QED
  BY <1>1, <1>5, <1>6 DEF All

LEMMA ToolAll == ASSUME Base, Rests, All, NEW c \in Command, ToolStep(c) PROVE All'
<1>1. Base'
  BY ToolBase
<1>2. CASE Left(c)
  <2>1. PICK t \in Tool : t.at = "done" /\ t.exited = tool[c].exited /\ tool' = [tool EXCEPT ![c] = t]
    BY <1>2, LeaveBase DEF Left
  <2>2. /\ inbox' = inbox /\ mail' = [mail EXCEPT ![c] = Awaits("none")]
        /\ UNCHANGED <<run, live, term, workers, part>>
    BY <1>2 DEF Left, Leaves, AgentOnly
  <2> QED
    BY <1>1, <2>1, <2>2, OneSilent
<1>3. ASSUME NEW t \in Tool, Moved(c, t)
      PROVE  All'
  <2>1. /\ tool' = [tool EXCEPT ![c] = t] /\ t.at = "cleared" /\ tool[c].at \in Early
        /\ t.exited = tool[c].exited
        /\ UNCHANGED <<run, live, term, workers, part, inbox, mail>>
    BY <1>3 DEF Moved, Stepped, AgentOnly, Early
  <2> QED
    BY <1>1, <2>1, OneSilent
<1> QED
  BY <1>2, <1>3, SentAll, SentTwoAll, ToolSays

LEMMA NextAll == ASSUME Base, Rests, All, [Next]_vars PROVE All'
<1>1. CASE UNCHANGED vars
  <2>1. UNCHANGED <<run, live, term, workers, part, inbox, mail, tool>>
    BY <1>1 DEF vars, hostVars
  <2>2. Base'
    BY NextRests
  <2>3. CallsOn /\ Quiet(Zero)
    BY <2>1, QuietSame DEF AllShown, CallsOn, Busy
  <2>4. \A c \in Command : Steady(c)
    BY <2>1 DEF Steady, Firm, Open, Listed, Exists, Finished
  <2> QED
    BY <2>1, <2>2, <2>3, <2>4, SilentAll
<1>2. CASE (Daemon \/ World) /\ UNCHANGED <<run, up, told, full, tool, slow>>
  BY <1>2, DaemonAll DEF Host
<1>3. CASE Start \/ StopTurn \/ Dies \/ \E c \in Command : Begin(c) \/ ToolStep(c)
  BY <1>3, StartAll, StopTurnAll, DiesAll, BeginAll, ToolAll
<1> QED
  BY <1>1, <1>2, <1>3 DEF Next

LEMMA InitAll == Init => All
<1> SUFFICES ASSUME Init PROVE All
  OBVIOUS
<1>1. /\ inbox = [r \in Run |-> <<>>] /\ workers = {}
      /\ term = [c \in Command |-> Nil] /\ part = [c \in Command |-> Nil]
      /\ tool = [c \in Command |-> NoTool]
  BY DEF Init, HostInit
<1>2. \A what, c : \A r \in Run : ~InBox(r, what, c)
  BY <1>1 DEF InBox
<1>3. \A c \in Command : ~Exists(c) /\ tool[c].at = "none" /\ ~tool[c].exited
  BY <1>1 DEF Exists, NoTool
<1>4. \A what, c : ~Pending(what, c)
  BY <1>1, <1>2 DEF Pending
<1>5. \A r \in Run : \A i \in DOMAIN inbox[r] : FALSE
  BY <1>1
<1>6. Singles
  BY <1>1, <1>2, <1>5 DEF Singles, Single
<1>7. Asked
  BY <1>1, <1>2, <1>3, <1>4, <1>6 DEF Asked, Ordered, Fresh, AtHome, Awaited, Busy
<1>8. Served
  BY <1>1, <1>3 DEF Served, Called, Boxed
<1>9. Published
  BY <1>1, <1>3 DEF Published, Stored
<1> QED
  BY <1>7, <1>8, <1>9 DEF All

\* The strengthened invariant: where every request of an agent is, who serves it,
\* and what the client of a run knows of each terminal. It holds of the agents'
\* calls with everything the daemon does for them.
THEOREM InvariantHolds == Spec => []IInv
<1>1. Init => Base /\ Rests /\ All
  BY InitBase, InitRests, InitAll
<1>2. (Base /\ Rests /\ All) /\ [Next]_vars => (Base /\ Rests /\ All)'
  BY NextRests, NextAll
<1>3. Base /\ Rests /\ All => IInv
  BY BaseIs DEF Rests, All, Asked, IInv
<1> QED
  BY <1>1, <1>2, <1>3, PTL DEF Spec

\* Inboxes, threads, terminals and calls keep their types, through every request,
\* answer, stop and loss.
THEOREM HostTyped == Spec => []TypeOK
<1>1. IInv => TypeOK
  BY DEF IInv
<1> QED
  BY <1>1, InvariantHolds, PTL

\* Whoever stops a run (`cancel`, a lost agent, the thread that starts a command
\* as the stop comes), a command of a stopped run is running only while somebody
\* is still bound to end it: handle_terminal_request's thread, which releases the
\* run after it has answered, or a `release_run` under way.
THEOREM NoCommandOutlivesAStop == Spec => []StoppedRunsNothing
<1>1. IInv => StoppedRunsNothing
  BY DEF IInv
<1> QED
  BY <1>1, InvariantHolds, PTL

\* When the agent has waited for a command, the message shows all of its output
\* and its exit as soon as the inbox of the run holds nothing more of the call:
\* what `publish_snapshot` sent is neither lost nor overtaken.
THEOREM DoneIsAlwaysShown == Spec => []DoneIsShown
<1>1. IInv => DoneIsShown
  <2> SUFFICES ASSUME IInv, NEW c \in Command, tool[c].at = "done", tool[c].exited,
                      live = term[c].run, ~(\E i \in 1..Len(inbox[live]) : inbox[live][i].call = c)
               PROVE  part[c] = [out |-> term[c].wrote, exit |-> TRUE]
    BY DEF DoneIsShown
  <2>1. Finished(c) /\ Stored(c)
    BY DEF IInv, Served, Called, Published
  <2>2. Base
    BY BaseIs DEF IInv
  <2>3. live \in Run
    BY <2>1, <2>2, TerminalParts DEF Finished, Base, TermOK, Exists
  <2>4. ~InBox(live, "update", c)
    <3>1. inbox[live] \in Seq(Message)
      BY <2>2, <2>3, BoxTyped
    <3> QED
      BY <3>1 DEF InBox, Is
  <2>5. part[c] = term[c].shown
    BY <2>1, <2>3, <2>4 DEF Stored, Finished
  <2> QED
    BY <2>1, <2>5 DEF Finished, Drained, Snap
<1> QED
  BY <1>1, InvariantHolds, PTL
=============================================================================
