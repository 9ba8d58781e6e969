-------------------------- MODULE EventStreamProofs --------------------------
(***************************************************************************)
(* Proofs about what the desktop follows: the stream of the window comes   *)
(* from the daemon of the saved settings through the published endpoint,   *)
(* and what is shown never goes back.                                      *)
(***************************************************************************)
EXTENDS EventStream, SequenceTheorems, TLAPS

USE ConnectionAssumption, CapHolds DEF ConnectionAssumption, CapHolds

\* Endpoints are known by their port, and ports only rise.
PortsRise ==
  /\ tunnel # Nil => tunnel.port <= port
  /\ state.end # Nil => state.end.port <= port
  /\ sup.at = "publish" /\ sup.next.end # Nil => sup.next.end.port <= port

\* Whoever subscribes through the published endpoint while the supervisor is about
\* to publish: that is the same endpoint, or the published one is gone already.
NextIsFresh ==
  /\ sup.at = "publish" /\ sup.next.end # Nil
  /\ tunnel # Nil /\ state.end # Nil /\ EndOf(tunnel) = state.end
  => sup.next.end = state.end

\* A subscription nobody has been told to give up.
Follows == sub.at # "none" /\ ~notice

Selected ==
  Follows => /\ sub.of = saved
             /\ saved \in Remote => sub.end = state.end \/ state.end = Nil

Pending ==
  Follows /\ saved \in Remote /\ sup.at = "publish" /\ sup.next.end # Nil => sup.next.end = sub.end

IInv == TypeOK /\ PortsRise /\ NextIsFresh /\ Selected /\ Pending

-----------------------------------------------------------------------------
(* Types. *)

LEMMA AsleepIs == Asleep \in Supervisor /\ Asleep.at = "sleep"
BY DEF Asleep, Supervisor

\* The supervisor goes on.
LEMMA Goes ==
  ASSUME SupTypeOK, NEW at \in {"sleep", "check", "wait", "connect"}, SupAt(at),
         at # "sleep" => sup.read \in Target, at \in {"wait", "connect"} => sup.read \in Remote
  PROVE  SupTypeOK' /\ sup'.at = at
<1>1. CASE at = "sleep"
  BY <1>1, AsleepIs DEF SupAt, SupTypeOK
<1>2. CASE at # "sleep"
  <2>1. sup' = [sup EXCEPT !.at = at]
    BY <1>2 DEF SupAt
  <2> QED
    BY <1>2, <2>1 DEF SupTypeOK, Supervisor
<1> QED
  BY <1>1, <1>2

LEMMA States ==
  /\ \A of \in Target, end \in Endpoint : end.of = of => [of |-> of, end |-> end] \in State
  /\ \A of \in Target : [of |-> of, end |-> Nil] \in State
  /\ \A x \in State : /\ x.end # Nil => x.end \in Endpoint /\ x.end.of = x.of
                      /\ x.end \in Endpoint \cup {Nil}
BY DEF State

\* What publishing comes to: at once if there is nothing to change, else as a
\* step of its own.
LEMMA Publishing ==
  ASSUME SupTypeOK, NEW of \in Target, NEW end, [of |-> of, end |-> end] \in State,
         NEW then \in {"sleep", "wait"}, Publishes(of, end, then),
         sup.read \in Target, then = "wait" => sup.read \in Remote,
         notice \in BOOLEAN
  PROVE  /\ SupTypeOK' /\ notice' \in BOOLEAN /\ (notice' <=> notice \/ state.end # end)
         /\ \/ sup'.at = then
            \/ sup'.at = "publish" /\ sup'.next.end = end
<1>1. notice' = (notice \/ state.end # end)
  BY DEF Publishes
<1>2. CASE [of |-> of, end |-> end] = state
  <2>1. SupAt(then)
    BY <1>2 DEF Publishes
  <2> QED
    BY <1>1, <2>1, Goes
<1>3. CASE [of |-> of, end |-> end] # state
  <2> DEFINE next == [of |-> of, end |-> end]
  <2>1. sup' = [sup EXCEPT !.at = "publish", !.next = next, !.then = then]
    BY <1>3 DEF Publishes
  <2>2. next \in State /\ next.end = end
    OBVIOUS
  <2> HIDE DEF next
  <2>3. SupTypeOK' /\ sup'.at = "publish" /\ sup'.next = next
    BY <2>1, <2>2 DEF SupTypeOK, Supervisor
  <2> QED
    BY <1>1, <2>2, <2>3
<1> QED
  BY <1>2, <1>3

-----------------------------------------------------------------------------
(* Saving, losing and supervising: types. *)

LEMMA LoseTyped == ASSUME ConnTypeOK, Lose PROVE ConnTypeOK'
<1>1. tunnel \in [of : Remote, port : Nat, up : BOOLEAN]
  BY DEF ConnTypeOK, LinkTypeOK, Lose
<1>2. tunnel' \in [of : Remote, port : Nat, up : BOOLEAN]
  BY <1>1 DEF Lose
<1> QED
  BY <1>2 DEF ConnTypeOK, SupTypeOK, LinkTypeOK, Lose, Upset

LEMMA BeginSaveTyped == ASSUME ConnTypeOK, NEW t \in Target, BeginSave(t) PROVE ConnTypeOK'
<1>1. SupTypeOK'
  BY DEF ConnTypeOK, BeginSave, SupTypeOK, Supervisor
<1>2. sup'.at = sup.at
  BY DEF ConnTypeOK, BeginSave, SupTypeOK, Supervisor
<1>3. LinkTypeOK'
  BY <1>2 DEF ConnTypeOK, BeginSave, LinkTypeOK, Upset
<1> QED
  BY <1>1, <1>3 DEF ConnTypeOK

LEMMA OpenedSays ==
  ASSUME port \in Nat, NEW t \in Remote, Opened(t)
  PROVE  /\ tunnel' \in [of : Remote, port : Nat, up : BOOLEAN]
         /\ port' \in Nat /\ port' = port + 1 /\ tunnel'.port = port'
         /\ EndOf(tunnel') \in Endpoint /\ EndOf(tunnel').of = t /\ EndOf(tunnel').port = port'
<1>1. port' = port + 1 /\ tunnel' = [of |-> t, port |-> port', up |-> TRUE]
  BY DEF Opened
<1>2. tunnel' \in [of : Remote, port : Nat, up : BOOLEAN] /\ tunnel'.port = port' /\ tunnel'.of = t
  BY <1>1
<1>3. EndOf(tunnel') = [of |-> t, port |-> port']
  BY <1>2 DEF EndOf
<1> QED
  BY <1>1, <1>2, <1>3 DEF Endpoint

LEMMA SavingTyped == ASSUME ConnTypeOK, Saving PROVE ConnTypeOK'
<1>1. SupTypeOK /\ LinkTypeOK
  BY DEF ConnTypeOK
<1>2. CASE SaveLocks
  BY <1>1, <1>2 DEF ConnTypeOK, SaveLocks, SupTypeOK, LinkTypeOK
<1>3. CASE Commit
  <2>1. save.to \in Target /\ save' = [save EXCEPT !.at = "reload"] /\ holder' = "nobody"
    BY <1>1, <1>3 DEF Commit, LinkTypeOK
  <2>2. tunnel' \in [of : Remote, port : Nat, up : BOOLEAN] \cup {Nil} /\ port' \in Nat
    <3>1. CASE save.to = Local
      BY <1>1, <1>3, <3>1 DEF Commit, LinkTypeOK
    <3>2. CASE save.to # Local /\ Open(save.to)
      BY <1>1, <1>3, <3>2 DEF Commit, LinkTypeOK
    <3>3. CASE save.to # Local /\ ~Open(save.to)
      <4>1. Opened(save.to) /\ save.to \in Remote
        BY <1>3, <2>1, <3>3 DEF Commit, Target
      <4> QED
        BY <1>1, <4>1, OpenedSays DEF LinkTypeOK
    <3> QED
      BY <3>1, <3>2, <3>3
  <2>3. sup' = sup /\ state' = state /\ upsets' = upsets /\ saved' \in Target
        /\ unseen' = TRUE /\ notice' = TRUE
    BY <1>3, <2>1 DEF Commit
  <2>4. sup.at # "connect"
    BY <1>1, <1>3 DEF Commit, LinkTypeOK
  <2> QED
    BY <1>1, <2>1, <2>2, <2>3, <2>4 DEF ConnTypeOK, SupTypeOK, LinkTypeOK
<1>4. CASE SaveFails
  BY <1>1, <1>4 DEF ConnTypeOK, SaveFails, SupTypeOK, LinkTypeOK
<1> QED
  BY <1>2, <1>3, <1>4 DEF Saving

\* All but the supervisor and what it publishes stays.
Elsewhere == UNCHANGED <<saved, save, tunnel, port, upsets, unseen, state>>

\* Who leaves "connect" unlocks.
LEMMA Unlocked ==
  ASSUME LinkTypeOK, Elsewhere, Unlocks, notice' \in BOOLEAN, sup'.at # "connect"
  PROVE  LinkTypeOK'
BY DEF LinkTypeOK, Elsewhere, Unlocks

LEMMA ConnectedSays ==
  ASSUME ConnTypeOK, Connected
  PROVE  /\ sup.read \in Remote /\ saved = sup.read
         /\ tunnel' \in [of : Remote, port : Nat, up : BOOLEAN] /\ port' \in Nat
         /\ EndOf(tunnel') \in Endpoint /\ EndOf(tunnel').of = sup.read
         /\ EndOf(tunnel').port = tunnel'.port
         /\ (tunnel' = tunnel /\ tunnel # Nil /\ port' = port) \/ (tunnel'.port = port' /\ port' = port + 1)
<1>1. sup.read \in Remote /\ saved = sup.read
  BY DEF ConnTypeOK, SupTypeOK, LinkTypeOK, Connected
<1>2. CASE Open(sup.read)
  BY <1>1, <1>2 DEF ConnTypeOK, SupTypeOK, LinkTypeOK, Connected, Open, EndOf, Endpoint
<1>3. CASE ~Open(sup.read)
  BY <1>1, <1>3, OpenedSays DEF ConnTypeOK, LinkTypeOK, Connected
<1> QED
  BY <1>2, <1>3

LEMMA SuperviseTyped == ASSUME ConnTypeOK, Supervise PROVE ConnTypeOK'
<1>1. SupTypeOK /\ LinkTypeOK
  BY DEF ConnTypeOK
<1>2. CASE Read
  <2>1. SupTypeOK' /\ sup'.at = "check" /\ sup.at = "sleep"
    BY <1>1, <1>2 DEF Read, SupTypeOK, LinkTypeOK, Supervisor
  <2> QED
    BY <1>1, <1>2, <2>1 DEF ConnTypeOK, Read, LinkTypeOK
<1>3. CASE Check
  <2>1. sup.at = "check" /\ sup.read \in Target /\ sup.at # "connect"
    BY <1>1, <1>3 DEF Check, SupTypeOK
  <2>2. ASSUME SupTypeOK', sup'.at # "connect", notice' \in BOOLEAN
        PROVE  ConnTypeOK'
    BY <1>1, <1>3, <2>1, <2>2 DEF ConnTypeOK, Check, LinkTypeOK
  <2>3. CASE sup.read = Local
    <3>1. Publishes(Local, Nil, "sleep")
      BY <1>3, <2>3 DEF Check
    <3> QED
      BY <1>1, <2>1, <2>2, <3>1, Publishing, States DEF LinkTypeOK, Target
  <2>4. CASE sup.read # Local
    <3>1. sup.read \in Remote
      BY <2>1, <2>4 DEF Target
    <3>2. CASE SupAt("sleep") /\ notice' = notice
      BY <1>1, <2>1, <2>2, <3>2, Goes DEF LinkTypeOK
    <3>3. CASE SupAt("wait") /\ notice' = notice
      BY <1>1, <2>1, <2>2, <3>1, <3>3, Goes DEF LinkTypeOK
    <3>4. CASE Publishes(sup.read, Nil, "wait")
      BY <1>1, <2>1, <2>2, <3>1, <3>4, Publishing, States DEF LinkTypeOK
    <3> QED
      BY <1>3, <2>4, <3>2, <3>3, <3>4 DEF Check
  <2> QED
    BY <2>3, <2>4
<1>4. CASE Publish
  <2>1. sup.at = "publish" /\ sup.next \in State /\ state' = sup.next
    BY <1>1, <1>4 DEF Publish, SupTypeOK
  <2>2. SupTypeOK' /\ sup'.at # "connect"
    BY <1>1, <1>4, <2>1, AsleepIs DEF Publish, SupTypeOK, Supervisor
  <2> QED
    BY <1>1, <1>4, <2>1, <2>2 DEF ConnTypeOK, Publish, LinkTypeOK
<1>5. CASE SupLocks
  <2>1. SupTypeOK' /\ sup'.at = "connect" /\ sup.at = "wait"
    BY <1>1, <1>5 DEF SupLocks, SupAt, SupTypeOK, Supervisor
  <2> QED
    BY <1>1, <1>5, <2>1 DEF ConnTypeOK, SupLocks, LinkTypeOK
<1>6. CASE Connected
  <2>1. Publishes(sup.read, EndOf(tunnel'), "sleep") /\ sup.read \in Target /\ sup.at = "connect"
    BY <1>6, ConnectedSays DEF Connected, Target
  <2> PICK end : end = EndOf(tunnel')
    OBVIOUS
  <2>2. end \in Endpoint /\ [of |-> sup.read, end |-> end] \in State
    BY <1>6, <2>1, ConnectedSays, States
  <2>3. SupTypeOK' /\ sup'.at # "connect" /\ notice' \in BOOLEAN
    BY <1>1, <2>1, <2>2, Publishing DEF LinkTypeOK
  <2> QED
    BY <1>1, <1>6, <2>1, <2>3, ConnectedSays DEF ConnTypeOK, Connected, LinkTypeOK, Unlocks
<1>7. CASE ConnectFails
  <2>1. Publishes(sup.read, Nil, "sleep") /\ sup.read \in Target /\ sup.at \in {"wait", "connect"}
    BY <1>1, <1>7 DEF ConnectFails, SupTypeOK
  <2>2. SupTypeOK' /\ sup'.at # "connect" /\ notice' \in BOOLEAN
    BY <1>1, <2>1, Publishing, States DEF LinkTypeOK
  <2> QED
    BY <1>1, <1>7, <2>1, <2>2 DEF ConnTypeOK, ConnectFails, LinkTypeOK, Unlocks, Upset
<1>8. CASE GivesUp
  <2>1. SupTypeOK' /\ sup'.at = "sleep"
    BY <1>1, <1>8, Goes DEF GivesUp
  <2> QED
    BY <1>1, <1>8, <2>1 DEF ConnTypeOK, GivesUp, LinkTypeOK, Unlocks
<1> QED
  BY <1>2, <1>3, <1>4, <1>5, <1>6, <1>7, <1>8 DEF Supervise

LEMMA ConnTyped == ASSUME ConnTypeOK, ConnNext PROVE ConnTypeOK'
BY LoseTyped, BeginSaveTyped, SavingTyped, SuperviseTyped DEF ConnNext

-----------------------------------------------------------------------------
(* Saving, losing and supervising: which stream is the selected one. *)

Chosen == PortsRise /\ NextIsFresh /\ Selected /\ Pending

\* Nothing that matters changes, but that the supervisor may have nothing to publish.
LEMMA ChosenSame ==
  ASSUME Chosen, UNCHANGED <<saved, tunnel, port, state, sub>>, notice' \/ notice' = notice,
         \/ sup'.at # "publish"
         \/ sup'.next.end = Nil
         \/ sup'.at = sup.at /\ sup'.next = sup.next
  PROVE  Chosen'
BY DEF Chosen, PortsRise, NextIsFresh, Selected, Pending, Follows, EndOf

LEMMA LoseChosen == ASSUME ConnTypeOK, Chosen, Lose, sub' = sub PROVE Chosen'
<1>1. tunnel \in [of : Remote, port : Nat, up : BOOLEAN] /\ tunnel' = [tunnel EXCEPT !.up = FALSE]
  BY DEF ConnTypeOK, LinkTypeOK, Lose
<1>2. tunnel'.of = tunnel.of /\ tunnel'.port = tunnel.port /\ tunnel # Nil
  BY <1>1 DEF Lose
<1>3. EndOf(tunnel') = EndOf(tunnel)
  BY <1>2 DEF EndOf
<1> QED
  BY <1>2, <1>3 DEF Lose, Chosen, PortsRise, NextIsFresh, Selected, Pending, Follows

LEMMA BeginSaveChosen ==
  ASSUME ConnTypeOK, Chosen, NEW t \in Target, BeginSave(t), sub' = sub
  PROVE  Chosen'
<1>1. sup'.at = sup.at /\ sup'.next = sup.next
  BY DEF BeginSave, ConnTypeOK, SupTypeOK, Supervisor
<1> QED
  BY <1>1, ChosenSame DEF BeginSave

\* A commit tells everybody, and a new tunnel has a new port.
LEMMA CommitChosen == ASSUME ConnTypeOK, Chosen, Commit, sub' = sub PROVE Chosen'
<1>1. /\ notice' = TRUE /\ UNCHANGED <<sup, state>> /\ save.to \in Target
      /\ port \in Nat /\ state \in State /\ (sup.at = "publish" => sup.next \in State)
  BY DEF Commit, ConnTypeOK, LinkTypeOK, SupTypeOK
<1>2. Selected' /\ Pending'
  BY <1>1 DEF Selected, Pending, Follows
<1>3. CASE tunnel' = Nil /\ port' = port
  BY <1>1, <1>2, <1>3 DEF Chosen, PortsRise, NextIsFresh
<1>4. CASE tunnel' = tunnel /\ port' = port
  BY <1>1, <1>2, <1>4 DEF Chosen, PortsRise, NextIsFresh, EndOf
<1>5. CASE save.to # Local /\ Opened(save.to)
  <2>1. port' = port + 1 /\ tunnel'.port = port' /\ EndOf(tunnel').port = port'
    BY <1>1, <1>5, OpenedSays DEF Target
  <2>2. state.end # Nil => state.end.port \in Nat /\ state.end.port <= port
    BY <1>1, States DEF Chosen, PortsRise, Endpoint
  <2>3. sup.at = "publish" /\ sup.next.end # Nil =>
          sup.next.end.port \in Nat /\ sup.next.end.port <= port
    BY <1>1, States DEF Chosen, PortsRise, Endpoint
  <2>4. PortsRise'
    BY <1>1, <2>1, <2>2, <2>3 DEF PortsRise
  <2>5. state.end # Nil => EndOf(tunnel') # state.end
    BY <1>1, <2>1, <2>2
  <2>6. NextIsFresh'
    BY <1>1, <2>5 DEF NextIsFresh, EndOf
  <2> QED
    BY <1>2, <2>4, <2>6 DEF Chosen
<1> QED
  BY <1>3, <1>4, <1>5 DEF Commit

LEMMA ConnectedChosen == ASSUME ConnTypeOK, Chosen, Connected, sub' = sub PROVE Chosen'
<1> PICK end : end = EndOf(tunnel')
  OBVIOUS
<1>1. Publishes(sup.read, end, "sleep") /\ sup.read \in Target /\ sup.at = "connect"
      /\ UNCHANGED <<saved, state>>
  BY ConnectedSays DEF Connected, Target
<1>2. end \in Endpoint /\ [of |-> sup.read, end |-> end] \in State /\ end.port = tunnel'.port
  BY <1>1, ConnectedSays, States
<1>3. /\ notice' <=> notice \/ state.end # end
      /\ sup'.at = "sleep" \/ (sup'.at = "publish" /\ sup'.next.end = end)
  BY <1>1, <1>2, Publishing DEF ConnTypeOK, LinkTypeOK
<1>4. PortsRise'
  <2>1. tunnel'.port <= port' /\ port <= port' /\ port \in Nat /\ port' \in Nat
    BY ConnectedSays DEF Chosen, PortsRise, ConnTypeOK, LinkTypeOK
  <2>2. state.end # Nil => state.end.port \in Nat /\ state.end.port <= port
    BY States DEF Chosen, PortsRise, Endpoint, ConnTypeOK, LinkTypeOK
  <2> QED
    BY <1>1, <1>2, <1>3, <2>1, <2>2 DEF PortsRise
<1>5. NextIsFresh'
  BY <1>1, <1>3 DEF NextIsFresh
<1>6. Selected' /\ Pending'
  BY <1>1, <1>3 DEF Chosen, Selected, Pending, Follows
<1> QED
  BY <1>4, <1>5, <1>6 DEF Chosen

LEMMA PublishChosen == ASSUME ConnTypeOK, Chosen, Publish, sub' = sub PROVE Chosen'
<1>1. /\ sup.at = "publish" /\ state' = sup.next /\ UNCHANGED <<saved, tunnel, port, notice>>
      /\ sup'.at # "publish"
  BY AsleepIs DEF Publish, ConnTypeOK, SupTypeOK, Supervisor
<1> QED
  BY <1>1 DEF Chosen, PortsRise, NextIsFresh, Selected, Pending, Follows

LEMMA CheckChosen == ASSUME ConnTypeOK, Chosen, Check, sub' = sub PROVE Chosen'
<1>1. sup.read \in Target /\ notice \in BOOLEAN /\ sup.at = "check"
      /\ UNCHANGED <<saved, tunnel, port, state>>
  BY DEF Check, ConnTypeOK, SupTypeOK, LinkTypeOK
<1>2. ASSUME NEW of \in Target, NEW then \in {"sleep", "wait"}, Publishes(of, Nil, then),
             then = "wait" => sup.read \in Remote
      PROVE  Chosen'
  BY <1>1, <1>2, Publishing, States, ChosenSame DEF ConnTypeOK
<1>3. ASSUME NEW at \in {"sleep", "wait"}, SupAt(at), notice' = notice
      PROVE  Chosen'
  <2>1. sup'.at # "publish"
    BY <1>3, AsleepIs DEF SupAt, ConnTypeOK, SupTypeOK, Supervisor
  <2> QED
    BY <1>1, <1>3, <2>1, ChosenSame
<1> QED
  BY <1>1, <1>2, <1>3 DEF Check, Target

LEMMA ConnChosen == ASSUME ConnTypeOK, Chosen, ConnNext, sub' = sub PROVE Chosen'
<1>1. CASE SaveLocks \/ SaveFails
  BY <1>1, ChosenSame DEF SaveLocks, SaveFails
<1>2. CASE Read
  BY <1>2, ChosenSame DEF Read, ConnTypeOK, SupTypeOK, Supervisor
<1>3. CASE SupLocks
  <2>1. sup'.at # "publish"
    BY <1>3 DEF SupLocks, SupAt, ConnTypeOK, SupTypeOK, Supervisor
  <2> QED
    BY <1>3, <2>1, ChosenSame DEF SupLocks
<1>4. CASE ConnectFails
  <2>1. Publishes(sup.read, Nil, "sleep") /\ sup.read \in Target /\ notice \in BOOLEAN
    BY <1>4 DEF ConnectFails, ConnTypeOK, SupTypeOK, LinkTypeOK
  <2> QED
    BY <1>4, <2>1, Publishing, States, ChosenSame DEF ConnectFails, ConnTypeOK
<1>5. CASE GivesUp
  <2>1. sup'.at # "publish"
    BY <1>5, AsleepIs DEF GivesUp, SupAt
  <2> QED
    BY <1>5, <2>1, ChosenSame DEF GivesUp
<1> QED
  BY <1>1, <1>2, <1>3, <1>4, <1>5, LoseChosen, BeginSaveChosen, CommitChosen, ConnectedChosen,
     PublishChosen, CheckChosen DEF ConnNext, Supervise, Saving

-----------------------------------------------------------------------------
(* The stream and the window. *)

Subscription == [at : {"none", "acked", "streaming", "ended"}, of : Target \cup {Nil},
                 end : Endpoint \cup {Nil}, q : Seq(Snapshot)]

SubOK ==
  /\ sub \in Subscription
  /\ sub.at # "none" => sub.of \in Target
  /\ Len(sub.q) <= Cap + 1 /\ (sub.at = "acked" => Len(sub.q) <= Cap)

RestOK ==
  /\ daemon \in [Target -> [inst : Nat, rev : Nat]]
  /\ ui \in {"retry", "opening", "on"}
  /\ load \in [at : {"none", "sent", "answered"}, got : Snapshot \cup {Nil}]
  /\ load.at = "answered" => load.got \in Snapshot
  /\ shown \in Snapshot \cup {Nil}

Places == (ui = "on" => sub.at # "none") /\ (ui = "retry" => sub.at = "none")

LEMMA StreamIs == StreamTypeOK => SubOK /\ RestOK /\ Places
BY DEF StreamTypeOK, SubOK, RestOK, Places, Subscription

LEMMA IsStream == SubOK' /\ RestOK' /\ Places' => StreamTypeOK'
BY DEF StreamTypeOK, SubOK, RestOK, Places, Subscription

LEMMA NowTyped == ASSUME RestOK, NEW d \in Target PROVE Now(d) \in Snapshot
BY DEF Now, Snapshot, RestOK

LEMMA NoSubIs == NoSub \in Subscription /\ NoSub.at = "none" /\ NoSub.q = <<>> /\ Len(NoSub.q) = 0
BY DEF NoSub, Subscription

LEMMA NoLoadIs == /\ NoLoad \in [at : {"none", "sent", "answered"}, got : Snapshot \cup {Nil}]
                  /\ NoLoad.at = "none"
                  /\ [NoLoad EXCEPT !.at = "sent"]
                       \in [at : {"none", "sent", "answered"}, got : Snapshot \cup {Nil}]
                  /\ [NoLoad EXCEPT !.at = "sent"].at = "sent"
BY DEF NoLoad

\* The subscription goes on with another queue.
LEMMA SubGoes ==
  ASSUME SubOK, NEW at \in {"acked", "streaming", "ended"}, NEW q \in Seq(Snapshot),
         sub' = [sub EXCEPT !.at = at, !.q = q], sub.at # "none",
         Len(q) <= Cap + 1, at = "acked" => Len(q) <= Cap
  PROVE  SubOK' /\ sub'.at = at /\ sub'.of = sub.of /\ sub'.end = sub.end
BY DEF SubOK, Subscription

LEMMA Ended ==
  ASSUME SubOK, Ends, sub.at # "none"
  PROVE  SubOK' /\ sub'.at = "ended" /\ sub'.of = sub.of /\ sub'.end = sub.end
<1>1. PICK n \in 0..Len(sub.q) : sub' = [sub EXCEPT !.at = "ended", !.q = SubSeq(sub.q, 1, n)]
  BY DEF Ends
<1> PICK q : q = SubSeq(sub.q, 1, n)
  OBVIOUS
<1>2. sub.q \in Seq(Snapshot) /\ Len(sub.q) \in Nat /\ n \in Nat /\ n <= Len(sub.q)
  BY DEF SubOK, Subscription
<1>3. \A i \in 1..n : sub.q[i] \in Snapshot
  BY <1>2, ElementOfSeq
<1>4. q \in Seq(Snapshot) /\ Len(q) = IF 1 <= n THEN n - 1 + 1 ELSE 0
  BY <1>2, <1>3, SubSeqProperties
<1>5. Len(q) <= Cap + 1
  BY <1>2, <1>4 DEF SubOK
<1>6. sub' = [sub EXCEPT !.at = "ended", !.q = q]
  BY <1>1
<1> QED
  BY <1>4, <1>5, <1>6, SubGoes

\* A stream goes on, or is gone.
On == sub.at # "none" /\ sub'.at # "none" /\ sub'.of = sub.of /\ sub'.end = sub.end

LEMMA OnChosen ==
  ASSUME Chosen, UNCHANGED <<saved, tunnel, port, sup, state, notice>>, On
  PROVE  Chosen'
BY DEF On, Chosen, PortsRise, NextIsFresh, Selected, Pending, Follows, EndOf

LEMMA NoneChosen ==
  ASSUME Chosen, UNCHANGED <<saved, tunnel, port, sup, state>>, sub'.at = "none"
  PROVE  Chosen'
BY DEF Chosen, PortsRise, NextIsFresh, Selected, Pending, Follows, EndOf

LEMMA SameChosen ==
  ASSUME Chosen, UNCHANGED <<saved, tunnel, port, sup, state, notice, sub>>
  PROVE  Chosen'
BY DEF Chosen, PortsRise, NextIsFresh, Selected, Pending, Follows, EndOf

\* Of the connection at most the count of upsets changes.
LEMMA IdleConn ==
  ASSUME ConnTypeOK, idleConn' = idleConn, upsets' = upsets \/ Upset
  PROVE  ConnTypeOK'
BY DEF ConnTypeOK, SupTypeOK, LinkTypeOK, idleConn, Upset

LEMMA DaemonGoes ==
  ASSUME RestOK, NEW d \in Target, NEW x \in [inst : Nat, rev : Nat],
         daemon' = [daemon EXCEPT ![d] = x]
  PROVE  daemon' \in [Target -> [inst : Nat, rev : Nat]] /\ Now(d)' \in Snapshot
<1>1. daemon' \in [Target -> [inst : Nat, rev : Nat]]
  BY DEF RestOK
<1>2. Now(d)' = [of |-> d, inst |-> daemon'[d].inst, rev |-> daemon'[d].rev]
  BY DEF Now
<1> QED
  BY <1>1, <1>2 DEF Snapshot

LEMMA ChangeKeeps ==
  ASSUME TypeOK, Chosen, NEW d \in Target, Change(d)
  PROVE  TypeOK' /\ Chosen'
<1>1. SubOK /\ RestOK /\ Places /\ ConnTypeOK
  BY StreamIs DEF TypeOK
<1>2. PICK x : x = [inst |-> daemon[d].inst, rev |-> daemon[d].rev + 1]
  OBVIOUS
<1>3. x \in [inst : Nat, rev : Nat] /\ daemon' = [daemon EXCEPT ![d] = x]
  BY <1>1, <1>2 DEF Change, RestOK
<1>4. daemon' \in [Target -> [inst : Nat, rev : Nat]] /\ Now(d)' \in Snapshot
  BY <1>1, <1>3, DaemonGoes
<1>5. ConnTypeOK' /\ RestOK'
  BY <1>1, <1>4, IdleConn DEF Change, RestOK
<1>6. sub' = sub \/ (On /\ SubOK')
  <2>1. CASE ~Subscribed(d)
    BY <2>1 DEF Change
  <2>2. CASE Subscribed(d) /\ Len(sub.q) < Cap
    <3>1. sub' = [sub EXCEPT !.at = sub.at, !.q = Append(sub.q, Now(d)')] /\ sub.at \in {"acked", "streaming"}
      BY <1>1, <2>2 DEF Change, Subscribed, SubOK, Subscription
    <3>2. sub.q \in Seq(Snapshot)
      BY <1>1 DEF SubOK, Subscription
    <3>3. Append(sub.q, Now(d)') \in Seq(Snapshot) /\ Len(Append(sub.q, Now(d)')) = Len(sub.q) + 1
      BY <1>4, <3>2
    <3>4. Len(sub.q) + 1 <= Cap /\ Len(sub.q) + 1 <= Cap + 1
      BY <2>2, <3>2
    <3> QED
      BY <1>1, <3>1, <3>3, <3>4, SubGoes DEF On
  <2>3. CASE Subscribed(d) /\ ~(Len(sub.q) < Cap)
    BY <1>1, <2>3, Ended DEF Change, Subscribed, On
  <2> QED
    BY <2>1, <2>2, <2>3
<1>7. SubOK' /\ Places'
  BY <1>1, <1>6 DEF Change, Places, On, SubOK
<1>8. Chosen'
  BY <1>6, OnChosen, SameChosen DEF Change, idleConn
<1> QED
  BY <1>5, <1>7, <1>8, IsStream DEF TypeOK

LEMMA RestartKeeps ==
  ASSUME TypeOK, Chosen, NEW d \in Target, Restart(d)
  PROVE  TypeOK' /\ Chosen'
<1>1. SubOK /\ RestOK /\ Places /\ ConnTypeOK
  BY StreamIs DEF TypeOK
<1>2. PICK x : x = [inst |-> daemon[d].inst + 1, rev |-> 0]
  OBVIOUS
<1>3. x \in [inst : Nat, rev : Nat] /\ daemon' = [daemon EXCEPT ![d] = x]
  BY <1>1, <1>2 DEF Restart, RestOK
<1>4. daemon' \in [Target -> [inst : Nat, rev : Nat]]
  BY <1>1, <1>3, DaemonGoes
<1>5. ConnTypeOK' /\ RestOK'
  BY <1>1, <1>4, IdleConn DEF Restart, RestOK
<1>6. sub' = sub \/ (On /\ SubOK')
  BY <1>1, Ended DEF Restart, Subscribed, On
<1>7. SubOK' /\ Places'
  BY <1>1, <1>6 DEF Restart, Places, On, SubOK
<1>8. Chosen'
  BY <1>6, OnChosen, SameChosen DEF Restart, idleConn
<1> QED
  BY <1>5, <1>7, <1>8, IsStream DEF TypeOK

LEMMA SubscribeKeeps == ASSUME TypeOK, Chosen, Subscribe PROVE TypeOK' /\ Chosen'
<1>1. SubOK /\ RestOK /\ Places /\ ConnTypeOK
  BY StreamIs DEF TypeOK
<1>2. saved \in Target /\ state \in State /\ tunnel \in [of : Remote, port : Nat, up : BOOLEAN] \cup {Nil}
  BY <1>1 DEF ConnTypeOK, LinkTypeOK
<1> PICK end : end = IF saved = Local THEN Nil ELSE state.end
  OBVIOUS
<1>3. /\ sub' = [at |-> "acked", of |-> saved, end |-> end, q |-> <<>>]
      /\ ui = "opening" /\ UNCHANGED <<connVars, daemon, ui, load, shown>>
  BY DEF Subscribe
<1>4. end \in Endpoint \cup {Nil}
  BY <1>2, States
<1>5. SubOK'
  BY <1>2, <1>3, <1>4 DEF SubOK, Subscription
<1>6. sub'.at = "acked" /\ sub'.of = saved /\ sub'.end = end
  BY <1>3
<1>7. ConnTypeOK' /\ RestOK' /\ Places'
  BY <1>1, <1>3, <1>6 DEF connVars, ConnTypeOK, SupTypeOK, LinkTypeOK, RestOK, Places
<1>8. saved \in Remote => end = state.end /\ EndOf(tunnel) = state.end /\ tunnel # Nil /\ state.end # Nil
  BY DEF Subscribe, Reach, Open
<1>9. Selected' /\ Pending'
  BY <1>3, <1>6, <1>8 DEF Chosen, NextIsFresh, Selected, Pending, Follows, connVars
<1>10. PortsRise' /\ NextIsFresh'
  BY <1>3 DEF Chosen, PortsRise, NextIsFresh, connVars, EndOf
<1> QED
  BY <1>5, <1>7, <1>9, <1>10, IsStream DEF TypeOK, Chosen

LEMMA ReplayKeeps == ASSUME TypeOK, Chosen, Replay PROVE TypeOK' /\ Chosen'
<1>1. SubOK /\ RestOK /\ Places /\ ConnTypeOK
  BY StreamIs DEF TypeOK
<1>2. sub.at = "acked" /\ sub.of \in Target /\ sub.q \in Seq(Snapshot) /\ Len(sub.q) <= Cap
      /\ UNCHANGED <<connVars, daemon, ui, load, shown>>
  BY <1>1 DEF Replay, SubOK, Subscription
<1> PICK s : s = Now(sub.of)
  OBVIOUS
<1>3. s \in Snapshot
  BY <1>1, <1>2, NowTyped
<1>4. PICK q : q \in {sub.q, <<s>> \o sub.q} /\ sub' = [sub EXCEPT !.at = "streaming", !.q = q]
  BY DEF Replay
<1>5. q \in Seq(Snapshot) /\ Len(q) <= Cap + 1
  <2>1. <<s>> \o sub.q \in Seq(Snapshot) /\ Len(<<s>> \o sub.q) = 1 + Len(sub.q)
    BY <1>2, <1>3
  <2>2. Len(sub.q) \in Nat /\ Len(sub.q) <= Cap + 1 /\ 1 + Len(sub.q) <= Cap + 1
    BY <1>2
  <2> QED
    BY <1>2, <1>4, <2>1, <2>2
<1>6. SubOK' /\ On
  BY <1>1, <1>2, <1>4, <1>5, SubGoes DEF On
<1>7. ConnTypeOK' /\ RestOK' /\ Places'
  BY <1>1, <1>2, <1>6 DEF connVars, ConnTypeOK, SupTypeOK, LinkTypeOK, RestOK, Places, On
<1>8. Chosen'
  BY <1>2, <1>6, OnChosen DEF connVars
<1> QED
  BY <1>6, <1>7, <1>8, IsStream DEF TypeOK

LEMMA BreakKeeps == ASSUME TypeOK, Chosen, Break PROVE TypeOK' /\ Chosen'
<1>1. SubOK /\ RestOK /\ Places /\ ConnTypeOK
  BY StreamIs DEF TypeOK
<1>2. sub.at \in {"acked", "streaming"} /\ UNCHANGED <<connVars, daemon, ui, load, shown>>
  BY DEF Break
<1>3. SubOK' /\ On
  BY <1>1, <1>2, Ended DEF Break, On
<1>4. ConnTypeOK' /\ RestOK' /\ Places'
  BY <1>1, <1>2, <1>3 DEF connVars, ConnTypeOK, SupTypeOK, LinkTypeOK, RestOK, Places, On
<1>5. Chosen'
  BY <1>2, <1>3, OnChosen DEF connVars
<1> QED
  BY <1>3, <1>4, <1>5, IsStream DEF TypeOK

LEMMA NewerTyped == ASSUME RestOK, NEW s \in Snapshot PROVE Newer(s) \in Snapshot
BY DEF Newer, RestOK

LEMMA HearKeeps == ASSUME TypeOK, Chosen, Hear PROVE TypeOK' /\ Chosen'
<1>1. SubOK /\ RestOK /\ Places /\ ConnTypeOK
  BY StreamIs DEF TypeOK
<1>2. /\ sub.at # "none" /\ sub.q \in Seq(Snapshot) /\ sub.q # <<>>
      /\ sub' = [sub EXCEPT !.q = Tail(sub.q)]
      /\ UNCHANGED <<connVars, daemon, ui, load>> /\ shown' = Newer(Head(sub.q))
  BY <1>1 DEF Hear, SubOK, Subscription, Places
<1>3. Head(sub.q) \in Snapshot /\ Tail(sub.q) \in Seq(Snapshot) /\ Len(Tail(sub.q)) = Len(sub.q) - 1
  BY <1>2, HeadTailProperties
<1>4. Len(sub.q) \in Nat
  BY <1>2
<1> PICK t : t = Tail(sub.q)
  OBVIOUS
<1>5. SubOK' /\ On
  <2>1. t \in Seq(Snapshot) /\ Len(t) <= Cap + 1 /\ (sub.at = "acked" => Len(t) <= Cap)
    BY <1>1, <1>3, <1>4 DEF SubOK
  <2>2. sub' = [sub EXCEPT !.at = sub.at, !.q = t] /\ sub.at \in {"acked", "streaming", "ended"}
    BY <1>1, <1>2 DEF SubOK, Subscription
  <2> QED
    BY <1>1, <1>2, <2>1, <2>2, SubGoes DEF On
<1>6. ConnTypeOK' /\ RestOK' /\ Places'
  BY <1>1, <1>2, <1>3, <1>5, NewerTyped DEF connVars, ConnTypeOK, SupTypeOK, LinkTypeOK, RestOK, Places, On
<1>7. Chosen'
  BY <1>2, <1>5, OnChosen DEF connVars
<1> QED
  BY <1>5, <1>6, <1>7, IsStream DEF TypeOK

LEMMA RetryKeeps == ASSUME TypeOK, Chosen, Retry PROVE TypeOK' /\ Chosen'
<1>1. SubOK /\ RestOK /\ Places /\ ConnTypeOK
  BY StreamIs DEF TypeOK
<1>2. sub.at = "none" /\ sub' = sub /\ ui' = "opening" /\ load' = NoLoad /\ notice' = FALSE
      /\ UNCHANGED <<saved, save, holder, tunnel, port, upsets, sup, unseen, state, daemon, shown>>
  BY <1>1 DEF Retry, Turn, Places
<1>3. ConnTypeOK' /\ RestOK' /\ Places' /\ SubOK'
  <2>1. SupTypeOK' /\ LinkTypeOK'
    BY <1>1, <1>2 DEF ConnTypeOK, SupTypeOK, LinkTypeOK
  <2>2. RestOK'
    BY <1>1, <1>2, NoLoadIs DEF RestOK
  <2>3. Places' /\ SubOK'
    BY <1>1, <1>2 DEF Places, SubOK
  <2> QED
    BY <2>1, <2>2, <2>3 DEF ConnTypeOK
<1>4. Chosen'
  BY <1>2, NoneChosen
<1> QED
  BY <1>3, <1>4, IsStream DEF TypeOK

LEMMA SubscribeFailsKeeps == ASSUME TypeOK, Chosen, SubscribeFails PROVE TypeOK' /\ Chosen'
<1>1. SubOK /\ RestOK /\ Places /\ ConnTypeOK
  BY StreamIs DEF TypeOK
<1>2. sub.at = "none" /\ sub' = sub /\ ui' = "retry" /\ load' = NoLoad
      /\ idleConn' = idleConn /\ (upsets' = upsets \/ Upset)
      /\ UNCHANGED <<daemon, shown>>
  BY DEF SubscribeFails, Turn, idleConn
<1>3. ConnTypeOK' /\ RestOK' /\ Places' /\ SubOK'
  BY <1>1, <1>2, NoLoadIs, IdleConn DEF RestOK, Places, SubOK
<1>4. Chosen'
  BY <1>2, NoneChosen DEF idleConn
<1> QED
  BY <1>3, <1>4, IsStream DEF TypeOK

LEMMA StreamsKeeps == ASSUME TypeOK, Chosen, Streams PROVE TypeOK' /\ Chosen'
<1>1. SubOK /\ RestOK /\ Places /\ ConnTypeOK
  BY StreamIs DEF TypeOK
<1>2. sub.at # "none" /\ ui' = "on" /\ load' = [NoLoad EXCEPT !.at = "sent"]
      /\ UNCHANGED <<connVars, daemon, sub, shown>>
  BY DEF Streams
<1>3. ConnTypeOK' /\ RestOK' /\ Places' /\ SubOK'
  BY <1>1, <1>2, NoLoadIs DEF connVars, ConnTypeOK, SupTypeOK, LinkTypeOK, RestOK, Places, SubOK
<1>4. Chosen'
  BY <1>2, SameChosen DEF connVars
<1> QED
  BY <1>3, <1>4, IsStream DEF TypeOK

LEMMA RejectedKeeps == ASSUME TypeOK, Chosen, Rejected PROVE TypeOK' /\ Chosen'
<1>1. SubOK /\ RestOK /\ Places /\ ConnTypeOK
  BY StreamIs DEF TypeOK
<1>2. ui' = "retry" /\ load' = NoLoad /\ sub' = NoSub /\ UNCHANGED <<connVars, daemon, shown>>
  BY DEF Rejected, Turn
<1>3. ConnTypeOK' /\ RestOK' /\ Places' /\ SubOK'
  BY <1>1, <1>2, NoLoadIs, NoSubIs DEF connVars, ConnTypeOK, SupTypeOK, LinkTypeOK, RestOK, Places, SubOK
<1>4. Chosen'
  BY <1>2, NoneChosen, NoSubIs DEF connVars
<1> QED
  BY <1>3, <1>4, IsStream DEF TypeOK

LEMMA ReloadKeeps == ASSUME TypeOK, Chosen, Reload PROVE TypeOK' /\ Chosen'
<1>1. SubOK /\ RestOK /\ Places /\ ConnTypeOK
  BY StreamIs DEF TypeOK
<1>2. /\ save.at = "reload" /\ save' = [at |-> "idle", to |-> Nil] /\ notice' = FALSE
      /\ ui' = "opening" /\ load' = NoLoad /\ sub' = NoSub /\ shown' = Nil
      /\ UNCHANGED <<saved, holder, tunnel, port, upsets, sup, unseen, state, daemon>>
  BY DEF Reload, Turn
<1>3. ConnTypeOK'
  BY <1>1, <1>2 DEF ConnTypeOK, SupTypeOK, LinkTypeOK
<1>4. RestOK' /\ Places' /\ SubOK'
  BY <1>1, <1>2, NoLoadIs, NoSubIs DEF RestOK, Places, SubOK
<1>5. Chosen'
  BY <1>2, NoneChosen, NoSubIs
<1> QED
  BY <1>3, <1>4, <1>5, IsStream DEF TypeOK

LEMMA QueryKeeps == ASSUME TypeOK, Chosen, Query \/ Ask PROVE TypeOK' /\ Chosen'
<1>1. SubOK /\ RestOK /\ Places /\ ConnTypeOK
  BY StreamIs DEF TypeOK
<1>2. idleConn' = idleConn /\ (upsets' = upsets \/ Upset) /\ UNCHANGED <<daemon, sub, ui>>
  BY DEF Query, Ask, Answer, AskFails, Apply, connVars, idleConn
<1>3. ConnTypeOK' /\ Places' /\ SubOK'
  BY <1>1, <1>2, IdleConn DEF Places, SubOK
<1>4. RestOK'
  <2>1. CASE Ask
    BY <1>1, <1>2, <2>1, NoLoadIs DEF Ask, RestOK
  <2>2. CASE Answer
    <3>1. Now(saved) \in Snapshot
      BY <1>1, NowTyped DEF ConnTypeOK, LinkTypeOK
    <3> QED
      BY <1>1, <1>2, <2>2, <3>1 DEF Answer, RestOK
  <2>3. CASE AskFails
    BY <1>1, <1>2, <2>3, NoLoadIs DEF AskFails, RestOK
  <2>4. CASE Apply
    <3>1. Newer(load.got) \in Snapshot
      BY <1>1, <2>4, NewerTyped DEF Apply, RestOK
    <3> QED
      BY <1>1, <1>2, <2>4, <3>1, NoLoadIs DEF Apply, RestOK
  <2> QED
    BY <2>1, <2>2, <2>3, <2>4 DEF Query
<1>5. Chosen'
  BY <1>2, SameChosen DEF idleConn
<1> QED
  BY <1>3, <1>4, <1>5, IsStream DEF TypeOK

-----------------------------------------------------------------------------

LEMMA InitKeeps == Init => TypeOK /\ Chosen
<1> SUFFICES ASSUME Init PROVE TypeOK /\ Chosen
  OBVIOUS
<1>1. ConnTypeOK
  <2>1. SupTypeOK /\ sup.at = "sleep"
    BY AsleepIs DEF Init, ConnInit, SupTypeOK
  <2>2. state \in State
    BY DEF Init, ConnInit, State
  <2>3. save = [at |-> "idle", to |-> Nil]
    BY DEF Init, ConnInit
  <2>4. save \in [at : {"idle", "wait", "connect", "reload"}, to : Target \cup {Nil}]
        /\ save.at = "idle"
    BY <2>3
  <2>5. /\ saved \in Target /\ upsets \in 0..MaxUpsets /\ port \in Nat /\ holder = "nobody"
        /\ tunnel = Nil /\ unseen = FALSE /\ notice = FALSE
    BY DEF Init, ConnInit
  <2> QED
    BY <2>1, <2>2, <2>4, <2>5 DEF Init, ConnTypeOK, LinkTypeOK
<1>2. StreamTypeOK
  <2>1. SubOK
    BY NoSubIs DEF Init, SubOK
  <2>2. daemon \in [Target -> [inst : Nat, rev : Nat]]
    BY DEF Init
  <2>3. load \in [at : {"none", "sent", "answered"}, got : Snapshot \cup {Nil}] /\ load.at = "none"
    BY NoLoadIs DEF Init
  <2> QED
    BY <2>1, <2>2, <2>3 DEF Init, StreamTypeOK, SubOK, Subscription
<1>3. Chosen
  BY AsleepIs, NoSubIs DEF Init, ConnInit, Chosen, PortsRise, NextIsFresh, Selected, Pending, Follows
<1> QED
  BY <1>1, <1>2, <1>3 DEF TypeOK

LEMMA NextKeeps == TypeOK /\ Chosen /\ [Next]_vars => (TypeOK /\ Chosen)'
<1> SUFFICES ASSUME TypeOK, Chosen, [Next]_vars PROVE (TypeOK /\ Chosen)'
  OBVIOUS
<1>1. CASE UNCHANGED vars
  <2>1. ConnTypeOK' /\ StreamTypeOK'
    BY <1>1 DEF vars, connVars, TypeOK, ConnTypeOK, SupTypeOK, LinkTypeOK, StreamTypeOK
  <2>2. Chosen'
    BY <1>1, SameChosen DEF vars, connVars
  <2> QED
    BY <2>1, <2>2 DEF TypeOK
<1>2. CASE ConnNext /\ UNCHANGED <<daemon, sub, ui, load, shown>>
  <2>1. ConnTypeOK' /\ Chosen'
    BY <1>2, ConnTyped, ConnChosen DEF TypeOK
  <2>2. StreamTypeOK'
    BY <1>2 DEF TypeOK, StreamTypeOK
  <2> QED
    BY <2>1, <2>2 DEF TypeOK
<1>3. CASE Sends
  BY <1>3, ReplayKeeps, BreakKeeps DEF Sends
<1>4. CASE Window
  BY <1>4, RetryKeeps, SubscribeKeeps, SubscribeFailsKeeps, StreamsKeeps, RejectedKeeps, HearKeeps
     DEF Window
<1> QED
  BY <1>1, <1>2, <1>3, <1>4, ChangeKeeps, RestartKeeps, QueryKeeps, ReloadKeeps DEF Next

\* The strengthened invariant of the connection and the stream.
THEOREM InvariantHolds == Spec => []IInv
<1>1. TypeOK /\ Chosen => IInv
  BY DEF IInv, Chosen
<1> QED
  BY <1>1, InitKeeps, NextKeeps, PTL DEF Spec

\* Settings, tunnel, supervisor, subscription, queries and screen keep their types.
THEOREM Typed == Spec => []TypeOK
<1>1. IInv => TypeOK
  BY DEF IInv
<1> QED
  BY <1>1, InvariantHolds, PTL

\* A stream that the window has on and has not been told to give up (bridge.rs
\* watches settings and endpoint from before the subscription) comes from the daemon
\* of the saved settings, through the endpoint the supervisor has published.
THEOREM StreamsAreSelected == Spec => []StreamIsSelected
<1>1. IInv => StreamIsSelected
  BY DEF IInv, TypeOK, StreamTypeOK, Selected, Follows, StreamIsSelected
<1> QED
  BY <1>1, InvariantHolds, PTL

\* What is not older than what is shown replaces it.
LEMMA NewerIsNewer ==
  ASSUME RestOK, NEW s \in Snapshot, shown' = Newer(s), shown # Nil, shown' # Nil,
         shown.of = shown'.of, shown.inst = shown'.inst
  PROVE  shown.rev <= shown'.rev
BY DEF RestOK, Newer, Snapshot

\* The screen never goes back to an earlier revision of the same instance of a
\* daemon (rememberSessionSnapshot in live-chat.ts), in whatever order events,
\* replayed snapshots and answers to queries arrive.
THEOREM ShownNeverGoesBack == Spec => NeverBackwards
<1> DEFINE Forward == shown # Nil /\ shown' # Nil /\ shown.of = shown'.of /\ shown.inst = shown'.inst
                        => shown.rev <= shown'.rev
<1>1. TypeOK /\ [Next]_vars => [Forward]_vars
  <2> SUFFICES ASSUME TypeOK, [Next]_vars, shown # Nil, shown' # Nil,
                      shown.of = shown'.of, shown.inst = shown'.inst
               PROVE  shown.rev <= shown'.rev
    OBVIOUS
  <2>1. RestOK /\ SubOK /\ Places
    BY StreamIs DEF TypeOK
  <2>2. CASE shown' = shown
    BY <2>1, <2>2 DEF RestOK, Snapshot
  <2>3. CASE Hear
    <3>1. Head(sub.q) \in Snapshot
      BY <2>1, <2>3, HeadTailProperties DEF Hear, SubOK, Subscription
    <3> QED
      BY <2>1, <2>3, <3>1, NewerIsNewer DEF Hear
  <2>4. CASE Apply
    BY <2>1, <2>4, NewerIsNewer DEF Apply, RestOK
  <2>5. CASE Reload
    BY <2>5 DEF Reload
  <2>6. shown' = shown \/ Hear \/ Apply \/ Reload
    BY DEF Next, vars, Change, Restart, Sends, Replay, Break, Window, Retry, Subscribe, SubscribeFails,
           Streams, Rejected, Query, Answer, AskFails, Ask
  <2> QED
    BY <2>2, <2>3, <2>4, <2>5, <2>6
<1> QED
  BY <1>1, Typed, PTL DEF Spec, NeverBackwards
=============================================================================
