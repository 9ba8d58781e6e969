-------------------------- MODULE SessionRunsProofs --------------------------
(***************************************************************************)
(* Proofs about SessionRuns, for any number of runs, messages, questions   *)
(* and calls, and with or without those who stop and delete.               *)
(***************************************************************************)
EXTENDS SessionRuns, SequenceTheorems, TLAPS

USE SessionAssumption DEF SessionAssumption

Turn == {"none", "started", "completed", "cancelled", "failed"}

------------------------------------------------------------------------------
(* What the helpers return *)

\* A plan is made of steps and always drops the questions of the run.
LEMMA PlanSteps ==
  ASSUME NEW why \in Why, NEW open \in BOOLEAN
  PROVE  /\ Plan(why, open) \in Seq(Step)
         /\ \E i \in DOMAIN Plan(why, open) : Plan(why, open)[i] = "asks"
<1> DEFINE turn == IF open THEN <<"turn">> ELSE <<>>
<1>1. turn \in Seq(Step)
  <2>1. <<"turn">> \in Seq(Step) /\ <<>> \in Seq(Step)
    BY DEF Step
  <2>2. QED
    BY <2>1
<1> HIDE DEF turn
<1>2. ASSUME NEW before \in Seq(Step), NEW after \in Seq(Step),
             \E i \in DOMAIN before : before[i] = "asks",
             Plan(why, open) = before \o turn \o after
      PROVE  /\ Plan(why, open) \in Seq(Step)
             /\ \E i \in DOMAIN Plan(why, open) : Plan(why, open)[i] = "asks"
  <2>1. before \o turn \in Seq(Step)
    BY <1>1, ConcatProperties
  <2>2. \A i \in DOMAIN before : (before \o turn)[i] = before[i] /\ i \in DOMAIN (before \o turn)
    BY <1>1, <2>1, ConcatProperties, LenProperties
  <2>3. \A i \in DOMAIN before : Plan(why, open)[i] = before[i] /\ i \in DOMAIN Plan(why, open)
    BY <1>1, <1>2, <2>1, <2>2, ConcatProperties, LenProperties
  <2>4. QED
    BY <1>2, <2>1, <2>3, ConcatProperties
<1>3. CASE why = "cancel"
  <2>1. Plan(why, open) = <<"asks", "kill", "texts">> \o turn \o <<"row", "run">>
    BY <1>3 DEF Plan, turn
  <2>2. /\ <<"asks", "kill", "texts">> \in Seq(Step) /\ <<"row", "run">> \in Seq(Step)
        /\ 1 \in DOMAIN <<"asks", "kill", "texts">> /\ <<"asks", "kill", "texts">>[1] = "asks"
    BY DEF Step
  <2>3. QED
    BY <1>2, <2>1, <2>2
<1>4. CASE why = "replace"
  <2>1. Plan(why, open) = <<"asks", "kill">> \o turn \o <<"row", "run">>
    BY <1>4 DEF Plan, turn
  <2>2. /\ <<"asks", "kill">> \in Seq(Step) /\ <<"row", "run">> \in Seq(Step)
        /\ 1 \in DOMAIN <<"asks", "kill">> /\ <<"asks", "kill">>[1] = "asks"
    BY DEF Step
  <2>3. QED
    BY <1>2, <2>1, <2>2
<1>5. CASE why = "prompt"
  <2> DEFINE front == <<"asks", "kill", "texts", "row", "run">>
  <2>1. Plan(why, open) = front \o turn
    BY <1>5 DEF Plan, turn
  <2>2. front \in Seq(Step) /\ front[1] = "asks" /\ 1 \in 1..Len(front)
    BY DEF Step
  <2> HIDE DEF front
  <2>3. QED
    BY <1>1, <2>1, <2>2, ConcatProperties, LenProperties
<1>6. CASE why = "start"
  BY <1>6 DEF Plan, Step
<1>7. CASE why = "gone"
  <2> DEFINE last == <<"row", "run", "asks">>
             front == <<"texts">> \o turn
  <2>1. Plan(why, open) = front \o last
    BY <1>7 DEF Plan, turn
  <2>2. last \in Seq(Step) /\ last[3] = "asks" /\ Len(last) = 3 /\ <<"texts">> \in Seq(Step)
    BY DEF Step
  <2>3. front \in Seq(Step)
    BY <1>1, <2>2, ConcatProperties
  <2> HIDE DEF front, last
  <2>4. Len(front) \in Nat
    BY <2>3, LenProperties
  <2>5. /\ front \o last \in Seq(Step)
        /\ Len(front \o last) = Len(front) + Len(last)
        /\ \A i \in 1 .. Len(front) + Len(last) :
             (front \o last)[i] = IF i <= Len(front) THEN front[i] ELSE last[i - Len(front)]
    BY ONLY <2>2, <2>3, ConcatProperties
  <2>6. (front \o last)[Len(front) + 3] = last[3] /\ Len(front) + 3 \in DOMAIN (front \o last)
    BY <2>2, <2>4, <2>5, LenProperties
  <2>7. QED
    BY <2>1, <2>2, <2>5, <2>6
<1>8. QED
  BY <1>3, <1>4, <1>5, <1>6, <1>7 DEF Why

LEMMA RestTyped == Rest \in Thread
<1>1. <<>> \in Seq(Step)
  OBVIOUS
<1>2. QED
  BY <1>1 DEF Rest, Thread, Place

LEMMA BecomesTyped ==
  ASSUME TypeOK, NEW a \in Actor, NEW th \in Thread, Becomes(a, th)
  PROVE  act' \in [Actor -> Thread]
BY DEF TypeOK, Becomes

LEMMA GotoTyped ==
  ASSUME TypeOK, NEW a \in Actor, NEW pc \in Place, Goto(a, pc)
  PROVE  act' \in [Actor -> Thread]
<1>1. act[a] \in Thread
  BY DEF TypeOK
<1>2. [act[a] EXCEPT !.pc = pc] \in Thread
  BY <1>1 DEF Thread
<1>3. QED
  BY <1>2, BecomesTyped DEF Goto

LEMMA TakeTyped ==
  ASSUME TypeOK, NEW a \in Actor, NEW pc \in Place, NEW why \in Why, Take(a, pc, why)
  PROVE  live' \in LiveRun /\ act' \in [Actor -> Thread]
<1>1. live' \in LiveRun
  BY DEF Take, NoLive, LiveRun
<1> DEFINE plan == Plan(why, live.turn # 0)
<1>2. plan \in Seq(Step)
  BY PlanSteps
<1> HIDE DEF plan
<1>3. [act[a] EXCEPT !.pc = pc, !.run = live.run, !.turn = live.turn, !.msgs = live.open,
                     !.end = why, !.todo = plan] \in Thread
  <2>1. act[a] \in Thread /\ live \in LiveRun
    BY DEF TypeOK
  <2>2. QED
    BY <1>2, <2>1 DEF Thread, LiveRun
<1>4. QED
  BY <1>1, <1>3, BecomesTyped DEF Take, plan

LEMMA TakeIfAnyTyped ==
  ASSUME TypeOK, NEW a \in Actor, NEW pc \in Place, NEW why \in Why, TakeIfAny(a, pc, why)
  PROVE  live' \in LiveRun /\ act' \in [Actor -> Thread]
BY GotoTyped, TakeTyped DEF TakeIfAny, TypeOK

LEMMA DoneTyped ==
  ASSUME TypeOK, NEW a \in Actor, NEW step, Due(a, step), Done(a)
  PROVE  act' \in [Actor -> Thread]
<1>1. act[a] \in Thread /\ act[a].todo \in Seq(Step) /\ act[a].todo # <<>>
  BY DEF TypeOK, Thread, Due
<1>2. Tail(act[a].todo) \in Seq(Step)
  BY <1>1, HeadTailProperties
<1>3. [act[a] EXCEPT !.todo = Tail(act[a].todo)] \in Thread
  BY <1>1, <1>2 DEF Thread
<1>4. [Rest EXCEPT !.pc = act[a].pc, !.call = act[a].call, !.tidy = act[a].tidy] \in Thread
  BY <1>1, RestTyped DEF Thread
<1>5. QED
  BY <1>3, <1>4, BecomesTyped DEF Done

LEMMA EmitRunTyped ==
  ASSUME TypeOK, NEW r \in Run \cup {NoRun}, NEW status \in RunStatus, EmitRun(r, status)
  PROVE  snap' \in Snapshot /\ asks' \subseteq Ask \X Run
<1>1. AfterRun(snap, r, status) \in Snapshot
  <2>1. snap \in Snapshot
    BY DEF TypeOK
  <2>2. CASE status \in Terminal
    <3> DEFINE phase == IF snap.phase # "started" THEN snap.phase
                        ELSE IF status = "failed" THEN "failed" ELSE "cancelled"
    <3>1. AfterRun(snap, r, status) =
            [snap EXCEPT !.run = r, !.status = status, !.asks = {}, !.phase = phase]
      BY <2>1, <2>2 DEF AfterRun, Snapshot
    <3>2. phase \in Turn
      BY <2>1 DEF Snapshot, Turn
    <3> HIDE DEF phase
    <3>3. QED
      BY <2>1, <3>1, <3>2 DEF Snapshot, Turn
  <2>3. CASE status \notin Terminal
    <3>1. CASE status = "starting"
      <4>1. Blank \in Snapshot /\ status \in RunStatus \cup {"none"}
        BY DEF Blank, Snapshot
      <4>2. AfterRun(snap, r, status) = [Blank EXCEPT !.run = r, !.status = status]
        BY <2>3, <3>1 DEF AfterRun
      <4>3. QED
        BY <4>1, <4>2 DEF Snapshot
    <3>2. CASE status # "starting"
      BY <2>1, <2>3, <3>2 DEF AfterRun, Snapshot
    <3>3. QED
      BY <3>1, <3>2
  <2>4. QED
    BY <2>2, <2>3
<1>2. QED
  BY <1>1 DEF TypeOK, EmitRun

LEMMA EmitTurnTyped ==
  ASSUME TypeOK, NEW r \in Run \cup {NoRun}, NEW turn \in 0..MaxCalls, NEW phase \in Turn,
         EmitTurn(r, turn, phase)
  PROVE  snap' \in Snapshot /\ asks' \subseteq Ask \X Run
<1>1. AfterTurn(snap, r, turn, phase) \in Snapshot
  BY DEF TypeOK, AfterTurn, Snapshot, Turn
<1>2. QED
  BY <1>1 DEF TypeOK, EmitTurn

------------------------------------------------------------------------------
(* Type correctness *)

LEMMA ActorsAre ==
  /\ "caller" \in Actor /\ Run \subseteq Actor /\ Others \subseteq Actor
  /\ "caller" \notin Run /\ "deleter" \notin Run /\ "canceller" \notin Run
BY DEF Actor

LEMMA ThreadFields ==
  ASSUME TypeOK, NEW a \in Actor
  PROVE  /\ act[a] \in Thread
         /\ act[a].run \in Run \cup {NoRun} /\ act[a].turn \in 0..MaxCalls
         /\ act[a].msgs \subseteq Msg /\ act[a].call \in 0..MaxCalls
         /\ act[a].todo \in Seq(Step)
BY DEF TypeOK, Thread

LEMMA TypeBegin ==
  ASSUME TypeOK, Begin
  PROVE  TypeOK'
<1>1. calls + 1 \in 0..MaxCalls /\ "lock" \in Place
  BY DEF TypeOK, Begin, Place
<1>2. [act["caller"] EXCEPT !.pc = "lock", !.call = calls + 1] \in Thread
  BY <1>1, ActorsAre, ThreadFields DEF Thread
<1>3. act' \in [Actor -> Thread]
  BY <1>1, <1>2, ActorsAre, BecomesTyped, GotoTyped DEF Begin
<1>4. calls' = calls + 1 /\ quiet' = quiet
      /\ UNCHANGED <<store, live, asks, snap, lock, agent, wire, inbox>>
  BY DEF Begin
<1>5. stop' \in BOOLEAN
  BY DEF TypeOK, Begin
<1>6. calls' \in 0..MaxCalls /\ quiet' \in 0..calls'
  BY <1>1, <1>4 DEF TypeOK
<1>7. QED
  BY <1>3, <1>4, <1>5, <1>6 DEF TypeOK, store

LEMMA TypeLock ==
  ASSUME TypeOK, Lock
  PROVE  TypeOK'
<1>1. act' \in [Actor -> Thread]
  BY ActorsAre, GotoTyped DEF Lock, Place
<1>2. QED
  BY <1>1 DEF TypeOK, Lock, store

LEMMA TypeCheck ==
  ASSUME TypeOK, NEW pc, NEW next \in Place, Check(pc, next)
  PROVE  TypeOK'
<1>1. live' \in LiveRun /\ act' \in [Actor -> Thread]
  <2>1. "caller" \in Actor /\ "fail" \in Place /\ "cancel" \in Why
    BY ActorsAre DEF Place, Why
  <2>2. CASE stop
    BY <2>1, <2>2, TakeIfAnyTyped DEF Check
  <2>3. CASE ~stop
    BY <2>1, <2>3, GotoTyped DEF Check, TypeOK
  <2>4. QED
    BY <2>2, <2>3
<1>2. QED
  BY <1>1 DEF TypeOK, Check, store

LEMMA TypeChoose ==
  ASSUME TypeOK, Choose
  PROVE  TypeOK'
<1>1. act' \in [Actor -> Thread]
  BY ActorsAre, GotoTyped DEF Choose, Place
<1>2. QED
  BY <1>1 DEF TypeOK, Choose, store

LEMMA TypeReplace ==
  ASSUME TypeOK, Replace
  PROVE  TypeOK'
<1>1. live' \in LiveRun /\ act' \in [Actor -> Thread]
  BY ActorsAre, GotoTyped, TakeIfAnyTyped DEF Replace, TypeOK, Place, Why
<1>2. QED
  BY <1>1 DEF TypeOK, Replace, store

LEMMA TypeCreate ==
  ASSUME TypeOK, Create
  PROVE  TypeOK'
<1>1. act' \in [Actor -> Thread]
  <2>1. PICK r \in Run : Becomes("caller", [act["caller"] EXCEPT !.pc = "announce", !.run = r])
    BY DEF Create
  <2>2. act["caller"] \in Thread /\ "announce" \in Place
    BY ActorsAre, ThreadFields DEF Place
  <2>3. [act["caller"] EXCEPT !.pc = "announce", !.run = r] \in Thread
    BY <2>2 DEF Thread
  <2>4. QED
    BY <2>1, <2>3, ActorsAre, BecomesTyped
<1>2. row' \in [Run -> RunStatus \cup {"none", "erased"}]
  BY DEF TypeOK, Create, RunStatus
<1>3. QED
  BY <1>1, <1>2 DEF TypeOK, Create, store

LEMMA TypeAnnounceStart ==
  ASSUME TypeOK, AnnounceStart
  PROVE  TypeOK'
<1>1. act' \in [Actor -> Thread]
  BY ActorsAre, GotoTyped DEF AnnounceStart, Place
<1>2. snap' \in Snapshot /\ asks' \subseteq Ask \X Run
  BY ActorsAre, ThreadFields, EmitRunTyped DEF AnnounceStart, RunStatus
<1>3. QED
  BY <1>1, <1>2 DEF TypeOK, AnnounceStart, store

LEMMA TypeSpawn ==
  ASSUME TypeOK, Spawn
  PROVE  TypeOK'
<1>1. act' \in [Actor -> Thread]
  <2>1. <<"row", "run">> \in Seq(Step)
    BY DEF Step
  <2>2. act["caller"] \in Thread /\ "fail" \in Place /\ "start" \in Why
    BY ActorsAre, ThreadFields DEF Place, Why
  <2>3. [act["caller"] EXCEPT !.pc = "fail", !.end = "start", !.todo = <<"row", "run">>] \in Thread
    BY <2>1, <2>2 DEF Thread
  <2>4. QED
    BY <2>3, ActorsAre, BecomesTyped, GotoTyped DEF Spawn, Place
<1>2. live' \in LiveRun
  <2>0. act["caller"].run \in Run \cup {NoRun}
    BY ActorsAre, ThreadFields
  <2>1. NoLive \in LiveRun
    BY DEF NoLive, LiveRun
  <2>2. [NoLive EXCEPT !.run = act["caller"].run] \in LiveRun
    BY <2>0, <2>1 DEF LiveRun
  <2>3. QED
    BY <2>2 DEF Spawn, TypeOK
<1>3. agent' \in [Run -> {"none", "up", "dying", "gone"}]
  BY DEF TypeOK, Spawn
<1>4. wire' \in [Run -> {"none", "setup", "ready", "asked", "answered"}]
  BY DEF TypeOK, Spawn
<1>5. QED
  BY <1>1, <1>2, <1>3, <1>4 DEF TypeOK, Spawn, store

LEMMA TypeSetUp ==
  ASSUME TypeOK, SetUp
  PROVE  TypeOK'
<1>1. act' \in [Actor -> Thread]
  BY ActorsAre, GotoTyped DEF SetUp, Place
<1>2. wire' \in [Run -> {"none", "setup", "ready", "asked", "answered"}]
  BY DEF TypeOK, SetUp
<1>3. QED
  BY <1>1, <1>2 DEF TypeOK, SetUp, store

LEMMA TypeSetUpFails ==
  ASSUME TypeOK, SetUpFails
  PROVE  TypeOK'
<1>1. act' \in [Actor -> Thread]
  <2>1. Plan("start", FALSE) \in Seq(Step)
    BY PlanSteps DEF Why
  <2>2. act["caller"] \in Thread /\ "fail" \in Place /\ "start" \in Why
    BY ActorsAre, ThreadFields DEF Place, Why
  <2>3. [act["caller"] EXCEPT !.pc = "fail", !.end = "start", !.todo = Plan("start", FALSE)] \in Thread
    BY <2>1, <2>2 DEF Thread
  <2>4. QED
    BY <2>3, ActorsAre, BecomesTyped DEF SetUpFails
<1>2. live' \in LiveRun
  BY DEF SetUpFails, TypeOK, NoLive, LiveRun
<1>3. wire' \in [Run -> {"none", "setup", "ready", "asked", "answered"}]
  BY DEF TypeOK, SetUpFails
<1>4. QED
  BY <1>1, <1>2, <1>3 DEF TypeOK, SetUpFails, store

LEMMA RowTyped ==
  ASSUME TypeOK, NEW r, NEW status \in RunStatus, WriteRow(r, status)
  PROVE  row' \in [Run -> RunStatus \cup {"none", "erased"}]
BY DEF TypeOK, WriteRow

LEMMA TypeMarkRunning ==
  ASSUME TypeOK, MarkRunning
  PROVE  TypeOK'
<1>1. act' \in [Actor -> Thread]
  BY ActorsAre, GotoTyped DEF MarkRunning, Place
<1>2. row' \in [Run -> RunStatus \cup {"none", "erased"}]
  BY RowTyped DEF MarkRunning, RunStatus
<1>3. UNCHANGED <<chat, text, spoken>>
  BY DEF MarkRunning, WriteRow
<1>4. QED
  BY <1>1, <1>2, <1>3 DEF TypeOK, MarkRunning, store

LEMMA TypeAnnounceUp ==
  ASSUME TypeOK, AnnounceUp
  PROVE  TypeOK'
<1>1. act' \in [Actor -> Thread]
  BY ActorsAre, GotoTyped DEF AnnounceUp, Place
<1>2. snap' \in Snapshot /\ asks' \subseteq Ask \X Run
  BY ActorsAre, ThreadFields, EmitRunTyped DEF AnnounceUp, RunStatus
<1>3. QED
  BY <1>1, <1>2 DEF TypeOK, AnnounceUp, store

LEMMA TypeAdopt ==
  ASSUME TypeOK, Adopt
  PROVE  TypeOK'
<1>1. act' \in [Actor -> Thread]
  <2>1. \E pc \in Place : Goto("caller", pc)
    BY DEF Adopt, Place
  <2>2. QED
    BY <2>1, ActorsAre, GotoTyped
<1>2. live' \in LiveRun
  BY DEF TypeOK, Adopt, LiveRun
<1>3. QED
  BY <1>1, <1>2 DEF TypeOK, Adopt, store

LEMMA TypeLoad ==
  ASSUME TypeOK, Load
  PROVE  TypeOK'
<1>1. act' \in [Actor -> Thread]
  <2>1. act["caller"] \in Thread /\ "open" \in Place /\ live \in LiveRun
    BY ActorsAre, ThreadFields DEF Place, TypeOK
  <2>2. [act["caller"] EXCEPT !.pc = "open", !.run = live.run] \in Thread
    BY <2>1 DEF Thread, LiveRun
  <2>3. QED
    BY <2>2, ActorsAre, BecomesTyped, GotoTyped DEF Load, Place
<1>2. spoken' \in BOOLEAN
  BY DEF TypeOK, Load
<1>3. QED
  BY <1>1, <1>2 DEF TypeOK, Load, store

LEMMA TypeOpenTurn ==
  ASSUME TypeOK, OpenTurn
  PROVE  TypeOK'
<1>1. act' \in [Actor -> Thread]
  BY ActorsAre, GotoTyped DEF OpenTurn, Place
<1>2. live' \in LiveRun
  BY DEF TypeOK, OpenTurn, LiveRun
<1>3. QED
  BY <1>1, <1>2 DEF TypeOK, OpenTurn, store

LEMMA TypeAnnounceTurn ==
  ASSUME TypeOK, AnnounceTurn
  PROVE  TypeOK'
<1>1. act' \in [Actor -> Thread]
  BY ActorsAre, GotoTyped DEF AnnounceTurn, Place
<1>2. snap' \in Snapshot /\ asks' \subseteq Ask \X Run
  BY ActorsAre, ThreadFields, EmitTurnTyped DEF AnnounceTurn, Turn, TypeOK
<1>3. QED
  BY <1>1, <1>2 DEF TypeOK, AnnounceTurn, store

LEMMA FailPromptTyped ==
  ASSUME TypeOK, FailPrompt
  PROVE  live' \in LiveRun /\ act' \in [Actor -> Thread]
BY ActorsAre, GotoTyped, TakeTyped DEF FailPrompt, TypeOK, Place, Why

LEMMA TypeSend ==
  ASSUME TypeOK, Send
  PROVE  TypeOK'
<1>1. live' \in LiveRun /\ act' \in [Actor -> Thread]
  BY ActorsAre, FailPromptTyped, GotoTyped DEF Send, TypeOK, Place
<1>2. wire' \in [Run -> {"none", "setup", "ready", "asked", "answered"}]
  BY DEF TypeOK, Send
<1>3. QED
  BY <1>1, <1>2 DEF TypeOK, Send, store

LEMMA TypeAnswered ==
  ASSUME TypeOK, Answered
  PROVE  TypeOK'
<1>1. act' \in [Actor -> Thread]
  BY ActorsAre, GotoTyped DEF Answered, Place
<1>2. wire' \in [Run -> {"none", "setup", "ready", "asked", "answered"}]
  BY DEF TypeOK, Answered
<1>3. inbox' \in [Run -> Seq(Item)]
  <2>1. <<"barrier", 0>> \in Item
    BY DEF Item
  <2>2. CASE act["caller"].run \in Run
    <3>1. Append(inbox[act["caller"].run], <<"barrier", 0>>) \in Seq(Item)
      BY <2>1, <2>2 DEF TypeOK
    <3>2. QED
      BY <2>2, <3>1 DEF TypeOK, Answered
  <2>3. CASE act["caller"].run \notin Run
    BY <2>3 DEF TypeOK, Answered
  <2>4. QED
    BY <2>2, <2>3
<1>4. QED
  BY <1>1, <1>2, <1>3 DEF TypeOK, Answered, store

LEMMA TypeTurnFails ==
  ASSUME TypeOK, TurnFails
  PROVE  TypeOK'
<1>1. live' \in LiveRun /\ act' \in [Actor -> Thread]
  BY FailPromptTyped DEF TurnFails
<1>2. wire' \in [Run -> {"none", "setup", "ready", "asked", "answered"}]
  BY DEF TypeOK, TurnFails
<1>3. QED
  BY <1>1, <1>2 DEF TypeOK, TurnFails, store

LEMMA TypeCollect ==
  ASSUME TypeOK, Collect
  PROVE  TypeOK'
<1>1. act' \in [Actor -> Thread]
  <2>1. act["caller"] \in Thread /\ "complete" \in Place /\ live \in LiveRun
    BY ActorsAre, ThreadFields DEF Place, TypeOK
  <2>2. [act["caller"] EXCEPT !.pc = "complete", !.msgs = live.open] \in Thread
    BY <2>1 DEF Thread, LiveRun
  <2>3. QED
    BY <2>2, ActorsAre, BecomesTyped DEF Collect
<1>2. live' \in LiveRun
  BY DEF TypeOK, Collect, LiveRun
<1>3. QED
  BY <1>1, <1>2 DEF TypeOK, Collect, store

LEMMA TypeCompleteTexts ==
  ASSUME TypeOK, CompleteTexts
  PROVE  TypeOK'
<1>1. act' \in [Actor -> Thread]
  BY ActorsAre, GotoTyped DEF CompleteTexts, Place
<1>2. text' \in [Msg -> {"none", "streaming", "complete", "interrupted", "erased"}]
  BY DEF TypeOK, CompleteTexts
<1>3. QED
  BY <1>1, <1>2 DEF TypeOK, CompleteTexts, store

LEMMA TypeSettleTurn ==
  ASSUME TypeOK, SettleTurn
  PROVE  TypeOK'
<1>1. act' \in [Actor -> Thread]
  BY ActorsAre, GotoTyped DEF SettleTurn, Place
<1>2. live' \in LiveRun
  <2>1. live \in LiveRun /\ 0 \in 0..MaxCalls
    BY DEF TypeOK
  <2>2. [live EXCEPT !.turn = 0] \in LiveRun
    BY <2>1 DEF LiveRun
  <2>3. QED
    BY <2>1, <2>2 DEF SettleTurn
<1>3. QED
  BY <1>1, <1>2 DEF TypeOK, SettleTurn, store

LEMMA TypeAnnounceEnd ==
  ASSUME TypeOK, AnnounceEnd
  PROVE  TypeOK'
<1>1. act' \in [Actor -> Thread]
  BY ActorsAre, GotoTyped DEF AnnounceEnd, Place
<1>2. snap' \in Snapshot /\ asks' \subseteq Ask \X Run
  BY ActorsAre, ThreadFields, EmitTurnTyped DEF AnnounceEnd, Turn, TypeOK
<1>3. QED
  BY <1>1, <1>2 DEF TypeOK, AnnounceEnd, store

LEMMA TypeReturn ==
  ASSUME TypeOK, Return
  PROVE  TypeOK'
<1>1. act' \in [Actor -> Thread]
  BY ActorsAre, RestTyped, BecomesTyped DEF Return
<1>2. QED
  BY <1>1 DEF TypeOK, Return, store

LEMMA TypeClose ==
  ASSUME TypeOK, NEW a \in Actor, Close(a)
  PROVE  TypeOK'
<1>1. /\ act[a].run \in Run \cup {NoRun} /\ act[a].turn \in 0..MaxCalls
      /\ RunEnd(act[a].end) \in RunStatus /\ TurnEnd(act[a].end) \in Turn
  BY ThreadFields DEF RunEnd, TurnEnd, RunStatus, Turn
<1>2. act' \in [Actor -> Thread]
  BY DoneTyped DEF Close, CloseAsks, CloseAgent, CloseTexts, CloseTurn, CloseRow, CloseRun
<1>3. CASE CloseAsks(a)
  <2>1. snap' \in Snapshot /\ asks' \subseteq Ask \X Run
    BY <1>3 DEF TypeOK, CloseAsks, Snapshot
  <2>2. QED
    BY <1>2, <1>3, <2>1 DEF TypeOK, CloseAsks, store
<1>4. CASE CloseAgent(a)
  <2>1. agent' \in [Run -> {"none", "up", "dying", "gone"}]
    BY <1>4 DEF TypeOK, CloseAgent
  <2>2. QED
    BY <1>2, <1>4, <2>1 DEF TypeOK, CloseAgent, store
<1>5. CASE CloseTexts(a)
  <2>1. text' \in [Msg -> {"none", "streaming", "complete", "interrupted", "erased"}]
    BY <1>5 DEF TypeOK, CloseTexts
  <2>2. QED
    BY <1>2, <1>5, <2>1 DEF TypeOK, CloseTexts
<1>6. CASE CloseTurn(a)
  <2>1. snap' \in Snapshot /\ asks' \subseteq Ask \X Run
    BY <1>1, <1>6, EmitTurnTyped DEF CloseTurn
  <2>2. QED
    BY <1>2, <1>6, <2>1 DEF TypeOK, CloseTurn, store
<1>7. CASE CloseRow(a)
  <2>1. row' \in [Run -> RunStatus \cup {"none", "erased"}]
    BY <1>1, <1>7, RowTyped DEF CloseRow
  <2>2. UNCHANGED <<chat, text, spoken>>
    BY <1>7 DEF CloseRow, WriteRow
  <2>3. QED
    BY <1>2, <1>7, <2>1, <2>2 DEF TypeOK, CloseRow
<1>8. CASE CloseRun(a)
  <2>1. snap' \in Snapshot /\ asks' \subseteq Ask \X Run
    BY <1>1, <1>8, EmitRunTyped DEF CloseRun
  <2>2. QED
    BY <1>2, <1>8, <2>1 DEF TypeOK, CloseRun, store
<1>9. QED
  BY <1>3, <1>4, <1>5, <1>6, <1>7, <1>8 DEF Close

LEMMA TypeStop ==
  ASSUME TypeOK, NEW a \in Actor, Stop(a)
  PROVE  TypeOK'
<1>1. act' \in [Actor -> Thread]
  <2>1. act[a] \in Thread /\ act["caller"].call \in 0..MaxCalls /\ "cancel" \in Place
    BY ActorsAre, ThreadFields DEF Place
  <2>2. [act[a] EXCEPT !.pc = "cancel", !.call = act["caller"].call] \in Thread
    BY <2>1 DEF Thread
  <2>3. QED
    BY <2>2, BecomesTyped DEF Stop
<1>2. stop' \in BOOLEAN
  BY DEF TypeOK, Stop
<1>3. QED
  BY <1>1, <1>2 DEF TypeOK, Stop, store

LEMMA TypeCancel ==
  ASSUME TypeOK, NEW a \in Actor, Cancel(a)
  PROVE  TypeOK'
<1>1. live' \in LiveRun /\ act' \in [Actor -> Thread]
  BY TakeIfAnyTyped DEF Cancel, Place, Why
<1>2. QED
  BY <1>1 DEF TypeOK, Cancel, store

LEMMA TypeStopped ==
  ASSUME TypeOK, NEW a \in Actor, Stopped(a)
  PROVE  TypeOK'
<1>1. act' \in [Actor -> Thread]
  BY RestTyped, BecomesTyped DEF Stopped
<1>2. quiet' \in 0..calls
  BY DEF TypeOK, Stopped
<1>3. QED
  BY <1>1, <1>2 DEF TypeOK, Stopped, store

LEMMA TypeDelete ==
  ASSUME TypeOK, NEW a \in Actor, Delete(a)
  PROVE  TypeOK'
<1>1. act' \in [Actor -> Thread]
  <2>1. PICK tidy \in BOOLEAN :
          Becomes(a, [Rest EXCEPT !.pc = IF tidy THEN "enter" ELSE "look",
                                  !.tidy = tidy, !.call = calls])
    BY DEF Delete
  <2>2. [Rest EXCEPT !.pc = IF tidy THEN "enter" ELSE "look", !.tidy = tidy, !.call = calls] \in Thread
    BY RestTyped DEF Thread, Place, TypeOK
  <2>3. QED
    BY <2>1, <2>2, BecomesTyped
<1>2. stop' \in BOOLEAN
  BY DEF TypeOK, Delete
<1>3. QED
  BY <1>1, <1>2 DEF TypeOK, Delete, store

LEMMA TypeLook ==
  ASSUME TypeOK, NEW a \in Actor, NEW pc, NEW found \in Place, NEW next \in Place,
         Look(a, pc, found, next)
  PROVE  TypeOK'
<1>1. act' \in [Actor -> Thread]
  BY GotoTyped DEF Look
<1>2. QED
  BY <1>1 DEF TypeOK, Look, store

LEMMA LeaveTyped ==
  ASSUME TypeOK, NEW a \in Actor, Leave(a)
  PROVE  act' \in [Actor -> Thread] /\ lock' \in {NoActor, "caller", "deleter"}
<1>1. [Rest EXCEPT !.call = act[a].call] \in Thread
  BY RestTyped, ThreadFields DEF Thread
<1>2. QED
  BY <1>1, BecomesTyped DEF Leave, TypeOK

LEMMA TypeInterrupt ==
  ASSUME TypeOK, NEW a \in Actor, NEW pc, NEW next \in Place, Interrupt(a, pc, next)
  PROVE  TypeOK'
<1>1. live' \in LiveRun /\ act' \in [Actor -> Thread]
  BY LeaveTyped, TakeTyped DEF Interrupt, TypeOK, Why
<1>2. lock' \in {NoActor, "caller", "deleter"}
  BY LeaveTyped DEF Interrupt, TypeOK
<1>3. QED
  BY <1>1, <1>2 DEF TypeOK, Interrupt, store

LEMMA TypeEnter ==
  ASSUME TypeOK, NEW a \in Actor, a = "deleter", Enter(a)
  PROVE  TypeOK'
<1>1. act' \in [Actor -> Thread]
  BY GotoTyped DEF Enter, Place
<1>2. QED
  BY <1>1 DEF TypeOK, Enter, store

LEMMA TypeSpare ==
  ASSUME TypeOK, NEW a \in Actor, Spare(a)
  PROVE  TypeOK'
<1>1. act' \in [Actor -> Thread] /\ lock' \in {NoActor, "caller", "deleter"}
  BY LeaveTyped DEF Spare
<1>2. QED
  BY <1>1 DEF TypeOK, Spare, store

LEMMA TypeErase ==
  ASSUME TypeOK, NEW a \in Actor, Erase(a)
  PROVE  TypeOK'
<1>1. act' \in [Actor -> Thread]
  BY GotoTyped DEF Erase, Place
<1>2. row' \in [Run -> RunStatus \cup {"none", "erased"}]
  BY DEF TypeOK, Erase, Erased
<1>3. text' \in [Msg -> {"none", "streaming", "complete", "interrupted", "erased"}]
  BY DEF TypeOK, Erase, Erased
<1>4. QED
  BY <1>1, <1>2, <1>3 DEF TypeOK, Erase, store

LEMMA TypeForget ==
  ASSUME TypeOK, NEW a \in Actor, Forget(a)
  PROVE  TypeOK'
<1>1. act' \in [Actor -> Thread] /\ lock' \in {NoActor, "caller", "deleter"}
  BY LeaveTyped DEF Forget
<1>2. snap' \in Snapshot
  BY DEF Forget, Blank, Snapshot
<1>3. QED
  BY <1>1, <1>2 DEF TypeOK, Forget, store

LEMMA TypeReply ==
  ASSUME TypeOK, NEW r \in Run, Reply(r)
  PROVE  TypeOK'
<1>1. wire' \in [Run -> {"none", "setup", "ready", "asked", "answered"}]
  BY DEF TypeOK, Reply
<1>2. QED
  BY <1>1 DEF TypeOK, Reply, store

LEMMA HearTyped ==
  ASSUME TypeOK, NEW r \in Run, NEW item \in Item, Hear(r, item)
  PROVE  inbox' \in [Run -> Seq(Item)]
BY DEF TypeOK, Hear

LEMMA TypeSayChunk ==
  ASSUME TypeOK, NEW r \in Run, SayChunk(r)
  PROVE  TypeOK'
<1>1. inbox' \in [Run -> Seq(Item)]
  <2>1. <<"chunk", IF wire[r] = "asked" THEN calls ELSE 0>> \in Item
    BY DEF TypeOK, Item
  <2>2. QED
    BY <2>1, HearTyped DEF SayChunk
<1>2. QED
  BY <1>1 DEF TypeOK, SayChunk, store

LEMMA TypeSayAsk ==
  ASSUME TypeOK, NEW r \in Run, SayAsk(r)
  PROVE  TypeOK'
<1>1. inbox' \in [Run -> Seq(Item)]
  <2>1. PICK q \in Ask : Hear(r, <<"ask", q>>)
    BY DEF SayAsk
  <2>2. <<"ask", q>> \in Item
    BY DEF Item
  <2>3. QED
    BY <2>1, <2>2, HearTyped
<1>2. QED
  BY <1>1 DEF TypeOK, SayAsk, store

LEMMA TypeExit ==
  ASSUME TypeOK, NEW r \in Run, Exit(r)
  PROVE  TypeOK'
<1>1. agent' \in [Run -> {"none", "up", "dying", "gone"}]
  BY DEF TypeOK, Exit
<1>2. QED
  BY <1>1 DEF TypeOK, Exit, store

LEMMA TypeReader ==
  ASSUME TypeOK, NEW r \in Run, Reader(r)
  PROVE  TypeOK'
<1>1. agent' \in [Run -> {"none", "up", "dying", "gone"}]
  BY DEF TypeOK, Reader
<1>2. wire' \in [Run -> {"none", "setup", "ready", "asked", "answered"}]
  BY DEF TypeOK, Reader
<1>3. inbox' \in [Run -> Seq(Item)]
  <2>1. <<"gone", 0>> \in Item
    BY DEF Item
  <2>2. QED
    BY <2>1, HearTyped DEF Reader
<1>4. QED
  BY <1>1, <1>2, <1>3 DEF TypeOK, Reader, store

LEMMA NextTyped ==
  ASSUME TypeOK, NEW r \in Run, NEW what, NextIs(r, what)
  PROVE  inbox' \in [Run -> Seq(Item)] /\ Head(inbox[r]) \in Item
<1>1. inbox[r] \in Seq(Item) /\ inbox[r] # <<>>
  BY DEF TypeOK, NextIs
<1>2. Tail(inbox[r]) \in Seq(Item) /\ Head(inbox[r]) \in Item
  BY <1>1, HeadTailProperties
<1>3. QED
  BY <1>2 DEF TypeOK, NextIs

LEMMA TypeHearChunk ==
  ASSUME TypeOK, NEW r \in Run, HearChunk(r)
  PROVE  TypeOK'
<1>1. inbox' \in [Run -> Seq(Item)] /\ Head(inbox[r]) \in Item /\ Head(inbox[r])[1] = "chunk"
  BY NextTyped DEF HearChunk, NextIs
<1>2. Head(inbox[r])[2] \in 0..MaxCalls
  BY <1>1 DEF Item
<1>3. CASE live.run # r
  BY <1>1, <1>3 DEF TypeOK, HearChunk
<1>4. CASE live.run = r
  <2>1. PICK m \in live.open \cup Fresh :
          /\ live' = [live EXCEPT !.open = @ \cup {m}]
          /\ text' = [text EXCEPT ![m] = IF m \in live.open THEN @ ELSE "streaming"]
          /\ spoken' = TRUE
          /\ Becomes(r, [Rest EXCEPT !.pc = "append", !.msgs = {m}, !.call = Head(inbox[r])[2]])
    BY <1>4 DEF HearChunk
  <2>2. m \in Msg
    BY DEF TypeOK, LiveRun, Fresh
  <2>3. live' \in LiveRun
    BY <2>1, <2>2 DEF TypeOK, LiveRun
  <2>4. text' \in [Msg -> {"none", "streaming", "complete", "interrupted", "erased"}]
    BY <2>1, <2>2 DEF TypeOK
  <2>5. [Rest EXCEPT !.pc = "append", !.msgs = {m}, !.call = Head(inbox[r])[2]] \in Thread
    BY <1>2, <2>2, RestTyped DEF Thread, Place
  <2>6. act' \in [Actor -> Thread]
    BY <2>1, <2>5, ActorsAre, BecomesTyped
  <2>7. QED
    BY <1>1, <2>1, <2>3, <2>4, <2>6 DEF TypeOK, HearChunk
<1>5. QED
  BY <1>3, <1>4

LEMMA TypeAppendText ==
  ASSUME TypeOK, NEW r \in Run, AppendText(r)
  PROVE  TypeOK'
<1>1. act' \in [Actor -> Thread]
  BY ActorsAre, RestTyped, BecomesTyped DEF AppendText
<1>2. text' \in [Msg -> {"none", "streaming", "complete", "interrupted", "erased"}]
  BY DEF TypeOK, AppendText
<1>3. QED
  BY <1>1, <1>2 DEF TypeOK, AppendText, store

LEMMA TypeHearAsk ==
  ASSUME TypeOK, NEW r \in Run, HearAsk(r)
  PROVE  TypeOK'
<1>1. inbox' \in [Run -> Seq(Item)] /\ Head(inbox[r]) \in Item /\ Head(inbox[r])[1] = "ask"
  BY NextTyped DEF HearAsk, NextIs
<1>2. <<Head(inbox[r])[2], r>> \in Ask \X Run
  BY <1>1 DEF Item
<1>3. asks' \subseteq Ask \X Run
  BY <1>2 DEF TypeOK, HearAsk
<1>4. snap' \in Snapshot
  <2> DEFINE q == <<Head(inbox[r])[2], r>>
  <2>1. snap \in Snapshot /\ snap.asks \cup {q} \in SUBSET (Ask \X Run)
    BY <1>2 DEF TypeOK, Snapshot
  <2> HIDE DEF q
  <2>2. [snap EXCEPT !.asks = snap.asks \cup {q}] \in Snapshot
    BY <2>1 DEF Snapshot
  <2>3. QED
    BY <2>1, <2>2 DEF HearAsk, q
<1>5. QED
  BY <1>1, <1>3, <1>4 DEF TypeOK, HearAsk, store

LEMMA TypeHearGone ==
  ASSUME TypeOK, NEW r \in Run, HearGone(r)
  PROVE  TypeOK'
<1>1. inbox' \in [Run -> Seq(Item)]
  BY NextTyped DEF HearGone
<1>2. live' \in LiveRun /\ act' \in [Actor -> Thread]
  BY ActorsAre, TakeTyped DEF HearGone, TypeOK, Place, Why
<1>3. QED
  BY <1>1, <1>2 DEF TypeOK, HearGone, store

LEMMA TypeHearBarrier ==
  ASSUME TypeOK, NEW r \in Run, HearBarrier(r)
  PROVE  TypeOK'
<1>1. inbox' \in [Run -> Seq(Item)]
  BY NextTyped DEF HearBarrier
<1>2. act' \in [Actor -> Thread]
  BY ActorsAre, GotoTyped DEF HearBarrier, TypeOK, Place
<1>3. QED
  BY <1>1, <1>2 DEF TypeOK, HearBarrier, store

LEMMA TypeRespond ==
  ASSUME TypeOK, Respond
  PROVE  TypeOK'
<1>1. asks' \subseteq Ask \X Run
  BY DEF TypeOK, Respond
<1>2. snap' \in Snapshot
  <2>1. PICK q \in asks : snap' = [snap EXCEPT !.asks = snap.asks \ {q}]
    BY DEF Respond
  <2>2. snap \in Snapshot /\ snap.asks \ {q} \in SUBSET (Ask \X Run)
    BY DEF TypeOK, Snapshot
  <2>3. [snap EXCEPT !.asks = snap.asks \ {q}] \in Snapshot
    BY <2>2 DEF Snapshot
  <2>4. QED
    BY <2>1, <2>3
<1>3. agent' \in [Run -> {"none", "up", "dying", "gone"}]
  BY DEF TypeOK, Respond
<1>4. QED
  BY <1>1, <1>2, <1>3 DEF TypeOK, Respond, store

LEMMA InitTyped == Init => TypeOK
<1> SUFFICES ASSUME Init PROVE TypeOK
  OBVIOUS
<1>1. act \in [Actor -> Thread]
  BY RestTyped DEF Init
<1>2. live \in LiveRun /\ snap \in Snapshot
  BY DEF Init, NoLive, LiveRun, Blank, Snapshot
<1>3. inbox \in [Run -> Seq(Item)]
  BY DEF Init
<1>4. QED
  <2>1. calls \in 0..MaxCalls /\ quiet \in 0..calls
    BY DEF Init
  <2>2. chat \in BOOLEAN /\ spoken \in BOOLEAN /\ stop \in BOOLEAN
    BY DEF Init
  <2>3. /\ row \in [Run -> RunStatus \cup {"none", "erased"}]
        /\ text \in [Msg -> {"none", "streaming", "complete", "interrupted", "erased"}]
        /\ agent \in [Run -> {"none", "up", "dying", "gone"}]
        /\ wire \in [Run -> {"none", "setup", "ready", "asked", "answered"}]
        /\ asks \subseteq Ask \X Run /\ lock \in {NoActor, "caller", "deleter"}
    BY DEF Init
  <2>4. QED
    BY <1>1, <1>2, <1>3, <2>1, <2>2, <2>3 DEF TypeOK

LEMMA TypeStep ==
  ASSUME TypeOK, [Next]_vars
  PROVE  TypeOK'
<1>1. CASE Begin
  BY <1>1, TypeBegin
<1>2. CASE Caller
  <2>1. CASE Check("check1", "choose") \/ Check("check2", "load") \/ Check("check3", "send")
    BY <2>1, TypeCheck DEF Place
  <2>2. CASE Close("caller")
    BY <2>2, TypeClose, ActorsAre
  <2>3. QED
    BY <1>2, <2>1, <2>2, TypeLock, TypeChoose, TypeReplace, TypeCreate, TypeAnnounceStart,
       TypeSpawn, TypeSetUp, TypeSetUpFails, TypeMarkRunning, TypeAnnounceUp, TypeAdopt,
       TypeLoad, TypeOpenTurn, TypeAnnounceTurn, TypeSend, TypeAnswered, TypeTurnFails,
       TypeCollect, TypeCompleteTexts, TypeSettleTurn, TypeAnnounceEnd, TypeReturn
       DEF Caller
<1>3. ASSUME NEW a \in Others, Stop(a) \/ Canceller(a) \/ Delete(a) \/ Deleter(a)
      PROVE  TypeOK'
  <2>1. a \in Actor
    BY ActorsAre
  <2>2. CASE Canceller(a)
    BY <2>1, <2>2, TypeCancel, TypeStopped, TypeClose DEF Canceller
  <2>3. CASE Deleter(a)
    <3>1. CASE Look(a, "look", "interrupt", "enter")
               \/ Look(a, "look again", "interrupt again", "erase")
      BY <2>1, <3>1, TypeLook DEF Place
    <3>2. CASE Interrupt(a, "interrupt", "enter") \/ Interrupt(a, "interrupt again", "erase")
      BY <2>1, <3>2, TypeInterrupt DEF Place
    <3>3. QED
      BY <2>1, <2>3, <3>1, <3>2, TypeEnter, TypeSpare, TypeErase, TypeForget, TypeClose
         DEF Deleter
  <2>4. QED
    BY <1>3, <2>1, <2>2, <2>3, TypeStop, TypeDelete
<1>4. ASSUME NEW r \in Run,
             Reply(r) \/ SayChunk(r) \/ SayAsk(r) \/ Exit(r) \/ Reader(r) \/ Worker(r)
      PROVE  TypeOK'
  <2>1. CASE Worker(r)
    BY <2>1, ActorsAre, TypeHearChunk, TypeAppendText, TypeHearAsk, TypeHearGone,
       TypeHearBarrier, TypeClose DEF Worker
  <2>2. QED
    BY <1>4, <2>1, TypeReply, TypeSayChunk, TypeSayAsk, TypeExit, TypeReader
<1>5. CASE UNCHANGED vars
  BY <1>5 DEF vars, TypeOK
<1>6. QED
  BY <1>1, <1>2, <1>3, <1>4, <1>5, TypeRespond DEF Next

\* Rows, snapshot, threads and inboxes only ever hold what the code declares.
THEOREM Typed == Spec => []TypeOK
BY InitTyped, TypeStep, PTL DEF Spec


------------------------------------------------------------------------------
(* What a step does to the threads *)

LEMMA BecomesFields ==
  ASSUME TypeOK, NEW a \in Actor, NEW th, Becomes(a, th)
  PROVE  act'[a] = th /\ \A b \in Actor \ {a} : act'[b] = act[b]
BY DEF TypeOK, Becomes

LEMMA GotoFields ==
  ASSUME TypeOK, NEW a \in Actor, NEW pc, Goto(a, pc)
  PROVE  /\ act'[a].pc = pc /\ act'[a].run = act[a].run /\ act'[a].todo = act[a].todo
         /\ \A b \in Actor \ {a} : act'[b] = act[b]
<1>1. act[a] \in Thread
  BY DEF TypeOK
<1>2. act'[a] = [act[a] EXCEPT !.pc = pc] /\ \A b \in Actor \ {a} : act'[b] = act[b]
  BY BecomesFields DEF Goto
<1>3. QED
  BY <1>1, <1>2 DEF Thread

LEMMA TakeFields ==
  ASSUME TypeOK, NEW a \in Actor, NEW pc, NEW why \in Why, Take(a, pc, why)
  PROVE  /\ live.run \in Run /\ live' = NoLive
         /\ act'[a].pc = pc /\ act'[a].run = live.run
         /\ \E i \in DOMAIN act'[a].todo : act'[a].todo[i] = "asks"
         /\ \A b \in Actor \ {a} : act'[b] = act[b]
<1> DEFINE plan == Plan(why, live.turn # 0)
<1>1. act[a] \in Thread /\ live \in LiveRun
  BY DEF TypeOK
<1>2. \E i \in DOMAIN plan : plan[i] = "asks"
  BY PlanSteps
<1> HIDE DEF plan
<1>3. /\ act'[a] = [act[a] EXCEPT !.pc = pc, !.run = live.run, !.turn = live.turn,
                                  !.msgs = live.open, !.end = why, !.todo = plan]
      /\ \A b \in Actor \ {a} : act'[b] = act[b]
  BY BecomesFields DEF Take, plan
<1>4. act'[a].pc = pc /\ act'[a].run = live.run /\ act'[a].todo = plan
  BY <1>1, <1>3 DEF Thread
<1>5. QED
  BY <1>1, <1>2, <1>3, <1>4 DEF Take, LiveRun

\* A step of closing stays where it is, and forgets the run only with its last step.
LEMMA DoneFields ==
  ASSUME TypeOK, NEW a \in Actor, NEW step, Due(a, step), Done(a)
  PROVE  /\ act'[a].pc = act[a].pc
         /\ \A b \in Actor \ {a} : act'[b] = act[b]
         /\ act'[a].todo # <<>> => act'[a].run = act[a].run
         /\ step # "asks" /\ "asks" \in ToClose(a) =>
              act'[a].run = act[a].run /\ "asks" \in ToClose(a)'
<1>1. act[a] \in Thread /\ act[a].todo \in Seq(Step) /\ act[a].todo # <<>>
      /\ Head(act[a].todo) = step
  BY ThreadFields DEF Due
<1> DEFINE th == act[a]
           rest == [Rest EXCEPT !.pc = th.pc, !.call = th.call, !.tidy = th.tidy]
           tail == [th EXCEPT !.todo = Tail(th.todo)]
<1>2. /\ act'[a] = IF Len(th.todo) > 1 THEN tail ELSE rest
      /\ \A b \in Actor \ {a} : act'[b] = act[b]
  BY BecomesFields DEF Done
<1>3. rest.pc = th.pc /\ rest.todo = <<>>
  BY DEF Rest
<1>4. tail.pc = th.pc /\ tail.run = th.run /\ tail.todo = Tail(th.todo)
  BY <1>1 DEF Thread
<1>5. ASSUME step # "asks", "asks" \in ToClose(a)
      PROVE  act'[a].run = act[a].run /\ "asks" \in ToClose(a)'
  <2>1. PICK i \in DOMAIN th.todo : th.todo[i] = "asks"
    BY <1>5 DEF ToClose
  <2>2. Len(th.todo) \in Nat /\ DOMAIN th.todo = 1..Len(th.todo) /\ th.todo[1] = step
    BY <1>1, LenProperties
  <2>3. i # 1 /\ i - 1 \in 1..(Len(th.todo) - 1) /\ Len(th.todo) > 1
    BY <1>5, <2>1, <2>2
  <2>4. act'[a] = tail
    BY <1>2, <2>3
  <2>5. /\ Tail(th.todo) \in Seq(Step) /\ Len(Tail(th.todo)) = Len(th.todo) - 1
        /\ \A k \in 1..Len(Tail(th.todo)) : Tail(th.todo)[k] = th.todo[k + 1]
    BY <1>1, HeadTailProperties
  <2>6. i - 1 \in DOMAIN Tail(th.todo) /\ Tail(th.todo)[i - 1] = "asks"
    BY <2>1, <2>2, <2>3, <2>5, LenProperties
  <2>7. act'[a].run = th.run /\ act'[a].todo = Tail(th.todo)
    BY <1>4, <2>4
  <2>8. QED
    BY <2>6, <2>7 DEF ToClose
<1>6. QED
  BY <1>2, <1>3, <1>4, <1>5

------------------------------------------------------------------------------
(* Who holds the lock, and what it is worth *)

Starting == {"announce", "spawn", "setup", "mark", "announceUp", "adopt"}
Holding == {"look again", "interrupt again", "erase"}

\* Whoever starts or prompts an agent, or erases the chat, holds the prompt lock.
Locked ==
  /\ act["caller"].pc \notin {"rest", "lock"} => lock = "caller"
  /\ "deleter" \in Others /\ act["deleter"].pc \in Holding => lock = "deleter"

\* The call that starts a run has found the chat and has nothing to close; no
\* run is live until it has spawned its own.
StartsAlone ==
  /\ act["caller"].pc \in Starting => At("caller", act["caller"].pc) /\ act["caller"].run \in Run
  /\ act["caller"].pc \in {"create", "announce", "spawn"} => chat /\ live = NoLive

\* The chat is erased only when no run is live, and none comes back.
Emptied ==
  /\ live.run = NoRun => live = NoLive
  /\ "deleter" \in Others /\ act["deleter"].pc = "erase" => live = NoLive
  /\ NoLiveWithoutChat

\* Who closes something closes a run.
Closing == \A a \in Actor : act[a].todo # <<>> => act[a].run \in Run

Standing == Locked /\ StartsAlone /\ Emptied /\ Closing

LEMMA InitStanding == Init => Standing
<1> SUFFICES ASSUME Init PROVE Standing
  OBVIOUS
<1>1. \A a \in Actor : act[a].pc = "rest" /\ act[a].todo = <<>>
  BY DEF Init, Rest
<1>2. live = NoLive /\ chat
  BY DEF Init
<1>3. QED
  BY <1>1, <1>2, ActorsAre
     DEF Standing, Locked, Holding, StartsAlone, Starting, Emptied, NoLiveWithoutChat, Closing

LEMMA NothingMoves ==
  ASSUME Standing, UNCHANGED <<chat, live, lock, act>>
  PROVE  Standing'
BY DEF Standing, Locked, StartsAlone, Emptied, NoLiveWithoutChat, Closing, At

\* The caller moves, at a place where it has the lock.
LEMMA CallerMoves ==
  ASSUME TypeOK, Standing, UNCHANGED <<chat, lock>>,
         act["caller"].pc \notin {"rest", "lock"},
         \A b \in Actor \ {"caller"} : act'[b] = act[b],
         act'["caller"].todo # <<>> => act'["caller"].run \in Run,
         act'["caller"].pc \in Starting => act'["caller"].todo = <<>> /\ act'["caller"].run \in Run,
         act'["caller"].pc \in {"create", "announce", "spawn"} => chat /\ live' = NoLive,
         live'.run = NoRun => live' = NoLive,
         ~chat => live' = NoLive
  PROVE  Standing'
<1>1. lock = "caller" /\ lock' = "caller"
  BY DEF Standing, Locked
<1>2. ~("deleter" \in Others /\ act'["deleter"].pc \in Holding)
  BY <1>1, ActorsAre DEF Standing, Locked
<1>3. Locked'
  BY <1>1, <1>2 DEF Locked
<1>4. StartsAlone'
  BY DEF StartsAlone, At
<1>5. Emptied'
  BY <1>2 DEF Emptied, NoLiveWithoutChat, Holding
<1>6. Closing'
  BY ActorsAre DEF Standing, Closing
<1>7. QED
  BY <1>3, <1>4, <1>5, <1>6 DEF Standing

\* Somebody else moves, without the lock or with it: the live run may be taken.
LEMMA OtherMoves ==
  ASSUME TypeOK, Standing, UNCHANGED chat, NEW a \in Actor \ {"caller"},
         \A b \in Actor \ {a} : act'[b] = act[b],
         act'[a].todo # <<>> => act'[a].run \in Run,
         lock' = lock \/ lock # "caller",
         a = "deleter" /\ act'[a].pc \in Holding => lock' = "deleter",
         a # "deleter" => lock' = lock,
         a = "deleter" /\ act'[a].pc = "erase" => live' = NoLive,
         live' = live \/ live' = NoLive \/ (live.run # NoRun /\ live'.run = live.run)
  PROVE  Standing'
<1>1. act'["caller"] = act["caller"]
  BY ActorsAre
<1>2. Locked'
  BY <1>1, ActorsAre DEF Standing, Locked
<1>3. StartsAlone'
  BY <1>1 DEF Standing, StartsAlone, At, NoLive
<1>4. Emptied'
  BY ActorsAre DEF Standing, Emptied, NoLiveWithoutChat, NoLive
<1>5. Closing'
  BY DEF Standing, Closing
<1>6. QED
  BY <1>2, <1>3, <1>4, <1>5 DEF Standing

\* What CallerMoves asks for, of a caller that only goes on to another place.
LEMMA CallerGoes ==
  ASSUME TypeOK, Standing, UNCHANGED <<chat, lock>>, NEW pc, Goto("caller", pc),
         act["caller"].pc \notin {"rest", "lock"}, act["caller"].todo = <<>>,
         pc \in Starting => act["caller"].run \in Run,
         pc \in {"create", "announce", "spawn"} => chat /\ live' = NoLive,
         live'.run = live.run,
         live.run = NoRun => live' = NoLive
  PROVE  Standing'
<1>1. /\ act'["caller"].pc = pc /\ act'["caller"].run = act["caller"].run
      /\ act'["caller"].todo = <<>>
      /\ \A b \in Actor \ {"caller"} : act'[b] = act[b]
  BY GotoFields, ActorsAre
<1>2. ~chat => live' = NoLive
  BY DEF Standing, Emptied, NoLiveWithoutChat, NoLive
<1>3. QED
  BY <1>1, <1>2, CallerMoves

\* ... and of one that takes the live run.
LEMMA CallerTakes ==
  ASSUME TypeOK, Standing, UNCHANGED <<chat, lock>>, NEW pc, NEW why \in Why,
         TakeIfAny("caller", pc, why),
         act["caller"].pc \notin {"rest", "lock"}, act["caller"].todo = <<>>,
         pc \notin Starting, pc = "create" => chat
  PROVE  Standing'
<1>1. CASE live.run = NoRun
  <2>1. Goto("caller", pc) /\ live' = live /\ live = NoLive
    BY <1>1 DEF TakeIfAny, Standing, Emptied
  <2>2. pc \in {"create", "announce", "spawn"} => chat /\ live' = NoLive
    BY <2>1 DEF Starting
  <2>3. QED
    BY <2>1, <2>2, CallerGoes
<1>2. CASE live.run # NoRun
  <2>1. /\ live.run \in Run /\ live' = NoLive
        /\ act'["caller"].pc = pc /\ act'["caller"].run = live.run
        /\ \A b \in Actor \ {"caller"} : act'[b] = act[b]
    BY <1>2, TakeFields, ActorsAre DEF TakeIfAny
  <2>2. pc \in {"create", "announce", "spawn"} => chat
    BY DEF Starting
  <2>3. QED
    BY <2>1, <2>2, CallerMoves
<1>3. QED
  BY <1>1, <1>2

LEMMA NoLiveIs ==
  \A x \in LiveRun : x.run = NoRun /\ x.ready = FALSE /\ x.turn = 0 /\ x.open = {} <=> x = NoLive
BY DEF LiveRun, NoLive

LEMMA StandBegin ==
  ASSUME TypeOK, Standing, Begin
  PROVE  Standing'
<1>1. /\ act["caller"].pc = "rest" /\ act["caller"].todo = <<>>
      /\ UNCHANGED <<chat, live, lock>>
  BY DEF Begin, At, store
<1>2. /\ act'["caller"].pc = "lock" /\ act'["caller"].todo = <<>>
      /\ \A b \in Actor \ {"caller"} : act'[b] = act[b]
  <2>1. CASE Goto("caller", "lock")
    BY <1>1, <2>1, GotoFields, ActorsAre
  <2>2. CASE Becomes("caller", [act["caller"] EXCEPT !.pc = "lock", !.call = calls + 1])
    <3>1. /\ act'["caller"] = [act["caller"] EXCEPT !.pc = "lock", !.call = calls + 1]
          /\ \A b \in Actor \ {"caller"} : act'[b] = act[b]
      BY <2>2, BecomesFields, ActorsAre
    <3>2. act["caller"] \in Thread
      BY ThreadFields, ActorsAre
    <3>3. QED
      BY <1>1, <3>1, <3>2 DEF Thread
  <2>3. QED
    BY <2>1, <2>2 DEF Begin
<1>3. Locked' /\ StartsAlone' /\ Emptied' /\ Closing'
  BY <1>1, <1>2, ActorsAre
     DEF Standing, Locked, StartsAlone, Starting, Emptied, NoLiveWithoutChat, Closing
<1>4. QED
  BY <1>3 DEF Standing

LEMMA StandLock ==
  ASSUME TypeOK, Standing, Lock
  PROVE  Standing'
<1>1. /\ act["caller"].todo = <<>> /\ lock = NoActor /\ lock' = "caller"
      /\ UNCHANGED <<chat, live>>
  BY DEF Lock, At, store
<1>2. PICK pc \in {"check1", "replace", "done"} : Goto("caller", pc)
  BY DEF Lock
<1>3. /\ act'["caller"].pc = pc /\ act'["caller"].todo = <<>>
      /\ \A b \in Actor \ {"caller"} : act'[b] = act[b]
  BY <1>1, <1>2, GotoFields, ActorsAre
<1>4. ~("deleter" \in Others /\ act["deleter"].pc \in Holding)
  BY <1>1, ActorsAre DEF Standing, Locked
<1>5. Locked'
  BY <1>1, <1>3, <1>4, ActorsAre DEF Locked
<1>6. StartsAlone'
  BY <1>2, <1>3 DEF StartsAlone, Starting
<1>7. Emptied' /\ Closing'
  BY <1>1, <1>3, ActorsAre DEF Standing, Emptied, NoLiveWithoutChat, Closing
<1>8. QED
  BY <1>5, <1>6, <1>7 DEF Standing

LEMMA StandCheck ==
  ASSUME TypeOK, Standing, NEW pc \in {"check1", "check2", "check3"},
         NEW next \in {"choose", "load", "send"}, Check(pc, next)
  PROVE  Standing'
<1>1. /\ act["caller"].pc \notin {"rest", "lock"} /\ act["caller"].todo = <<>>
      /\ UNCHANGED <<chat, lock>>
  BY DEF Check, At, store
<1>2. CASE stop
  BY <1>1, <1>2, CallerTakes DEF Check, Starting, Why
<1>3. CASE ~stop
  <2>1. Goto("caller", next) /\ live' = live
    BY <1>3 DEF Check
  <2>2. next \notin Starting /\ next \notin {"create", "announce", "spawn"}
    BY DEF Starting
  <2>3. live.run = NoRun => live' = NoLive
    BY <2>1 DEF Standing, Emptied
  <2>4. QED
    BY <1>1, <2>1, <2>2, <2>3, CallerGoes
<1>4. QED
  BY <1>2, <1>3

LEMMA StandReplace ==
  ASSUME TypeOK, Standing, Replace
  PROVE  Standing'
<1>1. /\ act["caller"].pc \notin {"rest", "lock"} /\ act["caller"].todo = <<>>
      /\ UNCHANGED <<chat, lock>>
  BY DEF Replace, At, store
<1>2. CASE chat
  BY <1>1, <1>2, CallerTakes DEF Replace, Starting, Why
<1>3. CASE ~chat
  <2>1. Goto("caller", "fail") /\ live' = live
    BY <1>3 DEF Replace
  <2>2. live.run = NoRun => live' = NoLive
    BY <2>1 DEF Standing, Emptied
  <2>3. QED
    BY <1>1, <2>1, <2>2, CallerGoes DEF Starting
<1>4. QED
  BY <1>2, <1>3

LEMMA StandCreate ==
  ASSUME TypeOK, Standing, Create
  PROVE  Standing'
<1>1. /\ act["caller"].pc = "create" /\ act["caller"].todo = <<>>
      /\ UNCHANGED <<chat, lock, live>>
  BY DEF Create, At
<1>2. chat /\ live = NoLive
  BY <1>1 DEF Standing, StartsAlone
<1>3. PICK r \in Run : Becomes("caller", [act["caller"] EXCEPT !.pc = "announce", !.run = r])
  BY DEF Create
<1>4. /\ act'["caller"].pc = "announce" /\ act'["caller"].run = r /\ act'["caller"].todo = <<>>
      /\ \A b \in Actor \ {"caller"} : act'[b] = act[b]
  <2>1. /\ act'["caller"] = [act["caller"] EXCEPT !.pc = "announce", !.run = r]
        /\ \A b \in Actor \ {"caller"} : act'[b] = act[b]
    BY <1>3, BecomesFields, ActorsAre
  <2>2. act["caller"] \in Thread
    BY ThreadFields, ActorsAre
  <2>3. QED
    BY <1>1, <2>1, <2>2 DEF Thread
<1>5. QED
  BY <1>1, <1>2, <1>4, CallerMoves

LEMMA StandSpawn ==
  ASSUME TypeOK, Standing, Spawn
  PROVE  Standing'
<1>1. /\ act["caller"].pc = "spawn" /\ act["caller"].todo = <<>>
      /\ UNCHANGED <<chat, lock>>
  BY DEF Spawn, At, store
<1>2. chat /\ live = NoLive /\ act["caller"].run \in Run
  BY <1>1 DEF Standing, StartsAlone, Starting
<1>3. CASE live' = [NoLive EXCEPT !.run = act["caller"].run] /\ Goto("caller", "setup")
  <2>1. /\ act'["caller"].pc = "setup" /\ act'["caller"].run = act["caller"].run
        /\ act'["caller"].todo = <<>> /\ \A b \in Actor \ {"caller"} : act'[b] = act[b]
    BY <1>1, <1>3, GotoFields, ActorsAre
  <2>2. live'.run = act["caller"].run
    BY <1>3 DEF NoLive
  <2>3. QED
    BY <1>1, <1>2, <2>1, <2>2, CallerMoves
<1>4. CASE /\ Becomes("caller", [act["caller"] EXCEPT !.pc = "fail", !.end = "start",
                                                      !.todo = <<"row", "run">>])
           /\ UNCHANGED live
  <2>1. /\ act'["caller"].pc = "fail" /\ act'["caller"].run = act["caller"].run
        /\ \A b \in Actor \ {"caller"} : act'[b] = act[b]
    <3>1. /\ act'["caller"] = [act["caller"] EXCEPT !.pc = "fail", !.end = "start",
                                                    !.todo = <<"row", "run">>]
          /\ \A b \in Actor \ {"caller"} : act'[b] = act[b]
      BY <1>4, BecomesFields, ActorsAre
    <3>2. act["caller"] \in Thread
      BY ThreadFields, ActorsAre
    <3>3. QED
      BY <3>1, <3>2 DEF Thread
  <2>2. QED
    BY <1>1, <1>2, <1>4, <2>1, CallerMoves DEF Starting
<1>5. QED
  BY <1>3, <1>4 DEF Spawn

LEMMA StandSetUpFails ==
  ASSUME TypeOK, Standing, SetUpFails
  PROVE  Standing'
<1>1. /\ act["caller"].pc = "setup" /\ act["caller"].todo = <<>>
      /\ UNCHANGED <<chat, lock>>
  BY DEF SetUpFails, At, store
<1>2. act["caller"].run \in Run
  BY <1>1 DEF Standing, StartsAlone, Starting
<1>3. /\ act'["caller"].pc = "fail" /\ act'["caller"].run = act["caller"].run
      /\ \A b \in Actor \ {"caller"} : act'[b] = act[b]
  <2> DEFINE plan == Plan("start", FALSE)
  <2>1. /\ act'["caller"] = [act["caller"] EXCEPT !.pc = "fail", !.end = "start", !.todo = plan]
        /\ \A b \in Actor \ {"caller"} : act'[b] = act[b]
    BY BecomesFields, ActorsAre DEF SetUpFails
  <2>2. act["caller"] \in Thread
    BY ThreadFields, ActorsAre
  <2> HIDE DEF plan
  <2>3. QED
    BY <2>1, <2>2 DEF Thread
<1>4. live' = live \/ live' = NoLive
  BY DEF SetUpFails
<1>5. (live'.run = NoRun => live' = NoLive) /\ (~chat => live' = NoLive)
  BY <1>4 DEF Standing, Emptied, NoLiveWithoutChat
<1>6. QED
  BY <1>1, <1>2, <1>3, <1>5, CallerMoves DEF Starting

LEMMA StandAdopt ==
  ASSUME TypeOK, Standing, Adopt
  PROVE  Standing'
<1>1. /\ act["caller"].pc = "adopt" /\ act["caller"].todo = <<>>
      /\ UNCHANGED <<chat, lock>>
  BY DEF Adopt, At, store
<1>2. act["caller"].run \in Run /\ NoRun \notin Run
  BY <1>1 DEF Standing, StartsAlone, Starting
<1>3. live'.run = live.run /\ (live.run = NoRun => live' = NoLive)
  <2>1. CASE live.run = act["caller"].run
    BY <1>2, <2>1 DEF Adopt, TypeOK, LiveRun
  <2>2. CASE live.run # act["caller"].run
    BY <2>2 DEF Adopt, Standing, Emptied
  <2>3. QED
    BY <2>1, <2>2
<1>4. PICK pc \in {"done", "check2", "fail"} : Goto("caller", pc)
  BY DEF Adopt
<1>5. pc \notin Starting /\ pc \notin {"create", "announce", "spawn"}
  BY DEF Starting
<1>6. QED
  BY <1>1, <1>3, <1>4, <1>5, CallerGoes

LEMMA StandLoad ==
  ASSUME TypeOK, Standing, Load
  PROVE  Standing'
<1>1. /\ act["caller"].pc = "load" /\ act["caller"].todo = <<>>
      /\ UNCHANGED <<chat, lock, live>>
  BY DEF Load, At, store
<1>2. /\ act'["caller"].pc \in {"open", "fail"} /\ act'["caller"].todo = <<>>
      /\ \A b \in Actor \ {"caller"} : act'[b] = act[b]
  <2>1. CASE Goto("caller", "fail")
    BY <1>1, <2>1, GotoFields, ActorsAre
  <2>2. CASE Becomes("caller", [act["caller"] EXCEPT !.pc = "open", !.run = live.run])
    <3>1. /\ act'["caller"] = [act["caller"] EXCEPT !.pc = "open", !.run = live.run]
          /\ \A b \in Actor \ {"caller"} : act'[b] = act[b]
      BY <2>2, BecomesFields, ActorsAre
    <3>2. act["caller"] \in Thread
      BY ThreadFields, ActorsAre
    <3>3. QED
      BY <1>1, <3>1, <3>2 DEF Thread
  <2>3. QED
    BY <2>1, <2>2 DEF Load
<1>3. (live.run = NoRun => live = NoLive) /\ (~chat => live = NoLive)
  BY DEF Standing, Emptied, NoLiveWithoutChat
<1>4. QED
  BY <1>1, <1>2, <1>3, CallerMoves DEF Starting

LEMMA StandCollect ==
  ASSUME TypeOK, Standing, Collect
  PROVE  Standing'
<1>1. /\ act["caller"].pc = "collect" /\ act["caller"].todo = <<>>
      /\ UNCHANGED <<chat, lock>>
  BY DEF Collect, At, store
<1>2. /\ act'["caller"].pc = "complete" /\ act'["caller"].todo = <<>>
      /\ \A b \in Actor \ {"caller"} : act'[b] = act[b]
  <2>1. /\ act'["caller"] = [act["caller"] EXCEPT !.pc = "complete", !.msgs = live.open]
        /\ \A b \in Actor \ {"caller"} : act'[b] = act[b]
    BY BecomesFields, ActorsAre DEF Collect
  <2>2. act["caller"] \in Thread
    BY ThreadFields, ActorsAre
  <2>3. QED
    BY <1>1, <2>1, <2>2 DEF Thread
<1>3. live' = [live EXCEPT !.open = {}] /\ live \in LiveRun
  BY DEF Collect, TypeOK
<1>4. live'.run = live.run /\ (live = NoLive => live' = NoLive)
  <2>1. live'.run = live.run
    BY <1>3 DEF LiveRun
  <2>2. live = NoLive => live' = NoLive
    BY <1>3, NoLiveIs, TypeCollect DEF TypeOK, LiveRun
  <2>3. QED
    BY <2>1, <2>2
<1>5. (live'.run = NoRun => live' = NoLive) /\ (~chat => live' = NoLive)
  BY <1>4 DEF Standing, Emptied, NoLiveWithoutChat
<1>6. QED
  BY <1>1, <1>2, <1>5, CallerMoves DEF Starting

LEMMA StandReturn ==
  ASSUME TypeOK, Standing, Return
  PROVE  Standing'
<1>1. /\ act["caller"].pc \in {"done", "fail"} /\ lock' = NoActor
      /\ UNCHANGED <<chat, live>>
  BY DEF Return, At, store
<1>2. /\ act'["caller"].pc = "rest" /\ act'["caller"].todo = <<>>
      /\ \A b \in Actor \ {"caller"} : act'[b] = act[b]
  BY BecomesFields, ActorsAre DEF Return, Rest
<1>3. lock = "caller"
  BY <1>1 DEF Standing, Locked
<1>4. ~("deleter" \in Others /\ act["deleter"].pc \in Holding)
  BY <1>3, ActorsAre DEF Standing, Locked
<1>5. Locked'
  BY <1>2, <1>4, ActorsAre DEF Locked
<1>6. StartsAlone'
  BY <1>2 DEF StartsAlone, Starting
<1>7. Emptied' /\ Closing'
  BY <1>1, <1>2, ActorsAre DEF Standing, Emptied, NoLiveWithoutChat, Closing
<1>8. QED
  BY <1>5, <1>6, <1>7 DEF Standing

LEMMA StandChoose ==
  ASSUME TypeOK, Standing, Choose
  PROVE  Standing'
<1>1. /\ act["caller"].pc = "choose" /\ act["caller"].todo = <<>>
      /\ UNCHANGED <<chat, lock, live>>
  BY DEF Choose, At, store
<1>2. live.run = NoRun => live = NoLive
  BY DEF Standing, Emptied
<1>3. PICK next \in {"check2", "replace"} : Goto("caller", next)
  BY DEF Choose
<1>4. next \notin Starting /\ next \notin {"create", "announce", "spawn"}
  BY DEF Starting
<1>5. QED
  BY <1>1, <1>2, <1>3, <1>4, CallerGoes

LEMMA StandAnnounceStart ==
  ASSUME TypeOK, Standing, AnnounceStart
  PROVE  Standing'
<1>1. /\ act["caller"].pc = "announce" /\ act["caller"].todo = <<>> /\ Goto("caller", "spawn")
      /\ UNCHANGED <<chat, lock, live>>
  BY DEF AnnounceStart, At, store
<1>2. live.run = NoRun => live = NoLive
  BY DEF Standing, Emptied
<1>3. act["caller"].run \in Run /\ chat /\ live = NoLive
  BY <1>1 DEF Standing, StartsAlone, Starting
<1>4. QED
  BY <1>1, <1>2, <1>3, CallerGoes

LEMMA StandSetUp ==
  ASSUME TypeOK, Standing, SetUp
  PROVE  Standing'
<1>1. /\ act["caller"].pc = "setup" /\ act["caller"].todo = <<>> /\ Goto("caller", "mark")
      /\ UNCHANGED <<chat, lock, live>>
  BY DEF SetUp, At, store
<1>2. live.run = NoRun => live = NoLive
  BY DEF Standing, Emptied
<1>3. act["caller"].run \in Run
  BY <1>1 DEF Standing, StartsAlone, Starting
<1>4. QED
  BY <1>1, <1>2, <1>3, CallerGoes

LEMMA StandMarkRunning ==
  ASSUME TypeOK, Standing, MarkRunning
  PROVE  Standing'
<1>1. /\ act["caller"].pc = "mark" /\ act["caller"].todo = <<>> /\ Goto("caller", "announceUp")
      /\ UNCHANGED <<chat, lock, live>>
  BY DEF MarkRunning, At, store, WriteRow
<1>2. live.run = NoRun => live = NoLive
  BY DEF Standing, Emptied
<1>3. act["caller"].run \in Run
  BY <1>1 DEF Standing, StartsAlone, Starting
<1>4. QED
  BY <1>1, <1>2, <1>3, CallerGoes

LEMMA StandAnnounceUp ==
  ASSUME TypeOK, Standing, AnnounceUp
  PROVE  Standing'
<1>1. /\ act["caller"].pc = "announceUp" /\ act["caller"].todo = <<>> /\ Goto("caller", "adopt")
      /\ UNCHANGED <<chat, lock, live>>
  BY DEF AnnounceUp, At, store
<1>2. live.run = NoRun => live = NoLive
  BY DEF Standing, Emptied
<1>3. act["caller"].run \in Run
  BY <1>1 DEF Standing, StartsAlone, Starting
<1>4. QED
  BY <1>1, <1>2, <1>3, CallerGoes

LEMMA StandAnnounceTurn ==
  ASSUME TypeOK, Standing, AnnounceTurn
  PROVE  Standing'
<1>1. /\ act["caller"].pc = "begin" /\ act["caller"].todo = <<>> /\ Goto("caller", "check3")
      /\ UNCHANGED <<chat, lock, live>>
  BY DEF AnnounceTurn, At, store
<1>2. live.run = NoRun => live = NoLive
  BY DEF Standing, Emptied
<1>3. QED
  BY <1>1, <1>2, CallerGoes DEF Starting

LEMMA StandCompleteTexts ==
  ASSUME TypeOK, Standing, CompleteTexts
  PROVE  Standing'
<1>1. /\ act["caller"].pc = "complete" /\ act["caller"].todo = <<>> /\ Goto("caller", "settle")
      /\ UNCHANGED <<chat, lock, live>>
  BY DEF CompleteTexts, At, store
<1>2. live.run = NoRun => live = NoLive
  BY DEF Standing, Emptied
<1>3. QED
  BY <1>1, <1>2, CallerGoes DEF Starting

LEMMA StandAnnounceEnd ==
  ASSUME TypeOK, Standing, AnnounceEnd
  PROVE  Standing'
<1>1. /\ act["caller"].pc = "end" /\ act["caller"].todo = <<>> /\ Goto("caller", "done")
      /\ UNCHANGED <<chat, lock, live>>
  BY DEF AnnounceEnd, At, store
<1>2. live.run = NoRun => live = NoLive
  BY DEF Standing, Emptied
<1>3. QED
  BY <1>1, <1>2, CallerGoes DEF Starting

LEMMA StandAnswered ==
  ASSUME TypeOK, Standing, Answered
  PROVE  Standing'
<1>1. /\ act["caller"].pc = "wait" /\ act["caller"].todo = <<>> /\ Goto("caller", "sync")
      /\ UNCHANGED <<chat, lock, live>>
  BY DEF Answered, At, store
<1>2. live.run = NoRun => live = NoLive
  BY DEF Standing, Emptied
<1>3. QED
  BY <1>1, <1>2, CallerGoes DEF Starting

LEMMA StandOpenTurn ==
  ASSUME TypeOK, Standing, OpenTurn
  PROVE  Standing'
<1>1. /\ act["caller"].pc = "open" /\ act["caller"].todo = <<>> /\ Goto("caller", "begin")
      /\ UNCHANGED <<chat, lock>>
  BY DEF OpenTurn, At, store
<1>2. live'.run = live.run /\ (live.run = NoRun => live' = NoLive)
  <2>1. CASE live.run = NoRun
    BY <2>1 DEF OpenTurn, Standing, Emptied
  <2>2. CASE live.run # NoRun
    BY <2>2 DEF OpenTurn, TypeOK, LiveRun
  <2>3. QED
    BY <2>1, <2>2
<1>3. QED
  BY <1>1, <1>2, CallerGoes DEF Starting

LEMMA StandSettleTurn ==
  ASSUME TypeOK, Standing, SettleTurn
  PROVE  Standing'
<1>1. /\ act["caller"].pc = "settle" /\ act["caller"].todo = <<>> /\ Goto("caller", "end")
      /\ UNCHANGED <<chat, lock>>
  BY DEF SettleTurn, At, store
<1>2. live'.run = live.run /\ (live = NoLive => live' = NoLive)
  <2>1. CASE live' = live
    BY <2>1
  <2>2. CASE live' = [live EXCEPT !.turn = 0]
    <3>1. live \in LiveRun
      BY DEF TypeOK
    <3>2. live'.run = live.run
      BY <2>2, <3>1 DEF LiveRun
    <3>3. live = NoLive => live' = NoLive
      BY <2>2, <3>1, NoLiveIs, TypeSettleTurn DEF TypeOK, LiveRun
    <3>4. QED
      BY <3>2, <3>3
  <2>3. QED
    BY <2>1, <2>2 DEF SettleTurn
<1>3. live.run = NoRun => live' = NoLive
  BY <1>2 DEF Standing, Emptied
<1>4. QED
  BY <1>1, <1>2, <1>3, CallerGoes DEF Starting

LEMMA FailPromptStands ==
  ASSUME TypeOK, Standing, UNCHANGED <<chat, lock>>, FailPrompt,
         act["caller"].pc \notin {"rest", "lock"}, act["caller"].todo = <<>>
  PROVE  Standing'
<1>1. CASE TakeIfAny("caller", "fail", "prompt")
  BY <1>1, CallerTakes DEF Starting, Why
<1>2. CASE Goto("caller", "fail") /\ UNCHANGED live
  <2>1. live.run = NoRun => live = NoLive
    BY DEF Standing, Emptied
  <2>2. QED
    BY <1>2, <2>1, CallerGoes DEF Starting
<1>3. QED
  BY <1>1, <1>2 DEF FailPrompt, TakeIfAny, Take

LEMMA StandSend ==
  ASSUME TypeOK, Standing, Send
  PROVE  Standing'
<1>1. /\ act["caller"].pc = "send" /\ act["caller"].todo = <<>>
      /\ UNCHANGED <<chat, lock>>
  BY DEF Send, At, store
<1>2. CASE Goto("caller", "wait") /\ UNCHANGED live
  <2>1. live.run = NoRun => live = NoLive
    BY DEF Standing, Emptied
  <2>2. QED
    BY <1>1, <1>2, <2>1, CallerGoes DEF Starting
<1>3. CASE FailPrompt
  BY <1>1, <1>3, FailPromptStands
<1>4. QED
  BY <1>2, <1>3 DEF Send

LEMMA StandTurnFails ==
  ASSUME TypeOK, Standing, TurnFails
  PROVE  Standing'
<1>1. /\ act["caller"].pc \in {"wait", "sync"} /\ act["caller"].todo = <<>>
      /\ UNCHANGED <<chat, lock>>
  BY DEF TurnFails, At, store
<1>2. QED
  BY <1>1, FailPromptStands DEF TurnFails

LEMMA StandClose ==
  ASSUME TypeOK, Standing, NEW a \in Actor, Close(a)
  PROVE  Standing'
<1>1. /\ act[a].todo # <<>> /\ UNCHANGED <<chat, live, lock>>
      /\ act'[a].pc = act[a].pc
      /\ \A b \in Actor \ {a} : act'[b] = act[b]
      /\ act'[a].todo # <<>> => act'[a].run = act[a].run
  <2>1. PICK step : Due(a, step) /\ Done(a)
    BY DEF Close, CloseAsks, CloseAgent, CloseTexts, CloseTurn, CloseRow, CloseRun
  <2>2. UNCHANGED <<chat, live, lock>>
    BY DEF Close, CloseAsks, CloseAgent, CloseTexts, CloseTurn, CloseRow, CloseRun, WriteRow, store
  <2>3. QED
    BY <2>1, <2>2, DoneFields DEF Due
<1>2. act'[a].todo # <<>> => act'[a].run \in Run
  BY <1>1 DEF Standing, Closing
<1>3. CASE a = "caller"
  <2>1. act["caller"].pc \notin Starting
    BY <1>1, <1>3 DEF Standing, StartsAlone, At
  <2>2. Locked'
    BY <1>1, <1>3, ActorsAre DEF Standing, Locked
  <2>3. StartsAlone'
    BY <1>1, <1>3, <2>1 DEF Standing, StartsAlone
  <2>4. Emptied'
    BY <1>1, <1>3, ActorsAre DEF Standing, Emptied, NoLiveWithoutChat
  <2>5. Closing'
    BY <1>1, <1>2, <1>3 DEF Standing, Closing
  <2>6. QED
    BY <2>2, <2>3, <2>4, <2>5 DEF Standing
<1>4. CASE a # "caller"
  <2>1. a = "deleter" /\ act'[a].pc \in Holding => lock' = "deleter"
    BY <1>1, ActorsAre DEF Standing, Locked, Actor
  <2>2. a = "deleter" /\ act'[a].pc = "erase" => live' = NoLive
    BY <1>1, ActorsAre DEF Standing, Emptied, Actor
  <2>3. QED
    BY <1>1, <1>2, <1>4, <2>1, <2>2, OtherMoves
<1>5. QED
  BY <1>3, <1>4

------------------------------------------------------------------------------
(* Those who stop, delete and listen *)

LEMMA StandStop ==
  ASSUME TypeOK, Standing, NEW a \in Others, Stop(a)
  PROVE  Standing'
<1>1. /\ a = "canceller" /\ a \in Actor \ {"caller"} /\ act[a].todo = <<>>
      /\ UNCHANGED <<chat, live, lock>>
  BY ActorsAre DEF Stop, At, store
<1>2. /\ act'[a] = [act[a] EXCEPT !.pc = "cancel", !.call = act["caller"].call]
      /\ \A b \in Actor \ {a} : act'[b] = act[b]
  BY <1>1, BecomesFields DEF Stop
<1>3. act[a] \in Thread
  BY <1>1, ThreadFields
<1>4. act'[a].todo = <<>>
  BY <1>1, <1>2, <1>3 DEF Thread
<1>5. QED
  BY <1>1, <1>2, <1>4, OtherMoves

LEMMA StandCancel ==
  ASSUME TypeOK, Standing, NEW a \in Others, a = "canceller", Cancel(a)
  PROVE  Standing'
<1>1. /\ a \in Actor \ {"caller"} /\ act[a].todo = <<>>
      /\ UNCHANGED <<chat, lock>>
  BY ActorsAre DEF Cancel, At, store
<1>2. CASE live.run = NoRun
  <2>1. Goto(a, "stopped") /\ live' = live
    BY <1>2 DEF Cancel, TakeIfAny
  <2>2. act'[a].todo = <<>> /\ \A b \in Actor \ {a} : act'[b] = act[b]
    BY <1>1, <2>1, GotoFields
  <2>3. QED
    BY <1>1, <2>1, <2>2, OtherMoves
<1>3. CASE live.run # NoRun
  <2>1. Take(a, "stopped", "cancel")
    BY <1>3 DEF Cancel, TakeIfAny
  <2>2. /\ live.run \in Run /\ live' = NoLive /\ act'[a].run = live.run
        /\ \A b \in Actor \ {a} : act'[b] = act[b]
    BY <1>1, <2>1, TakeFields DEF Why
  <2>3. QED
    BY <1>1, <2>2, OtherMoves
<1>4. QED
  BY <1>2, <1>3

LEMMA StandStopped ==
  ASSUME TypeOK, Standing, NEW a \in Others, a = "canceller", Stopped(a)
  PROVE  Standing'
<1>1. /\ a \in Actor \ {"caller"} /\ UNCHANGED <<chat, live, lock>>
  BY ActorsAre DEF Stopped, store
<1>2. act'[a].todo = <<>> /\ \A b \in Actor \ {a} : act'[b] = act[b]
  BY <1>1, BecomesFields DEF Stopped, Rest
<1>3. QED
  BY <1>1, <1>2, OtherMoves

LEMMA StandDelete ==
  ASSUME TypeOK, Standing, NEW a \in Others, Delete(a)
  PROVE  Standing'
<1>1. /\ a = "deleter" /\ a \in Actor \ {"caller"} /\ UNCHANGED <<chat, live, lock>>
  BY ActorsAre DEF Delete, store
<1>2. PICK tidy \in BOOLEAN :
        Becomes(a, [Rest EXCEPT !.pc = IF tidy THEN "enter" ELSE "look",
                                !.tidy = tidy, !.call = calls])
  BY DEF Delete
<1>3. /\ act'[a].todo = <<>> /\ act'[a].pc \in {"enter", "look"}
      /\ \A b \in Actor \ {a} : act'[b] = act[b]
  <2> DEFINE pc == IF tidy THEN "enter" ELSE "look"
  <2>1. /\ act'[a] = [Rest EXCEPT !.pc = pc, !.tidy = tidy, !.call = calls]
        /\ \A b \in Actor \ {a} : act'[b] = act[b]
    BY <1>1, <1>2, BecomesFields
  <2>2. pc \in {"enter", "look"}
    OBVIOUS
  <2> HIDE DEF pc
  <2>3. QED
    BY <2>1, <2>2 DEF Rest
<1>4. QED
  BY <1>1, <1>3, OtherMoves DEF Holding

LEMMA StandLook ==
  ASSUME TypeOK, Standing, NEW a \in Others, a = "deleter",
         Look(a, "look", "interrupt", "enter")
           \/ Look(a, "look again", "interrupt again", "erase")
  PROVE  Standing'
<1>1. a \in Actor \ {"caller"} /\ act[a].todo = <<>> /\ UNCHANGED <<chat, live, lock>>
  BY ActorsAre DEF Look, At, store
<1>2. CASE Look(a, "look", "interrupt", "enter")
  <2>1. PICK pc \in {"interrupt", "enter"} : Goto(a, pc)
    BY <1>2 DEF Look
  <2>2. act'[a].pc = pc /\ act'[a].todo = <<>> /\ \A b \in Actor \ {a} : act'[b] = act[b]
    BY <1>1, <2>1, GotoFields
  <2>3. QED
    BY <1>1, <2>2, OtherMoves DEF Holding
<1>3. CASE Look(a, "look again", "interrupt again", "erase")
  <2>1. lock = "deleter"
    BY <1>3 DEF Look, At, Standing, Locked, Holding
  <2> DEFINE pc == IF live.run # NoRun THEN "interrupt again" ELSE "erase"
  <2>2. Goto(a, pc) /\ (pc = "erase" => live.run = NoRun)
    BY <1>3 DEF Look
  <2> HIDE DEF pc
  <2>3. act'[a].pc = pc /\ act'[a].todo = <<>> /\ \A b \in Actor \ {a} : act'[b] = act[b]
    BY <1>1, <2>2, GotoFields
  <2>4. pc = "erase" => live = NoLive
    BY <2>2 DEF Standing, Emptied
  <2>5. QED
    BY <1>1, <2>1, <2>3, <2>4, OtherMoves
<1>4. QED
  BY <1>2, <1>3

LEMMA LeaveFields ==
  ASSUME TypeOK, NEW a \in Actor, Leave(a)
  PROVE  /\ act'[a].pc = "rest" /\ act'[a].todo = <<>>
         /\ lock' = lock \/ (lock = a /\ lock' = NoActor)
         /\ \A b \in Actor \ {a} : act'[b] = act[b]
BY BecomesFields DEF Leave, Rest

LEMMA StandLeave ==
  ASSUME TypeOK, Standing, NEW a \in Others, a = "deleter", Leave(a), UNCHANGED <<chat, live>>
  PROVE  Standing'
<1>1. a \in Actor \ {"caller"}
  BY ActorsAre
<1>2. QED
  BY <1>1, LeaveFields, OtherMoves DEF Holding

LEMMA StandInterrupt ==
  ASSUME TypeOK, Standing, NEW a \in Others, a = "deleter",
         NEW pc, NEW next, Interrupt(a, pc, next), next \in Holding => pc \in Holding
  PROVE  Standing'
<1>1. a \in Actor \ {"caller"} /\ act[a].pc = pc /\ UNCHANGED chat
  BY ActorsAre DEF Interrupt, At, store
<1>2. CASE Leave(a) /\ UNCHANGED live
  BY <1>1, <1>2, StandLeave
<1>3. CASE Take(a, next, "cancel") /\ UNCHANGED lock
  <2>1. /\ live.run \in Run /\ live' = NoLive
        /\ act'[a].pc = next /\ act'[a].run = live.run
        /\ \A b \in Actor \ {a} : act'[b] = act[b]
    BY <1>1, <1>3, TakeFields DEF Why
  <2>2. next \in Holding => lock' = "deleter"
    BY <1>1, <1>3 DEF Standing, Locked
  <2>3. QED
    BY <1>1, <1>3, <2>1, <2>2, OtherMoves
<1>4. QED
  BY <1>2, <1>3 DEF Interrupt

LEMMA StandEnter ==
  ASSUME TypeOK, Standing, NEW a \in Others, a = "deleter", Enter(a)
  PROVE  Standing'
<1>1. /\ a \in Actor \ {"caller"} /\ act[a].todo = <<>> /\ Goto(a, "look again")
      /\ lock = NoActor /\ lock' = "deleter" /\ UNCHANGED <<chat, live>>
  BY ActorsAre DEF Enter, At, store
<1>2. /\ act'[a].pc = "look again" /\ act'[a].todo = <<>>
      /\ \A b \in Actor \ {a} : act'[b] = act[b]
  BY <1>1, GotoFields
<1>3. QED
  BY <1>1, <1>2, OtherMoves

\* No run is live when the chat goes, nor is one about to be started.
LEMMA StandErase ==
  ASSUME TypeOK, Standing, NEW a \in Others, a = "deleter", Erase(a)
  PROVE  Standing'
<1>1. /\ a \in Actor \ {"caller"} /\ act[a].pc = "erase" /\ act[a].todo = <<>>
      /\ Goto(a, "forget") /\ live' = live
      /\ lock' = NoActor \/ lock' = lock
  BY ActorsAre DEF Erase, At
<1>2. lock = "deleter" /\ live = NoLive
  BY <1>1 DEF Standing, Locked, Emptied, Holding
<1>3. act["caller"].pc \in {"rest", "lock"}
  BY <1>2 DEF Standing, Locked
<1>4. /\ act'[a].pc = "forget" /\ act'[a].todo = <<>>
      /\ \A b \in Actor \ {a} : act'[b] = act[b]
  BY <1>1, GotoFields
<1>5. act'["caller"] = act["caller"]
  BY <1>1, <1>4, ActorsAre
<1>6. Locked' /\ StartsAlone'
  BY <1>3, <1>4, <1>5 DEF Locked, Holding, StartsAlone, Starting
<1>7. Emptied'
  BY <1>1, <1>2 DEF Emptied, NoLiveWithoutChat
<1>8. Closing'
  BY <1>4 DEF Standing, Closing
<1>9. QED
  BY <1>6, <1>7, <1>8 DEF Standing

LEMMA StandHearChunk ==
  ASSUME TypeOK, Standing, NEW r \in Run, HearChunk(r)
  PROVE  Standing'
<1>1. r \in Actor \ {"caller"} /\ r # "deleter" /\ UNCHANGED <<chat, lock>>
  BY ActorsAre DEF HearChunk
<1>2. CASE live.run # r
  <2>1. UNCHANGED <<live, act>>
    BY <1>2 DEF HearChunk
  <2>2. QED
    BY <1>1, <2>1, NothingMoves
<1>3. CASE live.run = r
  <2>1. PICK m \in live.open \cup Fresh :
          /\ live' = [live EXCEPT !.open = @ \cup {m}]
          /\ Becomes(r, [Rest EXCEPT !.pc = "append", !.msgs = {m}, !.call = Head(inbox[r])[2]])
    BY <1>3 DEF HearChunk
  <2>2. live'.run = live.run /\ live.run # NoRun
    BY <1>3, <2>1 DEF TypeOK, LiveRun
  <2>3. act'[r].todo = <<>> /\ \A b \in Actor \ {r} : act'[b] = act[b]
    <3> DEFINE about == Head(inbox[r])[2]
    <3>1. /\ act'[r] = [Rest EXCEPT !.pc = "append", !.msgs = {m}, !.call = about]
          /\ \A b \in Actor \ {r} : act'[b] = act[b]
      BY <1>1, <2>1, BecomesFields
    <3> HIDE DEF about
    <3>2. QED
      BY <3>1 DEF Rest
  <2>4. QED
    BY <1>1, <2>2, <2>3, OtherMoves
<1>4. QED
  BY <1>2, <1>3

LEMMA StandAppendText ==
  ASSUME TypeOK, Standing, NEW r \in Run, AppendText(r)
  PROVE  Standing'
<1>1. r \in Actor \ {"caller"} /\ r # "deleter" /\ UNCHANGED <<chat, live, lock>>
  BY ActorsAre DEF AppendText
<1>2. act'[r].todo = <<>> /\ \A b \in Actor \ {r} : act'[b] = act[b]
  BY <1>1, BecomesFields DEF AppendText, Rest
<1>3. QED
  BY <1>1, <1>2, OtherMoves

LEMMA StandHearGone ==
  ASSUME TypeOK, Standing, NEW r \in Run, HearGone(r)
  PROVE  Standing'
<1>1. r \in Actor \ {"caller"} /\ r # "deleter" /\ UNCHANGED <<chat, lock>>
  BY ActorsAre DEF HearGone, store
<1>2. CASE live.run # r
  <2>1. UNCHANGED <<live, act>>
    BY <1>2 DEF HearGone
  <2>2. QED
    BY <1>1, <2>1, NothingMoves
<1>3. CASE live.run = r
  <2>1. Take(r, "rest", "gone")
    BY <1>3 DEF HearGone
  <2>2. /\ live' = NoLive /\ live.run \in Run /\ act'[r].run = live.run
        /\ \A b \in Actor \ {r} : act'[b] = act[b]
    BY <1>1, <2>1, TakeFields DEF Why
  <2>3. QED
    BY <1>1, <2>2, OtherMoves
<1>4. QED
  BY <1>2, <1>3

\* The acknowledged barrier moves the caller, not the worker.
LEMMA StandHearBarrier ==
  ASSUME TypeOK, Standing, NEW r \in Run, HearBarrier(r)
  PROVE  Standing'
<1>1. UNCHANGED <<chat, live, lock>>
  BY DEF HearBarrier, store
<1>2. CASE At("caller", "sync") /\ act["caller"].run = r
  <2>1. Goto("caller", "collect")
    BY <1>2 DEF HearBarrier
  <2>2. live.run = NoRun => live' = NoLive
    BY <1>1 DEF Standing, Emptied
  <2>3. QED
    BY <1>1, <1>2, <2>1, <2>2, CallerGoes DEF At, Starting
<1>3. CASE UNCHANGED act
  BY <1>1, <1>3, NothingMoves
<1>4. QED
  BY <1>2, <1>3 DEF HearBarrier

LEMMA StandStep ==
  ASSUME TypeOK, Standing, [Next]_vars
  PROVE  Standing'
<1>1. CASE Caller
  <2>1. CASE Check("check1", "choose") \/ Check("check2", "load") \/ Check("check3", "send")
    BY <2>1, StandCheck
  <2>2. CASE Close("caller")
    BY <2>2, StandClose, ActorsAre
  <2>3. QED
    BY <1>1, <2>1, <2>2, StandLock, StandChoose, StandReplace, StandCreate, StandAnnounceStart,
       StandSpawn, StandSetUp, StandSetUpFails, StandMarkRunning, StandAnnounceUp, StandAdopt,
       StandLoad, StandOpenTurn, StandAnnounceTurn, StandSend, StandAnswered, StandTurnFails,
       StandCollect, StandCompleteTexts, StandSettleTurn, StandAnnounceEnd, StandReturn
       DEF Caller
<1>2. ASSUME NEW a \in Others, Stop(a) \/ Canceller(a) \/ Delete(a) \/ Deleter(a)
      PROVE  Standing'
  <2>1. a \in Actor
    BY ActorsAre
  <2>2. CASE Canceller(a)
    BY <2>1, <2>2, StandCancel, StandStopped, StandClose DEF Canceller
  <2>3. CASE Deleter(a)
    <3>1. CASE Interrupt(a, "interrupt", "enter") \/ Interrupt(a, "interrupt again", "erase")
      BY <2>3, <3>1, StandInterrupt DEF Deleter, Holding
    <3>2. CASE Spare(a) \/ Forget(a)
      BY <2>3, <3>2, StandLeave DEF Deleter, Spare, Forget, store
    <3>3. CASE Look(a, "look", "interrupt", "enter")
               \/ Look(a, "look again", "interrupt again", "erase")
      BY <2>3, <3>3, StandLook DEF Deleter
    <3>4. QED
      BY <2>1, <2>3, <3>1, <3>2, <3>3, StandEnter, StandErase, StandClose DEF Deleter
  <2>4. QED
    BY <1>2, <2>2, <2>3, StandStop, StandDelete
<1>3. ASSUME NEW r \in Run,
             Reply(r) \/ SayChunk(r) \/ SayAsk(r) \/ Exit(r) \/ Reader(r) \/ Worker(r)
      PROVE  Standing'
  <2>1. CASE Worker(r)
    <3>1. CASE HearAsk(r)
      <4>1. UNCHANGED <<chat, live, lock, act>>
        BY <3>1 DEF HearAsk, store
      <4>2. QED
        BY <4>1, NothingMoves
    <3>2. QED
      BY <2>1, <3>1, ActorsAre, StandHearChunk, StandAppendText, StandHearGone, StandHearBarrier,
         StandClose DEF Worker
  <2>2. CASE Reply(r) \/ SayChunk(r) \/ SayAsk(r) \/ Exit(r) \/ Reader(r)
    <3>1. UNCHANGED <<chat, live, lock, act>>
      BY <2>2 DEF Reply, SayChunk, SayAsk, Exit, Reader, store
    <3>2. QED
      BY <3>1, NothingMoves
  <2>3. QED
    BY <1>3, <2>1, <2>2
<1>4. CASE Respond \/ UNCHANGED vars
  <2>1. UNCHANGED <<chat, live, lock, act>>
    BY <1>4 DEF Respond, vars, store
  <2>2. QED
    BY <2>1, NothingMoves
<1>5. QED
  BY <1>1, <1>2, <1>3, <1>4, StandBegin DEF Next

\* A deletion and a start that overtake each other leave no run of a chat that is
\* gone: whoever starts one does so under the prompt lock and has seen the chat
\* since (NoLiveWithoutChat; lifecycle.rs, delete_chat and start_run_locked).
THEOREM NoRunOutlivesChat == Spec => []NoLiveWithoutChat
<1>1. TypeOK /\ Standing /\ [Next]_vars => TypeOK' /\ Standing'
  BY TypeStep, StandStep
<1>2. Standing => NoLiveWithoutChat
  BY DEF Standing, Emptied
<1>3. QED
  BY <1>1, <1>2, InitTyped, InitStanding, PTL DEF Spec

------------------------------------------------------------------------------
(* Nobody forgets a question *)

Owner(a, r) == act[a].run = r /\ "asks" \in ToClose(a)

LEMMA OwnersStay ==
  ASSUME TypeOK, AsksAreOwned, NEW a \in Actor,
         \A b \in Actor \ {a} : act'[b] = act[b],
         asks' \subseteq asks,
         \A q \in asks' : live.run = q[2] => live'.run = q[2] \/ Owner(a, q[2])',
         \A q \in asks' : Owner(a, q[2]) => Owner(a, q[2])'
  PROVE  AsksAreOwned'
<1> SUFFICES ASSUME NEW q \in asks'
             PROVE  live'.run = q[2] \/ \E b \in Actor : Owner(b, q[2])'
  BY DEF AsksAreOwned, Owner
<1>1. CASE live.run = q[2]
  BY <1>1
<1>2. CASE live.run # q[2]
  <2>1. PICK b \in Actor : Owner(b, q[2])
    BY <1>2 DEF AsksAreOwned, Owner
  <2>2. CASE b = a
    BY <2>1, <2>2
  <2>3. CASE b # a
    BY <2>1, <2>3 DEF Owner, ToClose
  <2>4. QED
    BY <2>2, <2>3
<1>3. QED
  BY <1>1, <1>2

\* Who has nothing to close owns no question: it may move as it likes.
LEMMA OwnersIdle ==
  ASSUME TypeOK, AsksAreOwned, NEW a \in Actor, act[a].todo = <<>>,
         \E th : Becomes(a, th), asks' \subseteq asks, live'.run = live.run
  PROVE  AsksAreOwned'
<1>1. \A b \in Actor \ {a} : act'[b] = act[b]
  BY BecomesFields
<1>2. \A r : ~Owner(a, r)
  BY DEF Owner, ToClose
<1>3. QED
  BY <1>1, <1>2, OwnersStay

\* Who takes the live run owns its questions.
LEMMA OwnersTake ==
  ASSUME TypeOK, AsksAreOwned, NEW a \in Actor, act[a].todo = <<>>,
         NEW pc, NEW why \in Why, Take(a, pc, why), asks' \subseteq asks
  PROVE  AsksAreOwned'
<1>1. /\ act'[a].run = live.run
      /\ \E i \in DOMAIN act'[a].todo : act'[a].todo[i] = "asks"
      /\ \A b \in Actor \ {a} : act'[b] = act[b]
  BY TakeFields
<1>2. \A r : ~Owner(a, r)
  BY DEF Owner, ToClose
<1>3. \A r : live.run = r => Owner(a, r)'
  BY <1>1 DEF Owner, ToClose
<1>4. QED
  BY <1>1, <1>2, <1>3, OwnersStay

LEMMA OwnersTakeIfAny ==
  ASSUME TypeOK, AsksAreOwned, NEW a \in Actor, act[a].todo = <<>>,
         NEW pc, NEW why \in Why, TakeIfAny(a, pc, why), asks' \subseteq asks
  PROVE  AsksAreOwned'
<1>1. CASE live.run = NoRun
  <2>1. (\E th : Becomes(a, th)) /\ live' = live
    BY <1>1 DEF TakeIfAny, Goto
  <2>2. QED
    BY <2>1, OwnersIdle
<1>2. CASE live.run # NoRun
  BY <1>2, OwnersTake DEF TakeIfAny
<1>3. QED
  BY <1>1, <1>2

LEMMA OwnersUnmoved ==
  ASSUME TypeOK, AsksAreOwned, UNCHANGED <<live, act>>, asks' \subseteq asks
  PROVE  AsksAreOwned'
BY DEF AsksAreOwned, ToClose

\* The end of a turn and of a run is published with what is pending of the run dropped.
LEMMA EmitDrops ==
  ASSUME NEW r, NEW x, NEW y, EmitRun(r, x) \/ EmitTurn(r, x, y)
  PROVE  asks' \subseteq asks
<1>1. CASE EmitRun(r, x)
  BY <1>1 DEF EmitRun
<1>2. CASE EmitTurn(r, x, y)
  BY <1>2 DEF EmitTurn
<1>3. QED
  BY <1>1, <1>2

\* The questions of a run leave its closer when they are dropped, not before.
LEMMA OwnedClose ==
  ASSUME TypeOK, AsksAreOwned, NEW a \in Actor, Close(a)
  PROVE  AsksAreOwned'
<1>1. CASE CloseAsks(a)
  <2>1. /\ Due(a, "asks") /\ Done(a) /\ live' = live
        /\ asks' = asks \ AsksOf(act[a].run)
    BY <1>1 DEF CloseAsks
  <2>2. \A b \in Actor \ {a} : act'[b] = act[b]
    BY <2>1, DoneFields
  <2>3. \A q \in asks' : ~Owner(a, q[2])
    BY <2>1 DEF Owner, AsksOf
  <2>4. QED
    BY <2>1, <2>2, <2>3, OwnersStay
<1>2. CASE CloseAgent(a) \/ CloseTexts(a) \/ CloseTurn(a) \/ CloseRow(a) \/ CloseRun(a)
  <2>1. PICK step \in {"kill", "texts", "turn", "row", "run"} : Due(a, step) /\ Done(a)
    BY <1>2 DEF CloseAgent, CloseTexts, CloseTurn, CloseRow, CloseRun
  <2>2. asks' \subseteq asks /\ live' = live
    BY <1>2, EmitDrops DEF CloseAgent, CloseTexts, CloseTurn, CloseRow, CloseRun
  <2>3. /\ \A b \in Actor \ {a} : act'[b] = act[b]
        /\ "asks" \in ToClose(a) => act'[a].run = act[a].run /\ "asks" \in ToClose(a)'
    BY <2>1, DoneFields
  <2>4. \A r : Owner(a, r) => Owner(a, r)'
    BY <2>3 DEF Owner
  <2>5. QED
    BY <2>2, <2>3, <2>4, OwnersStay
<1>3. QED
  BY <1>1, <1>2 DEF Close

LEMMA OwnedCaller ==
  ASSUME TypeOK, Standing, AsksAreOwned, Begin \/ Caller
  PROVE  AsksAreOwned'
<1>0. "caller" \in Actor
  BY ActorsAre
<1>1. CASE Begin
  <2>1. act["caller"].todo = <<>> /\ (\E th : Becomes("caller", th))
    BY <1>1 DEF Begin, At, Goto
  <2>2. asks' = asks /\ live' = live
    BY <1>1 DEF Begin, store
  <2>3. QED
    BY <1>0, <2>1, <2>2, OwnersIdle
<1>2. CASE Choose
  <2>1. act["caller"].todo = <<>> /\ (\E th : Becomes("caller", th))
    BY <1>2 DEF Choose, At, Goto
  <2>2. asks' = asks /\ live' = live
    BY <1>2 DEF Choose, store
  <2>3. QED
    BY <1>0, <2>1, <2>2, OwnersIdle
<1>3. CASE Create
  <2>1. act["caller"].todo = <<>> /\ (\E th : Becomes("caller", th))
    BY <1>3 DEF Create, At, Goto
  <2>2. asks' = asks /\ live' = live
    BY <1>3 DEF Create, store
  <2>3. QED
    BY <1>0, <2>1, <2>2, OwnersIdle
<1>4. CASE SetUp
  <2>1. act["caller"].todo = <<>> /\ (\E th : Becomes("caller", th))
    BY <1>4 DEF SetUp, At, Goto
  <2>2. asks' = asks /\ live' = live
    BY <1>4 DEF SetUp, store
  <2>3. QED
    BY <1>0, <2>1, <2>2, OwnersIdle
<1>5. CASE MarkRunning
  <2>1. act["caller"].todo = <<>> /\ (\E th : Becomes("caller", th))
    BY <1>5 DEF MarkRunning, At, Goto
  <2>2. asks' = asks /\ live' = live
    BY <1>5 DEF MarkRunning, store
  <2>3. QED
    BY <1>0, <2>1, <2>2, OwnersIdle
<1>6. CASE Load
  <2>1. act["caller"].todo = <<>> /\ (\E th : Becomes("caller", th))
    BY <1>6 DEF Load, At, Goto
  <2>2. asks' = asks /\ live' = live
    BY <1>6 DEF Load, store
  <2>3. QED
    BY <1>0, <2>1, <2>2, OwnersIdle
<1>7. CASE Answered
  <2>1. act["caller"].todo = <<>> /\ (\E th : Becomes("caller", th))
    BY <1>7 DEF Answered, At, Goto
  <2>2. asks' = asks /\ live' = live
    BY <1>7 DEF Answered, store
  <2>3. QED
    BY <1>0, <2>1, <2>2, OwnersIdle
<1>8. CASE CompleteTexts
  <2>1. act["caller"].todo = <<>> /\ (\E th : Becomes("caller", th))
    BY <1>8 DEF CompleteTexts, At, Goto
  <2>2. asks' = asks /\ live' = live
    BY <1>8 DEF CompleteTexts, store
  <2>3. QED
    BY <1>0, <2>1, <2>2, OwnersIdle
<1>9. CASE Return
  <2>1. act["caller"].todo = <<>> /\ (\E th : Becomes("caller", th))
    BY <1>9 DEF Return, At, Goto
  <2>2. asks' = asks /\ live' = live
    BY <1>9 DEF Return, store
  <2>3. QED
    BY <1>0, <2>1, <2>2, OwnersIdle
<1>10. CASE Lock
  <2>1. act["caller"].todo = <<>> /\ (\E th : Becomes("caller", th))
    BY <1>10 DEF Lock, At, Goto
  <2>2. asks' = asks /\ live' = live
    BY <1>10 DEF Lock, store
  <2>3. QED
    BY <1>0, <2>1, <2>2, OwnersIdle
<1>11. CASE AnnounceStart
  <2>1. act["caller"].todo = <<>> /\ (\E th : Becomes("caller", th))
    BY <1>11 DEF AnnounceStart, At, Goto
  <2>2. asks' \subseteq asks /\ live' = live
    BY <1>11, EmitDrops DEF AnnounceStart
  <2>3. QED
    BY <1>0, <2>1, <2>2, OwnersIdle
<1>12. CASE AnnounceUp
  <2>1. act["caller"].todo = <<>> /\ (\E th : Becomes("caller", th))
    BY <1>12 DEF AnnounceUp, At, Goto
  <2>2. asks' \subseteq asks /\ live' = live
    BY <1>12, EmitDrops DEF AnnounceUp
  <2>3. QED
    BY <1>0, <2>1, <2>2, OwnersIdle
<1>13. CASE AnnounceTurn
  <2>1. act["caller"].todo = <<>> /\ (\E th : Becomes("caller", th))
    BY <1>13 DEF AnnounceTurn, At, Goto
  <2>2. asks' \subseteq asks /\ live' = live
    BY <1>13, EmitDrops DEF AnnounceTurn
  <2>3. QED
    BY <1>0, <2>1, <2>2, OwnersIdle
<1>14. CASE AnnounceEnd
  <2>1. act["caller"].todo = <<>> /\ (\E th : Becomes("caller", th))
    BY <1>14 DEF AnnounceEnd, At, Goto
  <2>2. asks' \subseteq asks /\ live' = live
    BY <1>14, EmitDrops DEF AnnounceEnd
  <2>3. QED
    BY <1>0, <2>1, <2>2, OwnersIdle
<1>15. CASE Check("check1", "choose") \/ Check("check2", "load") \/ Check("check3", "send")
  <2>1. PICK pc, next : Check(pc, next)
    BY <1>15
  <2>2. act["caller"].todo = <<>> /\ asks' = asks
    BY <2>1 DEF Check, At
  <2>3. CASE TakeIfAny("caller", "fail", "cancel")
    BY <1>0, <2>2, <2>3, OwnersTakeIfAny DEF Why
  <2>4. CASE Goto("caller", next) /\ UNCHANGED live
    BY <1>0, <2>2, <2>4, OwnersIdle DEF Goto
  <2>5. QED
    BY <2>1, <2>3, <2>4 DEF Check
<1>16. CASE Replace
  <2>1. act["caller"].todo = <<>> /\ asks' = asks
    BY <1>16 DEF Replace, At
  <2>2. CASE TakeIfAny("caller", "create", "replace")
    BY <1>0, <2>1, <2>2, OwnersTakeIfAny DEF Why
  <2>3. CASE Goto("caller", "fail") /\ UNCHANGED live
    BY <1>0, <2>1, <2>3, OwnersIdle DEF Goto
  <2>4. QED
    BY <1>16, <2>2, <2>3 DEF Replace
<1>17. CASE Spawn
  <2>1. /\ act["caller"].todo = <<>> /\ act["caller"].pc = "spawn" /\ asks' = asks
        /\ \E th : Becomes("caller", th)
    BY <1>17 DEF Spawn, At, Goto
  <2>2. live.run = NoRun
    BY <2>1 DEF Standing, StartsAlone, NoLive
  <2>3. \A q \in asks' : live.run # q[2]
    BY <2>1, <2>2 DEF TypeOK
  <2>4. \A r : ~Owner("caller", r)
    BY <2>1 DEF Owner, ToClose
  <2>5. \A b \in Actor \ {"caller"} : act'[b] = act[b]
    BY <1>0, <2>1, BecomesFields
  <2>6. QED
    BY <1>0, <2>1, <2>3, <2>4, <2>5, OwnersStay
<1>18. CASE SetUpFails
  <2> DEFINE plan == Plan("start", FALSE)
  <2>1. /\ act["caller"].todo = <<>> /\ asks' = asks
        /\ live' = IF live.run = act["caller"].run THEN NoLive ELSE live
        /\ Becomes("caller", [act["caller"] EXCEPT !.pc = "fail", !.end = "start", !.todo = plan])
    BY <1>18 DEF SetUpFails, At
  <2>2. \E i \in DOMAIN plan : plan[i] = "asks"
    BY PlanSteps DEF Why
  <2> HIDE DEF plan
  <2>3. /\ act'["caller"] = [act["caller"] EXCEPT !.pc = "fail", !.end = "start", !.todo = plan]
        /\ \A b \in Actor \ {"caller"} : act'[b] = act[b]
    BY <1>0, <2>1, BecomesFields
  <2>4. act["caller"] \in Thread
    BY <1>0, ThreadFields
  <2>5. act'["caller"].todo = plan /\ act'["caller"].run = act["caller"].run
    BY <2>3, <2>4 DEF Thread
  <2>6. \A r : ~Owner("caller", r)
    BY <2>1 DEF Owner, ToClose
  <2>7. \A r : r = act["caller"].run => Owner("caller", r)'
    BY <2>2, <2>5 DEF Owner, ToClose
  <2>8. \A q \in asks' : live.run = q[2] => live'.run = q[2] \/ Owner("caller", q[2])'
    BY <2>1, <2>7
  <2>9. QED
    BY <1>0, <2>1, <2>3, <2>6, <2>8, OwnersStay
<1>19. CASE Adopt
  <2>1. act["caller"].todo = <<>> /\ (\E th : Becomes("caller", th)) /\ asks' = asks
    BY <1>19 DEF Adopt, At, Goto
  <2>2. live'.run = live.run
    BY <1>19 DEF Adopt, TypeOK, LiveRun
  <2>3. QED
    BY <1>0, <2>1, <2>2, OwnersIdle
<1>20. CASE OpenTurn
  <2>1. act["caller"].todo = <<>> /\ (\E th : Becomes("caller", th)) /\ asks' = asks
    BY <1>20 DEF OpenTurn, At, Goto
  <2>2. live'.run = live.run
    BY <1>20 DEF OpenTurn, TypeOK, LiveRun
  <2>3. QED
    BY <1>0, <2>1, <2>2, OwnersIdle
<1>21. CASE Collect
  <2>1. act["caller"].todo = <<>> /\ (\E th : Becomes("caller", th)) /\ asks' = asks
    BY <1>21 DEF Collect, At, Goto
  <2>2. live'.run = live.run
    BY <1>21 DEF Collect, TypeOK, LiveRun
  <2>3. QED
    BY <1>0, <2>1, <2>2, OwnersIdle
<1>22. CASE SettleTurn
  <2>1. act["caller"].todo = <<>> /\ (\E th : Becomes("caller", th)) /\ asks' = asks
    BY <1>22 DEF SettleTurn, At, Goto
  <2>2. live'.run = live.run
    BY <1>22 DEF SettleTurn, TypeOK, LiveRun
  <2>3. QED
    BY <1>0, <2>1, <2>2, OwnersIdle
<1>23. CASE Send \/ TurnFails
  <2>1. act["caller"].todo = <<>> /\ asks' = asks
    BY <1>23 DEF Send, TurnFails, At
  <2>2. CASE Goto("caller", "wait") /\ UNCHANGED live
    BY <1>0, <2>1, <2>2, OwnersIdle DEF Goto
  <2>3. CASE FailPrompt
    <3>1. CASE Take("caller", "fail", "prompt")
      BY <1>0, <2>1, <3>1, OwnersTake DEF Why
    <3>2. CASE Goto("caller", "fail") /\ UNCHANGED live
      BY <1>0, <2>1, <3>2, OwnersIdle DEF Goto
    <3>3. QED
      BY <2>3, <3>1, <3>2 DEF FailPrompt
  <2>4. QED
    BY <1>23, <2>2, <2>3 DEF Send, TurnFails
<1>24. CASE Close("caller")
  BY <1>0, <1>24, OwnedClose
<1>25. QED
  BY <1>1, <1>2, <1>3, <1>4, <1>5, <1>6, <1>7, <1>8, <1>9, <1>10, <1>11, <1>12, <1>13, <1>14, <1>15, <1>16, <1>17, <1>18, <1>19, <1>20, <1>21, <1>22, <1>23, <1>24 DEF Caller

LEMMA OwnedOthers ==
  ASSUME TypeOK, AsksAreOwned, NEW a \in Others, Stop(a) \/ Canceller(a) \/ Delete(a) \/ Deleter(a)
  PROVE  AsksAreOwned'
<1>0. a \in Actor
  BY ActorsAre
<1>1. CASE Stop(a) \/ Delete(a)
  <2>1. act[a].todo = <<>> /\ (\E th : Becomes(a, th)) /\ UNCHANGED <<asks, live>>
    BY <1>1 DEF Stop, Delete, At
  <2>2. QED
    BY <1>0, <2>1, OwnersIdle
<1>2. CASE Cancel(a)
  <2>1. act[a].todo = <<>> /\ asks' = asks
    BY <1>2 DEF Cancel, At
  <2>2. QED
    BY <1>0, <1>2, <2>1, OwnersTakeIfAny DEF Cancel, Why
<1>3. CASE Stopped(a)
  <2>1. act[a].todo = <<>> /\ (\E th : Becomes(a, th)) /\ UNCHANGED <<asks, live>>
    BY <1>3 DEF Stopped, At
  <2>2. QED
    BY <1>0, <2>1, OwnersIdle
<1>4. ASSUME NEW pc, NEW found, NEW next, Look(a, pc, found, next)
      PROVE  AsksAreOwned'
  <2>1. act[a].todo = <<>> /\ (\E th : Becomes(a, th)) /\ UNCHANGED <<asks, live>>
    BY <1>4 DEF Look, At, Goto
  <2>2. QED
    BY <1>0, <2>1, OwnersIdle
<1>5. ASSUME NEW pc, NEW next, Interrupt(a, pc, next)
      PROVE  AsksAreOwned'
  <2>1. act[a].todo = <<>> /\ asks' = asks
    BY <1>5 DEF Interrupt, At
  <2>2. CASE Take(a, next, "cancel")
    BY <1>0, <2>1, <2>2, OwnersTake DEF Why
  <2>3. CASE Leave(a) /\ UNCHANGED live
    BY <1>0, <2>1, <2>3, OwnersIdle DEF Leave
  <2>4. QED
    BY <1>5, <2>2, <2>3 DEF Interrupt
<1>6. CASE Enter(a) \/ Spare(a) \/ Erase(a) \/ Forget(a)
  <2>1. act[a].todo = <<>> /\ UNCHANGED <<asks, live>>
    BY <1>6 DEF Enter, Spare, Erase, Forget, At
  <2>2. \E th : Becomes(a, th)
    BY <1>6 DEF Enter, Spare, Erase, Forget, Leave, Goto
  <2>3. QED
    BY <1>0, <2>1, <2>2, OwnersIdle
<1>7. CASE Close(a)
  BY <1>0, <1>7, OwnedClose
<1>8. QED
  BY <1>1, <1>2, <1>3, <1>4, <1>5, <1>6, <1>7 DEF Canceller, Deleter

LEMMA OwnedWorker ==
  ASSUME TypeOK, AsksAreOwned, NEW r \in Run, Worker(r)
  PROVE  AsksAreOwned'
<1>0. r \in Actor /\ "caller" \in Actor
  BY ActorsAre
<1>1. CASE HearChunk(r)
  <2>1. act[r].todo = <<>> /\ asks' = asks
    BY <1>1 DEF HearChunk, NextIs, At
  <2>2. CASE live.run # r
    BY <1>1, <2>1, <2>2, OwnersUnmoved DEF HearChunk
  <2>3. CASE live.run = r
    <3>1. PICK m : live' = [live EXCEPT !.open = @ \cup {m}]
      BY <1>1, <2>3 DEF HearChunk
    <3>2. live'.run = live.run
      BY <3>1 DEF TypeOK, LiveRun
    <3>3. \E th : Becomes(r, th)
      BY <1>1, <2>3 DEF HearChunk
    <3>4. QED
      BY <1>0, <2>1, <3>2, <3>3, OwnersIdle
  <2>4. QED
    BY <2>2, <2>3
<1>2. CASE AppendText(r)
  <2>1. act[r].todo = <<>> /\ (\E th : Becomes(r, th)) /\ UNCHANGED <<asks, live>>
    BY <1>2 DEF AppendText, At
  <2>2. QED
    BY <1>0, <2>1, OwnersIdle
<1>3. CASE HearAsk(r)
  <2>1. UNCHANGED <<live, act>>
    BY <1>3 DEF HearAsk
  <2>2. \A q \in asks' : q \in asks \/ live.run = q[2]
    BY <1>3 DEF HearAsk
  <2>3. QED
    BY <2>1, <2>2 DEF AsksAreOwned, ToClose
<1>4. CASE HearGone(r)
  <2>1. act[r].todo = <<>> /\ asks' = asks
    BY <1>4 DEF HearGone, NextIs, At
  <2>2. CASE Take(r, "rest", "gone")
    BY <1>0, <2>1, <2>2, OwnersTake DEF Why
  <2>3. CASE UNCHANGED <<live, act>>
    BY <2>1, <2>3, OwnersUnmoved
  <2>4. QED
    BY <1>4, <2>2, <2>3 DEF HearGone
<1>5. CASE HearBarrier(r)
  <2>1. UNCHANGED <<asks, live>>
    BY <1>5 DEF HearBarrier
  <2>2. CASE At("caller", "sync") /\ Goto("caller", "collect")
    BY <1>0, <2>1, <2>2, OwnersIdle DEF At, Goto
  <2>3. CASE UNCHANGED act
    BY <2>1, <2>3, OwnersUnmoved
  <2>4. QED
    BY <1>5, <2>2, <2>3 DEF HearBarrier
<1>6. CASE Close(r)
  BY <1>0, <1>6, OwnedClose
<1>7. QED
  BY <1>1, <1>2, <1>3, <1>4, <1>5, <1>6 DEF Worker

LEMMA OwnedStep ==
  ASSUME TypeOK, Standing, AsksAreOwned, [Next]_vars
  PROVE  AsksAreOwned'
<1>1. ASSUME NEW r \in Run, Reply(r) \/ SayChunk(r) \/ SayAsk(r) \/ Exit(r) \/ Reader(r)
      PROVE  AsksAreOwned'
  <2>1. UNCHANGED <<live, act, asks>>
    BY <1>1 DEF Reply, SayChunk, SayAsk, Exit, Reader
  <2>2. QED
    BY <2>1, OwnersUnmoved
<1>2. CASE Respond \/ UNCHANGED vars
  <2>1. UNCHANGED <<live, act>> /\ asks' \subseteq asks
    BY <1>2 DEF Respond, vars
  <2>2. QED
    BY <2>1, OwnersUnmoved
<1>3. QED
  BY <1>1, <1>2, OwnedCaller, OwnedOthers, OwnedWorker DEF Next

\* A question of an agent is never pending for a run that nobody will ever close:
\* it goes with the live run to whoever takes it (AsksAreOwned; inbound.rs:96-106,
\* remove_pending_requests_for_run).
THEOREM NoAskIsForgotten == Spec => []AsksAreOwned
<1>1. Init => AsksAreOwned
  BY DEF Init, AsksAreOwned
<1>2. TypeOK /\ Standing /\ AsksAreOwned /\ [Next]_vars => TypeOK' /\ Standing' /\ AsksAreOwned'
  BY TypeStep, StandStep, OwnedStep
<1>3. QED
  BY <1>1, <1>2, InitTyped, InitStanding, PTL DEF Spec

------------------------------------------------------------------------------
(* What a client has seen to be over *)

\* A snapshot that shows a run as over names it, and shows no open turn.
SnapOver == snap.status \in Terminal => snap.run \in Run /\ snap.phase # "started"

\* What OverStaysOver says of one step.
StaysOver == snap.status \in Terminal /\ snap'.run = snap.run =>
               snap'.status \in Terminal /\ snap'.phase # "started"

LEMMA EmitRunOver ==
  ASSUME TypeOK, SnapOver, NEW r \in Run \cup {NoRun}, NEW status \in RunStatus,
         EmitRun(r, status), status \in Terminal => r \in Run
  PROVE  SnapOver' /\ StaysOver
<1>1. CASE snap' = snap
  BY <1>1 DEF SnapOver, StaysOver
<1>2. CASE snap' = AfterRun(snap, r, status) /\ ~RunRefused(snap, r, status)
  <2>1. snap \in Snapshot
    BY DEF TypeOK
  <2>2. CASE status \in Terminal
    <3> DEFINE phase == IF snap.phase # "started" THEN snap.phase
                        ELSE IF status = "failed" THEN "failed" ELSE "cancelled"
    <3>1. snap' = [snap EXCEPT !.run = r, !.status = status, !.asks = {}, !.phase = phase]
      BY <1>2, <2>1, <2>2 DEF AfterRun, Snapshot
    <3>2. phase # "started"
      OBVIOUS
    <3> HIDE DEF phase
    <3>3. snap'.run = r /\ snap'.status = status /\ snap'.phase # "started"
      BY <2>1, <3>1, <3>2 DEF Snapshot
    <3>4. QED
      BY <2>2, <3>3 DEF SnapOver, StaysOver
  <2>3. CASE status = "starting"
    <3>1. snap' = [Blank EXCEPT !.run = r, !.status = status]
      BY <1>2, <2>3 DEF AfterRun, Terminal
    <3>2. snap'.run = r /\ snap'.status = "starting"
      BY <2>3, <3>1 DEF Blank
    <3>3. snap.status \in Terminal => snap.run # r
      BY <1>2, <2>3 DEF RunRefused, Terminal
    <3>4. QED
      BY <3>2, <3>3 DEF SnapOver, StaysOver, Terminal
  <2>4. CASE status = "running"
    <3>1. snap' = [snap EXCEPT !.run = r, !.status = status]
      BY <1>2, <2>4 DEF AfterRun, Terminal
    <3>2. snap'.run = r /\ snap'.status = "running"
      BY <2>1, <2>4, <3>1 DEF Snapshot
    <3>3. snap.status \in Terminal => snap.run # r
      BY <1>2, <2>4 DEF RunRefused, Terminal
    <3>4. QED
      BY <3>2, <3>3 DEF SnapOver, StaysOver, Terminal
  <2>5. QED
    BY <2>2, <2>3, <2>4 DEF RunStatus, Terminal
<1>3. QED
  BY <1>1, <1>2 DEF EmitRun

LEMMA EmitTurnOver ==
  ASSUME TypeOK, SnapOver, NEW r \in Run \cup {NoRun}, NEW turn, NEW phase \in Turn,
         EmitTurn(r, turn, phase)
  PROVE  SnapOver' /\ StaysOver
<1>1. CASE snap' = snap
  BY <1>1 DEF SnapOver, StaysOver
<1>2. CASE snap' = AfterTurn(snap, r, turn, phase) /\ ~TurnRefused(snap, r, turn, phase)
  <2>1. snap \in Snapshot
    BY DEF TypeOK
  <2>2. snap'.run = r /\ snap'.status = snap.status /\ snap'.phase = phase
    BY <1>2, <2>1 DEF AfterTurn, Snapshot
  <2>3. snap.status \in Terminal => phase # "started" /\ snap.run = r
    BY <1>2 DEF TurnRefused, SnapOver
  <2>4. QED
    BY <2>2, <2>3 DEF SnapOver, StaysOver
<1>3. QED
  BY <1>1, <1>2 DEF EmitTurn

\* Questions come and go without a change of what is over.
LEMMA AsksOver ==
  ASSUME TypeOK, SnapOver, NEW set, snap' = [snap EXCEPT !.asks = set]
  PROVE  SnapOver' /\ StaysOver
<1>1. snap'.run = snap.run /\ snap'.status = snap.status /\ snap'.phase = snap.phase
  BY DEF TypeOK, Snapshot
<1>2. QED
  BY <1>1 DEF SnapOver, StaysOver

LEMMA OverClose ==
  ASSUME TypeOK, Standing, SnapOver, NEW a \in Actor, Close(a)
  PROVE  SnapOver' /\ StaysOver
<1>1. act[a].run \in Run /\ act[a].turn \in 0..MaxCalls
  <2>1. act[a].todo # <<>>
    BY DEF Close, CloseAsks, CloseAgent, CloseTexts, CloseTurn, CloseRow, CloseRun, Due
  <2>2. QED
    BY <2>1, ThreadFields DEF Standing, Closing
<1>2. CASE CloseAsks(a)
  <2>1. snap' = [snap EXCEPT !.asks = {}] \/ snap' = snap
    BY <1>2 DEF CloseAsks
  <2>2. QED
    BY <2>1, AsksOver DEF SnapOver, StaysOver
<1>3. CASE CloseTurn(a)
  <2>1. TurnEnd(act[a].end) \in Turn
    BY DEF TurnEnd, Turn
  <2>2. QED
    BY <1>1, <1>3, <2>1, EmitTurnOver DEF CloseTurn
<1>4. CASE CloseRun(a)
  <2>1. RunEnd(act[a].end) \in RunStatus
    BY DEF RunEnd, RunStatus
  <2>2. QED
    BY <1>1, <1>4, <2>1, EmitRunOver DEF CloseRun
<1>5. CASE CloseAgent(a) \/ CloseTexts(a) \/ CloseRow(a)
  <2>1. snap' = snap
    BY <1>5 DEF CloseAgent, CloseTexts, CloseRow
  <2>2. QED
    BY <2>1 DEF SnapOver, StaysOver
<1>6. QED
  BY <1>2, <1>3, <1>4, <1>5 DEF Close

LEMMA OverCaller ==
  ASSUME TypeOK, Standing, SnapOver, Caller
  PROVE  SnapOver' /\ StaysOver
<1>0. "caller" \in Actor /\ act["caller"].run \in Run \cup {NoRun} /\ calls \in 0..MaxCalls
  BY ActorsAre, ThreadFields DEF TypeOK
<1>1. CASE AnnounceStart
  BY <1>0, <1>1, EmitRunOver DEF AnnounceStart, RunStatus, Terminal
<1>2. CASE AnnounceUp
  BY <1>0, <1>2, EmitRunOver DEF AnnounceUp, RunStatus, Terminal
<1>3. CASE AnnounceTurn
  BY <1>0, <1>3, EmitTurnOver DEF AnnounceTurn, Turn
<1>4. CASE AnnounceEnd
  BY <1>0, <1>4, EmitTurnOver DEF AnnounceEnd, Turn
<1>5. CASE Close("caller")
  BY <1>0, <1>5, OverClose
<1>6. CASE snap' = snap
  BY <1>6 DEF SnapOver, StaysOver
<1>7. CASE \/ Lock \/ Check("check1", "choose") \/ Check("check2", "load")
           \/ Check("check3", "send") \/ Choose \/ Replace \/ Create \/ Spawn \/ SetUp \/ SetUpFails
  BY <1>6, <1>7 DEF Lock, Check, Choose, Replace, Create, Spawn, SetUp, SetUpFails
<1>8. CASE \/ MarkRunning \/ Adopt \/ Load \/ OpenTurn \/ Send \/ Answered \/ TurnFails
           \/ Collect \/ CompleteTexts \/ SettleTurn \/ Return
  BY <1>6, <1>8 DEF MarkRunning, Adopt, Load, OpenTurn, Send, Answered, TurnFails, Collect,
                    CompleteTexts, SettleTurn, Return
<1>9. QED
  BY <1>1, <1>2, <1>3, <1>4, <1>5, <1>7, <1>8 DEF Caller

LEMMA OverOthers ==
  ASSUME TypeOK, Standing, SnapOver,
         NEW a \in Others, Stop(a) \/ Canceller(a) \/ Delete(a) \/ Deleter(a)
  PROVE  SnapOver' /\ StaysOver
<1>1. CASE Close(a)
  BY <1>1, ActorsAre, OverClose
<1>2. CASE Forget(a)
  <2>1. snap' = Blank
    BY <1>2 DEF Forget
  <2>2. snap'.status = "none" /\ snap'.run = NoRun
    BY <2>1 DEF Blank
  <2>3. QED
    BY <2>2 DEF SnapOver, StaysOver, Terminal
<1>3. CASE snap' = snap
  BY <1>3 DEF SnapOver, StaysOver
<1>4. ASSUME NEW pc, NEW found, NEW next, Look(a, pc, found, next) \/ Interrupt(a, pc, next)
      PROVE  SnapOver' /\ StaysOver
  BY <1>3, <1>4 DEF Look, Interrupt
<1>5. CASE Stop(a) \/ Cancel(a) \/ Stopped(a) \/ Delete(a) \/ Enter(a) \/ Spare(a) \/ Erase(a)
  BY <1>3, <1>5 DEF Stop, Cancel, Stopped, Delete, Enter, Spare, Erase
<1>6. QED
  BY <1>1, <1>2, <1>4, <1>5 DEF Canceller, Deleter

LEMMA OverAgent ==
  ASSUME TypeOK, Standing, SnapOver, NEW r \in Run,
         Reply(r) \/ SayChunk(r) \/ SayAsk(r) \/ Exit(r) \/ Reader(r) \/ Worker(r)
  PROVE  SnapOver' /\ StaysOver
<1>1. CASE Close(r)
  BY <1>1, ActorsAre, OverClose
<1>2. CASE snap' = snap
  BY <1>2 DEF SnapOver, StaysOver
<1>3. CASE HearAsk(r)
  <2>1. (\E set : snap' = [snap EXCEPT !.asks = set]) \/ snap' = snap
    BY <1>3 DEF HearAsk
  <2>2. QED
    BY <1>2, <2>1, AsksOver
<1>4. CASE \/ Reply(r) \/ SayChunk(r) \/ SayAsk(r) \/ Exit(r) \/ Reader(r)
           \/ HearChunk(r) \/ AppendText(r) \/ HearGone(r) \/ HearBarrier(r)
  BY <1>2, <1>4 DEF Reply, SayChunk, SayAsk, Exit, Reader, HearChunk, AppendText, HearGone,
                    HearBarrier
<1>5. QED
  BY <1>1, <1>3, <1>4 DEF Worker

LEMMA OverStep ==
  ASSUME TypeOK, Standing, SnapOver, [Next]_vars
  PROVE  SnapOver' /\ StaysOver
<1>1. CASE Begin \/ UNCHANGED vars
  <2>1. snap' = snap
    BY <1>1 DEF Begin, vars
  <2>2. QED
    BY <2>1 DEF SnapOver, StaysOver
<1>2. CASE Respond
  <2>1. \E set : snap' = [snap EXCEPT !.asks = set]
    BY <1>2 DEF Respond
  <2>2. QED
    BY <2>1, AsksOver
<1>3. QED
  BY <1>1, <1>2, OverCaller, OverOthers, OverAgent DEF Next

\* Whatever comes late from a run, or from who closes it: a client that has seen
\* the run as over does not see it alive again, nor a turn of it open
\* (OverStaysOver; SessionState::transition, runtime.rs).
THEOREM WhatIsOverStaysOver == Spec => OverStaysOver
<1>1. Init => SnapOver
  BY DEF Init, SnapOver, Blank, Terminal
<1>2. TypeOK /\ Standing /\ SnapOver /\ [Next]_vars => TypeOK' /\ Standing' /\ SnapOver'
  BY TypeStep, StandStep, OverStep
<1>3. TypeOK /\ Standing /\ SnapOver /\ [Next]_vars =>
        [snap.status \in Terminal /\ snap'.run = snap.run =>
           snap'.status \in Terminal /\ snap'.phase # "started"]_vars
  BY OverStep DEF StaysOver
<1>4. QED
  BY <1>1, <1>2, <1>3, InitTyped, InitStanding, PTL DEF Spec, OverStaysOver

------------------------------------------------------------------------------
(* What clients are shown of the questions and the end of a run, when a stop  *)
(* is final, when the text of a turn is whole, and what everything comes to   *)
(* once all is at rest.                                                       *)

------------------------------------------------------------------------------
(* What the helpers do to a thread, field by field *)

\* Everybody but a stays where it is, with what it has left to close.
Only(a) == \A b \in Actor \ {a} : act'[b] = act[b] /\ ToClose(b)' = ToClose(b)

LEMMA OnlyMoves ==
  ASSUME NEW a, \A b \in Actor \ {a} : act'[b] = act[b]
  PROVE  Only(a)
BY DEF Only, ToClose

\* Who has nothing left to close closes nothing.
LEMMA NothingToClose ==
  ASSUME NEW a, act[a].todo = <<>>
  PROVE  ToClose(a) = {}
BY DEF ToClose

LEMMA GotoMoves ==
  ASSUME TypeOK, NEW a \in Actor, NEW pc, Goto(a, pc)
  PROVE  /\ act'[a] = [act[a] EXCEPT !.pc = pc]
         /\ act'[a].pc = pc /\ act'[a].run = act[a].run /\ act'[a].todo = act[a].todo
         /\ act'[a].call = act[a].call /\ ToClose(a)' = ToClose(a)
         /\ Only(a)
<1>1. act[a] \in Thread
  BY DEF TypeOK
<1>2. act'[a] = [act[a] EXCEPT !.pc = pc] /\ \A b \in Actor \ {a} : act'[b] = act[b]
  BY BecomesFields DEF Goto
<1>3. act'[a].todo = act[a].todo
  BY <1>1, <1>2 DEF Thread
<1>4. ToClose(a)' = ToClose(a)
  BY <1>3 DEF ToClose
<1>5. QED
  BY <1>1, <1>2, <1>3, <1>4, OnlyMoves DEF Thread

Has(s, x) == \E i \in DOMAIN s : s[i] = x

LEMMA ConcatHas ==
  ASSUME NEW S, NEW s \in Seq(S), NEW t \in Seq(S), NEW x, Has(s, x) \/ Has(t, x)
  PROVE  s \o t \in Seq(S) /\ Has(s \o t, x)
<1>1. /\ s \o t \in Seq(S) /\ Len(s \o t) = Len(s) + Len(t)
      /\ \A i \in 1..(Len(s) + Len(t)) :
           (s \o t)[i] = IF i <= Len(s) THEN s[i] ELSE t[i - Len(s)]
  BY ConcatProperties
<1>2. /\ Len(s) \in Nat /\ Len(t) \in Nat
      /\ DOMAIN s = 1..Len(s) /\ DOMAIN t = 1..Len(t) /\ DOMAIN (s \o t) = 1..Len(s \o t)
  BY <1>1, LenProperties
<1>3. CASE Has(s, x)
  <2>1. PICK i \in DOMAIN s : s[i] = x
    BY <1>3 DEF Has
  <2>2. i \in DOMAIN (s \o t) /\ (s \o t)[i] = x
    BY <1>1, <1>2, <2>1
  <2>3. QED
    BY <1>1, <2>2 DEF Has
<1>4. CASE Has(t, x)
  <2>1. PICK i \in DOMAIN t : t[i] = x
    BY <1>4 DEF Has
  <2>2. /\ Len(s) + i \in 1..(Len(s) + Len(t)) /\ ~(Len(s) + i <= Len(s))
        /\ (Len(s) + i) - Len(s) = i
    BY <1>2, <2>1
  <2>3. Len(s) + i \in DOMAIN (s \o t) /\ (s \o t)[Len(s) + i] = x
    BY <1>1, <1>2, <2>1, <2>2
  <2>4. QED
    BY <1>1, <2>3 DEF Has
<1>5. QED
  BY <1>3, <1>4

\* A plan drops the questions, writes the row and publishes the end, and kills
\* the agent unless it is gone. Only a plan for an agent that is gone kills nothing.
LEMMA PlanHas ==
  ASSUME NEW why \in Why, NEW open \in BOOLEAN
  PROVE  /\ Has(Plan(why, open), "asks") /\ Has(Plan(why, open), "run")
         /\ why # "gone" => Has(Plan(why, open), "kill")
<1> DEFINE turn == IF open THEN <<"turn">> ELSE <<>>
<1>1. turn \in Seq(Step)
  <2>1. <<"turn">> \in Seq(Step) /\ <<>> \in Seq(Step)
    BY DEF Step
  <2>2. QED
    BY <2>1
<1> HIDE DEF turn
<1>2. ASSUME NEW before \in Seq(Step), NEW after \in Seq(Step), NEW x,
             Has(before, x) \/ Has(after, x)
      PROVE  Has(before \o turn \o after, x)
  <2>1. CASE Has(before, x)
    BY <1>1, <2>1, ConcatHas
  <2>2. CASE Has(after, x)
    <3>1. before \o turn \in Seq(Step)
      BY <1>1, ConcatProperties
    <3>2. QED
      BY <2>2, <3>1, ConcatHas
  <2>3. QED
    BY <1>2, <2>1, <2>2
<1>3. /\ <<"asks", "kill", "texts">> \in Seq(Step) /\ <<"asks", "kill">> \in Seq(Step)
      /\ <<"asks", "kill", "texts", "row", "run">> \in Seq(Step)
      /\ <<"texts">> \in Seq(Step) /\ <<"row", "run">> \in Seq(Step)
      /\ <<"row", "run", "asks">> \in Seq(Step)
  BY DEF Step
<1>4. /\ Has(<<"asks", "kill", "texts">>, "asks") /\ Has(<<"asks", "kill", "texts">>, "kill")
      /\ Has(<<"row", "run">>, "run")
      /\ Has(<<"asks", "kill">>, "asks") /\ Has(<<"asks", "kill">>, "kill")
      /\ Has(<<"row", "run", "asks">>, "run") /\ Has(<<"row", "run", "asks">>, "asks")
  BY DEF Has
<1>5. CASE why = "cancel"
  <2>1. Plan(why, open) = <<"asks", "kill", "texts">> \o turn \o <<"row", "run">>
    BY <1>5 DEF Plan, turn
  <2>2. QED
    BY <1>2, <1>3, <1>4, <2>1
<1>6. CASE why = "prompt"
  <2> DEFINE front == <<"asks", "kill", "texts", "row", "run">>
  <2>1. Plan(why, open) = front \o turn
    BY <1>6 DEF Plan, turn
  <2>2. front \in Seq(Step) /\ Has(front, "asks") /\ Has(front, "kill") /\ Has(front, "run")
    BY <1>3 DEF Has
  <2> HIDE DEF front
  <2>3. QED
    BY <1>1, <2>1, <2>2, ConcatHas
<1>7. CASE why = "replace"
  <2>1. Plan(why, open) = <<"asks", "kill">> \o turn \o <<"row", "run">>
    BY <1>7 DEF Plan, turn
  <2>2. QED
    BY <1>2, <1>3, <1>4, <2>1
<1>8. CASE why = "start"
  <2>1. Plan(why, open) = <<"asks", "kill", "row", "run">>
    BY <1>8 DEF Plan
  <2>2. /\ Has(<<"asks", "kill", "row", "run">>, "asks")
        /\ Has(<<"asks", "kill", "row", "run">>, "kill")
        /\ Has(<<"asks", "kill", "row", "run">>, "run")
    BY DEF Has
  <2>3. QED
    BY <2>1, <2>2
<1>9. CASE why = "gone"
  <2>1. Plan(why, open) = <<"texts">> \o turn \o <<"row", "run", "asks">>
    BY <1>9 DEF Plan, turn
  <2>2. QED
    BY <1>2, <1>3, <1>4, <1>9, <2>1
<1>10. QED
  BY <1>5, <1>6, <1>7, <1>8, <1>9 DEF Why

LEMMA TakeMoves ==
  ASSUME TypeOK, NEW a \in Actor, NEW pc, NEW why \in Why, Take(a, pc, why)
  PROVE  /\ live.run \in Run /\ live' = NoLive
         /\ act'[a].pc = pc /\ act'[a].run = live.run /\ act'[a].call = act[a].call
         /\ act'[a].turn = live.turn /\ act'[a].todo # <<>>
         /\ "asks" \in ToClose(a)' /\ "run" \in ToClose(a)'
         /\ why # "gone" => "kill" \in ToClose(a)'
         /\ Only(a)
<1> DEFINE plan == Plan(why, live.turn # 0)
<1>1. act[a] \in Thread /\ live \in LiveRun
  BY DEF TypeOK
<1>2. Has(plan, "asks") /\ Has(plan, "run") /\ (why # "gone" => Has(plan, "kill"))
  BY PlanHas
<1>3. plan \in Seq(Step)
  BY PlanSteps
<1> HIDE DEF plan
<1>4. /\ act'[a] = [act[a] EXCEPT !.pc = pc, !.run = live.run, !.turn = live.turn,
                                  !.msgs = live.open, !.end = why, !.todo = plan]
      /\ \A b \in Actor \ {a} : act'[b] = act[b]
  BY BecomesFields DEF Take, plan
<1>5. /\ act'[a].pc = pc /\ act'[a].run = live.run /\ act'[a].todo = plan
      /\ act'[a].call = act[a].call /\ act'[a].turn = live.turn
  BY <1>1, <1>4 DEF Thread
<1>6. /\ "asks" \in ToClose(a)' /\ "run" \in ToClose(a)'
      /\ why # "gone" => "kill" \in ToClose(a)'
  BY <1>2, <1>5 DEF ToClose, Has
<1>7. act'[a].todo # <<>>
  BY <1>6, NothingToClose DEF ToClose
<1>8. QED
  BY <1>1, <1>4, <1>5, <1>6, <1>7, OnlyMoves DEF Take, LiveRun

\* A step of closing leaves the thread where it is, with the rest of what it had
\* to do for that run; the last one leaves it with no run.
LEMMA DoneMoves ==
  ASSUME TypeOK, NEW a \in Actor, NEW step, Due(a, step), Done(a)
  PROVE  /\ act[a].todo # <<>> /\ step \in ToClose(a)
         /\ act'[a].pc = act[a].pc /\ act'[a].call = act[a].call
         /\ act'[a].todo # <<>> => act'[a].run = act[a].run
         /\ act'[a].run \in {act[a].run, NoRun}
         /\ ToClose(a)' \subseteq ToClose(a)
         /\ \A other \in ToClose(a) : other # step =>
              act'[a].run = act[a].run /\ other \in ToClose(a)'
         /\ Only(a)
<1>1. act[a] \in Thread /\ act[a].todo \in Seq(Step) /\ act[a].todo # <<>>
      /\ Head(act[a].todo) = step
  BY ThreadFields DEF Due
<1> DEFINE th == act[a]
           rest == [Rest EXCEPT !.pc = th.pc, !.call = th.call, !.tidy = th.tidy]
           tail == [th EXCEPT !.todo = Tail(th.todo)]
<1>2. /\ act'[a] = IF Len(th.todo) > 1 THEN tail ELSE rest
      /\ \A b \in Actor \ {a} : act'[b] = act[b]
  BY BecomesFields DEF Done
<1>3. /\ rest.pc = th.pc /\ rest.todo = <<>> /\ rest.run = NoRun /\ rest.call = th.call
  BY DEF Rest
<1>4. tail.pc = th.pc /\ tail.run = th.run /\ tail.todo = Tail(th.todo) /\ tail.call = th.call
  BY <1>1 DEF Thread
<1>5. Len(th.todo) \in Nat /\ DOMAIN th.todo = 1..Len(th.todo) /\ th.todo[1] = step
      /\ Len(th.todo) > 0
  BY <1>1, LenProperties, EmptySeq
<1>6. step \in ToClose(a)
  BY <1>5 DEF ToClose
<1>7. /\ Tail(th.todo) \in Seq(Step) /\ Len(Tail(th.todo)) = Len(th.todo) - 1
      /\ \A k \in 1..Len(Tail(th.todo)) : Tail(th.todo)[k] = th.todo[k + 1]
      /\ DOMAIN Tail(th.todo) = 1..(Len(th.todo) - 1)
  BY <1>1, HeadTailProperties, LenProperties
<1>8. ToClose(a)' = IF Len(th.todo) > 1
                    THEN {Tail(th.todo)[k] : k \in 1..(Len(th.todo) - 1)} ELSE {}
  BY <1>2, <1>3, <1>4, <1>7 DEF ToClose
<1>9. ToClose(a)' \subseteq ToClose(a)
  <2>1. \A k \in 1..(Len(th.todo) - 1) : Tail(th.todo)[k] = th.todo[k + 1]
                                         /\ k + 1 \in DOMAIN th.todo
    BY <1>5, <1>7
  <2>2. QED
    BY <1>8, <2>1 DEF ToClose
<1>10. ASSUME NEW other \in ToClose(a), other # step
       PROVE  act'[a].run = act[a].run /\ other \in ToClose(a)'
  <2>1. PICK i \in DOMAIN th.todo : th.todo[i] = other
    BY <1>10 DEF ToClose
  <2>2. i # 1 /\ i - 1 \in 1..(Len(th.todo) - 1) /\ Len(th.todo) > 1 /\ (i - 1) + 1 = i
    BY <1>5, <1>10, <2>1
  <2>3. Tail(th.todo)[i - 1] = other
    BY <1>7, <2>1, <2>2
  <2>4. QED
    BY <1>2, <1>4, <1>8, <2>2, <2>3
<1>11. QED
  BY <1>1, <1>2, <1>3, <1>4, <1>6, <1>9, <1>10, OnlyMoves

------------------------------------------------------------------------------
(* Where a call is, and which run it is about *)

CallersRun == act["caller"].run
CallerIn(places) == act["caller"].pc \in places
Closes(r, step) == \E a \in Actor : act[a].run = r /\ step \in ToClose(a)
DeleterAt(pc) == "deleter" \in Others /\ act["deleter"].pc = pc

Young == {"announce", "spawn"}
Up == {"setup", "mark", "announceUp", "adopt"}
Prompting == {"open", "begin", "check3", "send", "wait", "sync", "collect", "complete",
              "settle", "end"}

\* Every run that anything refers to has a row.
Known == /\ \A a \in Actor : act[a].run # NoRun => row[act[a].run] # "none"
         /\ live.run # NoRun => row[live.run] # "none"
         /\ snap.run # NoRun => row[snap.run] # "none"

\* A run whose agent is not spawned yet is known to its caller alone.
Alone == /\ \A r \in Run : row[r] = "none" \/ (CallerIn(Young) /\ CallersRun = r) => agent[r] = "none"
         /\ CallerIn(Young) => \A a \in Actor \ {"caller"} : act[a].run # CallersRun
         /\ CallerIn({"announce"}) => snap.run # CallersRun

\* Who closes a run closes one that is not live any more.
Apart == \A a \in Actor : act[a].todo # <<>> => act[a].run # live.run

\* If a run is live while a call is at work on one, it is this one.
OnItsRun == CallerIn(Up \cup Prompting) =>
              /\ act["caller"].todo = <<>>
              /\ CallersRun \in Run /\ live.run \in {NoRun, CallersRun}

\* A chat is not erased under a call that works on a run of it.
HasChat == /\ CallerIn({"create"} \cup Young \cup Up \cup Prompting) => chat
           /\ \A r \in Run : row[r] = "erased" => ~chat
           /\ DeleterAt("forget") => ~chat

\* Clients are shown the run that is live, and the run a call is at work on.
ShownRun == /\ CallerIn({"spawn"} \cup Up \cup Prompting) => snap.run = CallersRun
            /\ live.run # NoRun => snap.run = live.run

Placed == Known /\ Alone /\ Apart /\ OnItsRun /\ HasChat /\ ShownRun

LEMMA InitPlaced == Init => Placed
<1> SUFFICES ASSUME Init PROVE Placed
  OBVIOUS
<1>1. /\ \A a \in Actor : act[a].pc = "rest" /\ act[a].todo = <<>> /\ act[a].run = NoRun
      /\ live.run = NoRun /\ snap.run = NoRun /\ chat
      /\ \A r \in Run : agent[r] = "none" /\ row[r] = "none"
  BY DEF Init, Rest, NoLive, Blank
<1>2. QED
  BY <1>1, ActorsAre
     DEF Placed, Known, Alone, Apart, OnItsRun, HasChat, ShownRun, CallerIn, DeleterAt, Young, Up,
         Prompting

\* The rows are kept, but for what they say.
SameRows == \A r \in Run : /\ row'[r] = "none" <=> row[r] = "none"
                           /\ row'[r] = "erased" => row[r] = "erased"

LEMMA PlacedStill ==
  ASSUME TypeOK, Placed, UNCHANGED <<chat, row, act>>, live'.run = live.run,
         snap'.run = snap.run,
         \A r \in Run : agent[r] = "none" => agent'[r] = "none"
  PROVE  Placed'
BY DEF Placed, Known, Alone, Apart, OnItsRun, HasChat, ShownRun, CallerIn, CallersRun, DeleterAt

\* The caller goes on, or is done with its run.
LEMMA PlacedCaller ==
  ASSUME TypeOK, Placed, UNCHANGED <<chat, agent>>, SameRows, Only("caller"),
         live'.run = live.run, snap'.run = snap.run,
         act'["caller"].todo = <<>>, act'["caller"].run \in {act["caller"].run, NoRun},
         act'["caller"].pc \in Up \cup Prompting =>
           CallerIn(Up \cup Prompting) /\ act'["caller"].run = act["caller"].run,
         act'["caller"].pc \notin Young,
         act'["caller"].pc = "create" => chat
  PROVE  Placed'
<1>1. "caller" \in Actor /\ ("deleter" \in Others => "deleter" \in Actor \ {"caller"})
  BY ActorsAre DEF Actor
<1>2. \A b \in Actor \ {"caller"} : act'[b] = act[b]
  BY DEF Only
<1>3. /\ \A a \in Actor : act[a].run \in Run \cup {NoRun}
      /\ live.run \in Run \cup {NoRun} /\ snap.run \in Run \cup {NoRun}
  BY ThreadFields DEF TypeOK, LiveRun, Snapshot
<1>4. Known'
  BY <1>1, <1>2, <1>3 DEF Placed, Known, SameRows
<1>5. Alone'
  BY <1>1, <1>2 DEF Placed, Alone, SameRows, CallerIn, CallersRun, Young
<1>6. Apart'
  BY <1>1, <1>2 DEF Placed, Apart
<1>7. OnItsRun' /\ ShownRun'
  BY DEF Placed, OnItsRun, ShownRun, CallerIn, CallersRun, Young
<1>8. HasChat'
  BY <1>1, <1>2 DEF Placed, HasChat, SameRows, CallerIn, DeleterAt
<1>9. QED
  BY <1>4, <1>5, <1>6, <1>7, <1>8 DEF Placed

\* Somebody takes the live run.
LEMMA PlacedTake ==
  ASSUME TypeOK, Standing, Placed, UNCHANGED <<chat, row, snap, agent>>,
         NEW a \in Actor, NEW pc, NEW why \in Why, Take(a, pc, why),
         a = "caller" => pc \notin Young \cup Up \cup Prompting /\ (pc = "create" => chat),
         pc # "forget", act[a].todo = <<>>
  PROVE  Placed'
<1>1. "caller" \in Actor /\ ("deleter" \in Others => "deleter" \in Actor \ {"caller"})
  BY ActorsAre DEF Actor
<1>2. /\ live.run \in Run /\ live'.run = NoRun
      /\ act'[a].pc = pc /\ act'[a].run = live.run
      /\ \A b \in Actor \ {a} : act'[b] = act[b]
  BY TakeMoves DEF Only, NoLive
<1>3. /\ \A b \in Actor : act[b].run \in Run \cup {NoRun}
      /\ snap.run \in Run \cup {NoRun}
  BY ThreadFields DEF TypeOK, Snapshot
<1>4. Known'
  BY <1>2, <1>3 DEF Placed, Known
<1>5. Apart'
  <2>1. NoRun \notin Run
    OBVIOUS
  <2>2. \A b \in Actor : act[b].todo # <<>> => act[b].run # NoRun
    BY DEF Standing, Closing
  <2>3. QED
    BY <1>2, <2>1, <2>2 DEF Placed, Apart
<1>6. ~CallerIn(Young) /\ ~CallerIn(Young)'
  BY <1>1, <1>2 DEF Standing, StartsAlone, NoLive, CallerIn, Young
<1>7. Alone'
  BY <1>1, <1>2, <1>6 DEF Placed, Alone, CallerIn, Young
<1>8. CallerIn(Up \cup Prompting)' => a # "caller"
  BY <1>2 DEF CallerIn
<1>9. OnItsRun'
  BY <1>1, <1>2, <1>8 DEF Placed, OnItsRun, CallerIn, CallersRun
<1>10. ShownRun'
  BY <1>1, <1>2, <1>6, <1>8 DEF Placed, ShownRun, CallerIn, CallersRun, Young
<1>11. HasChat'
  BY <1>1, <1>2 DEF Placed, HasChat, CallerIn, DeleterAt
<1>12. QED
  BY <1>4, <1>5, <1>7, <1>9, <1>10, <1>11 DEF Placed

\* Somebody else goes on, or is done with its run.
LEMMA PlacedOther ==
  ASSUME TypeOK, Standing, Placed, UNCHANGED <<chat, row, agent>>, live'.run = live.run,
         NEW a \in Actor \ {"caller"}, Only(a),
         act'[a].todo = <<>>, act'[a].run \in {act[a].run, NoRun},
         a = "deleter" => act'[a].pc # "forget",
         snap'.run = snap.run \/ (~chat /\ live = NoLive /\ snap'.run = NoRun)
  PROVE  Placed'
<1>1. "caller" \in Actor /\ ("deleter" \in Others => "deleter" \in Actor \ {"caller"})
  BY ActorsAre DEF Actor
<1>2. act'["caller"] = act["caller"] /\ \A b \in Actor \ {a} : act'[b] = act[b]
  BY <1>1 DEF Only
<1>3. /\ \A b \in Actor : act[b].run \in Run \cup {NoRun}
      /\ live.run \in Run \cup {NoRun} /\ snap.run \in Run \cup {NoRun}
  BY ThreadFields DEF TypeOK, LiveRun, Snapshot
<1>4. Known'
  BY <1>2, <1>3 DEF Placed, Known
<1>5. Alone'
  <2>1. CallerIn(Young) => CallersRun \in Run
    BY DEF Standing, StartsAlone, Starting, CallerIn, CallersRun, Young
  <2>2. QED
    BY <1>1, <1>2, <2>1 DEF Placed, Alone, HasChat, CallerIn, CallersRun, Young
<1>6. Apart'
  BY <1>2 DEF Placed, Apart
<1>7. OnItsRun' /\ HasChat'
  BY <1>1, <1>2 DEF Placed, OnItsRun, HasChat, CallerIn, CallersRun, DeleterAt
<1>8. ShownRun'
  BY <1>1, <1>2 DEF Placed, ShownRun, HasChat, CallerIn, CallersRun, NoLive, Young
<1>9. QED
  BY <1>4, <1>5, <1>6, <1>7, <1>8 DEF Placed

\* Publishing is about the run it names, or does nothing.
LEMMA EmitRuns ==
  ASSUME TypeOK, NEW r \in Run \cup {NoRun}, NEW x, NEW y,
         (x # "starting" /\ EmitRun(r, x)) \/ EmitTurn(r, x, y)
  PROVE  snap'.run = snap.run \/ (snap.run = NoRun /\ snap'.run = r)
<1>1. snap \in Snapshot /\ Blank \in Snapshot
  BY DEF TypeOK, Blank, Snapshot
<1>2. AfterRun(snap, r, x).run = r /\ AfterTurn(snap, r, x, y).run = r
  BY <1>1 DEF AfterRun, AfterTurn, Snapshot
<1>3. QED
  BY <1>2 DEF EmitRun, EmitTurn, RunRefused, TurnRefused

\* Somebody closes what it has taken.
LEMMA PlacedClose ==
  ASSUME TypeOK, Standing, Placed, NEW a \in Actor, Close(a)
  PROVE  Placed'
<1>1. "caller" \in Actor /\ ("deleter" \in Others => "deleter" \in Actor)
  BY ActorsAre DEF Actor
<1>2. PICK step : Due(a, step) /\ Done(a)
  BY DEF Close, CloseAsks, CloseAgent, CloseTexts, CloseTurn, CloseRow, CloseRun
<1>3. /\ act[a].todo # <<>> /\ act'[a].pc = act[a].pc
      /\ act'[a].todo # <<>> => act'[a].run = act[a].run
      /\ act'[a].run \in {act[a].run, NoRun}
      /\ \A b \in Actor \ {a} : act'[b] = act[b]
  BY <1>2, DoneMoves DEF Only
<1>4. /\ \A b \in Actor : act[b].run \in Run \cup {NoRun}
      /\ live.run \in Run \cup {NoRun} /\ snap.run \in Run \cup {NoRun}
      /\ snap \in Snapshot /\ row \in [Run -> RunStatus \cup {"none", "erased"}]
  BY ThreadFields DEF TypeOK, LiveRun, Snapshot
<1>5. act[a].run \in Run /\ row[act[a].run] # "none" /\ NoRun \notin Run
  BY <1>3, <1>4 DEF Placed, Known, Standing, Closing
<1>6. UNCHANGED <<chat, live>>
  BY DEF Close, CloseAsks, CloseAgent, CloseTexts, CloseTurn, CloseRow, CloseRun, WriteRow, store
<1>7. SameRows
  <2>1. CASE CloseRow(a)
    <3>1. WriteRow(act[a].run, RunEnd(act[a].end))
      BY <2>1 DEF CloseRow
    <3>2. QED
      BY <1>4, <1>5, <3>1 DEF WriteRow, RunEnd, SameRows
  <2>2. CASE ~CloseRow(a)
    <3>1. row' = row
      BY <2>2 DEF Close, CloseAsks, CloseAgent, CloseTexts, CloseTurn, CloseRun, store
    <3>2. QED
      BY <3>1 DEF SameRows
  <2>3. QED
    BY <2>1, <2>2
<1>8. \A r \in Run : agent[r] = "none" => agent'[r] = "none"
  BY DEF Close, CloseAsks, CloseAgent, CloseTexts, CloseTurn, CloseRow, CloseRun, TypeOK
<1>9. snap'.run = snap.run \/ (snap.run = NoRun /\ snap'.run = act[a].run)
  <2>1. CASE CloseTurn(a)
    BY <1>4, <2>1, EmitRuns DEF CloseTurn
  <2>2. CASE CloseRun(a)
    BY <1>4, <2>2, EmitRuns DEF CloseRun, RunEnd
  <2>3. CASE CloseAsks(a)
    BY <1>4, <2>3 DEF CloseAsks, Snapshot
  <2>4. CASE CloseAgent(a) \/ CloseTexts(a) \/ CloseRow(a)
    BY <2>4 DEF CloseAgent, CloseTexts, CloseRow
  <2>5. QED
    BY <2>1, <2>2, <2>3, <2>4 DEF Close
<1>10. a = "caller" => ~CallerIn(Young \cup Up \cup Prompting)
  BY <1>3 DEF Standing, StartsAlone, Starting, At, CallerIn, Young, Up, Placed, OnItsRun
<1>11. /\ CallerIn(Young)' <=> CallerIn(Young)
       /\ CallerIn({"announce"})' <=> CallerIn({"announce"})
       /\ CallerIn(Up \cup Prompting)' <=> CallerIn(Up \cup Prompting)
       /\ CallerIn({"spawn"} \cup Up \cup Prompting)' <=> CallerIn({"spawn"} \cup Up \cup Prompting)
       /\ CallerIn({"create"} \cup Young \cup Up \cup Prompting)'
            <=> CallerIn({"create"} \cup Young \cup Up \cup Prompting)
       /\ DeleterAt("forget")' <=> DeleterAt("forget")
       /\ CallerIn(Young \cup Up \cup Prompting) => act'["caller"] = act["caller"]
  BY <1>1, <1>3, <1>10 DEF CallerIn, DeleterAt
<1>12. Known'
  BY <1>3, <1>4, <1>5, <1>6, <1>7, <1>9 DEF Placed, Known, SameRows
<1>13. Alone'
  <2>1. \A r \in Run : row'[r] = "none" \/ (CallerIn(Young)' /\ CallersRun' = r) => agent'[r] = "none"
    BY <1>7, <1>8, <1>11 DEF Placed, Alone, SameRows, CallersRun, CallerIn
  <2>2. CallerIn(Young) => CallersRun \in Run
    BY DEF Standing, StartsAlone, Starting, CallerIn, CallersRun, Young
  <2>3. CallerIn(Young) => /\ act'["caller"] = act["caller"] /\ a # "caller"
                           /\ act[a].run # CallersRun
    BY <1>10, <1>11 DEF CallerIn, Placed, Alone
  <2>4. CallerIn(Young)' => \A b \in Actor \ {"caller"} : act'[b].run # CallersRun'
    BY <1>3, <1>11, <2>2, <2>3 DEF Placed, Alone, CallersRun
  <2>5. CallerIn({"announce"})' => snap'.run # CallersRun'
    BY <1>9, <1>11, <2>3 DEF Placed, Alone, CallersRun, CallerIn, Young
  <2>6. QED
    BY <2>1, <2>4, <2>5 DEF Alone
<1>14. Apart'
  BY <1>3, <1>6 DEF Placed, Apart
<1>15. OnItsRun'
  BY <1>6, <1>11 DEF Placed, OnItsRun, CallersRun, CallerIn
<1>16. HasChat'
  BY <1>6, <1>7, <1>11 DEF Placed, HasChat, SameRows
<1>17. ShownRun'
  <2>1. CallerIn({"spawn"} \cup Up \cup Prompting) => CallersRun \in Run
    BY DEF Standing, StartsAlone, Starting, CallerIn, CallersRun, Placed, OnItsRun
  <2>2. CallerIn({"spawn"} \cup Up \cup Prompting)' => snap'.run = CallersRun'
    BY <1>4, <1>5, <1>9, <1>11, <2>1 DEF Placed, ShownRun, CallersRun, CallerIn, Young
  <2>3. QED
    BY <1>4, <1>5, <1>6, <1>9, <2>2 DEF Placed, ShownRun
<1>18. QED
  BY <1>12, <1>13, <1>14, <1>15, <1>16, <1>17 DEF Placed

\* Whoever is spawned, live and shown: a call's own run, step by step.
LEMMA PlacedCreate ==
  ASSUME TypeOK, Standing, Placed, Create
  PROVE  Placed'
<1>1. "caller" \in Actor /\ ("deleter" \in Others => "deleter" \in Actor \ {"caller"})
  BY ActorsAre DEF Actor
<1>2. At("caller", "create") /\ UNCHANGED <<chat, live, snap, agent>>
  BY DEF Create
<1>3. PICK r \in Run : /\ row[r] = "none" /\ row' = [row EXCEPT ![r] = "starting"]
                       /\ Becomes("caller", [act["caller"] EXCEPT !.pc = "announce", !.run = r])
  BY DEF Create
<1>4. /\ act'["caller"].pc = "announce" /\ act'["caller"].run = r
      /\ act'["caller"].todo = <<>>
      /\ \A b \in Actor \ {"caller"} : act'[b] = act[b]
  <2>1. /\ act'["caller"] = [act["caller"] EXCEPT !.pc = "announce", !.run = r]
        /\ \A b \in Actor \ {"caller"} : act'[b] = act[b]
    BY <1>1, <1>3, BecomesFields
  <2>2. act["caller"] \in Thread
    BY <1>1, ThreadFields
  <2>3. QED
    BY <1>2, <2>1, <2>2 DEF Thread, At
<1>5. /\ row \in [Run -> RunStatus \cup {"none", "erased"}] /\ live = NoLive /\ chat
      /\ \A a \in Actor : act[a].run \in Run \cup {NoRun}
      /\ snap.run \in Run \cup {NoRun}
  BY <1>2, ThreadFields DEF TypeOK, Standing, StartsAlone, At, Snapshot
<1>6. /\ row'[r] = "starting" /\ agent[r] = "none"
      /\ \A s \in Run \ {r} : row'[s] = row[s]
      /\ \A a \in Actor : act[a].run # r
      /\ snap.run # r
  BY <1>3, <1>5 DEF Placed, Known, Alone
<1>7. Known'
  BY <1>2, <1>4, <1>5, <1>6 DEF Placed, Known, NoLive
<1>8. Alone'
  BY <1>1, <1>2, <1>4, <1>6 DEF Placed, Alone, CallerIn, CallersRun, Young
<1>9. Apart'
  BY <1>2, <1>4 DEF Placed, Apart
<1>10. OnItsRun' /\ ShownRun'
  BY <1>2, <1>4, <1>5 DEF OnItsRun, ShownRun, CallerIn, Up, Prompting, NoLive
<1>11. HasChat'
  BY <1>1, <1>2, <1>4, <1>5, <1>6 DEF Placed, HasChat, DeleterAt
<1>12. QED
  BY <1>7, <1>8, <1>9, <1>10, <1>11 DEF Placed

LEMMA StartShown ==
  ASSUME TypeOK, Standing, Placed, AnnounceStart
  PROVE  snap' = [Blank EXCEPT !.run = CallersRun, !.status = "starting"] /\ asks' = asks
<1>1. At("caller", "announce") /\ EmitRun(CallersRun, "starting")
  BY DEF AnnounceStart, CallersRun
<1>2. CallersRun \in Run /\ chat /\ snap.run # CallersRun
  BY <1>1 DEF At, Standing, StartsAlone, Starting, CallersRun, CallerIn, Placed, Alone, HasChat
<1>3. row[CallersRun] # "erased"
  BY <1>2 DEF Placed, HasChat
<1>4. ~RunRefused(snap, CallersRun, "starting")
  BY <1>2 DEF RunRefused
<1>5. AfterRun(snap, CallersRun, "starting") = [Blank EXCEPT !.run = CallersRun, !.status = "starting"]
  BY DEF AfterRun, Terminal
<1>6. QED
  BY <1>1, <1>3, <1>4, <1>5 DEF EmitRun, Terminal

LEMMA PlacedAnnounceStart ==
  ASSUME TypeOK, Standing, Placed, AnnounceStart
  PROVE  Placed'
<1>1. "caller" \in Actor /\ ("deleter" \in Others => "deleter" \in Actor \ {"caller"})
  BY ActorsAre DEF Actor
<1>2. /\ At("caller", "announce") /\ Goto("caller", "spawn")
      /\ UNCHANGED <<chat, row, live, agent>>
  BY DEF AnnounceStart, store
<1>3. /\ act'["caller"].pc = "spawn" /\ act'["caller"].run = CallersRun
      /\ act'["caller"].todo = <<>>
      /\ \A b \in Actor \ {"caller"} : act'[b] = act[b]
  BY <1>1, <1>2, GotoMoves DEF At, Only, CallersRun
<1>4. CallersRun \in Run /\ live = NoLive
  BY <1>2 DEF At, Standing, StartsAlone, Starting, CallersRun
<1>5. snap'.run = CallersRun
  BY <1>4, StartShown DEF Blank
<1>6. Known'
  BY <1>1, <1>2, <1>3, <1>5 DEF Placed, Known, CallersRun
<1>7. Alone'
  BY <1>1, <1>2, <1>3 DEF Placed, Alone, CallerIn, CallersRun, Young, At
<1>8. Apart' /\ OnItsRun'
  BY <1>2, <1>3 DEF Placed, Apart, OnItsRun, CallerIn, Up, Prompting
<1>9. HasChat'
  BY <1>1, <1>2, <1>3 DEF Placed, HasChat, DeleterAt, CallerIn, At, Young
<1>10. ShownRun'
  BY <1>2, <1>3, <1>4, <1>5 DEF ShownRun, CallersRun, NoLive
<1>11. QED
  BY <1>6, <1>7, <1>8, <1>9, <1>10 DEF Placed

\* The caller gives up what it has not spawned, or has.
LEMMA PlacedGivesUp ==
  ASSUME TypeOK, Standing, Placed, UNCHANGED <<chat, row, snap, agent>>,
         CallerIn({"spawn"} \cup Up), Only("caller"),
         live'.run = IF live.run = CallersRun THEN NoRun ELSE live.run,
         act'["caller"].pc = "fail", act'["caller"].run = CallersRun
  PROVE  Placed'
<1>1. "caller" \in Actor /\ ("deleter" \in Others => "deleter" \in Actor \ {"caller"})
  BY ActorsAre DEF Actor
<1>2. \A b \in Actor \ {"caller"} : act'[b] = act[b]
  BY DEF Only
<1>3. /\ CallersRun \in Run /\ live.run \in Run \cup {NoRun}
      /\ \A b \in Actor : act[b].todo # <<>> => act[b].run # NoRun
  BY DEF CallerIn, Up, Standing, StartsAlone, Starting, Closing, CallersRun, TypeOK, LiveRun
<1>4. Known'
  BY <1>1, <1>2, <1>3 DEF Placed, Known, CallersRun
<1>5. Alone'
  BY <1>1, <1>2 DEF Placed, Alone, CallerIn, Young
<1>6. Apart'
  BY <1>1, <1>2, <1>3 DEF Placed, Apart, CallersRun
<1>7. OnItsRun' /\ HasChat' /\ ShownRun'
  BY <1>1, <1>2
     DEF Placed, OnItsRun, HasChat, ShownRun, CallerIn, DeleterAt, Young, Up, Prompting
<1>8. QED
  BY <1>4, <1>5, <1>6, <1>7 DEF Placed

LEMMA PlacedSpawn ==
  ASSUME TypeOK, Standing, Placed, Spawn
  PROVE  Placed'
<1>1. "caller" \in Actor /\ ("deleter" \in Others => "deleter" \in Actor \ {"caller"})
  BY ActorsAre DEF Actor
<1>2. At("caller", "spawn") /\ UNCHANGED <<chat, row, snap>>
  BY DEF Spawn, store
<1>3. CallersRun \in Run /\ live = NoLive
  BY <1>2 DEF At, Standing, StartsAlone, Starting, CallersRun
<1>4. CASE /\ live' = [NoLive EXCEPT !.run = CallersRun]
           /\ agent' = [agent EXCEPT ![CallersRun] = "up"]
           /\ Goto("caller", "setup")
  <2>1. /\ act'["caller"].pc = "setup" /\ act'["caller"].run = CallersRun
        /\ act'["caller"].todo = <<>>
        /\ \A b \in Actor \ {"caller"} : act'[b] = act[b]
    BY <1>1, <1>2, <1>4, GotoMoves DEF At, Only, CallersRun
  <2>2. live'.run = CallersRun
    BY <1>4 DEF NoLive
  <2>3. /\ row[CallersRun] # "none" /\ snap.run = CallersRun /\ chat
        /\ \A a \in Actor \ {"caller"} : act[a].run # CallersRun
    BY <1>1, <1>2, <1>3 DEF Placed, Known, Alone, HasChat, ShownRun, CallerIn, CallersRun, At, Young
  <2>4. Known'
    BY <1>1, <1>2, <2>1, <2>2, <2>3 DEF Placed, Known
  <2>5. Alone'
    BY <1>2, <1>4, <2>1, <2>3 DEF Placed, Alone, CallerIn, Young
  <2>6. Apart'
    BY <2>1, <2>2, <2>3 DEF Apart
  <2>7. OnItsRun' /\ ShownRun'
    BY <1>2, <1>3, <2>1, <2>2, <2>3 DEF OnItsRun, ShownRun, CallersRun
  <2>8. HasChat'
    BY <1>1, <1>2, <2>1, <2>3 DEF Placed, HasChat, DeleterAt
  <2>9. QED
    BY <2>4, <2>5, <2>6, <2>7, <2>8 DEF Placed
<1>5. CASE /\ Becomes("caller", [act["caller"] EXCEPT !.pc = "fail", !.end = "start",
                                                      !.todo = <<"row", "run">>])
           /\ UNCHANGED <<live, agent, wire>>
  <2>1. /\ act'["caller"].pc = "fail" /\ act'["caller"].run = CallersRun
        /\ Only("caller")
    <3>1. /\ act'["caller"] = [act["caller"] EXCEPT !.pc = "fail", !.end = "start",
                                                    !.todo = <<"row", "run">>]
          /\ \A b \in Actor \ {"caller"} : act'[b] = act[b]
      BY <1>1, <1>5, BecomesFields
    <3>2. act["caller"] \in Thread
      BY <1>1, ThreadFields
    <3>3. QED
      BY <3>1, <3>2, OnlyMoves DEF Thread, CallersRun
  <2>2. CallerIn({"spawn"} \cup Up)
    BY <1>2 DEF CallerIn, At
  <2>3. live'.run = IF live.run = CallersRun THEN NoRun ELSE live.run
    BY <1>3, <1>5 DEF NoLive
  <2>4. QED
    BY <1>2, <1>5, <2>1, <2>2, <2>3, PlacedGivesUp
<1>6. QED
  BY <1>4, <1>5 DEF Spawn, CallersRun

LEMMA FailedSetUp ==
  ASSUME TypeOK, SetUpFails
  PROVE  /\ act'["caller"].pc = "fail" /\ act'["caller"].run = CallersRun
         /\ act'["caller"].call = act["caller"].call
         /\ "asks" \in ToClose("caller")' /\ "run" \in ToClose("caller")'
         /\ "kill" \in ToClose("caller")' /\ Only("caller")
<1> DEFINE plan == Plan("start", FALSE)
<1>0. "caller" \in Actor
  BY ActorsAre
<1>1. Has(plan, "asks") /\ Has(plan, "run") /\ Has(plan, "kill")
  BY PlanHas DEF Why
<1> HIDE DEF plan
<1>2. Becomes("caller", [act["caller"] EXCEPT !.pc = "fail", !.end = "start", !.todo = plan])
  BY DEF SetUpFails, plan
<1>3. /\ act'["caller"].pc = "fail" /\ act'["caller"].run = CallersRun
      /\ act'["caller"].call = act["caller"].call
      /\ act'["caller"].todo = plan /\ Only("caller")
  <2>1. /\ act'["caller"] = [act["caller"] EXCEPT !.pc = "fail", !.end = "start", !.todo = plan]
        /\ \A b \in Actor \ {"caller"} : act'[b] = act[b]
    BY <1>0, <1>2, BecomesFields
  <2>2. act["caller"] \in Thread
    BY <1>0, ThreadFields
  <2>3. QED
    BY <2>1, <2>2, OnlyMoves DEF Thread, CallersRun
<1>4. QED
  BY <1>1, <1>3 DEF ToClose, Has

LEMMA PlacedSetUpFails ==
  ASSUME TypeOK, Standing, Placed, SetUpFails
  PROVE  Placed'
<1>1. /\ UNCHANGED <<chat, row, snap, agent>> /\ CallerIn({"spawn"} \cup Up)
      /\ live' = IF live.run = CallersRun THEN NoLive ELSE live
  BY DEF SetUpFails, store, CallerIn, At, CallersRun, Up
<1>2. live'.run = IF live.run = CallersRun THEN NoRun ELSE live.run
  BY <1>1 DEF NoLive
<1>3. QED
  BY <1>1, <1>2, FailedSetUp, PlacedGivesUp

LEMMA PlacedLoad ==
  ASSUME TypeOK, Standing, Placed, Load
  PROVE  Placed'
<1>1. "caller" \in Actor /\ ("deleter" \in Others => "deleter" \in Actor \ {"caller"})
  BY ActorsAre DEF Actor
<1>2. At("caller", "load") /\ UNCHANGED <<chat, row, live, snap, agent>>
  BY DEF Load
<1>3. SameRows
  BY <1>2 DEF SameRows
<1>4. CASE Goto("caller", "fail")
  <2>1. /\ act'["caller"].pc = "fail" /\ act'["caller"].run = act["caller"].run
        /\ act'["caller"].todo = <<>> /\ Only("caller")
    BY <1>1, <1>2, <1>4, GotoMoves DEF At
  <2>2. QED
    BY <1>2, <1>3, <2>1, PlacedCaller DEF Up, Prompting, Young
<1>5. CASE /\ live.run # NoRun
           /\ Becomes("caller", [act["caller"] EXCEPT !.pc = "open", !.run = live.run])
  <2>1. /\ act'["caller"].pc = "open" /\ act'["caller"].run = live.run
        /\ act'["caller"].todo = <<>>
        /\ \A b \in Actor \ {"caller"} : act'[b] = act[b]
    <3>1. /\ act'["caller"] = [act["caller"] EXCEPT !.pc = "open", !.run = live.run]
          /\ \A b \in Actor \ {"caller"} : act'[b] = act[b]
      BY <1>1, <1>5, BecomesFields
    <3>2. act["caller"] \in Thread
      BY <1>1, ThreadFields
    <3>3. QED
      BY <1>2, <3>1, <3>2 DEF Thread, At
  <2>2. live.run \in Run /\ chat /\ live # NoLive
    BY <1>5 DEF TypeOK, LiveRun, Standing, Emptied, NoLiveWithoutChat, NoLive
  <2>3. Known'
    BY <1>1, <1>2, <2>1 DEF Placed, Known
  <2>4. Alone'
    BY <1>2, <2>1 DEF Placed, Alone, CallerIn, Young
  <2>5. Apart'
    BY <1>2, <2>1 DEF Placed, Apart
  <2>6. OnItsRun' /\ ShownRun'
    BY <1>2, <2>1, <2>2 DEF Placed, OnItsRun, ShownRun, CallersRun
  <2>7. HasChat'
    BY <1>1, <1>2, <2>1, <2>2 DEF Placed, HasChat, DeleterAt
  <2>8. QED
    BY <2>3, <2>4, <2>5, <2>6, <2>7 DEF Placed
<1>6. QED
  BY <1>4, <1>5 DEF Load

LEMMA PlacedErase ==
  ASSUME TypeOK, Standing, Placed, NEW a \in Others, a = "deleter", Erase(a)
  PROVE  Placed'
<1>1. "caller" \in Actor /\ a \in Actor \ {"caller"}
  BY ActorsAre
<1>2. /\ At(a, "erase") /\ Goto(a, "forget") /\ chat' = FALSE /\ row' = Erased(row)
      /\ UNCHANGED <<live, snap, agent>>
  BY DEF Erase
<1>3. /\ act'[a].pc = "forget" /\ act'[a].run = act[a].run /\ act'[a].todo = <<>>
      /\ \A b \in Actor \ {a} : act'[b] = act[b]
  BY <1>1, <1>2, GotoMoves DEF At, Only
<1>4. lock = "deleter" /\ live = NoLive
  BY <1>2 DEF At, Standing, Locked, Emptied, Holding
<1>5. act["caller"].pc \in {"rest", "lock"} /\ act'["caller"].pc \in {"rest", "lock"}
  BY <1>1, <1>3, <1>4 DEF Standing, Locked
<1>6. \A r \in Run : row'[r] = "none" <=> row[r] = "none"
  BY <1>2 DEF TypeOK, Erased
<1>7. /\ \A b \in Actor : act[b].run \in Run \cup {NoRun}
      /\ live.run \in Run \cup {NoRun} /\ snap.run \in Run \cup {NoRun}
  BY ThreadFields DEF TypeOK, LiveRun, Snapshot
<1>8. Known'
  BY <1>2, <1>3, <1>6, <1>7 DEF Placed, Known
<1>9. Alone' /\ Apart' /\ OnItsRun' /\ ShownRun' /\ HasChat'
  BY <1>2, <1>3, <1>5, <1>6
     DEF Placed, Alone, Apart, OnItsRun, ShownRun, HasChat, CallerIn, Young, Up, Prompting
<1>10. QED
  BY <1>8, <1>9 DEF Placed

\* The caller goes on.
LEMMA PlacedWalk ==
  ASSUME TypeOK, Placed, UNCHANGED <<chat, agent>>, SameRows,
         NEW from, NEW to, At("caller", from), Goto("caller", to),
         live'.run = live.run, snap'.run = snap.run,
         to \in Up \cup Prompting => from \in Up \cup Prompting,
         to \notin Young, to = "create" => chat
  PROVE  Placed'
<1>1. /\ act'["caller"].pc = to /\ act'["caller"].run = act["caller"].run
      /\ act'["caller"].todo = <<>> /\ Only("caller")
  BY GotoMoves, ActorsAre DEF At
<1>2. QED
  BY <1>1, PlacedCaller DEF At, CallerIn

\* ... or takes what is live.
LEMMA PlacedTakeIfAny ==
  ASSUME TypeOK, Standing, Placed, UNCHANGED <<chat, row, snap, agent>>,
         NEW from, NEW to, At("caller", from), NEW why \in Why, TakeIfAny("caller", to, why),
         to \notin Young \cup Up \cup Prompting, to # "forget", to = "create" => chat
  PROVE  Placed'
<1>1. CASE live.run = NoRun
  <2>1. Goto("caller", to) /\ live' = live /\ SameRows
    BY <1>1 DEF TakeIfAny, SameRows
  <2>2. QED
    BY <2>1, PlacedWalk
<1>2. CASE live.run # NoRun
  <2>1. Take("caller", to, why) /\ act["caller"].todo = <<>> /\ "caller" \in Actor
    BY <1>2, ActorsAre DEF TakeIfAny, At
  <2>2. QED
    BY <2>1, PlacedTake
<1>3. QED
  BY <1>1, <1>2

LEMMA PlacedFailPrompt ==
  ASSUME TypeOK, Standing, Placed, UNCHANGED <<chat, row, snap, agent>>,
         NEW from, At("caller", from), FailPrompt
  PROVE  Placed'
<1>1. CASE Take("caller", "fail", "prompt")
  <2>1. act["caller"].todo = <<>> /\ "caller" \in Actor
    BY ActorsAre DEF At
  <2>2. QED
    BY <1>1, <2>1, PlacedTake DEF Why, Young, Up, Prompting
<1>2. CASE Goto("caller", "fail") /\ UNCHANGED live
  <2>1. SameRows
    BY DEF SameRows
  <2>2. QED
    BY <1>2, <2>1, PlacedWalk DEF Young, Up, Prompting
<1>3. QED
  BY <1>1, <1>2 DEF FailPrompt

\* Publishing something about the run a call is at work on.
LEMMA CallerEmits ==
  ASSUME TypeOK, Placed, CallerIn(Up \cup Prompting), NEW x, NEW y,
         (x # "starting" /\ EmitRun(CallersRun, x)) \/ EmitTurn(CallersRun, x, y)
  PROVE  snap'.run = snap.run
<1>1. CallersRun \in Run /\ snap.run = CallersRun
  BY DEF Placed, OnItsRun, ShownRun, CallerIn
<1>2. NoRun \notin Run
  OBVIOUS
<1>3. QED
  BY <1>1, <1>2, EmitRuns

\* A call begins: a prompt, which has a stop flag, or a start, which has none.
BeginMoves == /\ act'["caller"].pc = "lock" /\ act'["caller"].run = act["caller"].run
              /\ act'["caller"].todo = <<>> /\ Only("caller")
              /\ act'["caller"].call \in {act["caller"].call, calls + 1}

LEMMA BeginsAtLock ==
  ASSUME TypeOK, Begin
  PROVE  BeginMoves
<1>0. "caller" \in Actor /\ act["caller"] \in Thread /\ act["caller"].todo = <<>>
  BY ActorsAre, ThreadFields DEF Begin, At
<1>1. CASE Goto("caller", "lock")
  BY <1>0, <1>1, GotoMoves DEF BeginMoves
<1>2. CASE Becomes("caller", [act["caller"] EXCEPT !.pc = "lock", !.call = calls + 1])
  <2>1. /\ act'["caller"] = [act["caller"] EXCEPT !.pc = "lock", !.call = calls + 1]
        /\ \A b \in Actor \ {"caller"} : act'[b] = act[b]
    BY <1>0, <1>2, BecomesFields
  <2>2. QED
    BY <1>0, <2>1, OnlyMoves DEF Thread, BeginMoves
<1>3. QED
  BY <1>1, <1>2 DEF Begin

LEMMA PlacedCallerStep ==
  ASSUME TypeOK, Standing, Placed, Begin \/ Caller
  PROVE  Placed'
<1>0. "caller" \in Actor /\ NoRun \notin Run
  BY ActorsAre
<1>1. CASE Begin
  <2>1. /\ act["caller"].todo = <<>> /\ act["caller"].pc = "rest"
        /\ UNCHANGED <<chat, row, live, snap, agent>> /\ SameRows
    BY <1>1 DEF Begin, At, store, SameRows
  <2>2. BeginMoves
    BY <1>1, BeginsAtLock
  <2>3. QED
    BY <2>1, <2>2, PlacedCaller DEF BeginMoves, Up, Prompting, Young
<1>2. CASE Lock
  <2>1. /\ At("caller", "lock") /\ \E to \in {"check1", "replace", "done"} : Goto("caller", to)
        /\ UNCHANGED <<chat, row, live, snap, agent>>
    BY <1>2 DEF Lock, store
  <2>2. SameRows
    BY <2>1 DEF SameRows
  <2>3. QED
    BY <2>1, <2>2, PlacedWalk DEF Up, Prompting, Young
<1>3. CASE Choose
  <2>1. /\ At("caller", "choose") /\ \E to \in {"check2", "replace"} : Goto("caller", to)
        /\ UNCHANGED <<chat, row, live, snap, agent>>
    BY <1>3 DEF Choose, store
  <2>2. SameRows
    BY <2>1 DEF SameRows
  <2>3. QED
    BY <2>1, <2>2, PlacedWalk DEF Up, Prompting, Young
<1>4. CASE \E pc \in {"check1", "check2", "check3"}, next \in {"choose", "load", "send"} :
             Check(pc, next) /\ (next = "send" => pc = "check3")
  <2>1. PICK pc \in {"check1", "check2", "check3"}, next \in {"choose", "load", "send"} :
          Check(pc, next) /\ (next = "send" => pc = "check3")
    BY <1>4
  <2>2. At("caller", pc) /\ UNCHANGED <<chat, row, snap, agent>> /\ SameRows
    BY <2>1 DEF Check, store, SameRows
  <2>3. CASE TakeIfAny("caller", "fail", "cancel")
    <3>1. "fail" \notin Young \cup Up \cup Prompting /\ "cancel" \in Why
      BY DEF Why, Up, Prompting, Young
    <3>2. QED
      BY <2>2, <2>3, <3>1, PlacedTakeIfAny
  <2>4. CASE Goto("caller", next) /\ UNCHANGED live
    <3>1. /\ next \in Up \cup Prompting => pc \in Up \cup Prompting
          /\ next \notin Young /\ next # "create"
      BY <2>1 DEF Up, Prompting, Young
    <3>2. QED
      BY <2>2, <2>4, <3>1, PlacedWalk
  <2>5. QED
    BY <2>1, <2>3, <2>4 DEF Check
<1>5. CASE Replace
  <2>1. At("caller", "replace") /\ UNCHANGED <<chat, row, snap, agent>> /\ SameRows
    BY <1>5 DEF Replace, store, SameRows
  <2>2. CASE chat
    <3>1. "create" \notin Young \cup Up \cup Prompting /\ "replace" \in Why
      BY DEF Why, Up, Prompting, Young
    <3>2. TakeIfAny("caller", "create", "replace")
      BY <1>5, <2>2 DEF Replace
    <3>3. QED
      BY <2>1, <2>2, <3>1, <3>2, PlacedTakeIfAny
  <2>3. CASE ~chat
    BY <1>5, <2>1, <2>3, PlacedWalk DEF Replace, Up, Prompting, Young
  <2>4. QED
    BY <2>2, <2>3
<1>6. CASE SetUp
  <2>1. /\ At("caller", "setup") /\ Goto("caller", "mark")
        /\ UNCHANGED <<chat, row, live, snap, agent>>
    BY <1>6 DEF SetUp, store
  <2>2. SameRows
    BY <2>1 DEF SameRows
  <2>3. QED
    BY <2>1, <2>2, PlacedWalk DEF Up, Prompting, Young
<1>7. CASE MarkRunning
  <2>1. /\ At("caller", "mark") /\ Goto("caller", "announceUp")
        /\ UNCHANGED <<chat, live, snap, agent>>
    BY <1>7 DEF MarkRunning, store, WriteRow
  <2>2. SameRows
    <3>1. /\ WriteRow(CallersRun, "running") /\ CallersRun \in Run /\ row[CallersRun] # "none"
      BY <1>0, <1>7, <2>1 DEF MarkRunning, CallersRun, At, Standing, StartsAlone, Starting, Placed, Known
    <3>2. QED
      BY <3>1 DEF WriteRow, SameRows, TypeOK
  <2>3. QED
    BY <2>1, <2>2, PlacedWalk DEF Up, Prompting, Young
<1>8. CASE AnnounceUp
  <2>1. /\ At("caller", "announceUp") /\ Goto("caller", "adopt")
        /\ UNCHANGED <<chat, row, live, agent>>
    BY <1>8 DEF AnnounceUp, store
  <2>2. SameRows
    BY <2>1 DEF SameRows
  <2>3. snap'.run = snap.run
    <3>1. CallerIn(Up \cup Prompting)
      BY <2>1 DEF At, CallerIn, Up, Prompting
    <3>2. QED
      BY <1>8, <3>1, CallerEmits DEF AnnounceUp, CallersRun
  <2>4. QED
    BY <2>1, <2>2, <2>3, PlacedWalk DEF Up, Prompting, Young
<1>9. CASE Adopt
  <2>1. /\ At("caller", "adopt") /\ \E to \in {"done", "check2", "fail"} : Goto("caller", to)
        /\ UNCHANGED <<chat, row, snap, agent>>
    BY <1>9 DEF Adopt, store
  <2>2. SameRows
    BY <2>1 DEF SameRows
  <2>3. live'.run = live.run
    BY <1>9 DEF Adopt, TypeOK, LiveRun
  <2>4. QED
    BY <2>1, <2>2, <2>3, PlacedWalk DEF Up, Prompting, Young
<1>10. CASE OpenTurn
  <2>1. /\ At("caller", "open") /\ Goto("caller", "begin")
        /\ UNCHANGED <<chat, row, snap, agent>>
    BY <1>10 DEF OpenTurn, store
  <2>2. SameRows
    BY <2>1 DEF SameRows
  <2>3. live'.run = live.run
    BY <1>10 DEF OpenTurn, TypeOK, LiveRun
  <2>4. QED
    BY <2>1, <2>2, <2>3, PlacedWalk DEF Up, Prompting, Young
<1>11. CASE AnnounceTurn
  <2>1. /\ At("caller", "begin") /\ Goto("caller", "check3")
        /\ UNCHANGED <<chat, row, live, agent>>
    BY <1>11 DEF AnnounceTurn, store
  <2>2. SameRows
    BY <2>1 DEF SameRows
  <2>3. snap'.run = snap.run
    <3>1. CallerIn(Up \cup Prompting)
      BY <2>1 DEF At, CallerIn, Up, Prompting
    <3>2. QED
      BY <1>11, <3>1, CallerEmits DEF AnnounceTurn, CallersRun
  <2>4. QED
    BY <2>1, <2>2, <2>3, PlacedWalk DEF Up, Prompting, Young
<1>12. CASE Send
  <2>1. At("caller", "send") /\ UNCHANGED <<chat, row, snap, agent>> /\ SameRows
    BY <1>12 DEF Send, store, SameRows
  <2>2. CASE Goto("caller", "wait") /\ UNCHANGED live
    BY <2>1, <2>2, PlacedWalk DEF Up, Prompting, Young
  <2>3. QED
    BY <1>12, <2>1, <2>2, PlacedFailPrompt DEF Send
<1>13. CASE Answered
  <2>1. /\ At("caller", "wait") /\ Goto("caller", "sync")
        /\ UNCHANGED <<chat, row, live, snap, agent>>
    BY <1>13 DEF Answered, store
  <2>2. SameRows
    BY <2>1 DEF SameRows
  <2>3. QED
    BY <2>1, <2>2, PlacedWalk DEF Up, Prompting, Young
<1>14. CASE TurnFails
  <2>1. /\ At("caller", "wait") \/ At("caller", "sync")
        /\ UNCHANGED <<chat, row, snap, agent>> /\ FailPrompt
    BY <1>14 DEF TurnFails, store
  <2>2. QED
    BY <2>1, PlacedFailPrompt
<1>15. CASE Collect
  <2>1. /\ At("caller", "collect") /\ UNCHANGED <<chat, row, snap, agent>> /\ SameRows
        /\ Becomes("caller", [act["caller"] EXCEPT !.pc = "complete", !.msgs = live.open])
    BY <1>15 DEF Collect, store, SameRows
  <2>2. live'.run = live.run
    BY <1>15 DEF Collect, TypeOK, LiveRun
  <2>3. /\ act'["caller"].pc = "complete" /\ act'["caller"].run = act["caller"].run
        /\ act'["caller"].todo = <<>> /\ Only("caller")
    <3>1. /\ act'["caller"] = [act["caller"] EXCEPT !.pc = "complete", !.msgs = live.open]
          /\ \A b \in Actor \ {"caller"} : act'[b] = act[b]
      BY <1>0, <2>1, BecomesFields
    <3>2. act["caller"] \in Thread
      BY <1>0, ThreadFields
    <3>3. QED
      BY <2>1, <3>1, <3>2, OnlyMoves DEF Thread, At
  <2>4. QED
    BY <2>1, <2>2, <2>3, PlacedCaller DEF Up, Prompting, Young, CallerIn, At
<1>16. CASE CompleteTexts
  <2>1. /\ At("caller", "complete") /\ Goto("caller", "settle")
        /\ UNCHANGED <<chat, row, live, snap, agent>>
    BY <1>16 DEF CompleteTexts, store
  <2>2. SameRows
    BY <2>1 DEF SameRows
  <2>3. QED
    BY <2>1, <2>2, PlacedWalk DEF Up, Prompting, Young
<1>17. CASE SettleTurn
  <2>1. /\ At("caller", "settle") /\ Goto("caller", "end")
        /\ UNCHANGED <<chat, row, snap, agent>>
    BY <1>17 DEF SettleTurn, store
  <2>2. SameRows
    BY <2>1 DEF SameRows
  <2>3. live'.run = live.run
    BY <1>17 DEF SettleTurn, TypeOK, LiveRun
  <2>4. QED
    BY <2>1, <2>2, <2>3, PlacedWalk DEF Up, Prompting, Young
<1>18. CASE AnnounceEnd
  <2>1. /\ At("caller", "end") /\ Goto("caller", "done")
        /\ UNCHANGED <<chat, row, live, agent>>
    BY <1>18 DEF AnnounceEnd, store
  <2>2. SameRows
    BY <2>1 DEF SameRows
  <2>3. snap'.run = snap.run
    <3>1. CallerIn(Up \cup Prompting)
      BY <2>1 DEF At, CallerIn, Up, Prompting
    <3>2. QED
      BY <1>18, <3>1, CallerEmits DEF AnnounceEnd, CallersRun
  <2>4. QED
    BY <2>1, <2>2, <2>3, PlacedWalk DEF Up, Prompting, Young
<1>19. CASE Return
  <2>1. /\ UNCHANGED <<chat, row, live, snap, agent>> /\ SameRows /\ Becomes("caller", Rest)
    BY <1>19 DEF Return, store, SameRows
  <2>2. act'["caller"] = Rest /\ Only("caller")
    BY <1>0, <2>1, BecomesFields, OnlyMoves
  <2>3. QED
    BY <2>1, <2>2, PlacedCaller DEF Rest, Up, Prompting, Young
<1>20. CASE Close("caller")
  BY <1>0, <1>20, PlacedClose
<1>21. QED
  BY <1>1, <1>2, <1>3, <1>4, <1>5, <1>6, <1>7, <1>8, <1>9, <1>10, <1>11, <1>12, <1>13, <1>14, <1>15, <1>16, <1>17, <1>18, <1>19, <1>20,
     PlacedCreate, PlacedAnnounceStart, PlacedSpawn, PlacedSetUpFails, PlacedLoad DEF Caller

LEMMA PlacedOthers ==
  ASSUME TypeOK, Standing, Placed, NEW a \in Others,
         Stop(a) \/ Canceller(a) \/ Delete(a) \/ Deleter(a)
  PROVE  Placed'
<1>0. a \in Actor \ {"caller"}
  BY ActorsAre
<1>1. CASE Stop(a)
  <2>1. /\ act[a].todo = <<>> /\ UNCHANGED <<chat, row, live, snap, agent>> /\ a = "canceller"
        /\ Becomes(a, [act[a] EXCEPT !.pc = "cancel", !.call = act["caller"].call])
    BY <1>1 DEF Stop, At, store
  <2>2. act'[a].todo = <<>> /\ act'[a].run = act[a].run /\ Only(a)
    <3>1. /\ act'[a] = [act[a] EXCEPT !.pc = "cancel", !.call = act["caller"].call]
          /\ \A b \in Actor \ {a} : act'[b] = act[b]
      BY <1>0, <2>1, BecomesFields
    <3>2. act[a] \in Thread
      BY <1>0, ThreadFields
    <3>3. QED
      BY <2>1, <3>1, <3>2, OnlyMoves DEF Thread
  <2>3. QED
    BY <1>0, <2>1, <2>2, PlacedOther
<1>2. CASE Cancel(a) /\ a = "canceller"
  <2>1. act[a].todo = <<>> /\ UNCHANGED <<chat, row, snap, agent>>
        /\ TakeIfAny(a, "stopped", "cancel")
    BY <1>2 DEF Cancel, At, store
  <2>2. CASE live.run = NoRun
    <3>1. Goto(a, "stopped") /\ live' = live
      BY <2>1, <2>2 DEF TakeIfAny
    <3>2. act'[a].todo = <<>> /\ act'[a].run = act[a].run /\ Only(a)
      BY <1>0, <2>1, <3>1, GotoMoves
    <3>3. QED
      BY <1>0, <1>2, <2>1, <3>1, <3>2, PlacedOther
  <2>3. CASE live.run # NoRun
    <3>1. Take(a, "stopped", "cancel")
      BY <2>1, <2>3 DEF TakeIfAny
    <3>2. QED
      BY <1>0, <2>1, <3>1, PlacedTake DEF Why
  <2>4. QED
    BY <2>2, <2>3
<1>3. CASE Stopped(a)
  <2>1. UNCHANGED <<chat, row, live, snap, agent>> /\ Becomes(a, Rest)
    BY <1>3 DEF Stopped, store
  <2>2. act'[a] = Rest /\ Only(a)
    BY <1>0, <2>1, BecomesFields, OnlyMoves
  <2>3. QED
    BY <1>0, <2>1, <2>2, PlacedOther DEF Rest
<1>4. CASE Delete(a)
  <2>1. UNCHANGED <<chat, row, live, snap, agent>>
    BY <1>4 DEF Delete, store
  <2>2. act'[a].todo = <<>> /\ act'[a].run = NoRun /\ act'[a].pc # "forget" /\ Only(a)
    <3>1. PICK tidy \in BOOLEAN :
            Becomes(a, [Rest EXCEPT !.pc = IF tidy THEN "enter" ELSE "look",
                                    !.tidy = tidy, !.call = calls])
      BY <1>4 DEF Delete
    <3>2. /\ act'[a] = [Rest EXCEPT !.pc = IF tidy THEN "enter" ELSE "look",
                                    !.tidy = tidy, !.call = calls]
          /\ \A b \in Actor \ {a} : act'[b] = act[b]
      BY <1>0, <3>1, BecomesFields
    <3>3. QED
      BY <3>2, OnlyMoves DEF Rest
  <2>3. QED
    BY <1>0, <2>1, <2>2, PlacedOther
<1>5. ASSUME NEW pc, NEW found, NEW next, Look(a, pc, found, next),
             found # "forget", next # "forget"
      PROVE  Placed'
  <2>1. act[a].todo = <<>> /\ UNCHANGED <<chat, row, live, snap, agent>>
    BY <1>5 DEF Look, At, store
  <2>2. PICK to : Goto(a, to) /\ to # "forget"
    BY <1>5 DEF Look
  <2>3. act'[a].todo = <<>> /\ act'[a].run = act[a].run /\ act'[a].pc # "forget" /\ Only(a)
    BY <1>0, <2>1, <2>2, GotoMoves
  <2>4. QED
    BY <1>0, <2>1, <2>3, PlacedOther
<1>6. ASSUME Leave(a), UNCHANGED <<chat, row, live, agent>>,
             snap' = snap \/ (~chat /\ live = NoLive /\ snap'.run = NoRun)
      PROVE  Placed'
  <2>1. act'[a].todo = <<>> /\ act'[a].run = NoRun /\ act'[a].pc # "forget" /\ Only(a)
    <3>1. /\ act'[a] = [Rest EXCEPT !.call = act[a].call]
          /\ \A b \in Actor \ {a} : act'[b] = act[b]
      BY <1>0, <1>6, BecomesFields DEF Leave
    <3>2. QED
      BY <3>1, OnlyMoves DEF Rest
  <2>2. QED
    BY <1>0, <1>6, <2>1, PlacedOther
<1>7. ASSUME NEW pc, NEW next, Interrupt(a, pc, next), next # "forget"
      PROVE  Placed'
  <2>1. act[a].todo = <<>> /\ UNCHANGED <<chat, row, snap, agent>>
    BY <1>7 DEF Interrupt, At, store
  <2>2. CASE Take(a, next, "cancel")
    BY <1>0, <1>7, <2>1, <2>2, PlacedTake DEF Why
  <2>3. CASE Leave(a) /\ UNCHANGED live
    BY <1>6, <2>1, <2>3
  <2>4. QED
    BY <1>7, <2>2, <2>3 DEF Interrupt
<1>8. CASE Enter(a)
  <2>1. act[a].todo = <<>> /\ UNCHANGED <<chat, row, live, snap, agent>> /\ Goto(a, "look again")
    BY <1>8 DEF Enter, At, store
  <2>2. act'[a].todo = <<>> /\ act'[a].run = act[a].run /\ act'[a].pc = "look again" /\ Only(a)
    BY <1>0, <2>1, GotoMoves
  <2>3. QED
    BY <1>0, <2>1, <2>2, PlacedOther
<1>9. CASE Spare(a)
  BY <1>6, <1>9 DEF Spare, store
<1>10. CASE Forget(a) /\ a = "deleter"
  <2>1. ~chat /\ live = NoLive
    BY <1>10 DEF Forget, At, Placed, HasChat, DeleterAt, Standing, Emptied, NoLiveWithoutChat
  <2>2. Leave(a) /\ UNCHANGED <<chat, row, live, agent>> /\ snap'.run = NoRun
    BY <1>10 DEF Forget, Blank, store
  <2>3. QED
    BY <1>6, <2>1, <2>2
<1>11. CASE Close(a)
  BY <1>0, <1>11, PlacedClose
<1>12. QED
  BY <1>1, <1>2, <1>3, <1>4, <1>5, <1>7, <1>8, <1>9, <1>10, <1>11, PlacedErase
     DEF Canceller, Deleter

LEMMA PlacedWorker ==
  ASSUME TypeOK, Standing, Placed, NEW r \in Run, Worker(r)
  PROVE  Placed'
<1>0. r \in Actor \ {"caller"} /\ r # "deleter" /\ r # NoRun
  BY ActorsAre
<1>1. CASE HearChunk(r)
  <2>1. UNCHANGED <<chat, row, snap, agent>>
    BY <1>1 DEF HearChunk
  <2>2. CASE live.run # r
    <3>1. UNCHANGED <<live, act>>
      BY <1>1, <2>2 DEF HearChunk
    <3>2. QED
      BY <2>1, <3>1, PlacedStill
  <2>3. CASE live.run = r
    <3>1. PICK m : /\ live' = [live EXCEPT !.open = @ \cup {m}]
                   /\ Becomes(r, [Rest EXCEPT !.pc = "append", !.msgs = {m},
                                              !.call = Head(inbox[r])[2]])
      BY <1>1, <2>3 DEF HearChunk
    <3>2. live'.run = live.run
      BY <3>1 DEF TypeOK, LiveRun
    <3>3. act'[r].todo = <<>> /\ act'[r].run = NoRun /\ Only(r)
      <4>1. /\ act'[r] = [Rest EXCEPT !.pc = "append", !.msgs = {m},
                                      !.call = Head(inbox[r])[2]]
            /\ \A b \in Actor \ {r} : act'[b] = act[b]
        BY <1>0, <3>1, BecomesFields
      <4>2. QED
        BY <4>1, OnlyMoves DEF Rest
    <3>4. QED
      BY <1>0, <2>1, <3>2, <3>3, PlacedOther
  <2>4. QED
    BY <2>2, <2>3
<1>2. CASE AppendText(r)
  <2>1. UNCHANGED <<chat, row, live, snap, agent>> /\ Becomes(r, Rest)
    BY <1>2 DEF AppendText
  <2>2. act'[r] = Rest /\ Only(r)
    BY <1>0, <2>1, BecomesFields, OnlyMoves
  <2>3. QED
    BY <1>0, <2>1, <2>2, PlacedOther DEF Rest
<1>3. CASE HearAsk(r)
  <2>1. UNCHANGED <<chat, row, live, act, agent>>
    BY <1>3 DEF HearAsk, store
  <2>2. snap'.run = snap.run
    BY <1>3 DEF HearAsk, TypeOK, Snapshot
  <2>3. QED
    BY <2>1, <2>2, PlacedStill
<1>4. CASE HearGone(r)
  <2>1. act[r].todo = <<>> /\ UNCHANGED <<chat, row, snap, agent>>
    BY <1>4 DEF HearGone, NextIs, At, store
  <2>2. CASE live.run = r
    <3>1. Take(r, "rest", "gone")
      BY <1>4, <2>2 DEF HearGone
    <3>2. QED
      BY <1>0, <2>1, <3>1, PlacedTake DEF Why
  <2>3. CASE live.run # r
    <3>1. UNCHANGED <<live, act>>
      BY <1>4, <2>3 DEF HearGone
    <3>2. QED
      BY <2>1, <3>1, PlacedStill
  <2>4. QED
    BY <2>2, <2>3
<1>5. CASE HearBarrier(r)
  <2>1. UNCHANGED <<chat, row, live, snap, agent>> /\ SameRows
    BY <1>5 DEF HearBarrier, store, SameRows
  <2>2. CASE At("caller", "sync") /\ Goto("caller", "collect")
    BY <2>1, <2>2, PlacedWalk DEF Up, Prompting, Young
  <2>3. CASE UNCHANGED act
    BY <2>1, <2>3, PlacedStill
  <2>4. QED
    BY <1>5, <2>2, <2>3 DEF HearBarrier
<1>6. CASE Close(r)
  BY <1>0, <1>6, PlacedClose
<1>7. QED
  BY <1>1, <1>2, <1>3, <1>4, <1>5, <1>6 DEF Worker

LEMMA PlacedStep ==
  ASSUME TypeOK, Standing, Placed, [Next]_vars
  PROVE  Placed'
<1>1. ASSUME NEW r \in Run, Reply(r) \/ SayChunk(r) \/ SayAsk(r) \/ Exit(r) \/ Reader(r)
      PROVE  Placed'
  <2>1. UNCHANGED <<chat, row, live, snap, act>>
    BY <1>1 DEF Reply, SayChunk, SayAsk, Exit, Reader, store
  <2>2. \A s \in Run : agent[s] = "none" => agent'[s] = "none"
    BY <1>1 DEF Reply, SayChunk, SayAsk, Exit, Reader, TypeOK
  <2>3. QED
    BY <2>1, <2>2, PlacedStill
<1>2. CASE Respond
  <2>1. UNCHANGED <<chat, row, live, act>>
    BY <1>2 DEF Respond, store
  <2>2. snap'.run = snap.run
    BY <1>2 DEF Respond, TypeOK, Snapshot
  <2>3. \A s \in Run : agent[s] = "none" => agent'[s] = "none"
    BY <1>2 DEF Respond, TypeOK
  <2>4. QED
    BY <2>1, <2>2, <2>3, PlacedStill
<1>3. CASE UNCHANGED vars
  BY <1>3, PlacedStill DEF vars, store
<1>4. QED
  BY <1>1, <1>2, <1>3, PlacedCallerStep, PlacedOthers, PlacedWorker DEF Next

------------------------------------------------------------------------------
(* What is pending is what is shown *)

\* The questions in a snapshot are those of the run it shows.
AsksOfOne == \A q \in snap.asks : q[2] = snap.run
Shown == AsksOfOne /\ AsksAreShown

LEMMA ShownStill ==
  ASSUME TypeOK, Shown, asks' = asks, snap'.asks = snap.asks, snap'.run = snap.run,
         live'.run \in {live.run, NoRun}
  PROVE  Shown'
<1>1. \A q \in asks : q[2] # NoRun
  BY DEF TypeOK
<1>2. QED
  BY <1>1 DEF Shown, AsksOfOne, AsksAreShown

\* An end is published with the questions of the run dropped, in the snapshot and
\* behind it, and only for the run that is shown.
LEMMA ShownEmit ==
  ASSUME TypeOK, Placed, Shown, NEW r \in Run, live'.run = live.run, NEW x, NEW y,
         (x # "starting" /\ EmitRun(r, x)) \/ EmitTurn(r, x, y)
  PROVE  Shown'
<1>1. CASE UNCHANGED <<snap, asks>>
  BY <1>1, ShownStill
<1>2. CASE ~UNCHANGED <<snap, asks>>
  <2>1. snap \in Snapshot /\ \A q \in asks : q[2] \in Run
    BY DEF TypeOK
  <2>2. snap.run \in {NoRun, r}
    BY <1>2 DEF EmitRun, EmitTurn, RunRefused, TurnRefused
  <2>3. snap'.run = r
    BY <1>2, <2>1 DEF EmitRun, EmitTurn, AfterRun, AfterTurn, Snapshot
  <2>4. \/ asks' = asks /\ snap'.asks = snap.asks
        \/ asks' = asks \ AsksOf(r) /\ snap'.asks = {}
    BY <1>2, <2>1 DEF EmitRun, EmitTurn, AfterRun, AfterTurn, Snapshot
  <2>5. snap.asks \subseteq asks /\ \A q \in snap.asks : q[2] = r
    BY <2>1, <2>2 DEF Shown, AsksOfOne, AsksAreShown
  <2>6. \A q \in asks : live.run = q[2] => q[2] = r
    BY <2>1, <2>2 DEF Placed, ShownRun
  <2>7. \A q \in asks' : live'.run = q[2] => q \in snap'.asks
    BY <2>4, <2>6 DEF AsksOf, Shown, AsksAreShown
  <2>8. QED
    BY <2>3, <2>4, <2>5, <2>7 DEF Shown, AsksOfOne, AsksAreShown
<1>3. QED
  BY <1>1, <1>2

LEMMA ShownClose ==
  ASSUME TypeOK, Standing, Placed, Shown, NEW a \in Actor, Close(a)
  PROVE  Shown'
<1>1. live' = live
  BY DEF Close, CloseAsks, CloseAgent, CloseTexts, CloseTurn, CloseRow, CloseRun
<1>2. act[a].run \in Run /\ act[a].run # live.run
  <2>1. act[a].todo # <<>>
    BY DEF Close, CloseAsks, CloseAgent, CloseTexts, CloseTurn, CloseRow, CloseRun, Due
  <2>2. QED
    BY <2>1 DEF Standing, Closing, Placed, Apart
<1>3. CASE CloseAsks(a)
  <2>1. /\ asks' = asks \ AsksOf(act[a].run)
        /\ snap' = IF snap.run = act[a].run THEN [snap EXCEPT !.asks = {}] ELSE snap
    BY <1>3 DEF CloseAsks
  <2>2. snap \in Snapshot /\ \A q \in asks : q[2] \in Run
    BY DEF TypeOK
  <2>3. CASE snap.run = act[a].run
    <3>1. snap'.run = snap.run /\ snap'.asks = {}
      BY <2>1, <2>2, <2>3 DEF Snapshot
    <3>2. \A q \in asks : q[2] # live.run
      BY <1>2, <2>2, <2>3 DEF Placed, ShownRun
    <3>3. QED
      BY <1>1, <2>1, <3>1, <3>2 DEF Shown, AsksOfOne, AsksAreShown
  <2>4. CASE snap.run # act[a].run
    <3>1. snap' = snap /\ \A q \in snap.asks : q \notin AsksOf(act[a].run)
      BY <2>1, <2>4 DEF AsksOf, Shown, AsksOfOne
    <3>2. snap'.asks \subseteq asks'
      BY <2>1, <3>1 DEF Shown, AsksAreShown
    <3>3. asks' \subseteq asks
      BY <2>1
    <3>4. QED
      BY <1>1, <3>1, <3>2, <3>3 DEF Shown, AsksOfOne, AsksAreShown
  <2>5. QED
    BY <2>3, <2>4
<1>4. CASE CloseTurn(a)
  BY <1>1, <1>2, <1>4, ShownEmit DEF CloseTurn
<1>5. CASE CloseRun(a)
  BY <1>1, <1>2, <1>5, ShownEmit DEF CloseRun, RunEnd
<1>6. CASE CloseAgent(a) \/ CloseTexts(a) \/ CloseRow(a)
  <2>1. UNCHANGED <<asks, snap>>
    BY <1>6 DEF CloseAgent, CloseTexts, CloseRow
  <2>2. QED
    BY <1>1, <2>1, ShownStill
<1>7. QED
  BY <1>3, <1>4, <1>5, <1>6 DEF Close

\* Taking the live run, or not, hides no question of a live one.
LEMMA TakenRun ==
  ASSUME NEW a, NEW pc, NEW why, TakeIfAny(a, pc, why) \/ Take(a, pc, why)
  PROVE  live'.run \in {live.run, NoRun}
BY DEF TakeIfAny, Take, NoLive

LEMMA ShownCaller ==
  ASSUME TypeOK, Standing, Placed, AsksAreOwned, Shown, Begin \/ Caller
  PROVE  Shown'
<1>0. "caller" \in Actor
  BY ActorsAre
<1>1. CASE Begin \/ Lock \/ Choose \/ Create \/ SetUp \/ MarkRunning \/ Load \/ Answered
           \/ CompleteTexts \/ Return
  <2>1. UNCHANGED <<asks, snap, live>>
    BY <1>1 DEF Begin, Lock, Choose, Create, SetUp, MarkRunning, Load, Answered, CompleteTexts,
                Return
  <2>2. QED
    BY <2>1, ShownStill
<1>2. CASE Adopt \/ OpenTurn \/ Collect \/ SettleTurn \/ SetUpFails
  <2>1. UNCHANGED <<asks, snap>>
    BY <1>2 DEF Adopt, OpenTurn, Collect, SettleTurn, SetUpFails
  <2>2. live'.run \in {live.run, NoRun}
    BY <1>2 DEF Adopt, OpenTurn, Collect, SettleTurn, SetUpFails, TypeOK, LiveRun, NoLive
  <2>3. QED
    BY <2>1, <2>2, ShownStill
<1>3. CASE Check("check1", "choose") \/ Check("check2", "load") \/ Check("check3", "send")
           \/ Replace \/ Send \/ TurnFails
  <2>1. UNCHANGED <<asks, snap>>
    BY <1>3 DEF Check, Replace, Send, TurnFails
  <2>2. \/ live' = live
        \/ \E pc, why : TakeIfAny("caller", pc, why) \/ Take("caller", pc, why)
    BY <1>3 DEF Check, Replace, Send, TurnFails, FailPrompt
  <2>3. QED
    BY <2>1, <2>2, TakenRun, ShownStill
<1>4. CASE AnnounceStart
  <2>1. live = NoLive /\ live' = live
    BY <1>4 DEF AnnounceStart, At, Standing, StartsAlone
  <2>2. snap'.asks = {} /\ asks' = asks
    BY <1>4, StartShown DEF Blank
  <2>3. \A q \in asks : q[2] \in Run
    BY DEF TypeOK
  <2>4. QED
    BY <2>1, <2>2, <2>3 DEF Shown, AsksOfOne, AsksAreShown, NoLive
<1>5. CASE Spawn
  <2>1. /\ At("caller", "spawn") /\ UNCHANGED <<asks, snap>>
        /\ live' = [NoLive EXCEPT !.run = CallersRun] \/ live' = live
    BY <1>5 DEF Spawn, CallersRun
  <2>2. live = NoLive /\ CallersRun \in Run
    BY <2>1 DEF At, Standing, StartsAlone, Starting, CallersRun
  <2>3. CASE live' = [NoLive EXCEPT !.run = CallersRun]
    <3>1. live'.run = CallersRun
      BY <2>3 DEF NoLive
    <3>2. \A a \in Actor : ~(act[a].run = CallersRun /\ "asks" \in ToClose(a))
      BY <1>0, <2>1, NothingToClose DEF Placed, Alone, CallerIn, Young, At
    <3>3. \A q \in asks : q[2] # CallersRun
      BY <2>2, <3>2 DEF AsksAreOwned, NoLive
    <3>4. QED
      BY <2>1, <3>1, <3>3 DEF Shown, AsksOfOne, AsksAreShown
  <2>4. CASE live' = live
    BY <2>1, <2>4, ShownStill
  <2>5. QED
    BY <2>1, <2>3, <2>4
<1>6. CASE AnnounceUp \/ AnnounceTurn \/ AnnounceEnd
  <2>1. CallerIn(Up \cup Prompting) /\ live' = live
    BY <1>6 DEF AnnounceUp, AnnounceTurn, AnnounceEnd, At, CallerIn, Up, Prompting
  <2>2. CallersRun \in Run
    BY <2>1 DEF Placed, OnItsRun
  <2>3. QED
    BY <1>6, <2>1, <2>2, ShownEmit DEF AnnounceUp, AnnounceTurn, AnnounceEnd, CallersRun
<1>7. CASE Close("caller")
  BY <1>0, <1>7, ShownClose
<1>8. QED
  BY <1>1, <1>2, <1>3, <1>4, <1>5, <1>6, <1>7 DEF Caller

LEMMA ShownStep ==
  ASSUME TypeOK, Standing, Placed, AsksAreOwned, Shown, [Next]_vars
  PROVE  Shown'
<1>1. ASSUME NEW a \in Others, Stop(a) \/ Canceller(a) \/ Delete(a) \/ Deleter(a)
      PROVE  Shown'
  <2>0. a \in Actor
    BY ActorsAre
  <2>1. CASE Stop(a) \/ Stopped(a) \/ Delete(a) \/ Enter(a) \/ Spare(a) \/ Erase(a)
    <3>1. UNCHANGED <<asks, snap, live>>
      BY <2>1 DEF Stop, Stopped, Delete, Enter, Spare, Erase
    <3>2. QED
      BY <3>1, ShownStill
  <2>2. ASSUME NEW pc, NEW found, NEW next, Look(a, pc, found, next)
        PROVE  Shown'
    BY <2>2, ShownStill DEF Look
  <2>3. ASSUME NEW pc, NEW next, Cancel(a) \/ Interrupt(a, pc, next)
        PROVE  Shown'
    <3>1. UNCHANGED <<asks, snap>>
      BY <2>3 DEF Cancel, Interrupt
    <3>2. live' = live \/ \E to, why : TakeIfAny(a, to, why) \/ Take(a, to, why)
      BY <2>3 DEF Cancel, Interrupt
    <3>3. QED
      BY <3>1, <3>2, TakenRun, ShownStill
  <2>4. CASE Forget(a) /\ a = "deleter"
    <3>1. live = NoLive /\ live' = live /\ snap'.asks = {} /\ asks' = asks
      BY <2>4 DEF Forget, At, Placed, HasChat, DeleterAt, Standing, Emptied, NoLiveWithoutChat,
                  Blank
    <3>2. \A q \in asks : q[2] \in Run
      BY DEF TypeOK
    <3>3. QED
      BY <3>1, <3>2 DEF Shown, AsksOfOne, AsksAreShown, NoLive
  <2>5. CASE Close(a)
    BY <2>0, <2>5, ShownClose
  <2>6. QED
    BY <1>1, <2>1, <2>2, <2>3, <2>4, <2>5 DEF Canceller, Deleter
<1>2. ASSUME NEW r \in Run, Reply(r) \/ SayChunk(r) \/ SayAsk(r) \/ Exit(r) \/ Reader(r)
      PROVE  Shown'
  <2>1. UNCHANGED <<asks, snap, live>>
    BY <1>2 DEF Reply, SayChunk, SayAsk, Exit, Reader
  <2>2. QED
    BY <2>1, ShownStill
<1>3. ASSUME NEW r \in Run, Worker(r)
      PROVE  Shown'
  <2>0. r \in Actor
    BY ActorsAre
  <2>1. CASE HearChunk(r) \/ AppendText(r) \/ HearBarrier(r) \/ HearGone(r)
    <3>1. UNCHANGED <<asks, snap>>
      BY <2>1 DEF HearChunk, AppendText, HearBarrier, HearGone
    <3>2. live'.run \in {live.run, NoRun}
      BY <2>1, TakenRun DEF HearChunk, AppendText, HearBarrier, HearGone, TypeOK, LiveRun
    <3>3. QED
      BY <3>1, <3>2, ShownStill
  <2>2. CASE HearAsk(r)
    <3>1. CASE live.run # r
      BY <2>2, <3>1, ShownStill DEF HearAsk
    <3>2. CASE live.run = r
      <4>1. snap.run = r
        BY <3>2 DEF Placed, ShownRun
      <4> DEFINE q == <<Head(inbox[r])[2], r>>
      <4>2. q[2] = r
        OBVIOUS
      <4>3. asks' = asks \cup {q} /\ snap' = [snap EXCEPT !.asks = @ \cup {q}] /\ live' = live
        BY <2>2, <3>2, <4>1 DEF HearAsk
      <4> HIDE DEF q
      <4>4. snap'.asks = snap.asks \cup {q} /\ snap'.run = snap.run
        BY <4>3 DEF TypeOK, Snapshot
      <4>5. QED
        BY <4>1, <4>2, <4>3, <4>4 DEF Shown, AsksOfOne, AsksAreShown
    <3>3. QED
      BY <3>1, <3>2
  <2>3. CASE Close(r)
    BY <2>0, <2>3, ShownClose
  <2>4. QED
    BY <1>3, <2>1, <2>2, <2>3 DEF Worker
<1>4. CASE Respond
  <2>1. PICK q \in asks : asks' = asks \ {q} /\ snap' = [snap EXCEPT !.asks = @ \ {q}]
                          /\ live' = live
    BY <1>4 DEF Respond
  <2>2. snap'.asks = snap.asks \ {q} /\ snap'.run = snap.run
    BY <2>1 DEF TypeOK, Snapshot
  <2>3. QED
    BY <2>1, <2>2 DEF Shown, AsksOfOne, AsksAreShown
<1>5. CASE UNCHANGED vars
  BY <1>5, ShownStill DEF vars
<1>6. QED
  BY <1>1, <1>2, <1>3, <1>4, <1>5, ShownCaller DEF Next

\* What a client is shown as pending it can answer, and whatever the live agent
\* waits for is shown: an end is published with the questions dropped in both places,
\* and nothing is published for a run that is not the live one while one is live
\* (AsksAreShown; inbound.rs:96-106, messages.rs, SessionState::transition).
THEOREM QuestionsAreShown == Spec => []AsksAreShown
<1>1. Init => Shown
  BY DEF Init, Blank, NoLive, Shown, AsksOfOne, AsksAreShown
<1>2. Init => AsksAreOwned
  BY DEF Init, AsksAreOwned
<1>3. TypeOK /\ Standing /\ Placed /\ AsksAreOwned /\ Shown /\ [Next]_vars
        => TypeOK' /\ Standing' /\ Placed' /\ AsksAreOwned' /\ Shown'
  BY TypeStep, StandStep, PlacedStep, OwnedStep, ShownStep
<1>4. Shown => AsksAreShown
  BY DEF Shown
<1>5. QED
  BY <1>1, <1>2, <1>3, <1>4, InitTyped, InitStanding, InitPlaced, PTL DEF Spec

\* A question of an agent is neither forgotten nor shown where nobody waits for the
\* answer (inbound.rs:96-106, agent_requests.rs).
THEOREM QuestionsAreKept == Spec => []AsksAreKept
<1>1. AsksAreOwned /\ AsksAreShown => AsksAreKept
  BY DEF AsksAreKept
<1>2. QED
  BY <1>1, NoAskIsForgotten, QuestionsAreShown, PTL

------------------------------------------------------------------------------
(* The text of a turn is whole when it is completed *)

Places == Young \cup Up \cup Prompting
Barrier == <<"barrier", 0>>
Heard == <<"chunk", calls>>

\* Only the run of the waiting call has a prompt.
Waiting == \A r \in Run : wire[r] \in {"asked", "answered"} => At("caller", "wait") /\ CallersRun = r
Counted == ~CallerIn({"rest"}) => calls # 0

\* A barrier in an inbox is the one the call waits for, behind all the agent said
\* in this turn, or one of a run that no call will work on any more.
Behind ==
  \A r \in Run : \A i \in DOMAIN inbox[r] : inbox[r][i] = Barrier =>
    \/ /\ CallerIn({"sync"}) /\ CallersRun = r
       /\ \A j \in DOMAIN inbox[r] : /\ j # i => inbox[r][j] # Barrier
                                     /\ j > i => inbox[r][j] # Heard
    \/ row[r] # "none" /\ live.run # r /\ ~(CallerIn(Places) /\ CallersRun = r)

Whole ==
  \A r \in Run : CallerIn({"collect", "complete"}) /\ CallersRun = r =>
    /\ \A i \in DOMAIN inbox[r] : inbox[r][i] # Heard
    /\ ~(act[r].pc = "append" /\ act[r].call = calls)

Synced == Waiting /\ Counted /\ Behind /\ Whole

\* The rows that are there stay.
RowsStay == \A r \in Run : row[r] # "none" => row'[r] # "none"

\* A step that is not the caller's and says nothing new to a worker.
LEMMA SyncedElse ==
  ASSUME TypeOK, Synced, UNCHANGED <<calls, inbox>>, act'["caller"] = act["caller"],
         \A r \in Run : (act'[r].pc = act[r].pc /\ act'[r].call = act[r].call) \/ act'[r].pc # "append",
         \A r \in Run : wire'[r] \in {"asked", "answered"} => wire[r] \in {"asked", "answered"},
         live'.run \in {live.run, NoRun}, RowsStay
  PROVE  Synced'
<1>1. Waiting' /\ Counted'
  BY DEF Synced, Waiting, Counted, At, CallerIn, CallersRun
<1>2. Behind'
  BY DEF Synced, Behind, CallerIn, CallersRun, Heard, RowsStay
<1>3. Whole'
  BY DEF Synced, Whole, CallerIn, CallersRun, Heard
<1>4. QED
  BY <1>1, <1>2, <1>3 DEF Synced

\* A step of the caller that says nothing to a worker and does not end its wait for
\* the barrier but by giving the run up.
LEMMA SyncedCaller ==
  ASSUME TypeOK, Synced, UNCHANGED <<calls, inbox>>, Only("caller"),
         act'["caller"].pc = "rest" \/ ~CallerIn({"rest"}),
         \A r \in Run : wire'[r] \in {"asked", "answered"} =>
           act'["caller"].pc = "wait" /\ act'["caller"].todo = <<>> /\ act'["caller"].run = r,
         act'["caller"].pc # "sync",
         act'["caller"].pc \in {"collect", "complete"} =>
           CallerIn({"collect", "complete"}) /\ act'["caller"].run = CallersRun,
         CallerIn({"sync"}) =>
           live'.run # CallersRun /\ row[CallersRun] # "none" /\ act'["caller"].pc \notin Places,
         \/ live'.run \in {live.run, NoRun}
         \/ live'.run = CallersRun /\ CallerIn(Places),
         act'["caller"].pc \in Places =>
           \/ CallerIn(Places) /\ act'["caller"].run = CallersRun
           \/ act'["caller"].run \in Run /\ row[act'["caller"].run] = "none"
           \/ act'["caller"].run = live.run,
         RowsStay
  PROVE  Synced'
<1>0. \A r \in Run : act'[r] = act[r]
  BY ActorsAre DEF Only
<1>1. Waiting' /\ Counted'
  BY DEF Synced, Waiting, Counted, At, CallerIn, CallersRun
<1>2. Behind'
  <2> SUFFICES ASSUME NEW r \in Run, NEW i \in DOMAIN inbox[r], inbox[r][i] = Barrier
               PROVE  row'[r] # "none" /\ live'.run # r
                      /\ ~(act'["caller"].pc \in Places /\ act'["caller"].run = r)
    BY DEF Behind, CallerIn, CallersRun
  <2>1. CASE CallerIn({"sync"}) /\ CallersRun = r
    BY <2>1 DEF RowsStay
  <2>2. CASE row[r] # "none" /\ live.run # r /\ ~(CallerIn(Places) /\ CallersRun = r)
    <3>1. r # NoRun
      OBVIOUS
    <3>2. live'.run # r
      BY <2>2, <3>1
    <3>3. QED
      BY <2>2, <3>2 DEF RowsStay
  <2>3. QED
    BY <2>1, <2>2 DEF Synced, Behind
<1>3. Whole'
  BY <1>0 DEF Synced, Whole, CallerIn, CallersRun, Heard
<1>4. QED
  BY <1>1, <1>2, <1>3 DEF Synced

LEMMA NobodyAsked ==
  ASSUME Synced, ~CallerIn({"wait"}), NEW r \in Run
  PROVE  wire[r] \notin {"asked", "answered"}
BY DEF Synced, Waiting, At, CallerIn

LEMMA SyncedGoto ==
  ASSUME TypeOK, Synced, NEW pc, Goto("caller", pc), UNCHANGED <<calls, inbox>>,
         ~CallerIn({"rest", "wait", "sync"}), pc # "sync",
         \A r \in Run : wire'[r] \in {"asked", "answered"} => wire[r] \in {"asked", "answered"},
         pc \in {"collect", "complete"} => CallerIn({"collect", "complete"}),
         pc \in Places => CallerIn(Places),
         \/ live'.run \in {live.run, NoRun}
         \/ live'.run = CallersRun /\ CallerIn(Places),
         RowsStay
  PROVE  Synced'
<1>1. /\ act'["caller"].pc = pc /\ act'["caller"].run = CallersRun /\ Only("caller")
  BY ActorsAre, GotoMoves DEF CallersRun
<1>2. \A r \in Run : wire'[r] \notin {"asked", "answered"}
  BY NobodyAsked DEF CallerIn
<1>3. ~CallerIn({"rest"}) /\ ~CallerIn({"sync"})
  BY DEF CallerIn
<1>4. QED
  BY <1>1, <1>2, <1>3, SyncedCaller

LEMMA SyncedTake ==
  ASSUME TypeOK, Standing, Placed, Synced, NEW pc, NEW why \in Why,
         Take("caller", pc, why) \/ TakeIfAny("caller", pc, why),
         UNCHANGED <<calls, inbox>>,
         ~CallerIn({"rest", "wait", "sync"}), pc \in {"fail", "create"},
         UNCHANGED wire, RowsStay
  PROVE  Synced'
<1>1. pc \notin Places /\ pc \notin {"collect", "complete", "sync", "rest"}
  BY DEF Places, Young, Up, Prompting
<1>2. CASE Take("caller", pc, why)
  <2>1. act'["caller"].pc = pc /\ live'.run = NoRun /\ Only("caller")
    BY <1>2, ActorsAre, TakeMoves DEF NoLive
  <2>2. \A r \in Run : wire'[r] \notin {"asked", "answered"}
    BY NobodyAsked DEF CallerIn
  <2>3. ~CallerIn({"rest"}) /\ ~CallerIn({"sync"})
    BY DEF CallerIn
  <2>4. QED
    BY <1>1, <2>1, <2>2, <2>3, SyncedCaller
<1>3. CASE TakeIfAny("caller", pc, why) /\ ~Take("caller", pc, why)
  <2>1. Goto("caller", pc) /\ live' = live
    BY <1>3 DEF TakeIfAny
  <2>2. QED
    BY <1>1, <2>1, SyncedGoto
<1>4. QED
  BY <1>2, <1>3

\* Up to the prompt.
LEMMA SyncedStarts ==
  ASSUME TypeOK, Standing, Placed, Synced,
         \/ Lock \/ Check("check1", "choose") \/ Check("check2", "load")
         \/ Check("check3", "send") \/ Choose \/ Replace
         \/ AnnounceStart \/ SetUp \/ MarkRunning \/ AnnounceUp \/ Adopt
         \/ OpenTurn \/ AnnounceTurn \/ CompleteTexts \/ SettleTurn \/ AnnounceEnd
  PROVE  Synced'
<1> USE DEF Places, Young, Up, Prompting
<1>1. CASE Lock
  <2>1. PICK pc \in {"check1", "replace", "done"} : Goto("caller", pc)
    BY <1>1 DEF Lock
  <2>2. QED
    BY <1>1, <2>1, SyncedGoto DEF Lock, At, CallerIn, RowsStay, store
<1>2. ASSUME NEW pc \in {"check1", "check2", "check3"}, NEW next \in {"choose", "load", "send"},
             next = "send" => pc = "check3", Check(pc, next)
      PROVE  Synced'
  <2>1. UNCHANGED <<store, calls, inbox, wire>> /\ ~CallerIn({"rest", "wait", "sync"})
    BY <1>2 DEF Check, At, CallerIn
  <2>2. "cancel" \in Why
    BY DEF Why
  <2>3. CASE stop
    <3>1. TakeIfAny("caller", "fail", "cancel")
      BY <1>2, <2>3 DEF Check
    <3>2. QED
      BY <2>1, <2>2, <3>1, SyncedTake DEF RowsStay, store
  <2>4. CASE ~stop
    <3>1. Goto("caller", next) /\ live' = live
      BY <1>2, <2>4 DEF Check
    <3>2. next \in Places => CallerIn(Places)
      BY <1>2 DEF Check, At, CallerIn
    <3>3. QED
      BY <2>1, <3>1, <3>2, SyncedGoto DEF RowsStay, store
  <2>5. QED
    BY <2>3, <2>4
<1>3. CASE Choose
  <2>1. PICK pc \in {"check2", "replace"} : Goto("caller", pc)
    BY <1>3 DEF Choose
  <2>2. QED
    BY <1>3, <2>1, SyncedGoto DEF Choose, At, CallerIn, RowsStay, store
<1>4. CASE Replace
  <2>1. UNCHANGED <<store, calls, inbox, wire>> /\ ~CallerIn({"rest", "wait", "sync"})
    BY <1>4 DEF Replace, At, CallerIn
  <2>2. "replace" \in Why
    BY DEF Why
  <2>3. CASE chat
    <3>1. TakeIfAny("caller", "create", "replace")
      BY <1>4, <2>3 DEF Replace
    <3>2. QED
      BY <2>1, <2>2, <3>1, SyncedTake DEF RowsStay, store
  <2>4. CASE ~chat
    <3>1. Goto("caller", "fail") /\ live' = live
      BY <1>4, <2>4 DEF Replace
    <3>2. QED
      BY <2>1, <3>1, SyncedGoto DEF RowsStay, store
  <2>5. QED
    BY <2>3, <2>4
<1>5. CASE AnnounceStart
  <2>1. Goto("caller", "spawn") /\ UNCHANGED <<store, live, calls, wire, inbox>>
        /\ act["caller"].pc = "announce"
    BY <1>5 DEF AnnounceStart, At
  <2>2. QED
    BY <2>1, SyncedGoto DEF CallerIn, RowsStay, store
<1>6. CASE SetUp
  <2>1. Goto("caller", "mark") /\ UNCHANGED <<store, live, calls, inbox>>
        /\ act["caller"].pc = "setup" /\ wire' = [wire EXCEPT ![CallersRun] = "none"]
    BY <1>6 DEF SetUp, At, CallersRun
  <2>2. \A r \in Run : wire'[r] \in {wire[r], "none"}
    BY <2>1 DEF TypeOK
  <2>3. QED
    BY <2>1, <2>2, SyncedGoto DEF CallerIn, RowsStay, store
<1>7. CASE MarkRunning
  <2>1. Goto("caller", "announceUp") /\ UNCHANGED <<live, calls, wire, inbox>>
        /\ act["caller"].pc = "mark" /\ WriteRow(CallersRun, "running")
    BY <1>7 DEF MarkRunning, At, CallersRun
  <2>2. RowsStay
    BY <2>1 DEF RowsStay, WriteRow, TypeOK
  <2>3. QED
    BY <2>1, <2>2, SyncedGoto DEF CallerIn
<1>8. CASE AnnounceUp
  <2>1. Goto("caller", "adopt") /\ UNCHANGED <<store, live, calls, wire, inbox>>
        /\ act["caller"].pc = "announceUp"
    BY <1>8 DEF AnnounceUp, At
  <2>2. QED
    BY <2>1, SyncedGoto DEF CallerIn, RowsStay, store
<1>9. CASE Adopt
  <2>1. PICK pc \in {"done", "check2", "fail"} : Goto("caller", pc)
    BY <1>9 DEF Adopt
  <2>2. UNCHANGED <<store, calls, wire, inbox>> /\ act["caller"].pc = "adopt"
    BY <1>9 DEF Adopt, At
  <2>3. live'.run = live.run
    BY <1>9 DEF Adopt, TypeOK, LiveRun
  <2>4. QED
    BY <2>1, <2>2, <2>3, SyncedGoto DEF CallerIn, RowsStay, store
<1>10. CASE OpenTurn
  <2>1. Goto("caller", "begin") /\ UNCHANGED <<store, calls, wire, inbox>>
        /\ act["caller"].pc = "open"
    BY <1>10 DEF OpenTurn, At
  <2>2. live'.run = live.run
    BY <1>10 DEF OpenTurn, TypeOK, LiveRun
  <2>3. QED
    BY <2>1, <2>2, SyncedGoto DEF CallerIn, RowsStay, store
<1>11. CASE AnnounceTurn
  <2>1. Goto("caller", "check3") /\ UNCHANGED <<store, live, calls, wire, inbox>>
        /\ act["caller"].pc = "begin"
    BY <1>11 DEF AnnounceTurn, At
  <2>2. QED
    BY <2>1, SyncedGoto DEF CallerIn, RowsStay, store
<1>12. CASE CompleteTexts
  <2>1. Goto("caller", "settle") /\ UNCHANGED <<row, live, calls, wire, inbox>>
        /\ act["caller"].pc = "complete"
    BY <1>12 DEF CompleteTexts, At
  <2>2. QED
    BY <2>1, SyncedGoto DEF CallerIn, RowsStay
<1>13. CASE SettleTurn
  <2>1. Goto("caller", "end") /\ UNCHANGED <<store, calls, wire, inbox>>
        /\ act["caller"].pc = "settle"
    BY <1>13 DEF SettleTurn, At
  <2>2. live'.run = live.run
    BY <1>13 DEF SettleTurn, TypeOK, LiveRun
  <2>3. QED
    BY <2>1, <2>2, SyncedGoto DEF CallerIn, RowsStay, store
<1>14. CASE AnnounceEnd
  <2>1. Goto("caller", "done") /\ UNCHANGED <<store, live, calls, wire, inbox>>
        /\ act["caller"].pc = "end"
    BY <1>14 DEF AnnounceEnd, At
  <2>2. QED
    BY <2>1, SyncedGoto DEF CallerIn, RowsStay, store
<1>15. QED
  BY <1>1, <1>2, <1>3, <1>4, <1>5, <1>6, <1>7, <1>8, <1>9, <1>10, <1>11, <1>12, <1>13, <1>14

\* Starting an agent, and everything that goes wrong.
LEMMA SyncedRuns ==
  ASSUME TypeOK, Standing, Placed, Synced,
         Begin \/ Create \/ Spawn \/ SetUpFails \/ Load \/ Collect \/ Return
  PROVE  Synced'
<1> USE DEF Places, Young, Up, Prompting
<1>0. "caller" \in Actor /\ act["caller"] \in Thread
  BY ActorsAre, ThreadFields
<1>1. CASE Begin
  <2>1. act["caller"].pc = "rest" /\ calls' = calls + 1 /\ UNCHANGED <<store, live, wire, inbox>>
    BY <1>1 DEF Begin, At
  <2>2. act'["caller"].pc = "lock" /\ Only("caller")
    <3>1. PICK th \in {[act["caller"] EXCEPT !.pc = "lock", !.call = calls + 1],
                       [act["caller"] EXCEPT !.pc = "lock"]} : Becomes("caller", th)
      BY <1>1 DEF Begin, Goto
    <3>2. act'["caller"] = th /\ \A b \in Actor \ {"caller"} : act'[b] = act[b]
      BY <1>0, <3>1, BecomesFields
    <3>3. QED
      BY <1>0, <3>2, OnlyMoves DEF Thread
  <2>3. \A r \in Run : wire'[r] \notin {"asked", "answered"}
    BY <2>1, NobodyAsked DEF CallerIn
  <2>4. calls' # 0
    BY <2>1 DEF TypeOK
  <2>5. Waiting' /\ Counted' /\ Whole'
    BY <2>2, <2>3, <2>4 DEF Waiting, Counted, Whole, CallerIn
  <2>6. Behind'
    BY <2>1, <2>2 DEF Synced, Behind, CallerIn, store
  <2>7. QED
    BY <2>5, <2>6 DEF Synced
<1>2. CASE Create
  <2>1. PICK r \in Run : /\ row[r] = "none" /\ row' = [row EXCEPT ![r] = "starting"]
                         /\ Becomes("caller", [act["caller"] EXCEPT !.pc = "announce", !.run = r])
    BY <1>2 DEF Create
  <2>2. UNCHANGED <<live, calls, wire, inbox>> /\ act["caller"].pc = "create"
    BY <1>2 DEF Create, At
  <2>3. act'["caller"].pc = "announce" /\ act'["caller"].run = r /\ Only("caller")
    <3>1. /\ act'["caller"] = [act["caller"] EXCEPT !.pc = "announce", !.run = r]
          /\ \A b \in Actor \ {"caller"} : act'[b] = act[b]
      BY <1>0, <2>1, BecomesFields
    <3>2. QED
      BY <1>0, <3>1, OnlyMoves DEF Thread
  <2>4. RowsStay
    BY <2>1 DEF RowsStay, TypeOK
  <2>5. \A s \in Run : wire'[s] \notin {"asked", "answered"}
    BY <2>2, NobodyAsked DEF CallerIn
  <2>6. QED
    BY <2>1, <2>2, <2>3, <2>4, <2>5, SyncedCaller DEF CallerIn
<1>3. CASE Spawn
  <2>1. act["caller"].pc = "spawn" /\ UNCHANGED <<store, calls, inbox>> /\ CallersRun \in Run
    BY <1>3 DEF Spawn, At, Standing, StartsAlone, Starting, CallersRun
  <2>2. CASE Goto("caller", "setup") /\ live' = [NoLive EXCEPT !.run = CallersRun]
             /\ wire' = [wire EXCEPT ![CallersRun] = "setup"]
    <3>1. \A r \in Run : wire'[r] \in {wire[r], "setup"}
      BY <2>2 DEF TypeOK
    <3>2. live'.run = CallersRun
      BY <2>2 DEF NoLive
    <3>3. QED
      BY <2>1, <2>2, <3>1, <3>2, SyncedGoto DEF CallerIn, RowsStay, store
  <2>3. CASE /\ Becomes("caller", [act["caller"] EXCEPT !.pc = "fail", !.end = "start",
                                                         !.todo = <<"row", "run">>])
             /\ UNCHANGED <<live, wire>>
    <3>1. act'["caller"].pc = "fail" /\ Only("caller")
      <4>1. /\ act'["caller"] = [act["caller"] EXCEPT !.pc = "fail", !.end = "start",
                                                      !.todo = <<"row", "run">>]
            /\ \A b \in Actor \ {"caller"} : act'[b] = act[b]
        BY <1>0, <2>3, BecomesFields
      <4>2. QED
        BY <1>0, <4>1, OnlyMoves DEF Thread
    <3>2. \A r \in Run : wire'[r] \notin {"asked", "answered"}
      BY <2>1, <2>3, NobodyAsked DEF CallerIn
    <3>3. QED
      BY <2>1, <2>3, <3>1, <3>2, SyncedCaller DEF CallerIn, RowsStay, store
  <2>4. QED
    BY <1>3, <2>2, <2>3 DEF Spawn, CallersRun
<1>4. CASE SetUpFails
  <2>1. act["caller"].pc = "setup" /\ UNCHANGED <<store, calls, inbox>>
        /\ wire' = [wire EXCEPT ![CallersRun] = "none"]
    BY <1>4 DEF SetUpFails, At, CallersRun
  <2>2. act'["caller"].pc = "fail" /\ Only("caller")
    <3> DEFINE plan == Plan("start", FALSE)
    <3>1. /\ act'["caller"] = [act["caller"] EXCEPT !.pc = "fail", !.end = "start", !.todo = plan]
          /\ \A b \in Actor \ {"caller"} : act'[b] = act[b]
      BY <1>0, <1>4, BecomesFields DEF SetUpFails
    <3> HIDE DEF plan
    <3>2. QED
      BY <1>0, <3>1, OnlyMoves DEF Thread
  <2>3. \A r \in Run : wire'[r] \notin {"asked", "answered"}
    <3>1. \A r \in Run : wire'[r] \in {wire[r], "none"}
      BY <2>1 DEF TypeOK
    <3>2. QED
      BY <2>1, <3>1, NobodyAsked DEF CallerIn
  <2>4. live'.run \in {live.run, NoRun}
    BY <1>4 DEF SetUpFails, NoLive
  <2>5. QED
    BY <2>1, <2>2, <2>3, <2>4, SyncedCaller DEF CallerIn, RowsStay, store
<1>5. CASE Load
  <2>1. act["caller"].pc = "load" /\ UNCHANGED <<row, live, calls, wire, inbox>>
    BY <1>5 DEF Load, At
  <2>2. CASE Goto("caller", "fail")
    BY <2>1, <2>2, SyncedGoto DEF CallerIn, RowsStay
  <2>3. CASE Becomes("caller", [act["caller"] EXCEPT !.pc = "open", !.run = live.run])
    <3>1. act'["caller"].pc = "open" /\ act'["caller"].run = live.run /\ Only("caller")
      <4>1. /\ act'["caller"] = [act["caller"] EXCEPT !.pc = "open", !.run = live.run]
            /\ \A b \in Actor \ {"caller"} : act'[b] = act[b]
        BY <1>0, <2>3, BecomesFields
      <4>2. QED
        BY <1>0, <4>1, OnlyMoves DEF Thread
    <3>2. \A r \in Run : wire'[r] \notin {"asked", "answered"}
      BY <2>1, NobodyAsked DEF CallerIn
    <3>3. QED
      BY <2>1, <3>1, <3>2, SyncedCaller DEF CallerIn, RowsStay
  <2>4. QED
    BY <1>5, <2>2, <2>3 DEF Load
<1>6. CASE Collect
  <2>1. act["caller"].pc = "collect" /\ UNCHANGED <<store, calls, wire, inbox>>
        /\ live' = [live EXCEPT !.open = {}]
        /\ Becomes("caller", [act["caller"] EXCEPT !.pc = "complete", !.msgs = live.open])
    BY <1>6 DEF Collect, At
  <2>2. act'["caller"].pc = "complete" /\ act'["caller"].run = CallersRun /\ Only("caller")
    <3>1. /\ act'["caller"] = [act["caller"] EXCEPT !.pc = "complete", !.msgs = live.open]
          /\ \A b \in Actor \ {"caller"} : act'[b] = act[b]
      BY <1>0, <2>1, BecomesFields
    <3>2. QED
      BY <1>0, <3>1, OnlyMoves DEF Thread, CallersRun
  <2>3. live'.run = live.run
    BY <2>1 DEF TypeOK, LiveRun
  <2>4. \A r \in Run : wire'[r] \notin {"asked", "answered"}
    BY <2>1, NobodyAsked DEF CallerIn
  <2>5. QED
    BY <2>1, <2>2, <2>3, <2>4, SyncedCaller DEF CallerIn, RowsStay, store
<1>7. CASE Return
  <2>1. act["caller"].pc \in {"done", "fail"} /\ UNCHANGED <<store, live, calls, wire, inbox>>
        /\ Becomes("caller", Rest)
    BY <1>7 DEF Return, At
  <2>2. act'["caller"].pc = "rest" /\ Only("caller")
    BY <1>0, <2>1, BecomesFields, OnlyMoves DEF Rest
  <2>3. \A r \in Run : wire'[r] \notin {"asked", "answered"}
    BY <2>1, NobodyAsked DEF CallerIn
  <2>4. QED
    BY <2>1, <2>2, <2>3, SyncedCaller DEF CallerIn, RowsStay, store
<1>8. QED
  BY <1>1, <1>2, <1>3, <1>4, <1>5, <1>6, <1>7

\* The prompt, its answer and its barrier.
LEMMA SyncedAsks ==
  ASSUME TypeOK, Standing, Placed, Synced, Send \/ Answered \/ TurnFails
  PROVE  Synced'
<1> USE DEF Places, Young, Up, Prompting
<1>0. "caller" \in Actor /\ act["caller"] \in Thread /\ "prompt" \in Why
  BY ActorsAre, ThreadFields DEF Why
<1>1. /\ act["caller"].pc \in {"send", "wait", "sync"} /\ CallersRun \in Run
      /\ act["caller"].todo = <<>> /\ UNCHANGED <<store, calls>>
      /\ row[CallersRun] # "none"
  BY <1>0 DEF Send, Answered, TurnFails, At, Placed, OnItsRun, CallerIn, Known, CallersRun
\* terminate_failed_prompt
<1>2. ASSUME FailPrompt, UNCHANGED inbox,
             \A r \in Run : wire'[r] \notin {"asked", "answered"}
      PROVE  Synced'
  <2>1. CASE Take("caller", "fail", "prompt")
    <3>1. act'["caller"].pc = "fail" /\ live'.run = NoRun /\ Only("caller")
      BY <1>0, <2>1, TakeMoves DEF NoLive
    <3>2. QED
      BY <1>1, <1>2, <3>1, SyncedCaller DEF CallerIn, RowsStay, store
  <2>2. CASE live.run # CallersRun /\ Goto("caller", "fail") /\ live' = live
    <3>1. act'["caller"].pc = "fail" /\ Only("caller")
      BY <1>0, <2>2, GotoMoves
    <3>2. QED
      BY <1>1, <1>2, <2>2, <3>1, SyncedCaller DEF CallerIn, RowsStay, store
  <2>3. QED
    BY <1>2, <2>1, <2>2 DEF FailPrompt, CallersRun
<1>3. CASE Send
  <2>1. act["caller"].pc = "send" /\ inbox' = inbox
    BY <1>3 DEF Send, At
  <2>2. \A r \in Run : wire[r] \notin {"asked", "answered"}
    BY <2>1, NobodyAsked DEF CallerIn
  <2>3. CASE /\ wire' = [wire EXCEPT ![CallersRun] = "asked"]
             /\ Goto("caller", "wait") /\ live' = live
    <3>1. /\ act'["caller"].pc = "wait" /\ act'["caller"].todo = <<>>
          /\ act'["caller"].run = CallersRun /\ Only("caller")
      BY <1>0, <1>1, <2>3, GotoMoves DEF CallersRun
    <3>2. \A r \in Run : wire'[r] \in {"asked", "answered"} => r = CallersRun
      BY <2>2, <2>3 DEF TypeOK
    <3>3. QED
      BY <1>1, <2>1, <2>3, <3>1, <3>2, SyncedCaller DEF CallerIn, RowsStay, store
  <2>4. CASE FailPrompt /\ wire' = wire
    BY <1>2, <2>1, <2>2, <2>4
  <2>5. QED
    BY <1>3, <2>3, <2>4 DEF Send, CallersRun
<1>4. CASE TurnFails
  <2>1. wire' = [wire EXCEPT ![CallersRun] = "none"] /\ FailPrompt /\ inbox' = inbox
    BY <1>4 DEF TurnFails, CallersRun
  <2>2. \A r \in Run : wire'[r] \notin {"asked", "answered"}
    BY <2>1 DEF TypeOK, Synced, Waiting
  <2>3. QED
    BY <1>2, <2>1, <2>2
<1>5. CASE Answered
  <2> DEFINE r == CallersRun
  <2>1. /\ wire' = [wire EXCEPT ![r] = "none"]
        /\ inbox' = [inbox EXCEPT ![r] = Append(@, Barrier)]
        /\ Goto("caller", "sync") /\ act["caller"].pc = "wait" /\ live' = live
    BY <1>5 DEF Answered, At, CallersRun, Barrier
  <2>2. act'["caller"].pc = "sync" /\ act'["caller"].run = r /\ Only("caller")
    BY <1>0, <2>1, GotoMoves DEF CallersRun
  <2>3. \A s \in Run : wire'[s] \notin {"asked", "answered"}
    BY <2>1 DEF TypeOK, Synced, Waiting
  <2>4. \A i \in DOMAIN inbox[r] : inbox[r][i] # Barrier
    BY <1>1, <2>1 DEF Synced, Behind, CallerIn
  <2>5. /\ inbox[r] \in Seq(Item) /\ \A s \in Run \ {r} : inbox'[s] = inbox[s]
        /\ inbox'[r] = Append(inbox[r], Barrier)
    BY <1>1, <2>1 DEF TypeOK
  <2>6. Barrier \in Item
    BY DEF Barrier, Item
  <2>7. /\ Len(inbox[r]) \in Nat /\ DOMAIN inbox'[r] = 1..(Len(inbox[r]) + 1)
        /\ \A j \in 1..Len(inbox[r]) : inbox'[r][j] = inbox[r][j] /\ j \in DOMAIN inbox[r]
    BY <2>5, <2>6, AppendProperties, LenProperties
  <2>8. Waiting' /\ Counted' /\ Whole'
    BY <1>1, <2>1, <2>2, <2>3 DEF Synced, Waiting, Counted, Whole, CallerIn
  <2>9. Behind'
    <3> SUFFICES ASSUME NEW s \in Run, NEW i \in DOMAIN inbox'[s], inbox'[s][i] = Barrier
                 PROVE  \/ /\ s = r
                           /\ \A j \in DOMAIN inbox'[s] : /\ j # i => inbox'[s][j] # Barrier
                                                          /\ j > i => inbox'[s][j] # Heard
                        \/ row[s] # "none" /\ live.run # s /\ s # r
      BY <1>1, <2>1, <2>2 DEF Behind, CallerIn, CallersRun, Heard, store
    <3>1. CASE s = r
      <4>1. i = Len(inbox[r]) + 1
        BY <2>4, <2>7, <3>1
      <4>2. QED
        BY <2>4, <2>7, <3>1, <4>1
    <3>2. CASE s # r
      BY <2>1, <2>5, <3>2 DEF Synced, Behind, CallerIn
    <3>3. QED
      BY <3>1, <3>2
  <2>10. QED
    BY <2>8, <2>9 DEF Synced
<1>6. QED
  BY <1>3, <1>4, <1>5

\* A thread that has taken a run closes it.
LEMMA SyncedClose ==
  ASSUME TypeOK, Standing, Placed, Synced, NEW a \in Actor, Close(a)
  PROVE  Synced'
<1>1. PICK step : Due(a, step) /\ Done(a)
  BY DEF Close, CloseAsks, CloseAgent, CloseTexts, CloseTurn, CloseRow, CloseRun
<1>2. /\ act[a].todo # <<>> /\ act'[a].pc = act[a].pc /\ act'[a].call = act[a].call
      /\ act'[a].run \in {act[a].run, NoRun} /\ Only(a)
  BY <1>1, DoneMoves
<1>3. UNCHANGED <<calls, wire, inbox, live>>
  BY DEF Close, CloseAsks, CloseAgent, CloseTexts, CloseTurn, CloseRow, CloseRun
<1>4. RowsStay
  <2>1. CASE CloseRow(a)
    <3>1. WriteRow(act[a].run, RunEnd(act[a].end)) /\ RunEnd(act[a].end) # "none"
      BY <2>1 DEF CloseRow, RunEnd
    <3>2. QED
      BY <3>1 DEF WriteRow, RowsStay, TypeOK
  <2>2. CASE ~CloseRow(a)
    BY <2>2 DEF Close, CloseAsks, CloseAgent, CloseTexts, CloseTurn, CloseRun, RowsStay, store
  <2>3. QED
    BY <2>1, <2>2
<1>5. CASE a = "caller"
  <2>1. ~CallerIn(Places)
    BY <1>2, <1>5 DEF Placed, OnItsRun, Standing, StartsAlone, Starting, At, CallerIn, Places,
                      Young, Up, Prompting
  <2>2. ~CallerIn({"sync", "wait", "collect", "complete"})
    BY <2>1 DEF CallerIn, Places, Prompting
  <2>3. \A r \in Run : wire'[r] \notin {"asked", "answered"}
    BY <1>3, <2>2, NobodyAsked DEF CallerIn
  <2>4. /\ act'["caller"].pc = "rest" \/ ~CallerIn({"rest"})
        /\ act'["caller"].pc # "sync" /\ act'["caller"].pc \notin {"collect", "complete"}
        /\ act'["caller"].pc \notin Places /\ ~CallerIn({"sync"}) /\ Only("caller")
    BY <1>2, <1>5, <2>1, <2>2 DEF CallerIn
  <2>5. QED
    BY <1>3, <1>4, <2>3, <2>4, SyncedCaller
<1>6. CASE a # "caller"
  <2>1. act'["caller"] = act["caller"]
    BY <1>2, <1>6, ActorsAre DEF Only
  <2>2. \A r \in Run : act'[r].pc = act[r].pc /\ act'[r].call = act[r].call
    BY <1>2, ActorsAre DEF Only
  <2>3. QED
    BY <1>3, <1>4, <2>1, <2>2, SyncedElse
<1>7. QED
  BY <1>5, <1>6

LEMMA SyncedOthers ==
  ASSUME TypeOK, Standing, Placed, Synced, NEW a \in Others,
         Stop(a) \/ Canceller(a) \/ Delete(a) \/ Deleter(a)
  PROVE  Synced'
<1>0. a \in Actor /\ a # "caller" /\ a \notin Run /\ "caller" \in Actor
  BY ActorsAre
<1>1. CASE Close(a)
  BY <1>0, <1>1, SyncedClose
<1>2. ASSUME \A b \in Actor \ {a} : act'[b] = act[b], UNCHANGED <<calls, wire, inbox>>, RowsStay,
             live'.run \in {live.run, NoRun}
      PROVE  Synced'
  <2>1. act'["caller"] = act["caller"] /\ \A r \in Run : act'[r] = act[r]
    BY <1>0, <1>2, ActorsAre
  <2>2. QED
    BY <1>2, <2>1, SyncedElse
<1>3. ASSUME NEW th, Becomes(a, th)
      PROVE  \A b \in Actor \ {a} : act'[b] = act[b]
  BY <1>0, <1>3, BecomesFields
<1>4. CASE Stop(a) \/ Stopped(a) \/ Delete(a) \/ Enter(a) \/ Spare(a) \/ Erase(a) \/ Forget(a)
  <2>1. \E th : Becomes(a, th)
    BY <1>4 DEF Stop, Stopped, Delete, Enter, Spare, Erase, Forget, Leave, Goto
  <2>2. UNCHANGED <<calls, wire, inbox, live>>
    BY <1>4 DEF Stop, Stopped, Delete, Enter, Spare, Erase, Forget
  <2>3. RowsStay
    BY <1>4 DEF Stop, Stopped, Delete, Enter, Spare, Erase, Forget, Erased, RowsStay, store, TypeOK
  <2>4. QED
    BY <1>2, <1>3, <2>1, <2>2, <2>3
<1>5. ASSUME NEW pc, NEW found, NEW next, Look(a, pc, found, next)
      PROVE  Synced'
  <2>1. \E th : Becomes(a, th)
    BY <1>5 DEF Look, Goto
  <2>2. UNCHANGED <<calls, wire, inbox, live>> /\ RowsStay
    BY <1>5 DEF Look, RowsStay, store
  <2>3. QED
    BY <1>2, <1>3, <2>1, <2>2
<1>6. ASSUME NEW pc, NEW next, Cancel(a) \/ Interrupt(a, pc, next)
      PROVE  Synced'
  <2>1. \E th : Becomes(a, th)
    BY <1>6 DEF Cancel, Interrupt, TakeIfAny, Take, Goto, Leave
  <2>2. UNCHANGED <<calls, wire, inbox>> /\ RowsStay
    BY <1>6 DEF Cancel, Interrupt, RowsStay, store
  <2>3. live'.run \in {live.run, NoRun}
    BY <1>6 DEF Cancel, Interrupt, TakeIfAny, Take, NoLive
  <2>4. QED
    BY <1>2, <1>3, <2>1, <2>2, <2>3
<1>7. QED
  BY <1>1, <1>4, <1>5, <1>6 DEF Canceller, Deleter

\* What an agent says in the turn is said before it answers.
LEMMA SyncedSays ==
  ASSUME TypeOK, Synced, NEW r \in Run, Reply(r) \/ SayChunk(r) \/ SayAsk(r) \/ Exit(r) \/ Reader(r)
  PROVE  Synced'
<1>1. UNCHANGED <<act, calls, row, live>>
  BY DEF Reply, SayChunk, SayAsk, Exit, Reader, store
<1>2. \A s \in Run : wire'[s] \in {"asked", "answered"} => wire[s] \in {"asked", "answered"}
  BY DEF Reply, SayChunk, SayAsk, Exit, Reader, TypeOK
<1>3. CASE Reply(r) \/ Exit(r)
  <2>1. inbox' = inbox
    BY <1>3 DEF Reply, Exit
  <2>2. QED
    BY <1>1, <1>2, <2>1, SyncedElse DEF RowsStay
<1>4. CASE SayChunk(r) \/ SayAsk(r) \/ Reader(r)
  <2>1. PICK item \in Item : /\ Hear(r, item) /\ item # Barrier
                             /\ item = Heard => calls = 0 \/ wire[r] = "asked"
    <3>1. CASE SayChunk(r)
      <4> DEFINE item == <<"chunk", IF wire[r] = "asked" THEN calls ELSE 0>>
      <4>1. Hear(r, item) /\ item \in Item /\ item # Barrier
        BY <3>1 DEF SayChunk, Item, TypeOK, Barrier
      <4>2. item = Heard => calls = 0 \/ wire[r] = "asked"
        BY DEF Heard
      <4>3. QED
        BY <4>1, <4>2
    <3>2. CASE SayAsk(r)
      <4>1. PICK q \in Ask : Hear(r, <<"ask", q>>)
        BY <3>2 DEF SayAsk
      <4>2. <<"ask", q>> \in Item /\ <<"ask", q>> # Barrier /\ <<"ask", q>> # Heard
        BY DEF Item, Barrier, Heard
      <4>3. QED
        BY <4>1, <4>2
    <3>3. CASE Reader(r)
      <4>1. Hear(r, <<"gone", 0>>) /\ <<"gone", 0>> \in Item /\ <<"gone", 0>> # Barrier
            /\ <<"gone", 0>> # Heard
        BY <3>3 DEF Reader, Item, Barrier, Heard
      <4>2. QED
        BY <4>1
    <3>4. QED
      BY <1>4, <3>1, <3>2, <3>3
  <2>2. /\ inbox[r] \in Seq(Item) /\ inbox'[r] = Append(inbox[r], item)
        /\ \A s \in Run \ {r} : inbox'[s] = inbox[s]
    BY <2>1 DEF TypeOK, Hear
  <2>3. /\ Len(inbox[r]) \in Nat /\ DOMAIN inbox'[r] = 1..(Len(inbox[r]) + 1)
        /\ inbox'[r][Len(inbox[r]) + 1] = item
        /\ \A j \in 1..Len(inbox[r]) : inbox'[r][j] = inbox[r][j]
        /\ DOMAIN inbox[r] = 1..Len(inbox[r])
    BY <2>2, AppendProperties, LenProperties
  <2>4. CallerIn({"sync", "collect", "complete"}) => item # Heard
    BY <2>1 DEF Synced, Waiting, Counted, CallerIn, At
  <2>5. Waiting' /\ Counted'
    BY <1>1, <1>2 DEF Synced, Waiting, Counted, CallerIn, CallersRun, At
  <2>6. ASSUME NEW s \in Run, NEW i \in DOMAIN inbox'[s], inbox'[s][i] # inbox[s][i] \/ i \notin DOMAIN inbox[s]
        PROVE  s = r /\ i = Len(inbox[r]) + 1 /\ inbox'[s][i] = item
    BY <2>2, <2>3, <2>6
  <2>7. Behind'
    <3> SUFFICES ASSUME NEW s \in Run, NEW i \in DOMAIN inbox'[s], inbox'[s][i] = Barrier
                 PROVE  \/ /\ CallerIn({"sync"}) /\ CallersRun = s
                           /\ \A j \in DOMAIN inbox'[s] : /\ j # i => inbox'[s][j] # Barrier
                                                          /\ j > i => inbox'[s][j] # Heard
                        \/ row[s] # "none" /\ live.run # s /\ ~(CallerIn(Places) /\ CallersRun = s)
      BY <1>1 DEF Behind, CallerIn, CallersRun, Heard
    <3>1. i \in DOMAIN inbox[s] /\ inbox[s][i] = Barrier
      BY <2>1, <2>6
    <3>2. CASE row[s] # "none" /\ live.run # s /\ ~(CallerIn(Places) /\ CallersRun = s)
      BY <3>2
    <3>3. CASE /\ CallerIn({"sync"}) /\ CallersRun = s
               /\ \A j \in DOMAIN inbox[s] : /\ j # i => inbox[s][j] # Barrier
                                             /\ j > i => inbox[s][j] # Heard
      <4>1. item # Heard
        BY <2>4, <3>3 DEF CallerIn
      <4>2. QED
        BY <2>1, <2>6, <3>3, <4>1
    <3>4. QED
      BY <3>1, <3>2, <3>3 DEF Synced, Behind
  <2>8. Whole'
    <3> SUFFICES ASSUME NEW s \in Run, CallerIn({"collect", "complete"}), CallersRun = s
                 PROVE  /\ \A i \in DOMAIN inbox'[s] : inbox'[s][i] # Heard
                        /\ ~(act[s].pc = "append" /\ act[s].call = calls)
      BY <1>1 DEF Whole, CallerIn, CallersRun, Heard
    <3>1. item # Heard
      BY <2>4 DEF CallerIn
    <3>2. QED
      BY <2>6, <3>1 DEF Synced, Whole
  <2>9. QED
    BY <2>5, <2>7, <2>8 DEF Synced
<1>5. QED
  BY <1>3, <1>4

\* Handling the first item of an inbox moves the others up.
LEMMA HeardOne ==
  ASSUME TypeOK, NEW r \in Run, NEW what, NextIs(r, what)
  PROVE  /\ act[r].pc = "rest"
         /\ Head(inbox[r]) \in Item /\ Head(inbox[r])[1] = what
         /\ 1 \in DOMAIN inbox[r] /\ inbox[r][1] = Head(inbox[r])
         /\ \A s \in Run \ {r} : inbox'[s] = inbox[s]
         /\ \A i \in DOMAIN inbox'[r] :
              /\ i \in Nat /\ i + 1 \in DOMAIN inbox[r] /\ i + 1 # 1
              /\ inbox'[r][i] = inbox[r][i + 1]
<1>1. /\ inbox[r] \in Seq(Item) /\ inbox[r] # <<>> /\ inbox'[r] = Tail(inbox[r])
      /\ \A s \in Run \ {r} : inbox'[s] = inbox[s]
  BY DEF TypeOK, NextIs
<1>2. /\ Head(inbox[r]) \in Item /\ Tail(inbox[r]) \in Seq(Item)
      /\ Len(Tail(inbox[r])) = Len(inbox[r]) - 1
      /\ \A k \in 1..Len(Tail(inbox[r])) : Tail(inbox[r])[k] = inbox[r][k + 1]
      /\ Head(inbox[r]) = inbox[r][1]
  BY <1>1, HeadTailProperties
<1>3. /\ Len(inbox[r]) \in Nat /\ Len(inbox[r]) > 0 /\ DOMAIN inbox[r] = 1..Len(inbox[r])
      /\ DOMAIN inbox'[r] = 1..(Len(inbox[r]) - 1)
  BY <1>1, <1>2, LenProperties, EmptySeq
<1>4. QED
  BY <1>1, <1>2, <1>3 DEF NextIs, At

\* A worker handles something that is no barrier, or one nobody waits for.
LEMMA SyncedHears ==
  ASSUME TypeOK, Synced, NEW r \in Run, NEW what, NextIs(r, what),
         UNCHANGED <<calls, wire, row>>, live'.run \in {live.run, NoRun},
         Only(r),
         act'[r].pc = "append" /\ act'[r].call = calls => Head(inbox[r]) = Heard
  PROVE  Synced'
<1>1. act'["caller"] = act["caller"] /\ \A s \in Run \ {r} : act'[s] = act[s]
  BY ActorsAre DEF Only
<1>2. /\ 1 \in DOMAIN inbox[r] /\ inbox[r][1] = Head(inbox[r])
      /\ \A s \in Run \ {r} : inbox'[s] = inbox[s]
      /\ \A i \in DOMAIN inbox'[r] :
              /\ i \in Nat /\ i + 1 \in DOMAIN inbox[r] /\ i + 1 # 1
              /\ inbox'[r][i] = inbox[r][i + 1]
  BY HeardOne
<1>3. Waiting' /\ Counted'
  BY <1>1 DEF Synced, Waiting, Counted, CallerIn, CallersRun, At
<1>4. Behind'
  <2> SUFFICES ASSUME NEW s \in Run, NEW i \in DOMAIN inbox'[s], inbox'[s][i] = Barrier
               PROVE  \/ /\ CallerIn({"sync"}) /\ CallersRun = s
                         /\ \A j \in DOMAIN inbox'[s] : /\ j # i => inbox'[s][j] # Barrier
                                                        /\ j > i => inbox'[s][j] # Heard
                      \/ row[s] # "none" /\ live'.run # s /\ ~(CallerIn(Places) /\ CallersRun = s)
    BY <1>1 DEF Behind, CallerIn, CallersRun, Heard
  <2>1. live.run # s => live'.run # s
    OBVIOUS
  <2>2. CASE s # r
    BY <1>2, <2>1, <2>2 DEF Synced, Behind
  <2>3. CASE s = r
    <3>1. i \in Nat /\ i + 1 \in DOMAIN inbox[r] /\ inbox[r][i + 1] = Barrier
      BY <1>2, <2>3
    <3>2. CASE row[r] # "none" /\ live.run # r /\ ~(CallerIn(Places) /\ CallersRun = r)
      BY <2>1, <2>3, <3>2
    <3>3. CASE /\ CallerIn({"sync"}) /\ CallersRun = r
               /\ \A j \in DOMAIN inbox[r] : /\ j # i + 1 => inbox[r][j] # Barrier
                                             /\ j > i + 1 => inbox[r][j] # Heard
      <4>1. ASSUME NEW j \in DOMAIN inbox'[r]
            PROVE  /\ j # i => inbox'[r][j] # Barrier
                   /\ j > i => inbox'[r][j] # Heard
        <5>1. /\ j \in Nat /\ j + 1 \in DOMAIN inbox[r] /\ inbox'[r][j] = inbox[r][j + 1]
          BY <1>2
        <5>2. (j # i => j + 1 # i + 1) /\ (j > i => j + 1 > i + 1)
          BY <3>1, <5>1
        <5>3. QED
          BY <3>3, <5>1, <5>2
      <4>2. QED
        BY <2>3, <3>3, <4>1
    <3>4. QED
      BY <3>1, <3>2, <3>3 DEF Synced, Behind
  <2>4. QED
    BY <2>2, <2>3
<1>5. Whole'
  <2> SUFFICES ASSUME NEW s \in Run, CallerIn({"collect", "complete"}), CallersRun = s
               PROVE  /\ \A i \in DOMAIN inbox'[s] : inbox'[s][i] # Heard
                      /\ ~(act'[s].pc = "append" /\ act'[s].call = calls)
    BY <1>1 DEF Whole, CallerIn, CallersRun, Heard
  <2>1. /\ \A i \in DOMAIN inbox[s] : inbox[s][i] # Heard
        /\ ~(act[s].pc = "append" /\ act[s].call = calls)
    BY DEF Synced, Whole
  <2>2. QED
    BY <1>1, <1>2, <2>1
<1>6. QED
  BY <1>3, <1>4, <1>5 DEF Synced

LEMMA SyncedWorker ==
  ASSUME TypeOK, Standing, Placed, Synced, NEW r \in Run, Worker(r)
  PROVE  Synced'
<1>0. r \in Actor /\ r # "caller" /\ "caller" \in Actor
  BY ActorsAre
<1>1. CASE HearChunk(r)
  <2>1. NextIs(r, "chunk") /\ UNCHANGED <<calls, wire, row>>
    BY <1>1 DEF HearChunk
  <2>2. CASE live.run # r
    <3>1. UNCHANGED <<act, live>>
      BY <1>1, <2>2 DEF HearChunk
    <3>2. Only(r) /\ act'[r].pc # "append"
      BY <2>1, <3>1, HeardOne, OnlyMoves
    <3>3. QED
      BY <2>1, <3>1, <3>2, SyncedHears
  <2>3. CASE live.run = r
    <3>1. PICK m : /\ live' = [live EXCEPT !.open = @ \cup {m}]
                   /\ Becomes(r, [Rest EXCEPT !.pc = "append", !.msgs = {m},
                                              !.call = Head(inbox[r])[2]])
      BY <1>1, <2>3 DEF HearChunk
    <3>2. live'.run = live.run
      BY <3>1 DEF TypeOK, LiveRun
    <3>3. act'[r].call = Head(inbox[r])[2] /\ Only(r)
      <4>1. /\ act'[r] = [Rest EXCEPT !.pc = "append", !.msgs = {m}, !.call = Head(inbox[r])[2]]
            /\ \A b \in Actor \ {r} : act'[b] = act[b]
        BY <1>0, <3>1, BecomesFields
      <4>2. QED
        BY <4>1, OnlyMoves DEF Rest
    <3>4. Head(inbox[r]) \in Item /\ Head(inbox[r])[1] = "chunk"
      BY <2>1, HeardOne
    <3>5. Head(inbox[r]) = <<"chunk", Head(inbox[r])[2]>>
      BY <3>4 DEF Item
    <3>6. act'[r].call = calls => Head(inbox[r]) = Heard
      BY <3>3, <3>5 DEF Heard
    <3>7. QED
      BY <2>1, <3>2, <3>3, <3>6, SyncedHears
  <2>4. QED
    BY <2>2, <2>3
<1>2. CASE HearAsk(r)
  <2>1. NextIs(r, "ask") /\ UNCHANGED <<calls, wire, row, act, live>>
    BY <1>2 DEF HearAsk, store
  <2>2. Only(r) /\ act'[r].pc # "append"
    BY <2>1, HeardOne, OnlyMoves
  <2>3. QED
    BY <2>1, <2>2, SyncedHears
<1>3. CASE HearGone(r)
  <2>1. NextIs(r, "gone") /\ UNCHANGED <<calls, wire, row>> /\ "gone" \in Why
    BY <1>3 DEF HearGone, store, Why
  <2>2. act'[r].pc # "append" /\ Only(r) /\ live'.run \in {live.run, NoRun}
    <3>1. CASE Take(r, "rest", "gone")
      <4>1. act'[r].pc = "rest" /\ live' = NoLive /\ Only(r)
        BY <1>0, <2>1, <3>1, TakeMoves
      <4>2. QED
        BY <4>1 DEF NoLive
    <3>2. CASE UNCHANGED <<act, live>>
      BY <2>1, <3>2, HeardOne, OnlyMoves
    <3>3. QED
      BY <1>3, <3>1, <3>2 DEF HearGone
  <2>3. QED
    BY <2>1, <2>2, SyncedHears
<1>4. CASE HearBarrier(r)
  <2>1. NextIs(r, "barrier") /\ UNCHANGED <<calls, wire, row, live>>
    BY <1>4 DEF HearBarrier, store
  <2>2. CASE At("caller", "sync") /\ CallersRun = r
    <3>1. Goto("caller", "collect")
      BY <1>4, <2>2 DEF HearBarrier, CallersRun
    <3>2. /\ act'["caller"].pc = "collect" /\ act'["caller"].run = r
          /\ \A s \in Run : act'[s] = act[s]
      <4>1. /\ act'["caller"].pc = "collect" /\ act'["caller"].run = act["caller"].run
            /\ \A b \in Actor \ {"caller"} : act'[b] = act[b]
        BY <1>0, <3>1, GotoFields
      <4>2. QED
        BY <2>2, <4>1, ActorsAre DEF CallersRun
    <3>3. /\ Head(inbox[r]) \in Item /\ Head(inbox[r])[1] = "barrier" /\ act[r].pc = "rest"
          /\ 1 \in DOMAIN inbox[r] /\ inbox[r][1] = Head(inbox[r])
          /\ \A s \in Run \ {r} : inbox'[s] = inbox[s]
          /\ \A i \in DOMAIN inbox'[r] :
                  /\ i \in Nat /\ i + 1 \in DOMAIN inbox[r] /\ i + 1 # 1
                  /\ inbox'[r][i] = inbox[r][i + 1]
      BY <2>1, HeardOne
    <3>4. inbox[r][1] = Barrier
      BY <3>3 DEF Item, Barrier
    <3>5. CallerIn(Places) /\ act["caller"].pc = "sync"
      BY <2>2 DEF At, CallerIn, Places, Prompting
    <3>6. \A j \in DOMAIN inbox[r] : /\ j # 1 => inbox[r][j] # Barrier
                                     /\ j > 1 => inbox[r][j] # Heard
      BY <2>2, <3>3, <3>4, <3>5 DEF Synced, Behind
    <3>7. \A i \in DOMAIN inbox'[r] : inbox'[r][i] # Barrier /\ inbox'[r][i] # Heard
      <4>1. ASSUME NEW i \in DOMAIN inbox'[r] PROVE i + 1 > 1 /\ i + 1 # 1
        BY <3>3
      <4>2. QED
        BY <3>3, <3>6, <4>1
    <3>8. Waiting' /\ Counted'
      BY <2>1, <3>2, <3>5 DEF Synced, Waiting, Counted, CallerIn, At
    <3>9. Whole'
      BY <2>1, <3>2, <3>3, <3>7 DEF Whole, CallerIn, CallersRun, Heard
    <3>10. Behind'
      BY <2>1, <2>2, <3>2, <3>3, <3>5, <3>7 DEF Synced, Behind, CallerIn, CallersRun
    <3>11. QED
      BY <3>8, <3>9, <3>10 DEF Synced
  <2>3. CASE ~(At("caller", "sync") /\ CallersRun = r)
    <3>1. act' = act
      BY <1>4, <2>3 DEF HearBarrier, CallersRun
    <3>2. Only(r) /\ act'[r].pc # "append"
      BY <2>1, <3>1, HeardOne, OnlyMoves
    <3>3. QED
      BY <2>1, <3>2, SyncedHears
  <2>4. QED
    BY <2>2, <2>3
<1>5. CASE AppendText(r)
  <2>1. Becomes(r, Rest) /\ UNCHANGED <<row, live, calls, wire, inbox>>
    BY <1>5 DEF AppendText
  <2>2. act'[r].pc = "rest" /\ \A b \in Actor \ {r} : act'[b] = act[b]
    BY <1>0, <2>1, BecomesFields DEF Rest
  <2>3. act'["caller"] = act["caller"]
        /\ \A s \in Run : (act'[s].pc = act[s].pc /\ act'[s].call = act[s].call) \/ act'[s].pc # "append"
    BY <1>0, <2>2, ActorsAre
  <2>4. QED
    BY <2>1, <2>3, SyncedElse DEF RowsStay
<1>6. CASE Close(r)
  BY <1>0, <1>6, SyncedClose
<1>7. QED
  BY <1>1, <1>2, <1>3, <1>4, <1>5, <1>6 DEF Worker

LEMMA SyncedStep ==
  ASSUME TypeOK, Standing, Placed, Synced, [Next]_vars
  PROVE  Synced'
<1>1. CASE Respond \/ UNCHANGED vars
  <2>1. UNCHANGED <<act, calls, row, live, wire, inbox>>
    BY <1>1 DEF Respond, vars, store
  <2>2. QED
    BY <2>1, SyncedElse DEF RowsStay
<1>2. CASE Close("caller")
  BY <1>2, ActorsAre, SyncedClose
<1>3. QED
  BY <1>1, <1>2, SyncedStarts, SyncedRuns, SyncedAsks, SyncedOthers, SyncedSays, SyncedWorker
     DEF Next, Caller

LEMMA InitSynced == Init => Synced
<1> SUFFICES ASSUME Init PROVE Synced
  OBVIOUS
<1>1. act["caller"].pc = "rest" /\ \A r \in Run : wire[r] = "none" /\ inbox[r] = <<>>
  BY ActorsAre DEF Init, Rest
<1>2. QED
  BY <1>1 DEF Synced, Waiting, Counted, Behind, Whole, CallerIn

\* The messages of a turn are completed only when all that the agent said before its
\* answer is in them, whatever answers late, is lost or is stopped in between: the
\* barrier that the call waits for is its own, and nothing said in the turn is behind
\* it (TextIsWhole; prompt.rs:374-376, sync_inbound).
THEOREM TurnTextIsWhole == Spec => []TextIsWhole
<1>1. TypeOK /\ Standing /\ Placed /\ Synced /\ [Next]_vars
        => TypeOK' /\ Standing' /\ Placed' /\ Synced'
  BY TypeStep, StandStep, PlacedStep, SyncedStep
<1>2. Synced => TextIsWhole
  BY DEF Synced, Whole, TextIsWhole, CallerIn, CallersRun, Heard, At
<1>3. QED
  BY <1>1, <1>2, InitTyped, InitStanding, InitPlaced, InitSynced, PTL DEF Spec

------------------------------------------------------------------------------
(* An agent runs for somebody *)

\* What the inbox of a run says of its end is so.
GoneIsGone == \A r \in Run : \A i \in DOMAIN inbox[r] : inbox[r][i][1] = "gone" => agent[r] = "gone"

\* A worker kills nothing: it takes only what is gone.
KillApart == \A r \in Run : "kill" \notin ToClose(r)

\* A running agent is the live one or is about to be killed.
Minded == \A r \in Run : agent[r] = "up" => live.run = r \/ Closes(r, "kill")

Killed == GoneIsGone /\ KillApart /\ Minded

\* Agents end and stay ended; nothing is said of an end that is none.
AgentsEnd == \A r \in Run : agent'[r] = agent[r] \/ (agent[r] = "up" /\ agent'[r] = "dying")
InboxesKept ==
  \A r \in Run : \A i \in DOMAIN inbox'[r] :
    inbox'[r][i][1] = "gone" => \E j \in DOMAIN inbox[r] : inbox[r][j][1] = "gone"

\* Somebody with nothing to close moves.
LEMMA KilledMove ==
  ASSUME TypeOK, Killed, NEW a \in Actor, Only(a), act[a].todo = <<>>,
         a \in Run => act'[a].todo = <<>>,
         live'.run = live.run, AgentsEnd, InboxesKept
  PROVE  Killed'
<1>1. \A r, step : Closes(r, step) => Closes(r, step)'
  <2>1. ToClose(a) = {}
    BY NothingToClose
  <2>2. QED
    BY <2>1 DEF Closes, Only
<1>2. GoneIsGone'
  BY DEF Killed, GoneIsGone, AgentsEnd, InboxesKept
<1>3. KillApart'
  <2>1. a \in Run => ToClose(a)' = {}
    BY DEF ToClose
  <2>2. QED
    BY <2>1, ActorsAre DEF Killed, KillApart, Only
<1>4. Minded'
  BY <1>1 DEF Killed, Minded, AgentsEnd
<1>5. QED
  BY <1>2, <1>3, <1>4 DEF Killed

LEMMA KilledStill ==
  ASSUME TypeOK, Killed, act' = act, live'.run = live.run, AgentsEnd, InboxesKept
  PROVE  Killed'
<1>1. \A a : ToClose(a)' = ToClose(a)
  BY DEF ToClose
<1>2. \A r, step : Closes(r, step)' <=> Closes(r, step)
  BY <1>1 DEF Closes
<1>3. QED
  BY <1>1, <1>2 DEF Killed, GoneIsGone, KillApart, Minded, AgentsEnd, InboxesKept

\* Somebody takes the live run, to kill it, or because it is gone.
LEMMA KilledTake ==
  ASSUME TypeOK, Killed, NEW a \in Actor, NEW pc, NEW why \in Why, Take(a, pc, why),
         act[a].todo = <<>>, a \notin Run, why # "gone", agent' = agent, inbox' = inbox
  PROVE  Killed'
<1>1. /\ live.run \in Run /\ live' = NoLive /\ act'[a].run = live.run
      /\ "kill" \in ToClose(a)' /\ Only(a)
  BY TakeMoves
<1>2. \A r, step : Closes(r, step) => Closes(r, step)'
  <2>1. ToClose(a) = {}
    BY NothingToClose
  <2>2. QED
    BY <1>1, <2>1 DEF Closes, Only
<1>3. \A r : r = live.run => Closes(r, "kill")'
  BY <1>1 DEF Closes
<1>4. Minded'
  BY <1>2, <1>3 DEF Killed, Minded
<1>5. KillApart' /\ GoneIsGone'
  BY <1>1, ActorsAre DEF Killed, KillApart, GoneIsGone, Only
<1>6. QED
  BY <1>4, <1>5 DEF Killed

LEMMA KilledClose ==
  ASSUME TypeOK, Standing, Killed, NEW a \in Actor, Close(a)
  PROVE  Killed'
<1>1. PICK step : Due(a, step) /\ Done(a) /\ (step = "kill" => CloseAgent(a))
                  /\ (CloseAgent(a) => step = "kill")
  <2>1. CASE CloseAgent(a)
    BY <2>1 DEF CloseAgent
  <2>2. CASE ~CloseAgent(a)
    BY <2>2 DEF Close, CloseAsks, CloseTexts, CloseTurn, CloseRow, CloseRun
  <2>3. QED
    BY <2>1, <2>2
<1>2. /\ act[a].todo # <<>> /\ ToClose(a)' \subseteq ToClose(a) /\ Only(a)
      /\ \A other \in ToClose(a) : other # step =>
           act'[a].run = act[a].run /\ other \in ToClose(a)'
  BY <1>1, DoneMoves
<1>3. act[a].run \in Run
  BY <1>2 DEF Standing, Closing
<1>4. live' = live /\ inbox' = inbox
  BY DEF Close, CloseAsks, CloseAgent, CloseTexts, CloseTurn, CloseRow, CloseRun
<1>5. /\ AgentsEnd
      /\ step = "kill" => agent'[act[a].run] # "up"
  <2>1. CASE CloseAgent(a)
    <3>1. agent' = [agent EXCEPT ![act[a].run] = IF @ = "up" THEN "dying" ELSE @]
      BY <2>1 DEF CloseAgent
    <3>2. QED
      BY <1>3, <3>1 DEF AgentsEnd, TypeOK
  <2>2. CASE ~CloseAgent(a)
    <3>1. agent' = agent
      BY <2>2 DEF Close, CloseAsks, CloseTexts, CloseTurn, CloseRow, CloseRun
    <3>2. QED
      BY <1>1, <2>2, <3>1 DEF AgentsEnd
  <2>3. QED
    BY <2>1, <2>2
<1>6. ASSUME NEW r \in Run, Closes(r, "kill"), agent'[r] = "up"
      PROVE  Closes(r, "kill")'
  <2>1. PICK b \in Actor : act[b].run = r /\ "kill" \in ToClose(b)
    BY <1>6 DEF Closes
  <2>2. CASE b # a
    BY <1>2, <2>1, <2>2 DEF Only, Closes
  <2>3. CASE b = a
    <3>1. step # "kill"
      BY <1>5, <1>6, <2>1, <2>3
    <3>2. QED
      BY <1>2, <2>1, <2>3, <3>1 DEF Closes
  <2>4. QED
    BY <2>2, <2>3
<1>7. Minded'
  BY <1>4, <1>5, <1>6 DEF Killed, Minded, AgentsEnd
<1>8. KillApart'
  BY <1>2, ActorsAre DEF Killed, KillApart, Only
<1>9. GoneIsGone'
  BY <1>4, <1>5 DEF Killed, GoneIsGone, AgentsEnd
<1>10. QED
  BY <1>7, <1>8, <1>9 DEF Killed

LEMMA KilledTakeIfAny ==
  ASSUME TypeOK, Killed, NEW a \in Actor, NEW from, At(a, from), NEW pc, NEW why \in Why,
         Take(a, pc, why) \/ TakeIfAny(a, pc, why) \/ (Goto(a, pc) /\ UNCHANGED live),
         a \notin Run, why # "gone", agent' = agent, inbox' = inbox
  PROVE  Killed'
<1>1. act[a].todo = <<>> /\ AgentsEnd /\ InboxesKept
  BY DEF At, AgentsEnd, InboxesKept
<1>2. CASE Take(a, pc, why)
  BY <1>1, <1>2, KilledTake
<1>3. CASE Goto(a, pc) /\ UNCHANGED live
  <2>1. Only(a)
    BY <1>3, GotoMoves
  <2>2. QED
    BY <1>1, <1>3, <2>1, KilledMove
<1>4. QED
  BY <1>2, <1>3 DEF TakeIfAny

------------------------------------------------------------------------------
(* The ways of a call *)

\* The caller goes on with its run, or without one, ...
Walked ==
  /\ Only("caller") /\ act["caller"].todo = <<>> /\ act'["caller"].todo = <<>>
  /\ act'["caller"].run = CallersRun /\ act'["caller"].call = act["caller"].call
  /\ live'.run = live.run /\ agent' = agent
  /\ ~CallerIn({"rest"}) /\ act'["caller"].pc # "rest"
  /\ act'["caller"].pc \in Prompting => CallerIn(Prompting)
  /\ act'["caller"].pc \in Up => CallerIn(Up)
  /\ CallerIn(Up \cup {"check2"}) =>
       \/ act'["caller"].pc \in Up \cup {"check2"}
       \/ ~stop \/ act["caller"].call = 0 \/ live.run = NoRun

\* ... or takes the live run.
Took ==
  /\ act["caller"].todo = <<>> /\ agent' = agent /\ ~CallerIn({"rest"})
  /\ \E to \in {"fail", "create"}, why \in Why \ {"gone"} : Take("caller", to, why)

CallerOn == \/ Lock \/ Check("check1", "choose") \/ Check("check2", "load")
            \/ Check("check3", "send") \/ Choose \/ Replace \/ AnnounceStart
            \/ SetUp \/ MarkRunning \/ AnnounceUp \/ Adopt \/ OpenTurn \/ AnnounceTurn \/ Send
            \/ Answered \/ TurnFails \/ Collect \/ CompleteTexts \/ SettleTurn \/ AnnounceEnd

\* What Goto makes of the caller.
LEMMA CallerWalks ==
  ASSUME TypeOK, NEW from, NEW to, At("caller", from), Goto("caller", to),
         live'.run = live.run, agent' = agent, from # "rest", to # "rest",
         to \in Prompting => from \in Prompting, to \in Up => from \in Up,
         from \in Up \cup {"check2"} =>
           to \in Up \cup {"check2"} \/ ~stop \/ act["caller"].call = 0 \/ live.run = NoRun
  PROVE  Walked
<1>1. /\ act'["caller"].pc = to /\ act'["caller"].run = act["caller"].run
      /\ act'["caller"].todo = act["caller"].todo /\ act'["caller"].call = act["caller"].call
      /\ Only("caller")
  BY GotoMoves, ActorsAre
<1>2. QED
  BY <1>1 DEF Walked, At, CallerIn, CallersRun

LEMMA CallerFalls ==
  ASSUME TypeOK, NEW from, NEW to \in {"fail", "create"}, NEW why \in Why \ {"gone"},
         At("caller", from), from # "rest", agent' = agent,
         Take("caller", to, why) \/ TakeIfAny("caller", to, why)
  PROVE  Walked \/ Took
<1>1. CASE Take("caller", to, why)
  BY <1>1 DEF Took, At, CallerIn
<1>2. CASE live.run = NoRun /\ Goto("caller", to) /\ UNCHANGED live
  BY <1>2, CallerWalks DEF Prompting, Up
<1>3. QED
  BY <1>1, <1>2 DEF TakeIfAny

LEMMA CallerGoesOn ==
  ASSUME TypeOK, Standing, Placed, CallerOn
  PROVE  Walked \/ Took
<1> USE DEF Prompting, Up
<1>0. {"cancel", "prompt", "replace"} \subseteq Why \ {"gone"}
  BY DEF Why
<1>1. CASE Lock
  <2>1. PICK to \in {"check1", "replace", "done"} : At("caller", "lock") /\ Goto("caller", to)
                                                    /\ UNCHANGED <<live, agent>>
    BY <1>1 DEF Lock
  <2>2. QED
    BY <2>1, CallerWalks
<1>2. ASSUME NEW from \in {"check1", "check2", "check3"}, NEW to \in {"choose", "load", "send"},
             to = "send" => from = "check3", Check(from, to)
      PROVE  Walked \/ Took
  <2>1. At("caller", from) /\ agent' = agent
    BY <1>2 DEF Check
  <2>2. CASE TakeIfAny("caller", "fail", "cancel")
    BY <1>0, <2>1, <2>2, CallerFalls
  <2>3. CASE ~stop /\ Goto("caller", to) /\ UNCHANGED live
    BY <1>2, <2>1, <2>3, CallerWalks
  <2>4. QED
    BY <1>2, <2>2, <2>3 DEF Check
<1>3. CASE Choose
  <2>1. PICK to \in {"check2", "replace"} : At("caller", "choose") /\ Goto("caller", to)
                                            /\ UNCHANGED <<live, agent>>
    BY <1>3 DEF Choose
  <2>2. QED
    BY <2>1, CallerWalks
<1>4. CASE Replace
  <2>1. At("caller", "replace") /\ agent' = agent
    BY <1>4 DEF Replace
  <2>2. CASE TakeIfAny("caller", "create", "replace")
    BY <1>0, <2>1, <2>2, CallerFalls
  <2>3. CASE Goto("caller", "fail") /\ UNCHANGED live
    BY <2>1, <2>3, CallerWalks
  <2>4. QED
    BY <1>4, <2>2, <2>3 DEF Replace
<1>5. CASE AnnounceStart
  <2>1. At("caller", "announce") /\ Goto("caller", "spawn") /\ UNCHANGED <<live, agent>>
    BY <1>5 DEF AnnounceStart
  <2>2. QED
    BY <2>1, CallerWalks
<1>6. CASE SetUp
  <2>1. At("caller", "setup") /\ Goto("caller", "mark") /\ UNCHANGED <<live, agent>>
    BY <1>6 DEF SetUp
  <2>2. QED
    BY <2>1, CallerWalks
<1>7. CASE MarkRunning
  <2>1. At("caller", "mark") /\ Goto("caller", "announceUp") /\ UNCHANGED <<live, agent>>
    BY <1>7 DEF MarkRunning
  <2>2. QED
    BY <2>1, CallerWalks
<1>8. CASE AnnounceUp
  <2>1. At("caller", "announceUp") /\ Goto("caller", "adopt") /\ UNCHANGED <<live, agent>>
    BY <1>8 DEF AnnounceUp
  <2>2. QED
    BY <2>1, CallerWalks
<1>9. CASE Adopt
  <2>1. At("caller", "adopt") /\ agent' = agent
    BY <1>9 DEF Adopt
  <2>2. live'.run = live.run
    BY <1>9 DEF Adopt, TypeOK, LiveRun
  <2>3. PICK to \in {"done", "check2", "fail"} :
          /\ Goto("caller", to)
          /\ to = "done" => act["caller"].call = 0
          /\ to = "fail" => live.run # act["caller"].run
    BY <1>9 DEF Adopt
  <2>4. live.run # act["caller"].run => live.run = NoRun
    BY <2>1 DEF Placed, OnItsRun, CallerIn, CallersRun, At
  <2>5. QED
    BY <2>1, <2>2, <2>3, <2>4, CallerWalks
<1>10. CASE OpenTurn
  <2>1. At("caller", "open") /\ Goto("caller", "begin") /\ agent' = agent
    BY <1>10 DEF OpenTurn
  <2>2. live'.run = live.run
    BY <1>10 DEF OpenTurn, TypeOK, LiveRun
  <2>3. QED
    BY <2>1, <2>2, CallerWalks
<1>11. CASE AnnounceTurn
  <2>1. At("caller", "begin") /\ Goto("caller", "check3") /\ UNCHANGED <<live, agent>>
    BY <1>11 DEF AnnounceTurn
  <2>2. QED
    BY <2>1, CallerWalks
<1>12. ASSUME NEW from \in {"send", "wait", "sync"}, At("caller", from), FailPrompt, agent' = agent
       PROVE  Walked \/ Took
  <2>1. CASE Take("caller", "fail", "prompt")
    BY <1>0, <1>12, <2>1, CallerFalls
  <2>2. CASE Goto("caller", "fail") /\ UNCHANGED live
    BY <1>12, <2>2, CallerWalks
  <2>3. QED
    BY <1>12, <2>1, <2>2 DEF FailPrompt
<1>13. CASE Send
  <2>1. At("caller", "send") /\ agent' = agent
    BY <1>13 DEF Send
  <2>2. CASE Goto("caller", "wait") /\ UNCHANGED live
    BY <2>1, <2>2, CallerWalks
  <2>3. QED
    BY <1>12, <1>13, <2>1, <2>2 DEF Send
<1>14. CASE Answered
  <2>1. At("caller", "wait") /\ Goto("caller", "sync") /\ UNCHANGED <<live, agent>>
    BY <1>14 DEF Answered
  <2>2. QED
    BY <2>1, CallerWalks
<1>15. CASE TurnFails
  BY <1>12, <1>15 DEF TurnFails
<1>16. CASE Collect
  <2>1. At("caller", "collect") /\ live' = [live EXCEPT !.open = {}] /\ agent' = agent
        /\ Becomes("caller", [act["caller"] EXCEPT !.pc = "complete", !.msgs = live.open])
    BY <1>16 DEF Collect
  <2>2. /\ act'["caller"] = [act["caller"] EXCEPT !.pc = "complete", !.msgs = live.open]
        /\ \A b \in Actor \ {"caller"} : act'[b] = act[b]
    BY <2>1, ActorsAre, BecomesFields
  <2>3. act["caller"] \in Thread /\ live \in LiveRun
    BY ActorsAre DEF TypeOK
  <2>4. live'.run = live.run
    BY <2>1, <2>3 DEF LiveRun
  <2>5. /\ act'["caller"].pc = "complete" /\ act'["caller"].run = act["caller"].run
        /\ act'["caller"].todo = act["caller"].todo /\ act'["caller"].call = act["caller"].call
        /\ Only("caller")
    BY <2>2, <2>3, OnlyMoves DEF Thread
  <2>6. QED
    BY <2>1, <2>4, <2>5 DEF Walked, At, CallerIn, CallersRun
<1>17. CASE CompleteTexts
  <2>1. At("caller", "complete") /\ Goto("caller", "settle") /\ UNCHANGED <<live, agent>>
    BY <1>17 DEF CompleteTexts
  <2>2. QED
    BY <2>1, CallerWalks
<1>18. CASE SettleTurn
  <2>1. At("caller", "settle") /\ Goto("caller", "end") /\ agent' = agent
    BY <1>18 DEF SettleTurn
  <2>2. live'.run = live.run
    BY <1>18 DEF SettleTurn, TypeOK, LiveRun
  <2>3. QED
    BY <2>1, <2>2, CallerWalks
<1>19. CASE AnnounceEnd
  <2>1. At("caller", "end") /\ Goto("caller", "done") /\ UNCHANGED <<live, agent>>
    BY <1>19 DEF AnnounceEnd
  <2>2. QED
    BY <2>1, CallerWalks
<1>20. QED
  BY <1>1, <1>2, <1>3, <1>4, <1>5, <1>6, <1>7, <1>8, <1>9, <1>10, <1>11, <1>13, <1>14, <1>15,
     <1>16, <1>17, <1>18, <1>19 DEF CallerOn

\* A call begins, gets a run of its own or the live one, or is over.
LEMMA CallerTurns ==
  ASSUME TypeOK, Begin \/ Create \/ Load \/ Return
  PROVE  /\ Only("caller") /\ act["caller"].todo = <<>> /\ act'["caller"].todo = <<>>
         /\ UNCHANGED <<live, agent, inbox>>
<1>0. "caller" \in Actor /\ act["caller"] \in Thread
  BY ActorsAre, ThreadFields
<1>1. act["caller"].todo = <<>> /\ UNCHANGED <<live, agent, inbox>>
  BY DEF Begin, Create, Load, Return, At
<1>2. PICK th : Becomes("caller", th) /\ th.todo = <<>>
  <2>1. CASE Begin
    <3>1. PICK th \in {[act["caller"] EXCEPT !.pc = "lock", !.call = calls + 1],
                       [act["caller"] EXCEPT !.pc = "lock"]} : Becomes("caller", th)
      BY <2>1 DEF Begin, Goto
    <3>2. th.todo = <<>>
      BY <1>0, <1>1 DEF Thread
    <3>3. QED
      BY <3>1, <3>2
  <2>2. CASE Create
    <3>1. PICK r : Becomes("caller", [act["caller"] EXCEPT !.pc = "announce", !.run = r])
      BY <2>2 DEF Create
    <3>2. [act["caller"] EXCEPT !.pc = "announce", !.run = r].todo = <<>>
      BY <1>0, <1>1 DEF Thread
    <3>3. QED
      BY <3>1, <3>2
  <2>3. CASE Load
    <3>1. PICK th \in {[act["caller"] EXCEPT !.pc = "fail"],
                       [act["caller"] EXCEPT !.pc = "open", !.run = live.run]} :
            Becomes("caller", th)
      BY <2>3 DEF Load, Goto
    <3>2. th.todo = <<>>
      BY <1>0, <1>1 DEF Thread
    <3>3. QED
      BY <3>1, <3>2
  <2>4. CASE Return
    BY <2>4 DEF Return, Rest
  <2>5. QED
    BY <2>1, <2>2, <2>3, <2>4
<1>3. act'["caller"] = th /\ \A b \in Actor \ {"caller"} : act'[b] = act[b]
  BY <1>0, <1>2, BecomesFields
<1>4. QED
  BY <1>1, <1>2, <1>3, OnlyMoves

\* The ways of who stops or deletes.
OtherWalked(a) == Only(a) /\ act[a].todo = <<>> /\ act'[a].todo = <<>> /\ live' = live
OtherTook(a) == act[a].todo = <<>> /\ \E to : Take(a, to, "cancel")

LEMMA OthersGoOn ==
  ASSUME TypeOK, NEW a \in Others, Stop(a) \/ Canceller(a) \/ Delete(a) \/ Deleter(a), ~Close(a)
  PROVE  /\ OtherWalked(a) \/ OtherTook(a)
         /\ UNCHANGED <<agent, inbox, calls, wire, asks>>
<1>0. a \in Actor /\ act[a] \in Thread
  BY ActorsAre, ThreadFields
<1>1. ASSUME NEW th, act[a].todo = <<>>, th.todo = <<>>, Becomes(a, th), live' = live
      PROVE  OtherWalked(a)
  <2>1. act'[a] = th /\ \A b \in Actor \ {a} : act'[b] = act[b]
    BY <1>0, <1>1, BecomesFields
  <2>2. QED
    BY <1>1, <2>1, OnlyMoves DEF OtherWalked
<1>2. ASSUME NEW to, act[a].todo = <<>>, Goto(a, to), live' = live
      PROVE  OtherWalked(a)
  BY <1>0, <1>2, GotoMoves DEF OtherWalked
<1>3. ASSUME act[a].todo = <<>>, Leave(a), live' = live
      PROVE  OtherWalked(a)
  <2>1. Becomes(a, [Rest EXCEPT !.call = act[a].call])
    BY <1>3 DEF Leave
  <2>2. [Rest EXCEPT !.call = act[a].call].todo = <<>>
    BY DEF Rest
  <2>3. QED
    BY <1>1, <1>3, <2>1, <2>2
<1>4. CASE Stop(a)
  <2>1. Becomes(a, [act[a] EXCEPT !.pc = "cancel", !.call = act["caller"].call])
        /\ act[a].todo = <<>> /\ UNCHANGED <<live, agent, inbox, calls, wire, asks>>
    BY <1>4 DEF Stop, At
  <2>2. [act[a] EXCEPT !.pc = "cancel", !.call = act["caller"].call].todo = <<>>
    BY <1>0, <2>1 DEF Thread
  <2>3. QED
    BY <1>1, <2>1, <2>2
<1>5. CASE Cancel(a)
  <2>1. act[a].todo = <<>> /\ TakeIfAny(a, "stopped", "cancel")
        /\ UNCHANGED <<agent, inbox, calls, wire, asks>>
    BY <1>5 DEF Cancel, At
  <2>2. QED
    BY <1>2, <2>1 DEF TakeIfAny, OtherTook
<1>6. CASE Stopped(a)
  <2>1. Becomes(a, Rest) /\ act[a].todo = <<>> /\ UNCHANGED <<live, agent, inbox, calls, wire, asks>>
    BY <1>6 DEF Stopped, At
  <2>2. Rest.todo = <<>>
    BY DEF Rest
  <2>3. QED
    BY <1>1, <2>1, <2>2
<1>7. CASE Delete(a)
  <2>1. PICK tidy \in BOOLEAN :
          Becomes(a, [Rest EXCEPT !.pc = IF tidy THEN "enter" ELSE "look",
                                  !.tidy = tidy, !.call = calls])
    BY <1>7 DEF Delete
  <2>2. [Rest EXCEPT !.pc = IF tidy THEN "enter" ELSE "look", !.tidy = tidy, !.call = calls].todo
          = <<>>
    BY DEF Rest
  <2>3. act[a].todo = <<>> /\ UNCHANGED <<live, agent, inbox, calls, wire, asks>>
    BY <1>7 DEF Delete, At
  <2>4. QED
    BY <1>1, <2>1, <2>2, <2>3
<1>8. ASSUME NEW pc, NEW found, NEW next, Look(a, pc, found, next)
      PROVE  OtherWalked(a) /\ UNCHANGED <<agent, inbox, calls, wire, asks>>
  <2>1. act[a].todo = <<>> /\ (\E to : Goto(a, to)) /\ UNCHANGED <<live, agent, inbox, calls, wire, asks>>
    BY <1>8 DEF Look, At
  <2>2. QED
    BY <1>2, <2>1
<1>9. ASSUME NEW pc, NEW next, Interrupt(a, pc, next)
      PROVE  (OtherWalked(a) \/ OtherTook(a)) /\ UNCHANGED <<agent, inbox, calls, wire, asks>>
  <2>1. act[a].todo = <<>> /\ UNCHANGED <<agent, inbox, calls, wire, asks>>
    BY <1>9 DEF Interrupt, At
  <2>2. Take(a, next, "cancel") \/ (Leave(a) /\ live' = live)
    BY <1>9 DEF Interrupt
  <2>3. QED
    BY <1>3, <2>1, <2>2 DEF OtherTook
<1>10. CASE Enter(a)
  BY <1>2, <1>10 DEF Enter, At
<1>11. CASE Spare(a)
  BY <1>3, <1>11 DEF Spare, At
<1>12. CASE Erase(a)
  BY <1>2, <1>12 DEF Erase, At
<1>13. CASE Forget(a)
  BY <1>3, <1>13 DEF Forget, At, store
<1>14. QED
  BY <1>4, <1>5, <1>6, <1>7, <1>8, <1>9, <1>10, <1>11, <1>12, <1>13 DEF Canceller, Deleter

LEMMA KilledCaller ==
  ASSUME TypeOK, Standing, Placed, Killed, Begin \/ Caller
  PROVE  Killed'
<1>0. "caller" \in Actor /\ act["caller"] \in Thread /\ "caller" \notin Run
  BY ActorsAre, ThreadFields
<1>1. CASE Begin \/ Create \/ Load \/ Return
  <2>1. AgentsEnd /\ InboxesKept
    BY <1>1, CallerTurns DEF AgentsEnd, InboxesKept
  <2>2. QED
    BY <1>0, <1>1, <2>1, CallerTurns, KilledMove
<1>2. CASE CallerOn
  <2>1. InboxesKept
    <3>1. CASE Answered
      <4>1. /\ inbox' = [inbox EXCEPT ![CallersRun] = Append(@, Barrier)]
            /\ CallerIn(Prompting)
        BY <3>1 DEF Answered, CallersRun, Barrier, At, CallerIn, Prompting
      <4>2. CallersRun \in Run
        BY <4>1 DEF Placed, OnItsRun, CallerIn
      <4>3. /\ inbox[CallersRun] \in Seq(Item) /\ Barrier \in Item
            /\ inbox'[CallersRun] = Append(inbox[CallersRun], Barrier)
            /\ \A s \in Run \ {CallersRun} : inbox'[s] = inbox[s]
        BY <4>1, <4>2 DEF TypeOK, Barrier, Item
      <4>4. \A i \in DOMAIN inbox'[CallersRun] :
              \/ i \in DOMAIN inbox[CallersRun] /\ inbox'[CallersRun][i] = inbox[CallersRun][i]
              \/ inbox'[CallersRun][i] = Barrier
        BY <4>3, AppendProperties, LenProperties
      <4>5. Barrier[1] # "gone"
        BY DEF Barrier
      <4>6. QED
        BY <4>3, <4>4, <4>5 DEF InboxesKept
    <3>2. CASE ~Answered
      <4>1. inbox' = inbox
        BY <1>2, <3>2 DEF CallerOn, Lock, Check, Choose, Replace, AnnounceStart, SetUp, MarkRunning,
                          AnnounceUp, Adopt, OpenTurn, AnnounceTurn, Send, TurnFails, Collect,
                          CompleteTexts, SettleTurn, AnnounceEnd
      <4>2. QED
        BY <4>1 DEF InboxesKept
    <3>3. QED
      BY <3>1, <3>2
  <2>2. CASE Walked
    <3>1. AgentsEnd
      BY <2>2 DEF Walked, AgentsEnd
    <3>2. QED
      BY <1>0, <2>1, <2>2, <3>1, KilledMove DEF Walked
  <2>3. CASE Took
    <3>1. inbox' = inbox
      <4>1. ~Answered
        <5>1. Answered => Goto("caller", "sync")
          BY DEF Answered
        <5>2. Goto("caller", "sync") => act'["caller"].pc = "sync"
          BY <1>0, GotoMoves
        <5>3. act'["caller"].pc \in {"fail", "create"}
          BY <1>0, <2>3, TakeMoves DEF Took
        <5>4. QED
          BY <5>1, <5>2, <5>3
      <4>2. QED
        BY <1>2, <4>1 DEF CallerOn, Lock, Check, Choose, Replace, AnnounceStart, SetUp, MarkRunning,
                          AnnounceUp, Adopt, OpenTurn, AnnounceTurn, Send, TurnFails, Collect,
                          CompleteTexts, SettleTurn, AnnounceEnd
    <3>2. QED
      BY <1>0, <2>3, <3>1, KilledTake DEF Took
  <2>4. QED
    BY <1>2, <2>2, <2>3, CallerGoesOn
<1>3. CASE Spawn
  <2>1. act["caller"].pc = "spawn" /\ act["caller"].todo = <<>> /\ inbox' = inbox
        /\ CallersRun \in Run /\ live = NoLive
    BY <1>3 DEF Spawn, At, Standing, StartsAlone, Starting, CallersRun
  <2>2. InboxesKept
    BY <2>1 DEF InboxesKept
  <2>3. CASE /\ live' = [NoLive EXCEPT !.run = CallersRun]
             /\ agent' = [agent EXCEPT ![CallersRun] = "up"]
             /\ Goto("caller", "setup")
    <3>1. live'.run = CallersRun
      BY <2>3 DEF NoLive
    <3>2. agent[CallersRun] = "none"
      BY <2>1 DEF Placed, Alone, CallerIn, Young
    <3>3. /\ \A r \in Run \ {CallersRun} : agent'[r] = agent[r]
          /\ agent'[CallersRun] = "up"
      BY <2>1, <2>3 DEF TypeOK
    <3>4. Only("caller") /\ ToClose("caller")' = ToClose("caller") /\ ToClose("caller") = {}
      BY <1>0, <2>1, <2>3, GotoMoves, NothingToClose
    <3>5. \A r, step : Closes(r, step) => Closes(r, step)'
      BY <3>4 DEF Closes, Only
    <3>6. GoneIsGone'
      BY <2>1, <3>2, <3>3 DEF Killed, GoneIsGone
    <3>7. KillApart'
      BY <3>4, ActorsAre DEF Killed, KillApart, Only
    <3>8. Minded'
      BY <2>1, <3>1, <3>3, <3>5 DEF Killed, Minded, NoLive
    <3>9. QED
      BY <3>6, <3>7, <3>8 DEF Killed
  <2>4. CASE /\ Becomes("caller", [act["caller"] EXCEPT !.pc = "fail", !.end = "start",
                                                         !.todo = <<"row", "run">>])
             /\ UNCHANGED <<live, agent>>
    <3>1. Only("caller")
      BY <1>0, <2>4, BecomesFields, OnlyMoves
    <3>2. AgentsEnd
      BY <2>4 DEF AgentsEnd
    <3>3. QED
      BY <1>0, <2>1, <2>2, <2>4, <3>1, <3>2, KilledMove
  <2>5. QED
    BY <1>3, <2>3, <2>4 DEF Spawn, CallersRun
<1>4. CASE SetUpFails
  <2>1. /\ act'["caller"].run = CallersRun /\ "kill" \in ToClose("caller")' /\ Only("caller")
    BY <1>4, FailedSetUp
  <2>2. /\ act["caller"].todo = <<>> /\ UNCHANGED <<inbox, agent>>
        /\ live' = IF live.run = CallersRun THEN NoLive ELSE live
    BY <1>4 DEF SetUpFails, At, CallersRun
  <2>3. \A r, step : Closes(r, step) => Closes(r, step)'
    <3>1. ToClose("caller") = {}
      BY <2>2, NothingToClose
    <3>2. QED
      BY <2>1, <3>1 DEF Closes, Only
  <2>4. \A r : r = CallersRun => Closes(r, "kill")'
    BY <1>0, <2>1 DEF Closes
  <2>5. GoneIsGone' /\ KillApart'
    BY <2>1, <2>2, ActorsAre DEF Killed, GoneIsGone, KillApart, Only
  <2>6. Minded'
    BY <2>2, <2>3, <2>4 DEF Killed, Minded
  <2>7. QED
    BY <2>5, <2>6 DEF Killed
<1>5. CASE Close("caller")
  BY <1>0, <1>5, KilledClose
<1>6. QED
  BY <1>1, <1>2, <1>3, <1>4, <1>5 DEF Caller, CallerOn

LEMMA KilledOthers ==
  ASSUME TypeOK, Standing, Killed, NEW a \in Others,
         Stop(a) \/ Canceller(a) \/ Delete(a) \/ Deleter(a)
  PROVE  Killed'
<1>0. a \in Actor /\ a \notin Run /\ "cancel" \in Why
  BY ActorsAre DEF Why
<1>1. CASE Close(a)
  BY <1>0, <1>1, KilledClose
<1>2. CASE ~Close(a)
  <2>1. UNCHANGED <<agent, inbox>> /\ (OtherWalked(a) \/ OtherTook(a))
    BY <1>2, OthersGoOn
  <2>2. CASE OtherWalked(a)
    <3>1. AgentsEnd /\ InboxesKept
      BY <2>1 DEF AgentsEnd, InboxesKept
    <3>2. QED
      BY <1>0, <2>2, <3>1, KilledMove DEF OtherWalked
  <2>3. CASE OtherTook(a)
    BY <1>0, <2>1, <2>3, KilledTake DEF OtherTook
  <2>4. QED
    BY <2>1, <2>2, <2>3
<1>3. QED
  BY <1>1, <1>2

LEMMA KilledSays ==
  ASSUME TypeOK, Killed, NEW r \in Run, Reply(r) \/ SayChunk(r) \/ SayAsk(r) \/ Exit(r) \/ Reader(r)
  PROVE  Killed'
<1>1. UNCHANGED <<act, live>>
  BY DEF Reply, SayChunk, SayAsk, Exit, Reader
<1>2. CASE Reply(r) \/ SayChunk(r) \/ SayAsk(r) \/ Exit(r)
  <2>1. AgentsEnd
    BY <1>2 DEF Reply, SayChunk, SayAsk, Exit, AgentsEnd, TypeOK
  <2>2. InboxesKept
    <3>1. CASE inbox' = inbox
      BY <3>1 DEF InboxesKept
    <3>2. CASE \E item \in Item : Hear(r, item) /\ item[1] # "gone"
      <4>1. PICK item \in Item : Hear(r, item) /\ item[1] # "gone"
        BY <3>2
      <4>2. /\ inbox[r] \in Seq(Item) /\ inbox'[r] = Append(inbox[r], item)
            /\ \A s \in Run \ {r} : inbox'[s] = inbox[s]
        BY <4>1 DEF Hear, TypeOK
      <4>3. \A i \in DOMAIN inbox'[r] :
              \/ i \in DOMAIN inbox[r] /\ inbox'[r][i] = inbox[r][i]
              \/ inbox'[r][i] = item
        BY <4>2, AppendProperties, LenProperties
      <4>4. QED
        BY <4>1, <4>2, <4>3 DEF InboxesKept
    <3>3. CASE SayChunk(r)
      <4> DEFINE item == <<"chunk", IF wire[r] = "asked" THEN calls ELSE 0>>
      <4>1. Hear(r, item) /\ item \in Item /\ item[1] # "gone"
        BY <3>3 DEF SayChunk, Item, TypeOK
      <4>2. QED
        BY <3>2, <4>1
    <3>4. CASE SayAsk(r)
      <4>1. PICK q \in Ask : Hear(r, <<"ask", q>>)
        BY <3>4 DEF SayAsk
      <4>2. <<"ask", q>> \in Item /\ <<"ask", q>>[1] # "gone"
        BY DEF Item
      <4>3. QED
        BY <3>2, <4>1, <4>2
    <3>5. QED
      BY <1>2, <3>1, <3>3, <3>4 DEF Reply, Exit
  <2>3. QED
    BY <1>1, <2>1, <2>2, KilledStill
<1>3. CASE Reader(r)
  <2>1. /\ agent[r] = "dying" /\ agent' = [agent EXCEPT ![r] = "gone"]
        /\ Hear(r, <<"gone", 0>>) /\ <<"gone", 0>> \in Item
    BY <1>3 DEF Reader, Item
  <2>2. /\ agent'[r] = "gone" /\ \A s \in Run \ {r} : agent'[s] = agent[s]
        /\ \A s \in Run \ {r} : inbox'[s] = inbox[s]
    BY <2>1 DEF TypeOK, Hear
  <2>3. \A a : ToClose(a)' = ToClose(a)
    BY <1>1 DEF ToClose
  <2>4. \A s, step : Closes(s, step)' <=> Closes(s, step)
    BY <1>1, <2>3 DEF Closes
  <2>5. GoneIsGone'
    BY <2>2 DEF Killed, GoneIsGone
  <2>6. KillApart' /\ Minded'
    BY <1>1, <2>2, <2>3, <2>4 DEF Killed, KillApart, Minded
  <2>7. QED
    BY <2>5, <2>6 DEF Killed
<1>4. QED
  BY <1>2, <1>3

\* What is taken because it is gone is not killed.
LEMMA GonePlan ==
  ASSUME NEW open \in BOOLEAN
  PROVE  \A i \in DOMAIN Plan("gone", open) : Plan("gone", open)[i] # "kill"
<1>1. CASE open
  <2>1. Plan("gone", open) = <<"texts">> \o <<"turn">> \o <<"row", "run", "asks">>
    BY <1>1 DEF Plan
  <2>2. Plan("gone", open) = <<"texts", "turn", "row", "run", "asks">>
    BY <2>1
  <2>3. QED
    BY <2>2
<1>2. CASE ~open
  <2>1. Plan("gone", open) = <<"texts">> \o <<>> \o <<"row", "run", "asks">>
    BY <1>2 DEF Plan
  <2>2. Plan("gone", open) = <<"texts", "row", "run", "asks">>
    BY <2>1
  <2>3. QED
    BY <2>2
<1>3. QED
  BY <1>1, <1>2

LEMMA KilledWorker ==
  ASSUME TypeOK, Standing, Killed, NEW r \in Run, Worker(r)
  PROVE  Killed'
<1>0. r \in Actor /\ "caller" \in Actor /\ "caller" \notin Run
  BY ActorsAre
<1>1. ASSUME NEW what, NextIs(r, what)
      PROVE  /\ InboxesKept /\ act[r].todo = <<>>
             /\ what = "gone" => agent[r] = "gone"
  <2>1. /\ Head(inbox[r])[1] = what
        /\ 1 \in DOMAIN inbox[r] /\ inbox[r][1] = Head(inbox[r])
        /\ \A s \in Run \ {r} : inbox'[s] = inbox[s]
        /\ \A i \in DOMAIN inbox'[r] : i + 1 \in DOMAIN inbox[r] /\ inbox'[r][i] = inbox[r][i + 1]
    BY <1>1, HeardOne
  <2>2. QED
    BY <1>1, <2>1 DEF InboxesKept, Killed, GoneIsGone, NextIs, At
<1>2. CASE HearChunk(r)
  <2>1. NextIs(r, "chunk") /\ agent' = agent
    BY <1>2 DEF HearChunk
  <2>2. AgentsEnd
    BY <2>1 DEF AgentsEnd
  <2>3. CASE live.run # r
    BY <1>1, <1>2, <2>1, <2>2, <2>3, KilledStill DEF HearChunk
  <2>4. CASE live.run = r
    <3>1. PICK m : /\ live' = [live EXCEPT !.open = @ \cup {m}]
                   /\ Becomes(r, [Rest EXCEPT !.pc = "append", !.msgs = {m},
                                              !.call = Head(inbox[r])[2]])
      BY <1>2, <2>4 DEF HearChunk
    <3>2. live'.run = live.run
      BY <3>1 DEF TypeOK, LiveRun
    <3>3. act'[r].todo = <<>> /\ Only(r)
      <4>1. /\ act'[r] = [Rest EXCEPT !.pc = "append", !.msgs = {m}, !.call = Head(inbox[r])[2]]
            /\ \A b \in Actor \ {r} : act'[b] = act[b]
        BY <1>0, <3>1, BecomesFields
      <4>2. QED
        BY <4>1, OnlyMoves DEF Rest
    <3>4. QED
      BY <1>0, <1>1, <2>1, <2>2, <3>2, <3>3, KilledMove
  <2>5. QED
    BY <2>3, <2>4
<1>3. CASE HearAsk(r)
  <2>1. NextIs(r, "ask") /\ UNCHANGED <<agent, act, live>>
    BY <1>3 DEF HearAsk
  <2>2. AgentsEnd
    BY <2>1 DEF AgentsEnd
  <2>3. QED
    BY <1>1, <2>1, <2>2, KilledStill
<1>4. CASE HearBarrier(r)
  <2>1. NextIs(r, "barrier") /\ UNCHANGED <<agent, live>>
    BY <1>4 DEF HearBarrier
  <2>2. AgentsEnd
    BY <2>1 DEF AgentsEnd
  <2>3. CASE act' = act
    BY <1>1, <2>1, <2>2, <2>3, KilledStill
  <2>4. CASE At("caller", "sync") /\ Goto("caller", "collect")
    <3>1. act["caller"].todo = <<>> /\ Only("caller")
      BY <1>0, <2>4, GotoMoves DEF At
    <3>2. QED
      BY <1>0, <1>1, <2>1, <2>2, <3>1, KilledMove
  <2>5. QED
    BY <1>4, <2>3, <2>4 DEF HearBarrier
<1>5. CASE AppendText(r)
  <2>1. Becomes(r, Rest) /\ UNCHANGED <<live, agent, inbox>> /\ act[r].todo = <<>>
    BY <1>5 DEF AppendText, At
  <2>2. act'[r].todo = <<>> /\ Only(r)
    BY <1>0, <2>1, BecomesFields, OnlyMoves DEF Rest
  <2>3. AgentsEnd /\ InboxesKept
    BY <2>1 DEF AgentsEnd, InboxesKept
  <2>4. QED
    BY <1>0, <2>1, <2>2, <2>3, KilledMove
<1>6. CASE HearGone(r)
  <2>1. NextIs(r, "gone") /\ agent' = agent /\ "gone" \in Why
    BY <1>6 DEF HearGone, Why
  <2>2. AgentsEnd
    BY <2>1 DEF AgentsEnd
  <2>3. CASE UNCHANGED <<live, act>>
    BY <1>1, <2>1, <2>2, <2>3, KilledStill
  <2>4. CASE live.run = r /\ Take(r, "rest", "gone")
    <3>1. Only(r) /\ live' = NoLive
      BY <1>0, <2>1, <2>4, TakeMoves
    <3>2. "kill" \notin ToClose(r)'
      <4> DEFINE plan == Plan("gone", live.turn # 0)
      <4>1. \A i \in DOMAIN plan : plan[i] # "kill"
        BY GonePlan
      <4> HIDE DEF plan
      <4>2. act'[r] = [act[r] EXCEPT !.pc = "rest", !.run = live.run, !.turn = live.turn,
                                     !.msgs = live.open, !.end = "gone", !.todo = plan]
        BY <1>0, <2>4, BecomesFields DEF Take, plan
      <4>3. act'[r].todo = plan
        BY <1>0, <4>2, ThreadFields DEF Thread
      <4>4. QED
        BY <4>1, <4>3 DEF ToClose
    <3>3. agent[r] = "gone" /\ act[r].todo = <<>> /\ InboxesKept
      BY <1>1, <2>1
    <3>4. KillApart'
      BY <3>1, <3>2, ActorsAre DEF Killed, KillApart, Only
    <3>5. GoneIsGone'
      BY <2>1, <3>3 DEF Killed, GoneIsGone, InboxesKept
    <3>6. \A s, step : Closes(s, step) => Closes(s, step)'
      <4>1. ToClose(r) = {}
        BY <3>3, NothingToClose
      <4>2. QED
        BY <3>1, <4>1 DEF Closes, Only
    <3>7. Minded'
      BY <2>1, <2>4, <3>3, <3>6 DEF Killed, Minded
    <3>8. QED
      BY <3>4, <3>5, <3>7 DEF Killed
  <2>5. QED
    BY <1>6, <2>3, <2>4 DEF HearGone
<1>7. CASE Close(r)
  BY <1>0, <1>7, KilledClose
<1>8. QED
  BY <1>2, <1>3, <1>4, <1>5, <1>6, <1>7 DEF Worker

LEMMA KilledStep ==
  ASSUME TypeOK, Standing, Placed, Killed, [Next]_vars
  PROVE  Killed'
<1>1. CASE Respond
  <2>1. UNCHANGED <<act, live, inbox>>
    BY <1>1 DEF Respond
  <2>2. AgentsEnd
    BY <1>1 DEF Respond, AgentsEnd, TypeOK
  <2>3. InboxesKept
    BY <2>1 DEF InboxesKept
  <2>4. QED
    BY <2>1, <2>2, <2>3, KilledStill
<1>2. CASE UNCHANGED vars
  BY <1>2, KilledStill DEF vars, AgentsEnd, InboxesKept
<1>3. QED
  BY <1>1, <1>2, KilledCaller, KilledOthers, KilledSays, KilledWorker DEF Next

LEMMA InitKilled == Init => Killed
<1> SUFFICES ASSUME Init PROVE Killed
  OBVIOUS
<1>1. /\ \A r \in Run : agent[r] = "none" /\ inbox[r] = <<>> /\ act[r].todo = <<>>
  BY ActorsAre DEF Init, Rest
<1>2. QED
  BY <1>1 DEF Killed, GoneIsGone, KillApart, Minded, ToClose

------------------------------------------------------------------------------
(* A stop is final *)

CancellerAt(places) == "canceller" \in Others /\ act["canceller"].pc \in places
Stops(call) == "canceller" \in Others /\ act["canceller"].call = call
DeleterKills(r) == /\ "deleter" \in Others
                   /\ act["deleter"].run = r /\ "kill" \in ToClose("deleter")

\* A stop has taken what was live in the present call.
Hushed == /\ calls # 0
          /\ quiet = calls \/ (CancellerAt({"stopped"}) /\ Stops(calls))

\* A caller without a stop flag is stopped by nobody.
CallNow == /\ act["caller"].call \in {0, calls}
           /\ CallerIn({"rest"}) => act["caller"].call = 0
           /\ ~CallerIn({"rest"}) /\ act["caller"].call = 0 => quiet # calls /\ ~Stops(calls)
NoneAhead == "canceller" \in Others => act["canceller"].call <= calls

\* The flag is set before what is live is taken, ...
Flagged == Hushed \/ (calls # 0 /\ CancellerAt({"cancel"}) /\ Stops(calls)) => stop

\* ... so that a run that comes to life behind it has the flag to pass.
Cleared == Hushed => live.run = NoRun \/ CallerIn(Up \cup {"check2"})

\* A prompt that goes on goes to an agent that is dead, or as good as dead.
Late == quiet = calls /\ calls # 0 /\ CallerIn(Prompting) =>
          agent[CallersRun] # "up" \/ DeleterKills(CallersRun)

Hushing == CallNow /\ NoneAhead /\ Flagged /\ Cleared /\ Late

LEMMA HushElse ==
  ASSUME TypeOK, Hushing, UNCHANGED <<calls, quiet>>, act'["caller"] = act["caller"],
         stop => stop', live'.run \in {live.run, NoRun},
         "canceller" \in Others => /\ act'["canceller"].pc = act["canceller"].pc
                                   /\ act'["canceller"].call = act["canceller"].call,
         \A r \in Run : agent'[r] = "up" =>
           agent[r] = "up" /\ (DeleterKills(r) => DeleterKills(r)'),
         CallerIn(Prompting) => CallersRun \in Run
  PROVE  Hushing'
<1>1. Hushed' <=> Hushed
  BY DEF Hushed, CancellerAt, Stops
<1>2. CallNow' /\ NoneAhead' /\ Flagged' /\ Cleared'
  BY <1>1 DEF Hushing, CallNow, NoneAhead, Flagged, Cleared, CancellerAt, Stops, CallerIn
<1>3. Late'
  <2> SUFFICES ASSUME quiet = calls, calls # 0, CallerIn(Prompting), agent'[CallersRun] = "up"
               PROVE  DeleterKills(CallersRun)'
    BY DEF Late, CallerIn, CallersRun
  <2>1. DeleterKills(CallersRun)
    BY DEF Hushing, Late
  <2>2. CallersRun' = CallersRun
    BY DEF CallersRun
  <2>3. \A r \in Run : r = CallersRun => DeleterKills(r)'
    BY <2>1
  <2>4. QED
    BY <2>2, <2>3 DEF DeleterKills
<1>4. QED
  BY <1>2, <1>3 DEF Hushing

LEMMA HushCaller ==
  ASSUME TypeOK, Hushing, Only("caller"), UNCHANGED <<calls, quiet, stop>>,
         \/ act'["caller"].call = act["caller"].call /\ ~CallerIn({"rest"})
            /\ act'["caller"].pc # "rest"
         \/ act'["caller"].pc = "rest" /\ act'["caller"].call = 0 /\ ~CallerIn(Up \cup {"check2"}),
         \/ live'.run = NoRun
         \/ act'["caller"].pc \in Up \cup {"check2"}
         \/ /\ live'.run = live.run
            /\ CallerIn(Up \cup {"check2"}) =>
                 ~stop \/ act["caller"].call = 0 \/ live.run = NoRun,
         act'["caller"].pc \in Prompting =>
           /\ agent' = agent
           /\ \/ CallerIn(Prompting) /\ act'["caller"].run = CallersRun
              \/ live.run # NoRun /\ ~CallerIn(Up \cup {"check2"})
  PROVE  Hushing'
<1>0. "caller" \in Actor /\ \A a \in Others : act'[a] = act[a] /\ ToClose(a)' = ToClose(a)
  BY ActorsAre DEF Only
<1>1. /\ \A pcs : CancellerAt(pcs)' <=> CancellerAt(pcs)
      /\ \A n : Stops(n)' <=> Stops(n)
      /\ \A r : DeleterKills(r)' <=> DeleterKills(r)
  BY <1>0 DEF CancellerAt, Stops, DeleterKills
<1>2. Hushed' <=> Hushed
  BY <1>0 DEF Hushed, CancellerAt, Stops
<1>3. Hushed /\ ~CallerIn({"rest"}) => stop /\ act["caller"].call # 0
  BY DEF Hushing, Flagged, CallNow, Hushed
<1>4. CallNow' /\ NoneAhead' /\ Flagged'
  BY <1>0, <1>2 DEF Hushing, CallNow, NoneAhead, Flagged, CancellerAt, Stops, CallerIn
<1>5. Cleared'
  <2>1. CallerIn(Up \cup {"check2"}) => ~CallerIn({"rest"})
    BY DEF CallerIn, Up
  <2>2. QED
    BY <1>2, <1>3, <2>1 DEF Hushing, Cleared, CallerIn
<1>6. Late'
  <2> SUFFICES ASSUME NEW r, r = act'["caller"].run, agent'[r] = "up",
                      quiet = calls, calls # 0, act'["caller"].pc \in Prompting
               PROVE  DeleterKills(r)'
    BY DEF Late, CallerIn, CallersRun, DeleterKills
  <2>1. Hushed
    BY DEF Hushed
  <2>2. CallerIn(Prompting) /\ r = CallersRun /\ agent' = agent
    BY <2>1 DEF Hushing, Cleared
  <2>3. DeleterKills(r)
    BY <2>2 DEF Hushing, Late
  <2>4. QED
    BY <1>1, <2>3
<1>7. QED
  BY <1>4, <1>5, <1>6 DEF Hushing

\* A killer kills, or has it still to do.
LEMMA CloseKills ==
  ASSUME TypeOK, Standing, NEW a \in Actor, Close(a)
  PROVE  /\ act[a].todo # <<>> /\ Only(a)
         /\ act'[a].pc = act[a].pc /\ act'[a].call = act[a].call
         /\ UNCHANGED <<live, calls, quiet, stop>>
         /\ \A r \in Run : agent'[r] = "up" => agent[r] = "up"
         /\ \A r \in Run : act[a].run = r /\ "kill" \in ToClose(a) /\ agent'[r] = "up" =>
              act'[a].run = r /\ "kill" \in ToClose(a)'
<1>1. PICK step : Due(a, step) /\ Done(a) /\ (step = "kill" => CloseAgent(a))
  <2>1. CASE CloseAgent(a)
    BY <2>1 DEF CloseAgent
  <2>2. CASE ~CloseAgent(a)
    BY <2>2 DEF Close, CloseAsks, CloseTexts, CloseTurn, CloseRow, CloseRun
  <2>3. QED
    BY <2>1, <2>2
<1>2. /\ act[a].todo # <<>> /\ Only(a) /\ act'[a].pc = act[a].pc /\ act'[a].call = act[a].call
      /\ \A other \in ToClose(a) : other # step =>
           act'[a].run = act[a].run /\ other \in ToClose(a)'
  BY <1>1, DoneMoves
<1>3. act[a].run \in Run
  BY <1>2 DEF Standing, Closing
<1>4. UNCHANGED <<live, calls, quiet, stop>>
  BY DEF Close, CloseAsks, CloseAgent, CloseTexts, CloseTurn, CloseRow, CloseRun
<1>5. CASE CloseAgent(a)
  <2>1. agent' = [agent EXCEPT ![act[a].run] = IF @ = "up" THEN "dying" ELSE @]
    BY <1>5 DEF CloseAgent
  <2>2. /\ agent'[act[a].run] # "up"
        /\ \A r \in Run : agent'[r] = "up" => agent[r] = "up"
    BY <1>3, <2>1 DEF TypeOK
  <2>3. QED
    BY <1>2, <1>4, <2>2
<1>6. CASE ~CloseAgent(a)
  <2>1. agent' = agent
    BY <1>6 DEF Close, CloseAsks, CloseTexts, CloseTurn, CloseRow, CloseRun
  <2>2. QED
    BY <1>1, <1>2, <1>4, <1>6, <2>1
<1>7. QED
  BY <1>5, <1>6

LEMMA HushClose ==
  ASSUME TypeOK, Standing, Placed, Hushing, NEW a \in Actor, Close(a)
  PROVE  Hushing'
<1>0. /\ "caller" \in Actor /\ "caller" \notin Others
      /\ "canceller" \in Others => "canceller" \in Actor
      /\ "deleter" \in Others => "deleter" \in Actor
  BY ActorsAre
<1>1. /\ act[a].todo # <<>> /\ Only(a)
      /\ act'[a].pc = act[a].pc /\ act'[a].call = act[a].call
      /\ UNCHANGED <<live, calls, quiet, stop>>
      /\ \A r \in Run : agent'[r] = "up" => agent[r] = "up"
      /\ \A r \in Run : act[a].run = r /\ "kill" \in ToClose(a) /\ agent'[r] = "up" =>
           act'[a].run = r /\ "kill" \in ToClose(a)'
  BY CloseKills
<1>2. CASE a = "caller"
  <2>1. ~CallerIn(Up \cup Prompting)
    BY <1>1, <1>2 DEF Placed, OnItsRun
  <2>2. act'["caller"].pc \notin Up \cup Prompting
    BY <1>1, <1>2, <2>1 DEF CallerIn
  <2>3. CASE ~CallerIn({"rest"}) /\ ~CallerIn({"check2"})
    BY <1>1, <1>2, <2>1, <2>2, <2>3, HushCaller DEF CallerIn
  <2>4. CASE CallerIn({"check2"})
    BY <1>1, <1>2, <2>1, <2>2, <2>4, HushCaller DEF CallerIn
  <2>5. CASE CallerIn({"rest"})
    <3>1. act'["caller"].pc = "rest" /\ act'["caller"].call = 0
      BY <1>1, <1>2, <2>5 DEF Hushing, CallNow, CallerIn
    <3>2. ~CallerIn(Up \cup {"check2"})
      BY <2>5 DEF CallerIn, Up
    <3>3. QED
      BY <1>1, <1>2, <2>2, <3>1, <3>2, HushCaller
  <2>6. QED
    BY <2>3, <2>4, <2>5
<1>3. CASE a # "caller"
  <2>1. act'["caller"] = act["caller"]
    BY <1>0, <1>1, <1>3 DEF Only
  <2>2. "canceller" \in Others => /\ act'["canceller"].pc = act["canceller"].pc
                                  /\ act'["canceller"].call = act["canceller"].call
    BY <1>0, <1>1 DEF Only
  <2>3. \A r \in Run : agent'[r] = "up" => (DeleterKills(r) => DeleterKills(r)')
    BY <1>0, <1>1 DEF Only, DeleterKills
  <2>4. CallerIn(Prompting) => CallersRun \in Run
    BY DEF Placed, OnItsRun, CallerIn
  <2>5. QED
    BY <1>1, <2>1, <2>2, <2>3, <2>4, HushElse
<1>4. QED
  BY <1>2, <1>3

\* A new call has not been stopped yet.
LEMMA HushBegin ==
  ASSUME TypeOK, Hushing, Begin
  PROVE  Hushing'
<1>0. /\ "caller" \in Actor /\ act["caller"] \in Thread
      /\ calls \in Nat /\ quiet \in Nat /\ quiet <= calls
      /\ "canceller" \in Others => "canceller" \in Actor \ {"caller"}
  BY ActorsAre DEF TypeOK, Actor
<1>1. At("caller", "rest") /\ calls' = calls + 1 /\ quiet' = quiet
  BY DEF Begin
<1>2. act["caller"].call = 0
  BY <1>1 DEF Hushing, CallNow, CallerIn, At
<1>3. PICK th \in {[act["caller"] EXCEPT !.pc = "lock", !.call = calls + 1],
                   [act["caller"] EXCEPT !.pc = "lock"]} : Becomes("caller", th)
  BY DEF Begin, Goto
<1>4. th.pc = "lock" /\ th.call \in {0, calls + 1}
  BY <1>0, <1>2, <1>3 DEF Thread
<1>5. act'["caller"] = th /\ \A b \in Actor \ {"caller"} : act'[b] = act[b]
  BY <1>0, <1>3, BecomesFields
<1>6. quiet # calls + 1 /\ ("canceller" \in Others => act'["canceller"].call # calls + 1)
  <2>1. "canceller" \in Others => act["canceller"].call \in Nat /\ act["canceller"].call <= calls
    BY <1>0, ThreadFields DEF Hushing, NoneAhead
  <2>2. QED
    BY <1>0, <1>5, <2>1
<1>7. ~Hushed' /\ ~Stops(calls)'
  BY <1>1, <1>6 DEF Hushed, Stops
<1>8. CallNow'
  BY <1>1, <1>4, <1>5, <1>6, <1>7 DEF CallNow, CallerIn
<1>9. NoneAhead'
  <2>1. "canceller" \in Others => act'["canceller"].call \in Nat /\ act'["canceller"].call <= calls
    BY <1>0, <1>5, ThreadFields DEF Hushing, NoneAhead
  <2>2. QED
    BY <1>0, <1>1, <2>1 DEF NoneAhead
<1>10. Flagged' /\ Cleared'
  BY <1>7 DEF Flagged, Cleared
<1>11. Late'
  BY <1>1, <1>6 DEF Late
<1>12. QED
  BY <1>8, <1>9, <1>10, <1>11 DEF Hushing

\* A step of the caller that leaves counters and flags alone.
LEMMA HushWalks ==
  ASSUME TypeOK, Standing, Placed, Hushing, CallerOn
  PROVE  Hushing'
<1>0. "caller" \in Actor
  BY ActorsAre
<1>1. UNCHANGED <<calls, quiet, stop>>
  BY DEF CallerOn, Lock, Check, Choose, Replace, AnnounceStart, SetUp, MarkRunning,
         AnnounceUp, Adopt, OpenTurn, AnnounceTurn, Send, Answered, TurnFails, Collect,
         CompleteTexts, SettleTurn, AnnounceEnd
<1>2. CASE Walked
  BY <1>1, <1>2, HushCaller DEF Walked, CallersRun, CallerIn
<1>3. CASE Took
  <2>1. PICK to \in {"fail", "create"}, why \in Why \ {"gone"} : Take("caller", to, why)
    BY <1>3 DEF Took
  <2>2. /\ live' = NoLive /\ act'["caller"].pc = to
        /\ act'["caller"].call = act["caller"].call /\ Only("caller")
    BY <1>0, <2>1, TakeMoves
  <2>3. live'.run = NoRun /\ to \notin Prompting /\ to # "rest" /\ ~CallerIn({"rest"})
    BY <1>3, <2>2 DEF Prompting, Took, NoLive
  <2>4. QED
    BY <1>1, <2>2, <2>3, HushCaller
<1>4. QED
  BY <1>2, <1>3, CallerGoesOn

LEMMA HushCallerStep ==
  ASSUME TypeOK, Standing, Placed, Hushing, Begin \/ Caller
  PROVE  Hushing'
<1>0. "caller" \in Actor /\ act["caller"] \in Thread
  BY ActorsAre, ThreadFields
<1>1. CASE Create
  <2>1. /\ At("caller", "create") /\ UNCHANGED <<calls, quiet, stop, live>>
        /\ \E r \in Run : Becomes("caller", [act["caller"] EXCEPT !.pc = "announce", !.run = r])
    BY <1>1 DEF Create
  <2>2. /\ act'["caller"].pc = "announce" /\ act'["caller"].call = act["caller"].call
        /\ Only("caller")
    <3>1. PICK r \in Run : Becomes("caller", [act["caller"] EXCEPT !.pc = "announce", !.run = r])
      BY <2>1
    <3>2. /\ act'["caller"] = [act["caller"] EXCEPT !.pc = "announce", !.run = r]
          /\ \A b \in Actor \ {"caller"} : act'[b] = act[b]
      BY <1>0, <3>1, BecomesFields
    <3>3. QED
      BY <1>0, <3>2, OnlyMoves DEF Thread
  <2>3. /\ act'["caller"].pc # "rest" /\ act'["caller"].pc \notin Prompting
        /\ ~CallerIn({"rest"}) /\ ~CallerIn(Up \cup {"check2"})
    BY <2>1, <2>2 DEF At, CallerIn, Up, Prompting
  <2>4. QED
    BY <2>1, <2>2, <2>3, HushCaller
<1>2. CASE Spawn
  <2>1. At("caller", "spawn") /\ UNCHANGED <<calls, quiet, stop>>
    BY <1>2 DEF Spawn
  <2>2. ~CallerIn({"rest"}) /\ ~CallerIn(Up \cup {"check2"})
    BY <2>1 DEF At, CallerIn, Up
  <2>3. CASE Goto("caller", "setup")
    <3>1. /\ act'["caller"].pc = "setup" /\ act'["caller"].call = act["caller"].call
          /\ Only("caller")
      BY <1>0, <2>3, GotoMoves
    <3>2. "setup" \in Up \cup {"check2"} /\ "setup" \notin Prompting /\ "setup" # "rest"
      BY DEF Up, Prompting
    <3>3. QED
      BY <2>1, <2>2, <3>1, <3>2, HushCaller
  <2>4. CASE /\ Becomes("caller", [act["caller"] EXCEPT !.pc = "fail", !.end = "start",
                                                       !.todo = <<"row", "run">>])
             /\ UNCHANGED live
    <3>1. /\ act'["caller"].pc = "fail" /\ act'["caller"].call = act["caller"].call
          /\ Only("caller")
      <4>1. /\ act'["caller"] = [act["caller"] EXCEPT !.pc = "fail", !.end = "start",
                                                      !.todo = <<"row", "run">>]
            /\ \A b \in Actor \ {"caller"} : act'[b] = act[b]
        BY <1>0, <2>4, BecomesFields
      <4>2. QED
        BY <1>0, <4>1, OnlyMoves DEF Thread
    <3>2. "fail" \notin Prompting /\ "fail" # "rest"
      BY DEF Prompting
    <3>3. QED
      BY <2>1, <2>2, <2>4, <3>1, <3>2, HushCaller
  <2>5. QED
    BY <1>2, <2>3, <2>4 DEF Spawn
<1>3. CASE SetUpFails
  <2>1. /\ act'["caller"].pc = "fail" /\ act'["caller"].call = act["caller"].call
        /\ Only("caller")
    BY <1>3, FailedSetUp
  <2>2. /\ UNCHANGED <<calls, quiet, stop>> /\ At("caller", "setup")
        /\ live' = IF live.run = CallersRun THEN NoLive ELSE live
    BY <1>3 DEF SetUpFails, CallersRun
  <2>3. live.run \in {NoRun, CallersRun}
    BY <2>2 DEF Placed, OnItsRun, CallerIn, At, Up
  <2>4. live'.run = NoRun
    BY <2>2, <2>3 DEF NoLive
  <2>5. ~CallerIn({"rest"}) /\ "fail" \notin Prompting /\ "fail" # "rest"
    BY <2>2 DEF CallerIn, At, Prompting
  <2>6. QED
    BY <2>1, <2>2, <2>4, <2>5, HushCaller
<1>4. CASE Load
  <2>1. At("caller", "load") /\ UNCHANGED <<calls, quiet, stop, live, agent>>
    BY <1>4 DEF Load
  <2>2. PICK th : /\ Becomes("caller", th) /\ th.call = act["caller"].call
                  /\ (th.pc = "fail" \/ (th.pc = "open" /\ live.run # NoRun))
    <3>1. CASE Goto("caller", "fail")
      <4>1. /\ [act["caller"] EXCEPT !.pc = "fail"].pc = "fail"
            /\ [act["caller"] EXCEPT !.pc = "fail"].call = act["caller"].call
        BY <1>0 DEF Thread
      <4>2. QED
        BY <3>1, <4>1 DEF Goto
    <3>2. CASE /\ live.run # NoRun
               /\ Becomes("caller", [act["caller"] EXCEPT !.pc = "open", !.run = live.run])
      <4>1. /\ [act["caller"] EXCEPT !.pc = "open", !.run = live.run].pc = "open"
            /\ [act["caller"] EXCEPT !.pc = "open", !.run = live.run].call = act["caller"].call
        BY <1>0 DEF Thread
      <4>2. QED
        BY <3>2, <4>1
    <3>3. QED
      BY <1>4, <3>1, <3>2 DEF Load
  <2>3. act'["caller"] = th /\ Only("caller")
    BY <1>0, <2>2, BecomesFields, OnlyMoves
  <2>4. /\ ~CallerIn({"rest"}) /\ ~CallerIn(Up \cup {"check2"})
        /\ "fail" \notin Prompting
    BY <2>1 DEF At, CallerIn, Up, Prompting
  <2>5. QED
    BY <2>1, <2>2, <2>3, <2>4, HushCaller
<1>5. CASE Return
  <2>1. /\ act'["caller"] = Rest /\ Only("caller")
    BY <1>0, <1>5, BecomesFields, OnlyMoves DEF Return
  <2>2. /\ UNCHANGED <<calls, quiet, stop, live>> /\ (At("caller", "done") \/ At("caller", "fail"))
        /\ Rest.pc = "rest" /\ Rest.call = 0
    BY <1>5 DEF Return, Rest
  <2>3. ~CallerIn(Up \cup {"check2"}) /\ "rest" \notin Prompting
    BY <2>2 DEF At, CallerIn, Up, Prompting
  <2>4. QED
    BY <2>1, <2>2, <2>3, HushCaller
<1>6. CASE Close("caller")
  BY <1>0, <1>6, HushClose
<1>7. QED
  BY <1>1, <1>2, <1>3, <1>4, <1>5, <1>6, HushBegin, HushWalks DEF Caller, CallerOn

LEMMA HushCanceller ==
  ASSUME TypeOK, Standing, Placed, Killed, Counted, Hushing,
         NEW a \in Others, Stop(a) \/ Canceller(a)
  PROVE  Hushing'
<1>0. /\ a \in Actor /\ a = "canceller" /\ act[a] \in Thread /\ act[a].call \in Nat
      /\ "caller" \in Actor \ {a} /\ calls \in Nat
      /\ "deleter" \in Others => "deleter" \in Actor \ {a}
  BY ActorsAre, ThreadFields DEF Stop, Canceller, TypeOK
<1>1. ASSUME Only(a)
      PROVE  /\ act'["caller"] = act["caller"]
             /\ \A r : DeleterKills(r)' <=> DeleterKills(r)
  BY <1>0, <1>1 DEF Only, DeleterKills
<1>2. CASE Stop(a)
  <2>1. /\ At(a, "rest") /\ stop' = (stop \/ act["caller"].call # 0)
        /\ Becomes(a, [act[a] EXCEPT !.pc = "cancel", !.call = act["caller"].call])
        /\ UNCHANGED <<live, calls, quiet, agent>>
    BY <1>2 DEF Stop
  <2>2. act'[a].pc = "cancel" /\ act'[a].call = act["caller"].call /\ Only(a)
    <3>1. /\ act'[a] = [act[a] EXCEPT !.pc = "cancel", !.call = act["caller"].call]
          /\ \A b \in Actor \ {a} : act'[b] = act[b]
      BY <1>0, <2>1, BecomesFields
    <3>2. QED
      BY <1>0, <3>1, OnlyMoves DEF Thread
  <2>3. Hushed' <=> Hushed
    BY <1>0, <2>1, <2>2 DEF Hushed, CancellerAt, At
  <2>4. CallNow' /\ NoneAhead'
    BY <1>0, <1>1, <2>1, <2>2 DEF Hushing, CallNow, NoneAhead, CallerIn, Counted, Stops
  <2>5. Flagged'
    BY <1>0, <2>1, <2>2, <2>3 DEF Hushing, Flagged, Stops, CancellerAt
  <2>6. Cleared' /\ Late'
    BY <1>1, <2>1, <2>2, <2>3 DEF Hushing, Cleared, Late, CallerIn, CallersRun
  <2>7. QED
    BY <2>4, <2>5, <2>6 DEF Hushing
<1>3. CASE Cancel(a)
  <2>1. At(a, "cancel") /\ TakeIfAny(a, "stopped", "cancel") /\ UNCHANGED <<stop, calls, quiet, agent>>
    BY <1>3 DEF Cancel
  <2>2. /\ act'[a].pc = "stopped" /\ act'[a].call = act[a].call /\ Only(a)
        /\ live'.run = NoRun
    <3>1. CASE Take(a, "stopped", "cancel")
      <4>1. "cancel" \in Why
        BY DEF Why
      <4>2. QED
        BY <1>0, <3>1, <4>1, TakeMoves DEF NoLive
    <3>2. CASE live.run = NoRun /\ Goto(a, "stopped") /\ UNCHANGED live
      BY <1>0, <3>2, GotoMoves
    <3>3. QED
      BY <2>1, <3>1, <3>2 DEF TakeIfAny
  <2>3. CallNow' /\ NoneAhead'
    BY <1>0, <1>1, <2>1, <2>2 DEF Hushing, CallNow, NoneAhead, CallerIn, Stops
  <2>4. Flagged'
    BY <1>0, <2>1, <2>2 DEF Hushing, Flagged, Hushed, Stops, CancellerAt, At
  <2>5. Cleared' /\ Late'
    BY <1>1, <2>1, <2>2 DEF Hushing, Cleared, Late, CallerIn, CallersRun
  <2>6. QED
    BY <2>3, <2>4, <2>5 DEF Hushing
<1>4. CASE Stopped(a)
  <2>1. /\ At(a, "stopped") /\ quiet' = IF act[a].call = calls THEN calls ELSE quiet
        /\ Becomes(a, Rest) /\ UNCHANGED <<live, calls, stop, agent>>
    BY <1>4 DEF Stopped
  <2>2. act'[a].pc = "rest" /\ act'[a].call = 0 /\ Only(a)
    BY <1>0, <2>1, BecomesFields, OnlyMoves DEF Rest
  <2>3. Hushed' => Hushed
    BY <1>0, <2>1, <2>2 DEF Hushed, CancellerAt, Stops, At
  <2>4. CallNow' /\ NoneAhead'
    BY <1>0, <1>1, <2>1, <2>2 DEF Hushing, CallNow, NoneAhead, CallerIn, Counted, Stops
  <2>5. Flagged'
    BY <1>0, <2>1, <2>2, <2>3 DEF Hushing, Flagged, CancellerAt
  <2>6. Cleared'
    BY <1>1, <2>1, <2>2, <2>3 DEF Hushing, Cleared, CallerIn
  <2>7. Late'
    <3> SUFFICES ASSUME quiet' = calls, calls # 0, CallerIn(Prompting), agent[CallersRun] = "up"
                 PROVE  DeleterKills(CallersRun)
      BY <1>1, <2>1, <2>2 DEF Late, CallerIn, CallersRun
    <3>1. CASE quiet = calls
      BY <3>1 DEF Hushing, Late
    <3>2. CASE quiet # calls
      <4>1. Hushed
        BY <1>0, <2>1, <3>2 DEF Hushed, CancellerAt, Stops, At
      <4>2. act["caller"].todo = <<>> /\ CallersRun \in Run
        BY DEF Placed, OnItsRun, CallerIn
      <4>3. live.run = NoRun
        BY <4>1 DEF Hushing, Cleared, CallerIn, Up, Prompting
      <4>4. PICK b \in Actor : act[b].run = CallersRun /\ "kill" \in ToClose(b)
        BY <4>2, <4>3 DEF Killed, Minded, Closes
      <4>5. b # "caller" /\ b # a /\ b \notin Run
        BY <2>1, <4>2, <4>4, NothingToClose DEF Killed, KillApart, At
      <4>6. b = "deleter" /\ b \in Others
        BY <1>0, <4>4, <4>5 DEF Actor
      <4>7. QED
        BY <4>4, <4>6 DEF DeleterKills
    <3>3. QED
      BY <3>1, <3>2
  <2>8. QED
    BY <2>4, <2>5, <2>6, <2>7 DEF Hushing
<1>5. CASE Close(a)
  BY <1>0, <1>5, HushClose
<1>6. QED
  BY <1>2, <1>3, <1>4, <1>5 DEF Canceller

LEMMA HushDeleter ==
  ASSUME TypeOK, Standing, Placed, Hushing, NEW a \in Others, Delete(a) \/ Deleter(a)
  PROVE  Hushing'
<1>0. /\ a \in Actor /\ a = "deleter" /\ "caller" \in Actor \ {a}
      /\ "canceller" \in Others => "canceller" \in Actor \ {a}
  BY ActorsAre DEF Delete, Deleter
<1>1. CASE Close(a)
  BY <1>0, <1>1, HushClose
<1>2. CASE ~Close(a)
  <2>1. (OtherWalked(a) \/ OtherTook(a)) /\ UNCHANGED <<agent, calls>>
    BY <1>2, OthersGoOn
  <2>2. quiet' = quiet /\ (stop => stop')
    <3>1. CASE Delete(a)
      <4>1. PICK tidy \in BOOLEAN : stop' = (stop \/ (~tidy /\ act["caller"].call # 0))
        BY <3>1 DEF Delete
      <4>2. quiet' = quiet
        BY <3>1 DEF Delete
      <4>3. QED
        BY <4>1, <4>2
    <3>2. CASE Deleter(a)
      <4>1. stop' = stop /\ quiet' = quiet
        BY <1>2, <3>2 DEF Deleter, Look, Interrupt, Enter, Spare, Erase, Forget
      <4>2. QED
        BY <4>1
    <3>3. QED
      BY <3>1, <3>2
  <2>3. Only(a) /\ live'.run \in {live.run, NoRun}
    <3>1. CASE OtherWalked(a)
      BY <3>1 DEF OtherWalked
    <3>2. CASE OtherTook(a)
      <4>1. "cancel" \in Why
        BY DEF Why
      <4>2. QED
        BY <1>0, <3>2, <4>1, TakeMoves DEF OtherTook, NoLive
    <3>3. QED
      BY <2>1, <3>1, <3>2
  <2>4. \A r : ~DeleterKills(r)
    BY <1>0, <2>1, NothingToClose DEF OtherWalked, OtherTook, DeleterKills
  <2>5. act'["caller"] = act["caller"] /\ ("canceller" \in Others => act'["canceller"] = act["canceller"])
    BY <1>0, <2>3 DEF Only
  <2>6. CallerIn(Prompting) => CallersRun \in Run
    BY DEF Placed, OnItsRun, CallerIn
  <2>7. QED
    BY <2>1, <2>2, <2>3, <2>4, <2>5, <2>6, HushElse
<1>3. QED
  BY <1>1, <1>2

LEMMA HushWorker ==
  ASSUME TypeOK, Standing, Placed, Hushing, NEW r \in Run, Worker(r)
  PROVE  Hushing'
<1>0. /\ r \in Actor /\ "caller" \in Actor \ {r}
      /\ "canceller" \in Others => "canceller" \in Actor \ {r}
      /\ "deleter" \in Others => "deleter" \in Actor \ {r}
  BY ActorsAre
<1>1. CallerIn(Prompting) => CallersRun \in Run
  BY DEF Placed, OnItsRun, CallerIn
<1>2. ASSUME Only(r), UNCHANGED <<calls, quiet, stop, agent>>, live'.run \in {live.run, NoRun}
      PROVE  Hushing'
  <2>1. /\ act'["caller"] = act["caller"]
        /\ "canceller" \in Others => act'["canceller"] = act["canceller"]
        /\ \A s : DeleterKills(s) => DeleterKills(s)'
    BY <1>0, <1>2 DEF Only, DeleterKills
  <2>2. QED
    BY <1>1, <1>2, <2>1, HushElse
<1>3. ASSUME act' = act
      PROVE  Only(r)
  BY <1>3 DEF Only, ToClose
<1>4. CASE HearChunk(r)
  <2>1. CASE live.run # r
    BY <1>2, <1>3, <1>4, <2>1 DEF HearChunk
  <2>2. CASE live.run = r
    <3>1. PICK m : /\ live' = [live EXCEPT !.open = @ \cup {m}]
                   /\ Becomes(r, [Rest EXCEPT !.pc = "append", !.msgs = {m},
                                              !.call = Head(inbox[r])[2]])
      BY <1>4, <2>2 DEF HearChunk
    <3>2. live'.run = live.run
      BY <3>1 DEF TypeOK, LiveRun
    <3>3. Only(r)
      BY <1>0, <3>1, BecomesFields, OnlyMoves
    <3>4. UNCHANGED <<calls, quiet, stop, agent>>
      BY <1>4 DEF HearChunk
    <3>5. QED
      BY <1>2, <3>2, <3>3, <3>4
  <2>3. QED
    BY <2>1, <2>2
<1>5. CASE AppendText(r)
  <2>1. Becomes(r, Rest) /\ UNCHANGED <<live, calls, quiet, stop, agent>>
    BY <1>5 DEF AppendText
  <2>2. QED
    BY <1>0, <1>2, <2>1, BecomesFields, OnlyMoves
<1>6. CASE HearAsk(r)
  BY <1>2, <1>3, <1>6 DEF HearAsk
<1>7. CASE HearGone(r)
  <2>1. UNCHANGED <<calls, quiet, stop, agent>> /\ "gone" \in Why
    BY <1>7 DEF HearGone, Why
  <2>2. CASE UNCHANGED <<live, act>>
    BY <1>2, <1>3, <2>1, <2>2
  <2>3. CASE Take(r, "rest", "gone")
    BY <1>0, <1>2, <2>1, <2>3, TakeMoves DEF NoLive
  <2>4. QED
    BY <1>7, <2>2, <2>3 DEF HearGone
<1>8. CASE HearBarrier(r)
  <2>1. UNCHANGED <<live, calls, quiet, stop, agent>>
    BY <1>8 DEF HearBarrier
  <2>2. CASE act' = act
    BY <1>2, <1>3, <2>1, <2>2
  <2>3. CASE At("caller", "sync") /\ Goto("caller", "collect")
    <3>1. /\ act'["caller"].pc = "collect" /\ act'["caller"].run = CallersRun
          /\ act'["caller"].call = act["caller"].call /\ Only("caller")
      BY <1>0, <2>3, GotoMoves DEF CallersRun
    <3>2. ~CallerIn({"rest"}) /\ ~CallerIn(Up \cup {"check2"}) /\ CallerIn(Prompting)
      BY <2>3 DEF At, CallerIn, Up, Prompting
    <3>3. QED
      BY <2>1, <3>1, <3>2, HushCaller
  <2>4. QED
    BY <1>8, <2>2, <2>3 DEF HearBarrier
<1>9. CASE Close(r)
  BY <1>0, <1>9, HushClose
<1>10. QED
  BY <1>4, <1>5, <1>6, <1>7, <1>8, <1>9 DEF Worker

LEMMA HushStep ==
  ASSUME TypeOK, Standing, Placed, Killed, Counted, Hushing, [Next]_vars
  PROVE  Hushing'
<1>1. CallerIn(Prompting) => CallersRun \in Run
  BY DEF Placed, OnItsRun, CallerIn
<1>2. ASSUME UNCHANGED <<act, live, calls, quiet, stop>>,
             \A r \in Run : agent'[r] = "up" => agent[r] = "up"
      PROVE  Hushing'
  <2>1. \A r : DeleterKills(r) => DeleterKills(r)'
    BY <1>2 DEF DeleterKills, ToClose
  <2>2. QED
    BY <1>1, <1>2, <2>1, HushElse
<1>3. CASE Respond
  <2>1. UNCHANGED <<act, live, calls, quiet, stop>>
    BY <1>3 DEF Respond
  <2>2. \A r \in Run : agent'[r] = "up" => agent[r] = "up"
    BY <1>3 DEF Respond, TypeOK
  <2>3. QED
    BY <1>2, <2>1, <2>2
<1>4. ASSUME NEW r \in Run, Reply(r) \/ SayChunk(r) \/ SayAsk(r) \/ Exit(r) \/ Reader(r)
      PROVE  Hushing'
  <2>1. UNCHANGED <<act, live, calls, quiet, stop>>
    BY <1>4 DEF Reply, SayChunk, SayAsk, Exit, Reader
  <2>2. \A s \in Run : agent'[s] = "up" => agent[s] = "up"
    BY <1>4 DEF Reply, SayChunk, SayAsk, Exit, Reader, TypeOK
  <2>3. QED
    BY <1>2, <2>1, <2>2
<1>5. CASE UNCHANGED vars
  BY <1>2, <1>5 DEF vars
<1>6. QED
  BY <1>3, <1>4, <1>5, HushCallerStep, HushCanceller, HushDeleter, HushWorker DEF Next

LEMMA InitHushing == Init => Hushing
<1> SUFFICES ASSUME Init PROVE Hushing
  OBVIOUS
<1>1. /\ \A a \in Actor : act[a].pc = "rest" /\ act[a].call = 0
      /\ calls = 0 /\ quiet = 0
  BY DEF Init, Rest
<1>2. "caller" \in Actor /\ ("canceller" \in Others => "canceller" \in Actor)
  BY ActorsAre
<1>3. act["caller"].pc = "rest" /\ act["caller"].call = 0
  BY <1>1, <1>2
<1>4. "canceller" \in Others => act["canceller"].call = 0
  BY <1>1, <1>2
<1>5. CallNow /\ NoneAhead
  BY <1>1, <1>3, <1>4 DEF CallNow, NoneAhead, CallerIn
<1>6. Flagged /\ Cleared /\ Late
  BY <1>1 DEF Flagged, Cleared, Late, Hushed
<1>7. QED
  BY <1>5, <1>6 DEF Hushing

LEMMA StopHasHeld ==
  ASSUME TypeOK, Standing, Waiting, Hushing
  PROVE  StopIsFinal
<1> SUFFICES ASSUME quiet = calls, calls # 0
             PROVE  /\ \A r \in Run : agent[r] = "up" /\ wire[r] = "asked" => DeleterKills(r)
                    /\ At("caller", "rest") => live = NoLive
  BY DEF StopIsFinal, DeleterKills
<1>1. \A r \in Run : agent[r] = "up" /\ wire[r] = "asked" => DeleterKills(r)
  <2> SUFFICES ASSUME NEW r \in Run, agent[r] = "up", wire[r] = "asked"
               PROVE  DeleterKills(r)
    OBVIOUS
  <2>1. At("caller", "wait") /\ CallersRun = r
    BY DEF Waiting
  <2>2. CallerIn(Prompting)
    BY <2>1 DEF CallerIn, At, Prompting
  <2>3. QED
    BY <2>1, <2>2 DEF Hushing, Late
<1>2. ASSUME At("caller", "rest")
      PROVE  live = NoLive
  <2>1. Hushed /\ ~CallerIn(Up \cup {"check2"})
    BY <1>2 DEF Hushed, CallerIn, At, Up
  <2>2. live.run = NoRun
    BY <2>1 DEF Hushing, Cleared
  <2>3. QED
    BY <2>2 DEF Standing, Emptied
<1>3. QED
  BY <1>1, <1>2

\* The flag is up before a stop takes what is live (manager.rs, stop_session), and
\* whoever starts an agent looks at it again behind the start and before the
\* prompt is sent: a stop that came in between is not lost (StopIsFinal).
THEOREM StopsAreFinal == Spec => []StopIsFinal
<1>1. Init => TypeOK /\ Standing /\ Placed /\ Killed /\ Synced /\ Hushing
  BY InitTyped, InitStanding, InitPlaced, InitKilled, InitSynced, InitHushing
<1>2. TypeOK /\ Standing /\ Placed /\ Killed /\ Synced /\ Hushing /\ [Next]_vars
        => (TypeOK /\ Standing /\ Placed /\ Killed /\ Synced /\ Hushing)'
  BY TypeStep, StandStep, PlacedStep, KilledStep, SyncedStep, HushStep DEF Synced
<1>3. TypeOK /\ Standing /\ Placed /\ Killed /\ Synced /\ Hushing => StopIsFinal
  BY StopHasHeld DEF Synced
<1>4. QED
  BY <1>1, <1>2, <1>3, PTL DEF Spec

------------------------------------------------------------------------------
(* What everything comes to once all is at rest *)

InTurn == Prompting \ {"open", "end"}

\* A live run is stored as running, or is about to be.
RowUp == live.run # NoRun => row[live.run] = "running" \/ CallerIn({"setup", "mark"})

\* It is shown as running, or is about to be.
ShownUp == live.run # NoRun =>
             \/ snap.status = "running"
             \/ snap.status = "starting" /\ CallerIn({"setup", "mark", "announceUp"})
Announced == CallerIn({"spawn"}) => snap.status = "starting"

\* A turn is open on the live run exactly while a call is in it.
TurnOpen == /\ live.turn # 0 => CallerIn(InTurn)
            /\ CallerIn(InTurn) /\ live.run # NoRun => live.turn = calls

\* The run of a call is live, is being closed, or is shown as over.
Ended == CallerIn(Up \cup Prompting) => \/ live.run = CallersRun
                                        \/ Closes(CallersRun, "run")
                                        \/ snap.status \in Terminal

\* What is shown as open or as up is so, or somebody is about to show its end.
PhaseOpen == chat /\ snap.phase = "started" =>
               \/ live.run = snap.run /\ live.turn = snap.turn /\ snap.turn # 0
               \/ Closes(snap.run, "run")
               \/ CallerIn({"end"}) /\ snap.turn = calls
StatusOpen == chat /\ snap.status \in {"starting", "running"} =>
                /\ snap.run \in Run
                /\ live.run = snap.run \/ Closes(snap.run, "run") \/ CallerIn({"spawn"})
Buried == ~chat => DeleterAt("forget")
                   \/ (snap.phase # "started" /\ snap.status \notin {"starting", "running"})

Settled == RowUp /\ ShownUp /\ Announced /\ TurnOpen /\ Ended /\ PhaseOpen /\ StatusOpen /\ Buried

LEMMA SettlesAtRest ==
  ASSUME TypeOK, Standing, Placed, Killed, AsksAreOwned, Settled
  PROVE  SettledAtRest
<1> SUFFICES ASSUME AtRest
             PROVE  /\ live.turn = 0 /\ snap.phase # "started"
                    /\ \A r \in Run : agent[r] = "up" => live.run = r
                    /\ IF live.run = NoRun THEN asks = {} /\ snap.status \notin {"starting", "running"}
                       ELSE /\ snap.run = live.run /\ snap.status = "running"
                            /\ row[live.run] = "running"
  BY DEF SettledAtRest
<1>1. /\ \A a \in Actor : act[a].pc = "rest" /\ act[a].todo = <<>> /\ ToClose(a) = {}
      /\ "caller" \in Actor /\ ("deleter" \in Others => "deleter" \in Actor)
  BY NothingToClose, ActorsAre DEF AtRest, At
<1>2. /\ \A r, step : ~Closes(r, step)
      /\ ~DeleterAt("forget") /\ act["caller"].pc = "rest"
  BY <1>1 DEF Closes, DeleterAt
<1>3. ~CallerIn({"spawn"} \cup Up \cup Prompting) /\ ~CallerIn({"setup", "mark", "announceUp"})
      /\ ~CallerIn({"setup", "mark"}) /\ ~CallerIn({"end"}) /\ ~CallerIn(InTurn)
  BY <1>2 DEF CallerIn, Up, Prompting, InTurn
<1>4. live.turn = 0
  BY <1>3 DEF Settled, TurnOpen
<1>5. snap.phase # "started"
  BY <1>2, <1>3, <1>4 DEF Settled, PhaseOpen, Buried
<1>6. \A r \in Run : agent[r] = "up" => live.run = r
  BY <1>2 DEF Killed, Minded
<1>7. ASSUME live.run = NoRun
      PROVE  asks = {} /\ snap.status \notin {"starting", "running"}
  <2>1. \A q \in asks : q[2] \in Run
    BY DEF TypeOK
  <2>2. asks = {}
    BY <1>1, <1>7, <2>1 DEF AsksAreOwned
  <2>3. snap.status \notin {"starting", "running"}
    BY <1>2, <1>3, <1>7 DEF Settled, StatusOpen, Buried, CallerIn
  <2>4. QED
    BY <2>2, <2>3
<1>8. ASSUME live.run # NoRun
      PROVE  snap.run = live.run /\ snap.status = "running" /\ row[live.run] = "running"
  BY <1>3, <1>8 DEF Settled, RowUp, ShownUp, Placed, ShownRun
<1>9. QED
  BY <1>4, <1>5, <1>6, <1>7, <1>8

------------------------------------------------------------------------------
(* Steps that publish nothing *)

SameShown == snap'.run = snap.run /\ snap'.status = snap.status /\ snap'.turn = snap.turn
             /\ snap'.phase = snap.phase
LiveKept == live'.run = live.run /\ live'.turn = live.turn
LiveTaken == /\ live'.run = NoRun /\ live'.turn = 0
             /\ \A r : r = live.run => Closes(r, "run")'
CloseGoesOn == \A r : Closes(r, "run") => Closes(r, "run")'

\* The caller leaves none of the places that count, but for a run that is live no more.
CallerFollows ==
  /\ act'["caller"].pc \in Up \cup Prompting =>
       CallerIn(Up \cup Prompting) /\ act'["caller"].run = CallersRun
  /\ act'["caller"].pc = "spawn" <=> CallerIn({"spawn"})
  /\ CallerIn({"end"}) => act'["caller"].pc = "end"
  /\ act'["caller"].pc \in InTurn => CallerIn(InTurn)
  /\ live'.run # NoRun =>
       /\ CallerIn({"setup", "mark"}) =>
            act'["caller"].pc \in {"setup", "mark"} \/ row'[live.run] = "running"
       /\ CallerIn({"setup", "mark", "announceUp"}) =>
            act'["caller"].pc \in {"setup", "mark", "announceUp"}
       /\ CallerIn(InTurn) => act'["caller"].pc \in InTurn

LEMMA SettledMove ==
  ASSUME TypeOK, Standing, Settled, chat' = chat, SameShown, CloseGoesOn,
         calls' = calls \/ ~CallerIn(InTurn \cup {"end"}),
         LiveKept \/ LiveTaken, DeleterAt("forget") => DeleterAt("forget")', CallerFollows,
         live.run # NoRun => row'[live.run] \in {row[live.run], "running"}
  PROVE  Settled'
<1>0. live.turn # 0 => live.run # NoRun
  BY DEF Standing, Emptied, NoLive
<1>1. live'.run # NoRun => LiveKept
  BY DEF LiveTaken
<1>2. RowUp'
  BY <1>1 DEF Settled, RowUp, LiveKept, CallerFollows, CallerIn
<1>3. ShownUp'
  BY <1>1 DEF Settled, ShownUp, LiveKept, CallerFollows, CallerIn, SameShown
<1>4. Announced'
  BY DEF Settled, Announced, CallerFollows, CallerIn, SameShown
<1>5. TurnOpen'
  BY <1>0, <1>1 DEF Settled, TurnOpen, LiveKept, LiveTaken, CallerFollows, CallerIn
<1>6. Ended'
  <2> SUFFICES ASSUME act'["caller"].pc \in Up \cup Prompting
               PROVE  \/ live'.run = act'["caller"].run
                      \/ Closes(CallersRun, "run")'
                      \/ snap'.status \in Terminal
    BY DEF Ended, CallerIn, CallersRun
  <2>1. CallerIn(Up \cup Prompting) /\ act'["caller"].run = CallersRun
    BY DEF CallerFollows
  <2>2. \/ live.run = CallersRun \/ Closes(CallersRun, "run") \/ snap.status \in Terminal
    BY <2>1 DEF Settled, Ended
  <2>3. ASSUME NEW r, r = CallersRun, Closes(r, "run")'
        PROVE  Closes(CallersRun, "run")'
    BY <2>1, <2>3 DEF Closes, CallersRun
  <2>4. QED
    BY <2>1, <2>2, <2>3 DEF LiveKept, LiveTaken, SameShown, CloseGoesOn
<1>7. ASSUME NEW r, r = snap.run, Closes(r, "run")'
      PROVE  Closes(snap.run, "run")'
  BY <1>7 DEF Closes, SameShown
<1>8. PhaseOpen'
  <2> SUFFICES ASSUME chat, snap.phase = "started"
               PROVE  \/ live'.run = snap'.run /\ live'.turn = snap'.turn /\ snap'.turn # 0
                      \/ Closes(snap.run, "run")'
                      \/ act'["caller"].pc = "end" /\ snap'.turn = calls'
    BY DEF PhaseOpen, CallerIn, SameShown
  <2>1. \/ live.run = snap.run /\ live.turn = snap.turn /\ snap.turn # 0
        \/ Closes(snap.run, "run")
        \/ CallerIn({"end"}) /\ snap.turn = calls
    BY DEF Settled, PhaseOpen
  <2>2. CallerIn({"end"}) => calls' = calls
    BY DEF CallerIn
  <2>3. QED
    BY <1>7, <2>1, <2>2 DEF LiveKept, LiveTaken, SameShown, CloseGoesOn, CallerFollows
<1>9. StatusOpen'
  <2> SUFFICES ASSUME chat, snap.status \in {"starting", "running"}
               PROVE  /\ snap'.run \in Run
                      /\ \/ live'.run = snap'.run
                         \/ Closes(snap.run, "run")'
                         \/ act'["caller"].pc = "spawn"
    BY DEF StatusOpen, CallerIn, SameShown
  <2>1. /\ snap.run \in Run
        /\ live.run = snap.run \/ Closes(snap.run, "run") \/ CallerIn({"spawn"})
    BY DEF Settled, StatusOpen
  <2>2. QED
    BY <1>7, <2>1 DEF LiveKept, LiveTaken, SameShown, CloseGoesOn, CallerFollows
<1>10. Buried'
  BY DEF Settled, Buried, SameShown
<1>11. QED
  BY <1>2, <1>3, <1>4, <1>5, <1>6, <1>8, <1>9, <1>10 DEF Settled

\* Somebody other than the caller moves.
LEMMA SettledElse ==
  ASSUME TypeOK, Standing, Settled, UNCHANGED <<chat, calls>>, SameShown, CloseGoesOn,
         LiveKept \/ LiveTaken, DeleterAt("forget") => DeleterAt("forget")',
         act'["caller"] = act["caller"],
         live.run # NoRun => row'[live.run] = row[live.run]
  PROVE  Settled'
<1>1. CallerFollows
  BY DEF CallerFollows, CallerIn, CallersRun
<1>2. QED
  BY <1>1, SettledMove

\* Who has nothing to close goes on, and may have taken the live run.
LEMMA CloseStays ==
  ASSUME NEW a, act[a].todo = <<>>, Only(a)
  PROVE  CloseGoesOn
<1>1. ToClose(a) = {}
  BY NothingToClose
<1>2. QED
  BY <1>1 DEF CloseGoesOn, Closes, Only

LEMMA TakeLeaves ==
  ASSUME TypeOK, NEW a \in Actor, NEW pc, NEW why \in Why, Take(a, pc, why)
  PROVE  LiveTaken
<1>1. /\ live' = NoLive /\ act'[a].run = live.run /\ "run" \in ToClose(a)'
  BY TakeMoves
<1>2. QED
  BY <1>1 DEF LiveTaken, NoLive, Closes

------------------------------------------------------------------------------
(* The caller *)

LEMMA SettledWalk ==
  ASSUME TypeOK, Standing, Settled, NEW from, NEW to, act["caller"].pc = from,
         act["caller"].todo = <<>>, Only("caller"),
         act'["caller"].pc = to, chat' = chat, calls' = calls \/ from \notin InTurn, SameShown, LiveKept \/ LiveTaken,
         live.run # NoRun => row'[live.run] \in {row[live.run], "running"},
         from # "spawn", to # "spawn", from # "end",
         to \in Up \cup Prompting =>
           from \in Up \cup Prompting /\ act'["caller"].run = CallersRun,
         to \in InTurn => from \in InTurn,
         live'.run # NoRun =>
           /\ from \in {"setup", "mark"} => to \in {"setup", "mark"} \/ row'[live.run] = "running"
           /\ from \in {"setup", "mark", "announceUp"} => to \in {"setup", "mark", "announceUp"}
           /\ from \in InTurn => to \in InTurn
  PROVE  Settled'
<1>1. CloseGoesOn
  BY CloseStays
<1>2. CallerFollows
  BY DEF CallerFollows, CallerIn
<1>3. DeleterAt("forget") => DeleterAt("forget")'
  BY ActorsAre DEF Only, DeleterAt
<1>4. calls' = calls \/ ~CallerIn(InTurn \cup {"end"})
  BY DEF CallerIn
<1>5. QED
  BY <1>1, <1>2, <1>3, <1>4, SettledMove

LEMMA SettledTakes ==
  ASSUME TypeOK, Standing, Settled, NEW from, NEW to \in {"fail", "create"}, NEW why \in Why,
         At("caller", from), from \notin {"spawn", "end"}, Take("caller", to, why),
         UNCHANGED <<chat, calls, snap, row>>
  PROVE  Settled'
<1>0. "caller" \in Actor /\ row \in [Run -> RunStatus \cup {"none", "erased"}]
  BY ActorsAre DEF TypeOK
<1>1. /\ act'["caller"].pc = to /\ act'["caller"].run = live.run /\ Only("caller")
      /\ live.run \in Run /\ live' = NoLive
  BY <1>0, TakeMoves
<1>2. LiveTaken
  BY <1>0, TakeLeaves
<1>3. SameShown
  BY DEF SameShown
<1>4. CallerFollows
  <2>1. /\ to \notin Up \cup Prompting /\ to # "spawn" /\ to \notin InTurn
        /\ ~CallerIn({"end"}) /\ ~CallerIn({"spawn"})
    BY DEF Up, Prompting, InTurn, CallerIn, At
  <2>2. live'.run = NoRun
    BY <1>1 DEF NoLive
  <2>3. QED
    BY <1>1, <2>1, <2>2 DEF CallerFollows, CallerIn
<1>5. CloseGoesOn
  BY <1>1, CloseStays DEF At
<1>6. DeleterAt("forget") => DeleterAt("forget")'
  BY <1>1, ActorsAre DEF Only, DeleterAt
<1>7. QED
  BY <1>2, <1>3, <1>4, <1>5, <1>6, SettledMove

\* The caller goes on without touching the live run, the row or what is shown.
LEMMA SettledGoto ==
  ASSUME TypeOK, Standing, Settled, NEW from, NEW to, At("caller", from), Goto("caller", to),
         UNCHANGED <<chat, calls, snap, row>>, LiveKept,
         from # "spawn", to # "spawn", from # "end",
         to \in Up \cup Prompting => from \in Up \cup Prompting,
         to \in InTurn => from \in InTurn,
         live.run # NoRun =>
           /\ from \in {"setup", "mark"} => to \in {"setup", "mark"}
           /\ from # "announceUp"
           /\ from \in InTurn => to \in InTurn
  PROVE  Settled'
<1>1. "caller" \in Actor
  BY ActorsAre
<1>2. /\ act'["caller"].pc = to /\ act'["caller"].run = CallersRun /\ Only("caller")
      /\ act["caller"].pc = from /\ act["caller"].todo = <<>>
  BY <1>1, GotoMoves DEF CallersRun, At
<1>3. SameShown
  BY DEF SameShown
<1>4. live'.run = live.run
  BY DEF LiveKept
<1>5. QED
  BY <1>2, <1>3, <1>4, SettledWalk

LEMMA SettledCallerOn ==
  ASSUME TypeOK, Standing, Placed, Settled,
         CallerOn /\ ~AnnounceStart /\ ~MarkRunning /\ ~AnnounceUp /\ ~OpenTurn /\ ~AnnounceTurn
                  /\ ~SettleTurn /\ ~AnnounceEnd /\ ~Collect
  PROVE  Settled'
<1> USE DEF InTurn, Prompting, Up
<1>0. /\ {"cancel", "prompt", "replace"} \subseteq Why
      /\ live' = live => LiveKept
      /\ live.run = NoRun => live = NoLive
  BY DEF Why, LiveKept, Standing, Emptied
<1>1. CASE Lock
  <2>1. PICK to \in {"check1", "replace", "done"} : At("caller", "lock") /\ Goto("caller", to)
                                                    /\ UNCHANGED <<chat, row, live, snap, calls>>
    BY <1>1 DEF Lock, store
  <2>2. QED
    BY <1>0, <2>1, SettledGoto
<1>2. ASSUME NEW from \in {"check1", "check2", "check3"}, NEW to \in {"choose", "load", "send"},
             to = "send" <=> from = "check3", Check(from, to)
      PROVE  Settled'
  <2>1. At("caller", from) /\ UNCHANGED <<chat, row, snap, calls>>
    BY <1>2 DEF Check, store
  <2>2. CASE Take("caller", "fail", "cancel")
    BY <1>0, <2>1, <2>2, SettledTakes
  <2>3. CASE live.run = NoRun /\ Goto("caller", "fail") /\ UNCHANGED live
    BY <1>0, <2>1, <2>3, SettledGoto
  <2>4. CASE Goto("caller", to) /\ UNCHANGED live
    BY <1>0, <1>2, <2>1, <2>4, SettledGoto
  <2>5. QED
    BY <1>2, <2>2, <2>3, <2>4 DEF Check, TakeIfAny
<1>3. CASE Choose
  <2>1. PICK to \in {"check2", "replace"} : At("caller", "choose") /\ Goto("caller", to)
                                            /\ UNCHANGED <<chat, row, live, snap, calls>>
    BY <1>3 DEF Choose, store
  <2>2. QED
    BY <1>0, <2>1, SettledGoto
<1>4. CASE Replace
  <2>1. At("caller", "replace") /\ UNCHANGED <<chat, row, snap, calls>>
    BY <1>4 DEF Replace, store
  <2>2. CASE Take("caller", "create", "replace")
    BY <1>0, <2>1, <2>2, SettledTakes
  <2>3. CASE Goto("caller", "create") /\ UNCHANGED live
    BY <1>0, <2>1, <2>3, SettledGoto
  <2>4. CASE Goto("caller", "fail") /\ UNCHANGED live
    BY <1>0, <2>1, <2>4, SettledGoto
  <2>5. QED
    BY <1>4, <2>2, <2>3, <2>4 DEF Replace, TakeIfAny
<1>5. CASE SetUp
  <2>1. At("caller", "setup") /\ Goto("caller", "mark") /\ UNCHANGED <<chat, row, live, snap, calls>>
    BY <1>5 DEF SetUp, store
  <2>2. QED
    BY <1>0, <2>1, SettledGoto
<1>6. CASE Adopt
  <2>1. At("caller", "adopt") /\ UNCHANGED <<chat, row, snap, calls>>
    BY <1>6 DEF Adopt, store
  <2>2. LiveKept
    BY <1>6 DEF Adopt, TypeOK, LiveRun, LiveKept
  <2>3. PICK to \in {"done", "check2", "fail"} : Goto("caller", to)
    BY <1>6 DEF Adopt
  <2>4. QED
    BY <2>1, <2>2, <2>3, SettledGoto
<1>7. ASSUME NEW from \in {"send", "wait", "sync"}, At("caller", from), FailPrompt,
             UNCHANGED <<chat, row, snap, calls>>
      PROVE  Settled'
  <2>1. CASE Take("caller", "fail", "prompt")
    BY <1>0, <1>7, <2>1, SettledTakes
  <2>2. CASE live.run # CallersRun /\ Goto("caller", "fail") /\ UNCHANGED live
    <3>1. live.run = NoRun
      BY <1>7, <2>2 DEF Placed, OnItsRun, CallerIn, At
    <3>2. QED
      BY <1>0, <1>7, <2>2, <3>1, SettledGoto
  <2>3. QED
    BY <1>7, <2>1, <2>2 DEF FailPrompt, CallersRun
<1>8. CASE Send
  <2>1. At("caller", "send") /\ UNCHANGED <<chat, row, snap, calls>>
    BY <1>8 DEF Send, store
  <2>2. CASE Goto("caller", "wait") /\ UNCHANGED live
    BY <1>0, <2>1, <2>2, SettledGoto
  <2>3. QED
    BY <1>7, <1>8, <2>1, <2>2 DEF Send
<1>9. CASE Answered
  <2>1. At("caller", "wait") /\ Goto("caller", "sync") /\ UNCHANGED <<chat, row, live, snap, calls>>
    BY <1>9 DEF Answered, store
  <2>2. QED
    BY <1>0, <2>1, SettledGoto
<1>10. CASE TurnFails
  BY <1>7, <1>10 DEF TurnFails, store
<1>11. CASE CompleteTexts
  <2>1. At("caller", "complete") /\ Goto("caller", "settle")
        /\ UNCHANGED <<chat, row, live, snap, calls>>
    BY <1>11 DEF CompleteTexts
  <2>2. QED
    BY <1>0, <2>1, SettledGoto
<1>12. QED
  BY <1>1, <1>2, <1>3, <1>4, <1>5, <1>6, <1>8, <1>9, <1>10, <1>11 DEF CallerOn

\* The rest of what may publish nothing.
LEMMA SettledPlain ==
  ASSUME TypeOK, Standing, Placed, Settled,
         Begin \/ Create \/ Collect \/ MarkRunning \/ Return
  PROVE  Settled'
<1> USE DEF InTurn, Prompting, Up
<1>0. /\ "caller" \in Actor /\ act["caller"] \in Thread
      /\ live' = live => LiveKept
      /\ snap' = snap => SameShown
  BY ActorsAre, ThreadFields DEF LiveKept, SameShown
<1>1. CASE Begin
  <2>1. At("caller", "rest") /\ UNCHANGED <<chat, row, live, snap>>
    BY <1>1 DEF Begin, store
  <2>2. act'["caller"].pc = "lock" /\ Only("caller")
    BY <1>1, BeginsAtLock DEF BeginMoves
  <2>3. act["caller"].pc = "rest" /\ act["caller"].todo = <<>>
    BY <2>1 DEF At
  <2>4. QED
    BY <1>0, <2>1, <2>2, <2>3, SettledWalk
<1>2. CASE Create
  <2>1. PICK r \in Run : /\ row' = [row EXCEPT ![r] = "starting"] /\ row[r] = "none"
                         /\ Becomes("caller", [act["caller"] EXCEPT !.pc = "announce", !.run = r])
    BY <1>2 DEF Create
  <2>2. /\ act["caller"].pc = "create" /\ act["caller"].todo = <<>>
        /\ UNCHANGED <<chat, live, snap, calls>>
    BY <1>2 DEF Create, At
  <2>3. act'["caller"].pc = "announce" /\ Only("caller")
    <3>1. /\ act'["caller"] = [act["caller"] EXCEPT !.pc = "announce", !.run = r]
          /\ \A b \in Actor \ {"caller"} : act'[b] = act[b]
      BY <1>0, <2>1, BecomesFields
    <3>2. QED
      BY <1>0, <3>1, OnlyMoves DEF Thread
  <2>4. live.run = NoRun
    BY <2>2 DEF Standing, StartsAlone, NoLive
  <2>5. QED
    BY <1>0, <2>2, <2>3, <2>4, SettledWalk
<1>3. CASE Collect
  <2>1. /\ act["caller"].pc = "collect" /\ act["caller"].todo = <<>>
        /\ UNCHANGED <<chat, row, snap, calls>>
        /\ live' = [live EXCEPT !.open = {}]
        /\ Becomes("caller", [act["caller"] EXCEPT !.pc = "complete", !.msgs = live.open])
    BY <1>3 DEF Collect, At, store
  <2>2. LiveKept
    BY <2>1 DEF TypeOK, LiveRun, LiveKept
  <2>3. act'["caller"].pc = "complete" /\ act'["caller"].run = CallersRun /\ Only("caller")
    <3>1. /\ act'["caller"] = [act["caller"] EXCEPT !.pc = "complete", !.msgs = live.open]
          /\ \A b \in Actor \ {"caller"} : act'[b] = act[b]
      BY <1>0, <2>1, BecomesFields
    <3>2. QED
      BY <1>0, <3>1, OnlyMoves DEF Thread, CallersRun
  <2>4. QED
    BY <1>0, <2>1, <2>2, <2>3, SettledWalk
<1>4. CASE MarkRunning
  <2>1. /\ act["caller"].pc = "mark" /\ act["caller"].todo = <<>>
        /\ Goto("caller", "announceUp") /\ UNCHANGED <<chat, live, snap, calls>>
        /\ WriteRow(CallersRun, "running")
    BY <1>4 DEF MarkRunning, At, WriteRow, CallersRun
  <2>2. chat /\ CallersRun \in Run /\ live.run \in {NoRun, CallersRun}
    BY <2>1 DEF Placed, HasChat, OnItsRun, CallerIn
  <2>3. row[CallersRun] # "erased" /\ row \in [Run -> RunStatus \cup {"none", "erased"}]
    BY <2>2 DEF Placed, HasChat, TypeOK
  <2>4. row'[CallersRun] = "running"
    BY <2>1, <2>2, <2>3 DEF WriteRow
  <2>5. live.run # NoRun => row'[live.run] = "running"
    BY <2>2, <2>4
  <2>6. act'["caller"].pc = "announceUp" /\ act'["caller"].run = CallersRun /\ Only("caller")
    BY <1>0, <2>1, GotoMoves DEF CallersRun
  <2>7. live'.run = live.run
    BY <2>1
  <2>8. live'.run # NoRun =>
           /\ "mark" \in {"setup", "mark"} => row'[live.run] = "running"
           /\ "announceUp" \in {"setup", "mark", "announceUp"}
           /\ "mark" \notin InTurn
    BY <2>5, <2>7
  <2>9. QED
    BY <1>0, <2>1, <2>5, <2>6, <2>8, SettledWalk
<1>5. CASE Return
  <2>1. /\ act["caller"].pc \in {"done", "fail"} /\ act["caller"].todo = <<>>
        /\ UNCHANGED <<chat, row, live, snap, calls>> /\ Becomes("caller", Rest)
    BY <1>5 DEF Return, At, store
  <2>2. act'["caller"].pc = "rest" /\ Only("caller")
    BY <1>0, <2>1, BecomesFields, OnlyMoves DEF Rest
  <2>3. QED
    BY <1>0, <2>1, <2>2, SettledWalk
<1>6. QED
  BY <1>1, <1>2, <1>3, <1>4, <1>5

LEMMA SettledSpawn ==
  ASSUME TypeOK, Standing, Placed, Settled, Spawn
  PROVE  Settled'
<1> USE DEF InTurn, Prompting, Up
<1>0. /\ "caller" \in Actor /\ act["caller"] \in Thread
      /\ act["caller"].pc = "spawn" /\ act["caller"].todo = <<>>
      /\ UNCHANGED <<chat, row, snap, calls>>
  BY ActorsAre, ThreadFields DEF Spawn, At, store
<1>1. /\ live = NoLive /\ chat /\ CallersRun \in Run /\ snap.run = CallersRun
      /\ snap.status = "starting"
  BY <1>0 DEF Standing, StartsAlone, Starting, Placed, ShownRun, CallerIn, CallersRun, Settled,
              Announced
<1>2. live.run = NoRun /\ live.turn = 0
  BY <1>1 DEF NoLive
<1>3. \A r : r = snap.run /\ snap.phase = "started" => Closes(r, "run")
  BY <1>0, <1>1, <1>2 DEF Settled, PhaseOpen, CallerIn
<1>4. CASE live' = [NoLive EXCEPT !.run = CallersRun] /\ Goto("caller", "setup")
  <2>1. act'["caller"].pc = "setup" /\ act'["caller"].run = CallersRun /\ Only("caller")
    BY <1>0, <1>4, GotoMoves DEF CallersRun
  <2>2. CloseGoesOn
    BY <1>0, <2>1, CloseStays
  <2>3. live'.run = CallersRun /\ live'.turn = 0
    BY <1>4 DEF NoLive
  <2>4. RowUp' /\ ShownUp' /\ Announced' /\ TurnOpen'
    BY <1>0, <1>1, <2>1, <2>3 DEF RowUp, ShownUp, Announced, TurnOpen, CallerIn
  <2>5. Ended' /\ StatusOpen'
    BY <1>0, <1>1, <2>1, <2>3 DEF Ended, StatusOpen, CallersRun
  <2>6. PhaseOpen'
    BY <1>0, <1>3, <2>2 DEF PhaseOpen, CloseGoesOn, Closes
  <2>7. Buried'
    BY <1>0, <1>1 DEF Buried
  <2>8. QED
    BY <2>4, <2>5, <2>6, <2>7 DEF Settled
<1>5. CASE /\ Becomes("caller", [act["caller"] EXCEPT !.pc = "fail", !.end = "start",
                                                     !.todo = <<"row", "run">>])
           /\ UNCHANGED live
  <2>1. /\ act'["caller"].pc = "fail" /\ act'["caller"].run = CallersRun /\ Only("caller")
        /\ act'["caller"].todo = <<"row", "run">>
    <3>1. /\ act'["caller"] = [act["caller"] EXCEPT !.pc = "fail", !.end = "start",
                                                    !.todo = <<"row", "run">>]
          /\ \A b \in Actor \ {"caller"} : act'[b] = act[b]
      BY <1>0, <1>5, BecomesFields
    <3>2. QED
      BY <1>0, <3>1, OnlyMoves DEF Thread, CallersRun
  <2>2. CloseGoesOn
    BY <1>0, <2>1, CloseStays
  <2>3. "run" \in ToClose("caller")'
    BY <2>1 DEF ToClose
  <2>4. RowUp' /\ ShownUp' /\ Announced' /\ TurnOpen' /\ Ended'
    BY <1>0, <1>2, <1>5, <2>1 DEF RowUp, ShownUp, Announced, TurnOpen, Ended, CallerIn
  <2>5. StatusOpen'
    BY <1>0, <1>1, <2>1, <2>3 DEF StatusOpen, Closes
  <2>6. PhaseOpen'
    BY <1>0, <1>3, <2>2 DEF PhaseOpen, CloseGoesOn, Closes
  <2>7. Buried'
    BY <1>0, <1>1 DEF Buried
  <2>8. QED
    BY <2>4, <2>5, <2>6, <2>7 DEF Settled
<1>6. QED
  BY <1>4, <1>5 DEF Spawn, CallersRun

LEMMA SettledSetUpFails ==
  ASSUME TypeOK, Standing, Placed, Settled, SetUpFails
  PROVE  Settled'
<1> USE DEF InTurn, Prompting, Up
<1>0. /\ "caller" \in Actor /\ act["caller"].pc = "setup" /\ act["caller"].todo = <<>>
      /\ UNCHANGED <<chat, row, snap, calls>>
      /\ live' = IF live.run = CallersRun THEN NoLive ELSE live
  BY ActorsAre DEF SetUpFails, At, store, CallersRun
<1>1. /\ act'["caller"].pc = "fail" /\ act'["caller"].run = CallersRun
      /\ "run" \in ToClose("caller")' /\ Only("caller")
  BY FailedSetUp
<1>2. live.run \in {NoRun, CallersRun}
  BY <1>0 DEF Placed, OnItsRun, CallerIn
<1>3. CASE live.run = CallersRun
  <2>1. LiveTaken /\ live'.run = NoRun
    BY <1>0, <1>1, <1>3 DEF LiveTaken, NoLive, Closes
  <2>2. QED
    BY <1>0, <1>1, <2>1, SettledWalk DEF SameShown
<1>4. CASE live.run # CallersRun
  <2>1. LiveKept /\ live'.run = NoRun
    BY <1>0, <1>2, <1>4 DEF LiveKept
  <2>2. QED
    BY <1>0, <1>1, <2>1, SettledWalk DEF SameShown
<1>5. QED
  BY <1>3, <1>4

\* A prompt gets its run, opens a turn on it and settles it.
LEMMA SettledLoad ==
  ASSUME TypeOK, Standing, Placed, Settled, Load
  PROVE  Settled'
<1> USE DEF InTurn, Prompting, Up
<1>0. /\ "caller" \in Actor /\ act["caller"] \in Thread
      /\ At("caller", "load") /\ act["caller"].pc = "load" /\ act["caller"].todo = <<>>
      /\ UNCHANGED <<chat, row, snap, calls, live>>
  BY ActorsAre, ThreadFields DEF Load, At
<1>1. CASE Goto("caller", "fail")
  BY <1>0, <1>1, SettledGoto DEF LiveKept
<1>2. CASE /\ live.run # NoRun
           /\ Becomes("caller", [act["caller"] EXCEPT !.pc = "open", !.run = live.run])
  <2>1. act'["caller"].pc = "open" /\ act'["caller"].run = live.run /\ Only("caller")
    <3>1. /\ act'["caller"] = [act["caller"] EXCEPT !.pc = "open", !.run = live.run]
          /\ \A b \in Actor \ {"caller"} : act'[b] = act[b]
      BY <1>0, <1>2, BecomesFields
    <3>2. QED
      BY <1>0, <3>1, OnlyMoves DEF Thread
  <2>2. CloseGoesOn
    BY <1>0, <2>1, CloseStays
  <2>3. live.turn = 0 /\ chat
    BY <1>0, <1>2 DEF Settled, TurnOpen, CallerIn, Standing, Emptied, NoLiveWithoutChat, NoLive
  <2>4. RowUp' /\ ShownUp' /\ Announced' /\ TurnOpen' /\ Ended'
    BY <1>0, <2>1, <2>3
       DEF Settled, RowUp, ShownUp, Announced, TurnOpen, Ended, CallerIn, CallersRun
  <2>5. PhaseOpen'
    BY <1>0, <2>2, <2>3 DEF Settled, PhaseOpen, CloseGoesOn, Closes, CallerIn
  <2>6. StatusOpen' /\ Buried'
    BY <1>0, <2>2, <2>3 DEF Settled, StatusOpen, CloseGoesOn, Closes, CallerIn, Buried
  <2>7. QED
    BY <2>4, <2>5, <2>6 DEF Settled
<1>3. QED
  BY <1>1, <1>2 DEF Load

LEMMA SettledOpenTurn ==
  ASSUME TypeOK, Standing, Placed, Settled, OpenTurn
  PROVE  Settled'
<1> USE DEF InTurn, Prompting, Up
<1>0. /\ "caller" \in Actor /\ act["caller"].pc = "open" /\ act["caller"].todo = <<>>
      /\ UNCHANGED <<chat, row, snap, calls>> /\ Goto("caller", "begin")
      /\ live' = IF live.run = NoRun THEN live ELSE [live EXCEPT !.turn = calls]
  BY ActorsAre DEF OpenTurn, At, store
<1>1. act'["caller"].pc = "begin" /\ act'["caller"].run = CallersRun /\ Only("caller")
  BY <1>0, GotoMoves DEF CallersRun
<1>2. CloseGoesOn
  BY <1>0, <1>1, CloseStays
<1>3. live.turn = 0 /\ chat
  BY <1>0 DEF Settled, TurnOpen, CallerIn, Placed, HasChat
<1>4. live'.run = live.run /\ (live.run # NoRun => live'.turn = calls)
  BY <1>0 DEF TypeOK, LiveRun
<1>5. RowUp' /\ ShownUp' /\ Announced' /\ TurnOpen'
  BY <1>0, <1>1, <1>3, <1>4 DEF Settled, RowUp, ShownUp, Announced, TurnOpen, CallerIn
<1>6. Ended'
  BY <1>0, <1>1, <1>2, <1>4 DEF Settled, Ended, CallerIn, CallersRun, CloseGoesOn, Closes
<1>7. PhaseOpen'
  BY <1>0, <1>2, <1>3 DEF Settled, PhaseOpen, CloseGoesOn, Closes, CallerIn
<1>8. StatusOpen' /\ Buried'
  BY <1>0, <1>2, <1>3, <1>4 DEF Settled, StatusOpen, CloseGoesOn, Closes, CallerIn, Buried
<1>9. QED
  BY <1>5, <1>6, <1>7, <1>8 DEF Settled

LEMMA SettledSettleTurn ==
  ASSUME TypeOK, Standing, Placed, Settled, SettleTurn
  PROVE  Settled'
<1> USE DEF InTurn, Prompting, Up
<1>0. /\ "caller" \in Actor /\ act["caller"].pc = "settle" /\ act["caller"].todo = <<>>
      /\ UNCHANGED <<chat, row, snap, calls>> /\ Goto("caller", "end")
      /\ live' = IF live.run = CallersRun /\ live.turn = calls THEN [live EXCEPT !.turn = 0]
                 ELSE live
  BY ActorsAre DEF SettleTurn, At, store, CallersRun
<1>1. act'["caller"].pc = "end" /\ act'["caller"].run = CallersRun /\ Only("caller")
  BY <1>0, GotoMoves DEF CallersRun
<1>2. CloseGoesOn
  BY <1>0, <1>1, CloseStays
<1>3. chat /\ live.run \in {NoRun, CallersRun} /\ (live.run = NoRun => live.turn = 0)
      /\ (live.run # NoRun => live.turn = calls)
  BY <1>0 DEF Settled, TurnOpen, CallerIn, Placed, HasChat, OnItsRun, Standing, Emptied, NoLive
<1>4. live'.run = live.run /\ live'.turn = 0
  BY <1>0, <1>3 DEF TypeOK, LiveRun
<1>5. RowUp' /\ ShownUp' /\ Announced' /\ TurnOpen'
  BY <1>0, <1>1, <1>4 DEF Settled, RowUp, ShownUp, Announced, TurnOpen, CallerIn
<1>6. Ended'
  BY <1>0, <1>1, <1>2, <1>4 DEF Settled, Ended, CallerIn, CallersRun, CloseGoesOn, Closes
<1>7. PhaseOpen'
  <2> SUFFICES ASSUME snap.phase = "started"
               PROVE  \/ \E a \in Actor : act'[a].run = snap.run /\ "run" \in ToClose(a)'
                      \/ snap.turn = calls
    BY <1>0, <1>1 DEF PhaseOpen, Closes, CallerIn
  <2>1. (live.turn = snap.turn /\ snap.turn # 0) \/ Closes(snap.run, "run")
    BY <1>0, <1>3 DEF Settled, PhaseOpen, CallerIn
  <2>2. live.turn # 0 => live.turn = calls
    BY <1>3
  <2>3. QED
    BY <1>2, <2>1, <2>2 DEF CloseGoesOn, Closes
<1>8. StatusOpen' /\ Buried'
  BY <1>0, <1>2, <1>3, <1>4 DEF Settled, StatusOpen, CloseGoesOn, Closes, CallerIn, Buried
<1>9. QED
  BY <1>5, <1>6, <1>7, <1>8 DEF Settled

\* What the caller publishes: it is about the run it is at work on, which is the
\* one that is shown.
LEMMA SettledAnnounceStart ==
  ASSUME TypeOK, Standing, Placed, Settled, AnnounceStart
  PROVE  Settled'
<1> USE DEF InTurn, Prompting, Up
<1>0. /\ "caller" \in Actor /\ act["caller"].pc = "announce" /\ act["caller"].todo = <<>>
      /\ UNCHANGED <<chat, row, live, calls>> /\ Goto("caller", "spawn")
  BY ActorsAre DEF AnnounceStart, At, store
<1>1. act'["caller"].pc = "spawn" /\ act'["caller"].run = CallersRun
  BY <1>0, GotoMoves DEF CallersRun
<1>2. snap' = [Blank EXCEPT !.run = CallersRun, !.status = "starting"]
  BY StartShown
<1>3. snap'.run = CallersRun /\ snap'.status = "starting" /\ snap'.phase = "none"
  BY <1>2 DEF Blank
<1>4. live = NoLive /\ chat /\ CallersRun \in Run
  BY <1>0 DEF Standing, StartsAlone, Starting, CallersRun
<1>5. RowUp' /\ ShownUp' /\ Announced' /\ TurnOpen' /\ Ended'
  BY <1>0, <1>1, <1>3, <1>4 DEF RowUp, ShownUp, Announced, TurnOpen, Ended, CallerIn, NoLive
<1>6. PhaseOpen' /\ StatusOpen' /\ Buried'
  BY <1>0, <1>1, <1>3, <1>4 DEF PhaseOpen, StatusOpen, Buried, CallerIn
<1>7. QED
  BY <1>5, <1>6 DEF Settled

LEMMA SettledAnnounceUp ==
  ASSUME TypeOK, Standing, Placed, Settled, AnnounceUp
  PROVE  Settled'
<1> USE DEF InTurn, Prompting, Up
<1>0. /\ "caller" \in Actor /\ act["caller"].pc = "announceUp" /\ act["caller"].todo = <<>>
      /\ UNCHANGED <<chat, row, live, calls>> /\ Goto("caller", "adopt")
      /\ EmitRun(CallersRun, "running")
  BY ActorsAre DEF AnnounceUp, At, store, CallersRun
<1>1. act'["caller"].pc = "adopt" /\ act'["caller"].run = CallersRun /\ Only("caller")
  BY <1>0, GotoMoves DEF CallersRun
<1>2. CloseGoesOn
  BY <1>0, <1>1, CloseStays
<1>3. /\ chat /\ CallersRun \in Run /\ snap.run = CallersRun /\ row[CallersRun] # "erased"
      /\ snap \in Snapshot /\ snap.status \in RunStatus \cup {"none"}
  BY <1>0 DEF Placed, HasChat, ShownRun, OnItsRun, CallerIn, TypeOK, Snapshot
<1>4. CASE snap.status \in Terminal
  <2>1. snap' = snap
    BY <1>0, <1>3, <1>4 DEF EmitRun, RunRefused, Terminal
  <2>2. live.run = NoRun
    BY <1>4 DEF Settled, ShownUp, Terminal
  <2>3. SameShown /\ LiveKept
    BY <1>0, <2>1 DEF SameShown, LiveKept
  <2>4. QED
    BY <1>0, <1>1, <2>2, <2>3, SettledWalk
<1>5. CASE snap.status \notin Terminal
  <2>1. snap' = [snap EXCEPT !.run = CallersRun, !.status = "running"]
    BY <1>0, <1>3, <1>5 DEF EmitRun, RunRefused, Terminal, AfterRun
  <2>2. /\ snap'.run = CallersRun /\ snap'.status = "running" /\ snap'.turn = snap.turn
        /\ snap'.phase = snap.phase
    BY <1>3, <2>1 DEF Snapshot
  <2>3. RowUp' /\ ShownUp' /\ Announced' /\ TurnOpen'
    BY <1>0, <1>1, <2>2 DEF Settled, RowUp, ShownUp, Announced, TurnOpen, CallerIn
  <2>4. live.run = CallersRun \/ Closes(CallersRun, "run")
    BY <1>0, <1>5 DEF Settled, Ended, CallerIn
  <2>5. live.run = CallersRun \/ \E a \in Actor : act'[a].run = CallersRun /\ "run" \in ToClose(a)'
    BY <1>2, <2>4 DEF CloseGoesOn, Closes
  <2>6. Ended' /\ StatusOpen' /\ Buried'
    BY <1>0, <1>1, <1>3, <2>2, <2>5 DEF Ended, StatusOpen, Buried, Closes, CallersRun
  <2>7. PhaseOpen'
    BY <1>0, <1>2, <1>3, <2>2 DEF Settled, PhaseOpen, CloseGoesOn, Closes, CallerIn
  <2>8. QED
    BY <2>3, <2>6, <2>7 DEF Settled
<1>6. QED
  BY <1>4, <1>5

LEMMA SettledAnnounceTurn ==
  ASSUME TypeOK, Standing, Placed, Counted, Settled, AnnounceTurn
  PROVE  Settled'
<1> USE DEF InTurn, Prompting, Up
<1>0. /\ "caller" \in Actor /\ At("caller", "begin")
      /\ act["caller"].pc = "begin" /\ act["caller"].todo = <<>>
      /\ UNCHANGED <<chat, row, live, calls>> /\ Goto("caller", "check3")
      /\ EmitTurn(CallersRun, calls, "started")
  BY ActorsAre DEF AnnounceTurn, At, store, CallersRun
<1>1. act'["caller"].pc = "check3" /\ act'["caller"].run = CallersRun /\ Only("caller")
  BY <1>0, GotoMoves DEF CallersRun
<1>2. CloseGoesOn
  BY <1>0, <1>1, CloseStays
<1>3. chat /\ CallersRun \in Run /\ snap.run = CallersRun /\ snap \in Snapshot /\ calls # 0
  BY <1>0 DEF Placed, HasChat, ShownRun, OnItsRun, CallerIn, TypeOK, Counted
<1>4. CASE TurnRefused(snap, CallersRun, calls, "started")
  <2>1. snap' = snap
    BY <1>0, <1>4 DEF EmitTurn
  <2>2. QED
    BY <1>0, <2>1, SettledGoto DEF LiveKept
<1>5. CASE ~TurnRefused(snap, CallersRun, calls, "started")
  <2>1. snap' = AfterTurn(snap, CallersRun, calls, "started") /\ snap.status \notin Terminal
    BY <1>0, <1>5 DEF EmitTurn, TurnRefused
  <2>2. /\ snap'.run = CallersRun /\ snap'.status = snap.status /\ snap'.turn = calls
        /\ snap'.phase = "started"
    BY <1>3, <2>1 DEF AfterTurn, Snapshot
  <2>3. RowUp' /\ ShownUp' /\ Announced' /\ TurnOpen'
    BY <1>0, <1>1, <2>2 DEF Settled, RowUp, ShownUp, Announced, TurnOpen, CallerIn
  <2>4. live.run = CallersRun \/ Closes(CallersRun, "run")
    BY <1>0, <2>1 DEF Settled, Ended, CallerIn
  <2>5. live.run = CallersRun \/ \E a \in Actor : act'[a].run = CallersRun /\ "run" \in ToClose(a)'
    BY <1>2, <2>4 DEF CloseGoesOn, Closes
  <2>6. live.run # NoRun => live.turn = calls
    BY <1>0 DEF Settled, TurnOpen, CallerIn
  <2>7. Ended' /\ StatusOpen' /\ Buried'
    BY <1>0, <1>1, <1>3, <2>2, <2>5 DEF Ended, StatusOpen, Buried, Closes, CallersRun
  <2>8. PhaseOpen'
    BY <1>0, <1>3, <2>2, <2>5, <2>6 DEF PhaseOpen, Closes
  <2>9. QED
    BY <2>3, <2>7, <2>8 DEF Settled
<1>6. QED
  BY <1>4, <1>5

LEMMA SettledAnnounceEnd ==
  ASSUME TypeOK, Standing, Placed, Settled, AnnounceEnd
  PROVE  Settled'
<1> USE DEF InTurn, Prompting, Up
<1>0. /\ "caller" \in Actor /\ act["caller"].pc = "end" /\ act["caller"].todo = <<>>
      /\ UNCHANGED <<chat, row, live, calls>> /\ Goto("caller", "done")
      /\ EmitTurn(CallersRun, calls, "completed")
  BY ActorsAre DEF AnnounceEnd, At, store, CallersRun
<1>1. act'["caller"].pc = "done" /\ act'["caller"].run = CallersRun /\ Only("caller")
  BY <1>0, GotoMoves DEF CallersRun
<1>2. CloseGoesOn
  BY <1>0, <1>1, CloseStays
<1>3. chat /\ CallersRun \in Run /\ snap.run = CallersRun /\ snap \in Snapshot
  BY <1>0 DEF Placed, HasChat, ShownRun, OnItsRun, CallerIn, TypeOK
<1>4. live.turn = 0
  BY <1>0 DEF Settled, TurnOpen, CallerIn
<1>5. /\ snap'.run = snap.run /\ snap'.status = snap.status
      /\ snap'.phase = "started" => snap' = snap /\ Closes(snap.run, "run")
  <2>1. CASE ~TurnRefused(snap, CallersRun, calls, "completed")
    <3>1. snap' = AfterTurn(snap, CallersRun, calls, "completed")
      BY <1>0, <2>1 DEF EmitTurn
    <3>2. QED
      BY <1>3, <3>1 DEF AfterTurn, Snapshot
  <2>2. CASE TurnRefused(snap, CallersRun, calls, "completed")
    <3>1. snap' = snap
      BY <1>0, <2>2 DEF EmitTurn
    <3>2. snap.phase = "started" => snap.turn \notin {0, calls}
      BY <1>3, <2>2 DEF TurnRefused
    <3>3. snap.phase = "started" => Closes(snap.run, "run")
      BY <1>3, <1>4, <3>2 DEF Settled, PhaseOpen
    <3>4. QED
      BY <3>1, <3>3
  <2>3. QED
    BY <2>1, <2>2
<1>6. RowUp' /\ ShownUp' /\ Announced' /\ TurnOpen' /\ Ended'
  BY <1>0, <1>1, <1>4, <1>5 DEF Settled, RowUp, ShownUp, Announced, TurnOpen, Ended, CallerIn
<1>7. PhaseOpen'
  BY <1>2, <1>5 DEF PhaseOpen, CloseGoesOn, Closes
<1>8. StatusOpen' /\ Buried'
  BY <1>0, <1>2, <1>3, <1>5 DEF Settled, StatusOpen, CloseGoesOn, Closes, CallerIn, Buried
<1>9. QED
  BY <1>6, <1>7, <1>8 DEF Settled

------------------------------------------------------------------------------
(* Closing, and everybody else *)

\* The caller, wherever it is, when somebody closes a run.
CallerStays == /\ act'["caller"].pc = act["caller"].pc
               /\ CallerIn({"spawn"} \cup Up \cup Prompting) => act'["caller"] = act["caller"]

LEMMA CloseMoves ==
  ASSUME TypeOK, Standing, Placed, NEW a \in Actor, Close(a)
  PROVE  /\ act[a].run \in Run /\ act[a].run # live.run /\ Only(a) /\ CallerStays
         /\ DeleterAt("forget")' <=> DeleterAt("forget")
         /\ UNCHANGED <<chat, live, calls>>
         /\ live.run # NoRun => row'[live.run] = row[live.run]
         /\ ~CloseRun(a) => CloseGoesOn
         /\ \A r : Closes(r, "run") /\ r # act[a].run => Closes(r, "run")'
<1>0. "caller" \in Actor /\ ("deleter" \in Others => "deleter" \in Actor)
  BY ActorsAre
<1>1. PICK step : Due(a, step) /\ Done(a) /\ (step = "run" => CloseRun(a))
  <2>1. CASE CloseRun(a)
    BY <2>1 DEF CloseRun
  <2>2. CASE ~CloseRun(a)
    BY <2>2 DEF Close, CloseAsks, CloseAgent, CloseTexts, CloseTurn, CloseRow
  <2>3. QED
    BY <2>1, <2>2
<1>2. /\ act[a].todo # <<>> /\ act'[a].pc = act[a].pc /\ Only(a)
      /\ \A other \in ToClose(a) : other # step =>
           act'[a].run = act[a].run /\ other \in ToClose(a)'
  BY <1>1, DoneMoves
<1>3. act[a].run \in Run /\ act[a].run # live.run
  BY <1>2 DEF Standing, Closing, Placed, Apart
<1>4. CallerStays
  <2>1. CASE a = "caller"
    <3>1. ~CallerIn({"spawn"} \cup Up \cup Prompting)
      BY <1>2, <2>1 DEF Standing, StartsAlone, Starting, At, CallerIn, Placed, OnItsRun, Up
    <3>2. QED
      BY <1>2, <2>1, <3>1 DEF CallerStays
  <2>2. CASE a # "caller"
    BY <1>0, <1>2, <2>2 DEF CallerStays, Only
  <2>3. QED
    BY <2>1, <2>2
<1>5. DeleterAt("forget")' <=> DeleterAt("forget")
  BY <1>0, <1>2 DEF DeleterAt, Only
<1>6. UNCHANGED <<chat, live, calls>>
  BY DEF Close, CloseAsks, CloseAgent, CloseTexts, CloseTurn, CloseRow, CloseRun, WriteRow, store
<1>7. live.run # NoRun => row'[live.run] = row[live.run]
  <2>1. CASE CloseRow(a)
    BY <1>3, <2>1 DEF CloseRow, WriteRow, TypeOK, LiveRun
  <2>2. CASE ~CloseRow(a)
    BY <2>2 DEF Close, CloseAsks, CloseAgent, CloseTexts, CloseTurn, CloseRun, store
  <2>3. QED
    BY <2>1, <2>2
<1>8. ~CloseRun(a) => CloseGoesOn
  BY <1>1, <1>2 DEF CloseGoesOn, Closes, Only
<1>9. \A r : Closes(r, "run") /\ r # act[a].run => Closes(r, "run")'
  BY <1>2 DEF Closes, Only
<1>10. QED
  BY <1>2, <1>3, <1>4, <1>5, <1>6, <1>7, <1>8, <1>9

\* The end of a turn is shown of a run that is shown, or of none.
LEMMA SettledCloseTurn ==
  ASSUME TypeOK, Standing, Placed, Settled, NEW a \in Actor, CloseTurn(a),
         ~TurnRefused(snap, act[a].run, act[a].turn, TurnEnd(act[a].end))
  PROVE  Settled'
<1> DEFINE r == act[a].run
<1>1. /\ r \in Run /\ r # live.run /\ CallerStays
      /\ DeleterAt("forget")' <=> DeleterAt("forget")
      /\ UNCHANGED <<chat, live, calls>> /\ row' = row
      /\ CloseGoesOn
  <2>1. Close(a) /\ ~CloseRun(a)
    <3>1. CASE CloseRun(a)
      BY <3>1 DEF CloseTurn, CloseRun, Due
    <3>2. QED
      BY <3>1 DEF Close
  <2>2. QED
    BY <2>1, CloseMoves DEF CloseTurn, store
<1>2. snap' = AfterTurn(snap, r, act[a].turn, TurnEnd(act[a].end)) /\ snap.run \in {NoRun, r}
  BY DEF CloseTurn, EmitTurn, TurnRefused
<1>3. snap'.run = r /\ snap'.status = snap.status /\ snap'.phase # "started"
  BY <1>2 DEF AfterTurn, TurnEnd, TypeOK, Snapshot
<1> HIDE DEF r
<1>4. RowUp' /\ ShownUp' /\ Announced' /\ TurnOpen'
  BY <1>1, <1>3 DEF Settled, RowUp, ShownUp, Announced, TurnOpen, CallerIn, CallerStays
<1>5. Ended'
  <2> SUFFICES ASSUME CallerIn(Up \cup Prompting)
               PROVE  \/ live.run = CallersRun
                      \/ \E b \in Actor : act'[b].run = CallersRun /\ "run" \in ToClose(b)'
                      \/ snap.status \in Terminal
    BY <1>1, <1>3 DEF Ended, Closes, CallerIn, CallersRun, CallerStays
  <2>1. QED
    BY <1>1 DEF Settled, Ended, CloseGoesOn, Closes
<1>6. PhaseOpen' /\ Buried'
  BY <1>1, <1>3 DEF Settled, PhaseOpen, Buried
<1>7. StatusOpen'
  <2> SUFFICES ASSUME chat, snap.status \in {"starting", "running"}
               PROVE  \/ live.run = r
                      \/ \E b \in Actor : act'[b].run = r /\ "run" \in ToClose(b)'
                      \/ CallerIn({"spawn"})
    BY <1>1, <1>3 DEF StatusOpen, Closes, CallerIn, CallerStays
  <2>1. snap.run = r /\ (live.run = r \/ Closes(r, "run") \/ CallerIn({"spawn"}))
    BY <1>1, <1>2 DEF Settled, StatusOpen
  <2>2. QED
    BY <1>1, <2>1 DEF CloseGoesOn, Closes
<1>8. QED
  BY <1>4, <1>5, <1>6, <1>7 DEF Settled

\* The end of a run is shown, unless it is not the run that is shown.
LEMMA SettledCloseRun ==
  ASSUME TypeOK, Standing, Placed, Settled, NEW a \in Actor, CloseRun(a)
  PROVE  Settled'
<1> DEFINE r == act[a].run
<1>1. /\ r \in Run /\ r # live.run /\ CallerStays
      /\ DeleterAt("forget")' <=> DeleterAt("forget")
      /\ UNCHANGED <<chat, live, calls>> /\ row' = row
      /\ \A s : Closes(s, "run") /\ s # r => Closes(s, "run")'
  BY CloseMoves DEF Close, CloseRun, store
<1>2. EmitRun(r, RunEnd(act[a].end)) /\ RunEnd(act[a].end) \in Terminal
      /\ Terminal \cap {"starting", "running"} = {}
  BY DEF CloseRun, RunEnd, Terminal
<1>3. chat => row[r] # "erased"
  BY <1>1 DEF Placed, HasChat
<1> HIDE DEF r
<1>4. /\ CallerIn({"spawn"} \cup Up \cup Prompting) => snap.run = CallersRun /\ chat
      /\ live.run # NoRun => snap.run = live.run /\ chat
      /\ CallerIn(Up \cup Prompting) => CallersRun \in Run
      /\ CallerIn({"spawn"}) => CallersRun \in Run /\ r # CallersRun
  <2>1. live.run # NoRun => chat
    BY DEF Standing, Emptied, NoLiveWithoutChat, NoLive
  <2>2. CallerIn({"spawn"}) => CallersRun \in Run /\ r # CallersRun
    <3> SUFFICES ASSUME CallerIn({"spawn"}) PROVE CallersRun \in Run /\ r # CallersRun
      OBVIOUS
    <3>1. CallersRun \in Run /\ act["caller"].todo = <<>>
      BY DEF CallerIn, Standing, StartsAlone, Starting, At, CallersRun
    <3>2. a # "caller"
      BY <3>1 DEF CloseRun, Due
    <3>3. QED
      BY <3>1, <3>2 DEF Placed, Alone, CallerIn, Young, r
  <2>3. QED
    BY <2>1, <2>2 DEF Placed, ShownRun, HasChat, OnItsRun, CallerIn, Young
<1>5. CASE row[r] # "erased" /\ ~RunRefused(snap, r, RunEnd(act[a].end))
  <2>1. snap' = AfterRun(snap, r, RunEnd(act[a].end))
    BY <1>2, <1>5 DEF EmitRun
  <2>2. snap.run \in {NoRun, r}
    BY <1>2, <1>5 DEF RunRefused
  <2>3. snap'.status \in Terminal /\ snap'.phase # "started"
    BY <1>2, <2>1 DEF AfterRun, TypeOK, Snapshot
  <2>4. live.run = NoRun
    BY <1>1, <1>4, <2>2
  <2>5. RowUp' /\ ShownUp' /\ TurnOpen'
    BY <1>1, <2>4 DEF Settled, RowUp, ShownUp, TurnOpen, CallerIn, CallerStays
  <2>6. Announced'
    BY <1>1, <1>4, <2>2 DEF Announced, CallerIn, CallerStays
  <2>7. Ended' /\ PhaseOpen' /\ StatusOpen' /\ Buried'
    BY <1>2, <2>3 DEF Ended, PhaseOpen, StatusOpen, Buried
  <2>8. QED
    BY <2>5, <2>6, <2>7 DEF Settled
<1>6. CASE row[r] = "erased" \/ RunRefused(snap, r, RunEnd(act[a].end))
  <2>1. snap' = snap
    BY <1>2, <1>6 DEF EmitRun
  <2>2. chat => snap.run \notin {NoRun, r}
    BY <1>2, <1>3, <1>6 DEF RunRefused
  <2>3. RowUp' /\ ShownUp' /\ Announced' /\ TurnOpen' /\ Buried'
    BY <1>1, <2>1
       DEF Settled, RowUp, ShownUp, Announced, TurnOpen, Buried, CallerIn, CallerStays
  <2>4. chat /\ Closes(snap.run, "run") =>
          \E b \in Actor : act'[b].run = snap.run /\ "run" \in ToClose(b)'
    BY <1>1, <2>2 DEF Closes
  <2>5. Ended'
    <3> SUFFICES ASSUME CallerIn(Up \cup Prompting)
                 PROVE  \/ live.run = CallersRun
                        \/ \E b \in Actor : act'[b].run = CallersRun /\ "run" \in ToClose(b)'
                        \/ snap.status \in Terminal
      BY <1>1, <2>1 DEF Ended, Closes, CallerIn, CallersRun, CallerStays
    <3>1. snap.run = CallersRun /\ chat
      BY <1>4 DEF CallerIn
    <3>2. QED
      BY <2>4, <3>1 DEF Settled, Ended
  <2>6. PhaseOpen'
    BY <1>1, <2>1, <2>4 DEF Settled, PhaseOpen, Closes, CallerIn, CallerStays
  <2>7. StatusOpen'
    BY <1>1, <2>1, <2>4 DEF Settled, StatusOpen, Closes, CallerIn, CallerStays
  <2>8. QED
    BY <2>3, <2>5, <2>6, <2>7 DEF Settled
<1>7. QED
  BY <1>5, <1>6

LEMMA SettledClose ==
  ASSUME TypeOK, Standing, Placed, Settled, NEW a \in Actor, Close(a)
  PROVE  Settled'
<1>1. CASE CloseRun(a)
  BY <1>1, SettledCloseRun
<1>2. CASE CloseTurn(a) /\ ~TurnRefused(snap, act[a].run, act[a].turn, TurnEnd(act[a].end))
  BY <1>2, SettledCloseTurn
<1>3. CASE /\ ~CloseRun(a)
           /\ CloseTurn(a) => TurnRefused(snap, act[a].run, act[a].turn, TurnEnd(act[a].end))
  <2>1. /\ CallerStays /\ CloseGoesOn
        /\ DeleterAt("forget")' <=> DeleterAt("forget")
        /\ UNCHANGED <<chat, live, calls>>
        /\ live.run # NoRun => row'[live.run] = row[live.run]
    BY <1>3, CloseMoves
  <2>2. SameShown
    <3>1. CASE CloseAsks(a)
      BY <3>1 DEF CloseAsks, SameShown, TypeOK, Snapshot
    <3>2. CASE ~CloseAsks(a)
      BY <1>3, <3>2 DEF Close, CloseAgent, CloseTexts, CloseRow, CloseTurn, EmitTurn, SameShown
    <3>3. QED
      BY <3>1, <3>2
  <2>3. CallerFollows
    BY <2>1 DEF CallerFollows, CallerStays, CallerIn, CallersRun
  <2>4. LiveKept
    BY <2>1 DEF LiveKept
  <2>5. QED
    BY <2>1, <2>2, <2>3, <2>4, SettledMove
<1>4. QED
  BY <1>1, <1>2, <1>3

\* Without a chat nothing is live and no call is at work.
LEMMA SettledNoChat ==
  ASSUME Standing', Placed', ~chat', Buried'
  PROVE  Settled'
<1>1. /\ live'.run = NoRun /\ live'.turn = 0
      /\ act'["caller"].pc \notin {"spawn"} \cup Up \cup Prompting
  BY DEF Standing, Emptied, NoLiveWithoutChat, NoLive, Placed, HasChat, CallerIn, Young
<1>2. RowUp' /\ ShownUp' /\ Announced' /\ TurnOpen' /\ Ended' /\ PhaseOpen' /\ StatusOpen'
  BY <1>1
     DEF RowUp, ShownUp, Announced, TurnOpen, InTurn, Ended, PhaseOpen, StatusOpen, CallerIn
<1>3. QED
  BY <1>2 DEF Settled

LEMMA SettledOthers ==
  ASSUME TypeOK, Standing, Standing', Placed, Placed', Settled, NEW a \in Others,
         Stop(a) \/ Canceller(a) \/ Delete(a) \/ Deleter(a)
  PROVE  Settled'
<1>0. a \in Actor /\ a # "caller" /\ "caller" \in Actor
      /\ ("deleter" \in Others => "deleter" \in Actor)
  BY ActorsAre DEF Stop, Canceller, Delete, Deleter
<1>1. CASE Close(a)
  BY <1>0, <1>1, SettledClose
<1>2. CASE a = "deleter" /\ Erase(a)
  <2>1. chat' = FALSE /\ Goto(a, "forget")
    BY <1>2 DEF Erase
  <2>2. DeleterAt("forget")'
    BY <1>0, <1>2, <2>1, GotoMoves DEF DeleterAt
  <2>3. Buried'
    BY <2>2 DEF Buried
  <2>4. QED
    BY <2>1, <2>3, SettledNoChat
<1>3. CASE a = "deleter" /\ Forget(a)
  <2>1. /\ snap' = Blank /\ DeleterAt("forget") /\ chat' = chat
    BY <1>3 DEF Forget, DeleterAt, At, store
  <2>2. ~chat'
    BY <2>1 DEF Placed, HasChat
  <2>3. Buried'
    BY <2>1 DEF Buried, Blank
  <2>4. QED
    BY <2>2, <2>3, SettledNoChat
<1>4. CASE ~Close(a) /\ ~(a = "deleter" /\ (Erase(a) \/ Forget(a)))
  <2>1. (OtherWalked(a) \/ OtherTook(a)) /\ calls' = calls
    BY <1>4, OthersGoOn
  <2>2. UNCHANGED <<chat, row, snap>>
    BY <1>4 DEF Stop, Canceller, Cancel, Stopped, Delete, Deleter, Look, Interrupt, Enter, Spare,
                store
  <2>3. a = "deleter" => act["deleter"].pc # "forget"
    BY <1>4 DEF Stop, Canceller, Delete, Deleter, Look, Interrupt, Enter, Spare, At
  <2>4. act[a].todo = <<>> /\ Only(a) /\ (LiveKept \/ LiveTaken)
    <3>1. CASE OtherWalked(a)
      BY <3>1 DEF OtherWalked, LiveKept
    <3>2. CASE OtherTook(a)
      <4>1. "cancel" \in Why
        BY DEF Why
      <4>2. PICK to : Take(a, to, "cancel")
        BY <3>2 DEF OtherTook
      <4>3. Only(a) /\ LiveTaken
        BY <1>0, <4>1, <4>2, TakeMoves, TakeLeaves
      <4>4. QED
        BY <3>2, <4>3 DEF OtherTook
    <3>3. QED
      BY <2>1, <3>1, <3>2
  <2>5. CloseGoesOn
    BY <2>4, CloseStays
  <2>6. act'["caller"] = act["caller"] /\ (DeleterAt("forget") => DeleterAt("forget")')
    BY <1>0, <2>3, <2>4 DEF Only, DeleterAt
  <2>7. QED
    BY <2>1, <2>2, <2>4, <2>5, <2>6, SettledElse DEF SameShown
<1>5. QED
  BY <1>1, <1>2, <1>3, <1>4

LEMMA SettledWorker ==
  ASSUME TypeOK, Standing, Placed, Settled, NEW r \in Run, Worker(r)
  PROVE  Settled'
<1>0. /\ r \in Actor /\ r # "caller" /\ "caller" \in Actor
      /\ "deleter" \in Others => "deleter" \in Actor \ {r}
  BY ActorsAre
<1>1. CASE Close(r)
  BY <1>0, <1>1, SettledClose
<1>2. ASSUME act[r].todo = <<>>, Only(r), UNCHANGED <<chat, row, calls>>, SameShown,
             LiveKept \/ LiveTaken
      PROVE  Settled'
  <2>1. CloseGoesOn
    BY <1>2, CloseStays
  <2>2. act'["caller"] = act["caller"] /\ (DeleterAt("forget") => DeleterAt("forget")')
    BY <1>0, <1>2 DEF Only, DeleterAt
  <2>3. QED
    BY <1>2, <2>1, <2>2, SettledElse
<1>3. act' = act => Only(r)
  BY DEF Only, ToClose
<1>4. snap' = snap => SameShown
  BY DEF SameShown
<1>5. live' = live => LiveKept
  BY DEF LiveKept
<1>6. CASE HearChunk(r)
  <2>1. act[r].todo = <<>> /\ UNCHANGED <<chat, row, snap, calls>>
    BY <1>6 DEF HearChunk, NextIs, At
  <2>2. CASE live.run # r
    BY <1>2, <1>3, <1>4, <1>5, <1>6, <2>1, <2>2 DEF HearChunk
  <2>3. CASE live.run = r
    <3>1. PICK m : /\ live' = [live EXCEPT !.open = @ \cup {m}]
                   /\ Becomes(r, [Rest EXCEPT !.pc = "append", !.msgs = {m},
                                              !.call = Head(inbox[r])[2]])
      BY <1>6, <2>3 DEF HearChunk
    <3>2. LiveKept
      BY <3>1 DEF TypeOK, LiveRun, LiveKept
    <3>3. Only(r)
      BY <1>0, <3>1, BecomesFields, OnlyMoves
    <3>4. QED
      BY <1>2, <1>4, <2>1, <3>2, <3>3
  <2>4. QED
    BY <2>2, <2>3
<1>7. CASE AppendText(r)
  <2>1. Becomes(r, Rest) /\ UNCHANGED <<chat, row, snap, calls, live>> /\ act[r].todo = <<>>
    BY <1>7 DEF AppendText, At
  <2>2. Only(r)
    BY <1>0, <2>1, BecomesFields, OnlyMoves
  <2>3. QED
    BY <1>2, <1>4, <1>5, <2>1, <2>2
<1>8. CASE HearAsk(r)
  <2>1. act[r].todo = <<>> /\ UNCHANGED <<chat, row, calls, live, act>>
    BY <1>8 DEF HearAsk, NextIs, At, store
  <2>2. SameShown
    BY <1>8 DEF HearAsk, SameShown, TypeOK, Snapshot
  <2>3. QED
    BY <1>2, <1>3, <1>5, <2>1, <2>2
<1>9. CASE HearGone(r)
  <2>1. act[r].todo = <<>> /\ UNCHANGED <<chat, row, snap, calls>> /\ "gone" \in Why
    BY <1>9 DEF HearGone, NextIs, At, store, Why
  <2>2. CASE UNCHANGED <<live, act>>
    BY <1>2, <1>3, <1>4, <1>5, <2>1, <2>2
  <2>3. CASE Take(r, "rest", "gone")
    BY <1>0, <1>2, <1>4, <2>1, <2>3, TakeMoves, TakeLeaves
  <2>4. QED
    BY <1>9, <2>2, <2>3 DEF HearGone
<1>10. CASE HearBarrier(r)
  <2>1. act[r].todo = <<>> /\ UNCHANGED <<chat, row, snap, calls, live>>
    BY <1>10 DEF HearBarrier, NextIs, At, store
  <2>2. CASE act' = act
    BY <1>2, <1>3, <1>4, <1>5, <2>1, <2>2
  <2>3. CASE At("caller", "sync") /\ Goto("caller", "collect")
    BY <1>5, <2>1, <2>3, SettledGoto DEF InTurn, Prompting, Up
  <2>4. QED
    BY <1>10, <2>2, <2>3 DEF HearBarrier
<1>11. QED
  BY <1>1, <1>6, <1>7, <1>8, <1>9, <1>10 DEF Worker

LEMMA SettledStep ==
  ASSUME TypeOK, Standing, Standing', Placed, Placed', Counted, Settled, [Next]_vars
  PROVE  Settled'
<1>1. ASSUME UNCHANGED <<chat, row, calls, live, act>>, SameShown
      PROVE  Settled'
  <2>1. CloseGoesOn
    BY <1>1 DEF CloseGoesOn, Closes, ToClose
  <2>2. DeleterAt("forget") => DeleterAt("forget")'
    BY <1>1 DEF DeleterAt
  <2>3. QED
    BY <1>1, <2>1, <2>2, SettledElse DEF LiveKept
<1>2. CASE Begin \/ Caller
  <2>1. CASE Close("caller")
    BY <2>1, ActorsAre, SettledClose
  <2>2. CASE ~Close("caller")
    BY <1>2, <2>2, SettledPlain, SettledSpawn, SettledSetUpFails, SettledLoad, SettledOpenTurn,
       SettledSettleTurn, SettledAnnounceStart, SettledAnnounceUp, SettledAnnounceTurn,
       SettledAnnounceEnd, SettledCallerOn
       DEF Caller, CallerOn
  <2>3. QED
    BY <2>1, <2>2
<1>3. CASE Respond
  <2>1. UNCHANGED <<chat, row, calls, live, act>>
    BY <1>3 DEF Respond, store
  <2>2. SameShown
    BY <1>3 DEF Respond, SameShown, TypeOK, Snapshot
  <2>3. QED
    BY <1>1, <2>1, <2>2
<1>4. ASSUME NEW r \in Run, Reply(r) \/ SayChunk(r) \/ SayAsk(r) \/ Exit(r) \/ Reader(r)
      PROVE  Settled'
  BY <1>1, <1>4 DEF Reply, SayChunk, SayAsk, Exit, Reader, SameShown, store
<1>5. CASE UNCHANGED vars
  BY <1>1, <1>5 DEF vars, SameShown
<1>6. QED
  BY <1>2, <1>3, <1>4, <1>5, SettledOthers, SettledWorker DEF Next

LEMMA InitSettled == Init => Settled
<1> SUFFICES ASSUME Init PROVE Settled
  OBVIOUS
<1>1. /\ act["caller"].pc = "rest" /\ chat
      /\ live.run = NoRun /\ live.turn = 0
      /\ snap.phase = "none" /\ snap.status = "none"
  BY ActorsAre DEF Init, Rest, NoLive, Blank
<1>2. RowUp /\ ShownUp /\ Announced /\ PhaseOpen /\ StatusOpen /\ Buried
  BY <1>1 DEF RowUp, ShownUp, Announced, PhaseOpen, StatusOpen, Buried, CallerIn
<1>3. TurnOpen /\ Ended
  BY <1>1 DEF TurnOpen, Ended, CallerIn, InTurn, Up, Prompting
<1>4. QED
  BY <1>2, <1>3 DEF Settled

\* However starts, prompts, stops, deletions and lost agents have overtaken one
\* another, once all is at rest the last snapshot, the live run, the row and the
\* processes agree (SettledAtRest): whoever takes a run out of the map of live runs
\* closes all of it, and what is published late about another run is refused
\* (SessionState::transition).
THEOREM AllSettles == Spec => []SettledAtRest
<1> DEFINE IInv == TypeOK /\ Standing /\ Placed /\ Killed /\ Synced /\ AsksAreOwned /\ Settled
<1>1. Init => IInv
  BY InitTyped, InitStanding, InitPlaced, InitKilled, InitSynced, InitSettled
     DEF Init, AsksAreOwned
<1>2. IInv /\ [Next]_vars => IInv'
  <2> SUFFICES ASSUME IInv, [Next]_vars PROVE IInv'
    OBVIOUS
  <2>1. TypeOK' /\ Standing' /\ Placed' /\ Killed' /\ Synced'
    BY TypeStep, StandStep, PlacedStep, KilledStep, SyncedStep
  <2>2. AsksAreOwned'
    BY OwnedStep
  <2>3. Settled'
    BY <2>1, SettledStep DEF Synced
  <2>4. QED
    BY <2>1, <2>2, <2>3
<1>3. IInv => SettledAtRest
  BY SettlesAtRest
<1>4. QED
  BY <1>1, <1>2, <1>3, PTL DEF Spec

=============================================================================
