-------------------------- MODULE AgentCatalogProofs --------------------------
(***************************************************************************)
(* Proofs about AgentCatalog, for any registry, any number of versions and *)
(* of callers.  The invariant says what a thread has established about the *)
(* files of the version it installs at each of its stages, and how the row *)
(* of an agent relates to the definition that worked when the daemon       *)
(* started.                                                                *)
(***************************************************************************)
EXTENDS AgentCatalog, TLAPS

\* Of a binary that two threads never installed at once, one thread at most
\* is installing it.
OneEach ==
  \A a \in Agent \ shared : \A t, u \in Thread : WorksOn(t, a) /\ WorksOn(u, a) => t = u

\* What is being installed is listed and has a row, and only binaries have the
\* later stages; the updater looks only at what was usable.
WorkIsListed ==
  /\ \A t \in Thread : Busy(t) =>
       /\ daemon = "up"
       /\ checkout[thread[t].agent] # Unlisted /\ row[thread[t].agent] # NoRow
       /\ thread[t].agent \in Packaged => thread[t].step = "begun"
  /\ \A a \in Agent : a \in todo \/ WorksOn(Updater, a) =>
       daemon = "up" /\ noted[a] # NoRow /\ checkout[a] # Unlisted

\* What a thread that installs a binary alone knows about it.
Staged ==
  \A t \in Thread : Busy(t) /\ thread[t].agent \notin shared \cup Packaged =>
    /\ thread[t].step = "begun" =>
         \/ row[thread[t].agent] # Expected(thread[t].agent)
         \/ Target(t) \notin have[thread[t].agent]
    /\ thread[t].step = "cleared" =>
         /\ row[thread[t].agent] # Expected(thread[t].agent)
         /\ noted[thread[t].agent] # Expected(thread[t].agent)
    /\ thread[t].step = "unpacked" => Target(t) \in have[thread[t].agent]

\* Packages have no paths.
FormFits == \A a \in Packaged : row[a].form # "path" /\ noted[a].form # "path"

\* What was noted can still be run.
NotedIsUsable ==
  \A a \in Agent : noted[a] # NoRow =>
    /\ daemon # "down"
    /\ noted[a].form = IF a \in Packaged THEN "spec" ELSE "path"
    /\ a \notin shared \ Packaged => noted[a].version \in have[a]

\* The row is the one that worked, what the registry makes of it, or gone.
Renewed(a) ==
  [form |-> IF a \in Packaged THEN "spec" ELSE "path", version |-> checkout[a]]

RowFollows ==
  \A a \in Agent : noted[a] # NoRow =>
    /\ daemon \in {"sync", "load"} => row[a] = noted[a]
    /\ daemon = "up" => row[a] \in {noted[a], Renewed(a), NoRow}

\* A package the updater is through with can be run.
LookedAfter ==
  \A a \in Packaged :
    daemon = "up" /\ noted[a] # NoRow /\ a \notin todo /\ ~WorksOn(Updater, a)
      => Usable(a) \/ row[a] = NoRow

Inv ==
  /\ TypeOK /\ OneEach /\ WorkIsListed /\ Staged /\ FormFits /\ PathsAreWhole
  /\ NotedIsUsable /\ RowFollows /\ LookedAfter

-----------------------------------------------------------------------------
\* The records are the rows they should be, and a busy thread has an agent.
LEMMA Values ==
  /\ NoRow \notin Row /\ Unlisted \notin Version /\ Packaged \subseteq Agent
  /\ \A v \in Version : \A f \in {"spec", "path"} : [form |-> f, version |-> v] \in Row
  /\ Updater \in Thread /\ Caller \subseteq Thread /\ Updater \notin Caller
BY CatalogAssumption DEF CatalogAssumption, Row, NoRow, Version, Unlisted, Thread

LEMMA Busyness ==
  ASSUME TypeOK, NEW t \in Thread, Busy(t)
  PROVE  /\ thread[t] \in [step : {"begun", "cleared", "unpacked"}, agent : Agent]
         /\ thread[t].agent \in Agent
         /\ thread[t].step \in {"begun", "cleared", "unpacked"}
BY DEF TypeOK, Busy

\* Init: nothing is installed and nobody works.
LEMMA InitInv == Init => Inv
<1> SUFFICES ASSUME Init PROVE Inv
  OBVIOUS
<1>1. TypeOK
  BY Values DEF Init, TypeOK, Version, Unlisted
<1>2. \A t \in Thread : ~Busy(t)
  BY DEF Init, Busy
<1>3. \A a \in Agent : row[a] = NoRow /\ noted[a] = NoRow /\ NoRow.form = "none"
  BY DEF Init, NoRow
<1>4. OneEach /\ WorkIsListed /\ Staged /\ NotedIsUsable /\ RowFollows /\ LookedAfter
  BY <1>2, <1>3, Values DEF Init, OneEach, WorkIsListed, WorksOn, Staged,
     NotedIsUsable, RowFollows, LookedAfter
<1>5. FormFits /\ PathsAreWhole
  BY <1>3, Values DEF FormFits, PathsAreWhole
<1> QED
  BY <1>1, <1>4, <1>5 DEF Inv

-----------------------------------------------------------------------------
(* Start, Synchronize, Load, Crash: no thread works, before or after.       *)

LEMMA StartKeeps == Inv /\ Start => Inv'
<1> SUFFICES ASSUME Inv, Start PROVE Inv'
  OBVIOUS
<1> USE DEF Inv, Start, disk
<1>1. \A t \in Thread : ~Busy(t)
  BY DEF WorkIsListed
<1>2. \A a \in Agent : noted'[a] = IF Usable(a) THEN row[a] ELSE NoRow
  BY DEF TypeOK
<1>3. TypeOK'
  BY DEF TypeOK
<1>4. todo = {}
  BY DEF TypeOK, WorkIsListed
<1>5. \A t \in Thread : ~Busy(t)'
  BY <1>1 DEF Busy
<1>6. OneEach' /\ WorkIsListed' /\ Staged' /\ PathsAreWhole'
  BY <1>4, <1>5, Values DEF OneEach, WorkIsListed, WorksOn, Staged, PathsAreWhole
<1>7. FormFits'
  BY <1>2, Values DEF FormFits, NoRow
<1>8. NotedIsUsable'
  BY <1>2 DEF NotedIsUsable, Usable, Cached, Installed
<1>9. RowFollows' /\ LookedAfter'
  BY <1>2, Values DEF RowFollows, LookedAfter
<1> QED
  BY <1>3, <1>6, <1>7, <1>8, <1>9

LEMMA SynchronizeKeeps == Inv /\ Synchronize => Inv'
<1> SUFFICES ASSUME Inv, Synchronize PROVE Inv'
  OBVIOUS
<1> USE DEF Inv, Synchronize
<1>1. \A t \in Thread : ~Busy(t)
  BY DEF WorkIsListed
<1>2. TypeOK'
  BY DEF TypeOK, Checkouts
<1>3. todo = {}
  BY DEF TypeOK, WorkIsListed
<1>4. \A t \in Thread : ~Busy(t)'
  BY <1>1 DEF Busy
<1>5. OneEach' /\ WorkIsListed' /\ Staged' /\ PathsAreWhole' /\ FormFits'
  BY <1>3, <1>4, Values DEF OneEach, WorkIsListed, WorksOn, Staged, PathsAreWhole, FormFits
<1>6. NotedIsUsable' /\ RowFollows' /\ LookedAfter'
  BY Values DEF NotedIsUsable, RowFollows, LookedAfter
<1> QED
  BY <1>2, <1>5, <1>6

LEMMA LoadKeeps == Inv /\ Load => Inv'
<1> SUFFICES ASSUME Inv, Load PROVE Inv'
  OBVIOUS
<1> USE DEF Inv, Load
<1>1. \A t \in Thread : ~Busy(t) /\ ~Busy(t)'
  BY DEF WorkIsListed, Busy
<1>2. ASSUME NEW a \in Agent
      PROVE  /\ row'[a] \in Row \cup {NoRow}
             /\ row'[a] \in {row[a], [form |-> "spec", version |-> checkout[a]], NoRow}
             /\ row[a].form = "path" => row'[a] \in {row[a], NoRow}
             /\ row'[a].form = "path" => row'[a] = row[a]
             /\ checkout[a] = Unlisted => row'[a] \in {row[a], NoRow}
  <2>1. row[a] \in Row \cup {NoRow} /\ checkout[a] \in Version \cup {Unlisted}
    BY DEF TypeOK
  <2>2. CASE row' = row
    BY <2>1, <2>2, Values DEF NoRow
  <2>3. CASE row' = Presets
    <3>1. row'[a] = IF checkout[a] # Unlisted THEN Preset(a)
                    ELSE IF a \in used THEN row[a] ELSE NoRow
      BY <2>3 DEF Presets
    <3>2. CASE checkout[a] = Unlisted
      BY <3>1, <3>2, <2>1 DEF NoRow
    <3>3. CASE checkout[a] # Unlisted
      <4>1. CASE row[a].form = "path"
        BY <3>1, <3>3, <4>1, <2>1 DEF Preset
      <4>2. CASE row[a].form # "path"
        <5>1. row'[a] = [form |-> "spec", version |-> checkout[a]]
          BY <3>1, <3>3, <4>2 DEF Preset
        <5>2. row'[a] \in Row /\ row'[a].form = "spec"
          BY <5>1, <3>3, <2>1 DEF Row, NoRow
        <5> QED
          BY <5>1, <5>2, <4>2, <3>3
      <4> QED
        BY <4>1, <4>2
    <3> QED
      BY <3>2, <3>3
  <2> QED
    BY <2>2, <2>3
<1>3. TypeOK'
  <2>1. row' \in [Agent -> Row \cup {NoRow}]
    BY <1>2 DEF TypeOK, Presets
  <2> QED
    BY <2>1 DEF TypeOK
<1>4. OneEach' /\ Staged'
  BY <1>1 DEF OneEach, WorksOn, Staged
<1>5. WorkIsListed'
  BY <1>1, Values DEF WorkIsListed, WorksOn
<1>6. FormFits'
  BY <1>2, Values DEF FormFits
<1>7. PathsAreWhole'
  BY <1>2 DEF PathsAreWhole
<1>8. NotedIsUsable'
  BY DEF NotedIsUsable
<1>9. \A a \in Agent : noted[a] # NoRow => row[a] = noted[a]
  BY DEF RowFollows
<1>10. RowFollows'
  BY <1>2, <1>9 DEF RowFollows, Renewed, NotedIsUsable
<1>11. LookedAfter'
  <2> SUFFICES ASSUME NEW a \in Packaged, noted[a] # NoRow, a \notin todo'
               PROVE  Usable(a)' \/ row'[a] = NoRow
    BY DEF LookedAfter
  <2>1. checkout[a] = Unlisted /\ row[a] = noted[a] /\ row'[a] \in {row[a], NoRow}
    BY <1>2, <1>9, Values
  <2> QED
    BY <2>1, Values DEF NotedIsUsable, Usable, Cached
<1> QED
  BY <1>3, <1>4, <1>5, <1>6, <1>7, <1>8, <1>10, <1>11

LEMMA CrashKeeps == Inv /\ Crash => Inv'
<1> SUFFICES ASSUME Inv, Crash PROVE Inv'
  OBVIOUS
<1> USE DEF Inv, Crash, disk
<1>1. \A t \in Thread : ~Busy(t)'
  BY DEF Busy
<1>2. \A a \in Agent : noted'[a] = NoRow
  OBVIOUS
<1>3. TypeOK'
  BY DEF TypeOK
<1>4. OneEach' /\ WorkIsListed' /\ Staged' /\ PathsAreWhole'
  BY <1>1, Values DEF OneEach, WorkIsListed, WorksOn, Staged, PathsAreWhole
<1>5. FormFits' /\ NotedIsUsable' /\ RowFollows' /\ LookedAfter'
  BY <1>2, Values DEF FormFits, NotedIsUsable, RowFollows, LookedAfter, NoRow
<1> QED
  BY <1>3, <1>4, <1>5

-----------------------------------------------------------------------------
(* The updater and the callers.                                             *)

\* Whoever begins leaves the files and the rows alone.
LEMMA BeginKeeps ==
  ASSUME Inv, daemon = "up", NEW t \in Thread, ~Busy(t), NEW a \in Agent, Begin(t, a),
         UNCHANGED <<disk, daemon, noted>>,
         \/ t = Updater /\ a \in todo /\ todo' = todo \ {a}
         \/ t # Updater /\ todo' = todo
  PROVE  Inv'
<1> USE DEF Inv, disk
<1>1. CASE ~(row[a] # NoRow /\ checkout[a] # Unlisted /\ Needs(a))
  <2>1. UNCHANGED <<thread, shared>>
    BY <1>1 DEF Begin
  <2>2. TypeOK' /\ OneEach' /\ Staged' /\ FormFits' /\ PathsAreWhole'
    BY <2>1 DEF TypeOK, OneEach, WorksOn, Busy, Staged, FormFits, PathsAreWhole,
       Expected, Target
  <2>3. WorkIsListed' /\ NotedIsUsable' /\ RowFollows'
    BY <2>1 DEF WorkIsListed, WorksOn, Busy, NotedIsUsable, RowFollows, Renewed
  <2>4. LookedAfter'
    <3>1. t = Updater => row[a] = NoRow \/ (a \in Packaged => Usable(a))
      BY <1>1 DEF WorkIsListed, Needs
    <3> QED
      BY <3>1, <2>1 DEF LookedAfter, WorksOn, Busy, Usable, Cached
  <2> QED
    BY <2>2, <2>3, <2>4
<1>2. CASE row[a] # NoRow /\ checkout[a] # Unlisted /\ Needs(a)
  <2>1. /\ thread' = [thread EXCEPT ![t] = [step |-> "begun", agent |-> a]]
        /\ shared' = shared \cup {x \in {a} : \E u \in Thread : WorksOn(u, a)}
    BY <1>2 DEF Begin
  <2>2. /\ thread'[t].agent = a /\ thread'[t].step = "begun" /\ Busy(t)'
        /\ \A u \in Thread \ {t} : thread'[u] = thread[u]
    BY <2>1 DEF TypeOK, Busy, Idle
  <2>3. /\ \A u \in Thread \ {t} : Busy(u)' <=> Busy(u)
        /\ \A u \in Thread \ {t}, x \in Agent : WorksOn(u, x)' <=> WorksOn(u, x)
        /\ \A x \in Agent : WorksOn(t, x)' <=> x = a
    BY <2>2 DEF Busy, WorksOn
  <2>4. TypeOK'
    BY <2>1 DEF TypeOK
  <2>5. \A x \in Agent \ shared' :
          x \notin shared /\ (x = a => \A u \in Thread : ~WorksOn(u, a))
    BY <2>1
  <2>6. OneEach'
    BY <2>3, <2>5 DEF OneEach
  <2>7. WorkIsListed'
    <3>1. \A u \in Thread : Busy(u)' =>
            /\ daemon' = "up"
            /\ checkout'[thread'[u].agent] # Unlisted /\ row'[thread'[u].agent] # NoRow
            /\ thread'[u].agent \in Packaged => thread'[u].step = "begun"
      BY <1>2, <2>2, <2>3 DEF WorkIsListed
    <3>2. \A x \in Agent : x \in todo' \/ WorksOn(Updater, x)' =>
            x \in todo \/ WorksOn(Updater, x)
      BY <2>3, Values
    <3> QED
      BY <3>1, <3>2 DEF WorkIsListed
  <2>8. Staged'
    <3> SUFFICES ASSUME NEW u \in Thread, Busy(u)', thread'[u].agent \notin shared' \cup Packaged
                 PROVE  /\ thread'[u].step = "begun" =>
                             \/ row[thread'[u].agent] # Expected(thread'[u].agent)
                             \/ checkout[thread'[u].agent] \notin have[thread'[u].agent]
                        /\ thread'[u].step = "cleared" =>
                             /\ row[thread'[u].agent] # Expected(thread'[u].agent)
                             /\ noted[thread'[u].agent] # Expected(thread'[u].agent)
                        /\ thread'[u].step = "unpacked" =>
                             checkout[thread'[u].agent] \in have[thread'[u].agent]
      BY DEF Staged, Expected, Target
    <3>1. CASE u = t
      BY <3>1, <1>2, <2>2 DEF Needs
    <3>2. CASE u # t
      BY <3>2, <2>1, <2>2, <2>3 DEF Staged, Target
    <3> QED
      BY <3>1, <3>2
  <2>9. FormFits' /\ PathsAreWhole' /\ NotedIsUsable' /\ RowFollows'
    BY <2>1 DEF FormFits, PathsAreWhole, NotedIsUsable, RowFollows, Renewed
  <2>10. LookedAfter'
    <3> SUFFICES ASSUME NEW x \in Packaged, noted[x] # NoRow, x \notin todo',
                        ~WorksOn(Updater, x)'
                 PROVE  Usable(x) \/ row[x] = NoRow
      BY DEF LookedAfter, Usable, Cached, Installed
    <3>1. x \notin todo /\ ~WorksOn(Updater, x)
      BY <2>3, Values DEF WorksOn
    <3> QED
      BY <3>1 DEF LookedAfter
  <2> QED
    BY <2>4, <2>6, <2>7, <2>8, <2>9, <2>10
<1> QED
  BY <1>1, <1>2

LEMMA BeginUpdateKeeps == Inv /\ BeginUpdate => Inv'
BY BeginKeeps, Values DEF BeginUpdate, Inv, TypeOK

LEMMA BeginInstallKeeps == ASSUME NEW c \in Caller PROVE Inv /\ BeginInstall(c) => Inv'
BY BeginKeeps, Values DEF BeginInstall

-----------------------------------------------------------------------------
(* The stages of an installation.                                           *)

\* Only the thread that acts moves, and it keeps its agent until it is done.
LEMMA DoneFrees ==
  ASSUME TypeOK, NEW t \in Thread, Done(t)
  PROVE  /\ thread' \in [Thread -> {Idle} \cup
                         [step : {"begun", "cleared", "unpacked"}, agent : Agent]]
         /\ ~Busy(t)' /\ \A x : ~WorksOn(t, x)'
         /\ \A u \in Thread \ {t} : /\ thread'[u] = thread[u] /\ (Busy(u)' <=> Busy(u))
                                   /\ \A x : WorksOn(u, x)' <=> WorksOn(u, x)
BY DEF TypeOK, Done, Busy, WorksOn

LEMMA AdvanceMoves ==
  ASSUME TypeOK, NEW t \in Thread, Busy(t), NEW s \in {"cleared", "unpacked"}, Advance(t, s)
  PROVE  /\ thread' \in [Thread -> {Idle} \cup
                         [step : {"begun", "cleared", "unpacked"}, agent : Agent]]
         /\ Busy(t)' /\ thread'[t].step = s /\ thread'[t].agent = thread[t].agent
         /\ \A u \in Thread \ {t} : thread'[u] = thread[u] /\ (Busy(u)' <=> Busy(u))
         /\ \A u \in Thread, x \in Agent : WorksOn(u, x)' <=> WorksOn(u, x)
<1>1. thread[t] \in [step : {"begun", "cleared", "unpacked"}, agent : Agent]
  BY Busyness
<1>2. thread' = [thread EXCEPT ![t] = [thread[t] EXCEPT !.step = s]]
  BY <1>1 DEF Advance, TypeOK
<1>3. [thread[t] EXCEPT !.step = s] \in [step : {"begun", "cleared", "unpacked"}, agent : Agent]
  BY <1>1
<1>4. thread'[t] = [thread[t] EXCEPT !.step = s] /\ thread'[t] # Idle
  BY <1>1, <1>2 DEF TypeOK, Idle
<1> QED
  BY <1>1, <1>2, <1>3, <1>4 DEF TypeOK, Busy, WorksOn

\* The rules about work and listing survive a step that sets no row to NoRow.
LEMMA WorkStays ==
  ASSUME WorkIsListed, UNCHANGED <<daemon, checkout, noted, todo>>,
         \A a \in Agent : row[a] # NoRow => row'[a] # NoRow,
         \A u \in Thread : Busy(u)' =>
           /\ Busy(u) /\ thread'[u].agent = thread[u].agent /\ thread[u].agent \in Agent
           /\ thread'[u].agent \in Packaged => thread'[u].step = thread[u].step
  PROVE  WorkIsListed'
<1>1. \A a \in Agent : a \in todo' \/ WorksOn(Updater, a)' => a \in todo \/ WorksOn(Updater, a)
  BY Values DEF WorksOn
<1> QED
  BY <1>1 DEF WorkIsListed

LEMMA PrefetchKeeps == ASSUME NEW t \in Thread PROVE Inv /\ Prefetch(t) => Inv'
<1> SUFFICES ASSUME Inv, Prefetch(t) PROVE Inv'
  OBVIOUS
<1> DEFINE a == thread[t].agent
<1> USE DEF Inv
<1>1. /\ Busy(t) /\ thread[t].step = "begun" /\ a \in Packaged /\ a \in Agent
      /\ have' = [have EXCEPT ![a] = @ \cup {checkout[a]}] /\ checkout[a] # Unlisted
      /\ UNCHANGED <<row, used, checkout, daemon, noted, todo, shared>> /\ Done(t)
  BY Busyness DEF Prefetch, At, Gain, Target, WorkIsListed
<1>2. TypeOK'
  BY <1>1, DoneFrees DEF TypeOK
<1>3. \A x \in Agent : have[x] \subseteq have'[x] /\ (x \notin Packaged => have'[x] = have[x])
  BY <1>1 DEF TypeOK
<1>4. \A u \in Thread : Busy(u)' => u # t /\ Busy(u) /\ thread'[u] = thread[u]
  BY <1>1, DoneFrees
<1>5. OneEach'
  BY <1>1, DoneFrees DEF OneEach
<1>6. WorkIsListed'
  BY <1>1, <1>4, WorkStays, Busyness
<1>7. Staged'
  BY <1>1, <1>3, <1>4, Busyness DEF Staged, Expected, Target
<1>8. FormFits' /\ PathsAreWhole' /\ NotedIsUsable' /\ RowFollows'
  BY <1>1, <1>3 DEF FormFits, PathsAreWhole, NotedIsUsable, RowFollows, Renewed
<1>9. LookedAfter'
  <2> SUFFICES ASSUME NEW x \in Packaged, daemon = "up", noted[x] # NoRow, x \notin todo,
                      ~WorksOn(Updater, x)'
               PROVE  Usable(x)' \/ row[x] = NoRow
    BY <1>1 DEF LookedAfter
  <2>1. CASE WorksOn(Updater, x)
    <3>1. x = a /\ t = Updater
      BY <1>1, <2>1, DoneFrees, Values DEF WorksOn
    <3>2. row[x] \in {noted[x], Renewed(x), NoRow}
      BY Values DEF RowFollows
    <3>3. checkout[a] \in have'[a]
      BY <1>1 DEF TypeOK
    <3> QED
      BY <1>1, <1>3, <3>1, <3>2, <3>3, Values DEF Usable, Cached, Renewed, NotedIsUsable
  <2>2. CASE ~WorksOn(Updater, x)
    BY <2>2, <1>1, <1>3, Values DEF LookedAfter, Usable, Cached
  <2> QED
    BY <2>1, <2>2
<1> QED
  BY <1>2, <1>5, <1>6, <1>7, <1>8, <1>9

\* The version that is removed is neither the row's nor the one that was noted.
LEMMA ClearKeeps == ASSUME NEW t \in Thread PROVE Inv /\ Clear(t) => Inv'
<1> SUFFICES ASSUME Inv, Clear(t) PROVE Inv'
  OBVIOUS
<1> DEFINE a == thread[t].agent
<1> USE DEF Inv
<1>1. /\ Busy(t) /\ thread[t].step = "begun" /\ a \notin Packaged /\ a \in Agent
      /\ have' = [have EXCEPT ![a] = @ \ {checkout[a]}] /\ checkout[a] # Unlisted
      /\ row[a] # NoRow
      /\ UNCHANGED <<row, used, checkout, daemon, noted, todo, shared>>
      /\ Advance(t, "cleared")
  BY Busyness DEF Clear, At, Lose, Target, WorkIsListed
<1>2. TypeOK'
  BY <1>1, AdvanceMoves DEF TypeOK
<1>3. /\ have'[a] = have[a] \ {checkout[a]}
      /\ \A x \in Agent \ {a} : have'[x] = have[x]
  BY <1>1 DEF TypeOK
<1>4. a \notin shared => row[a] # Expected(a) \/ checkout[a] \notin have[a]
  BY <1>1 DEF Staged, Target
<1>5. a \notin shared => row[a] # Expected(a) /\ noted[a] # Expected(a)
  <2>1. a \notin shared => row[a] # Expected(a)
    BY <1>1, <1>4 DEF PathsAreWhole, Expected
  <2>2. noted[a] # NoRow => row[a] \in {noted[a], Expected(a)}
    BY <1>1 DEF RowFollows, WorkIsListed, Renewed, Expected
  <2>3. NoRow # Expected(a)
    BY DEF NoRow, Expected
  <2> QED
    BY <2>1, <2>2, <2>3
<1>6. \A r \in Row : r.form = "path" /\ r # Expected(a) => r.version # checkout[a]
  BY DEF Row, Expected
<1>7. OneEach'
  BY <1>1, AdvanceMoves DEF OneEach
<1>8. WorkIsListed'
  <2>1. \A u \in Thread : Busy(u)' =>
           /\ Busy(u) /\ thread'[u].agent = thread[u].agent /\ thread[u].agent \in Agent
           /\ thread'[u].agent \in Packaged => thread'[u].step = thread[u].step
    BY <1>1, AdvanceMoves, Busyness
  <2> QED
    BY <1>1, <2>1, WorkStays
<1>9. Staged'
  <2> SUFFICES ASSUME NEW u \in Thread, Busy(u)', thread'[u].agent \notin shared \cup Packaged
               PROVE  /\ thread'[u].step = "begun" =>
                           \/ row[thread'[u].agent] # Expected(thread'[u].agent)
                           \/ checkout[thread'[u].agent] \notin have'[thread'[u].agent]
                      /\ thread'[u].step = "cleared" =>
                           /\ row[thread'[u].agent] # Expected(thread'[u].agent)
                           /\ noted[thread'[u].agent] # Expected(thread'[u].agent)
                      /\ thread'[u].step = "unpacked" =>
                           checkout[thread'[u].agent] \in have'[thread'[u].agent]
    BY <1>1 DEF Staged, Expected, Target
  <2>1. CASE u = t
    BY <2>1, <1>1, <1>5, AdvanceMoves
  <2>2. CASE u # t
    <3>1. Busy(u) /\ thread'[u] = thread[u] /\ thread[u].agent \in Agent
      BY <2>2, <1>1, AdvanceMoves, Busyness
    <3>2. thread[u].agent # a
      BY <2>2, <3>1, <1>1 DEF OneEach, WorksOn
    <3> QED
      BY <3>1, <3>2, <1>3 DEF Staged, Target
  <2> QED
    BY <2>1, <2>2
<1>10. PathsAreWhole'
  <2> SUFFICES ASSUME NEW x \in Agent \ shared, row[x].form = "path"
               PROVE  row[x].version \in have'[x]
    BY <1>1 DEF PathsAreWhole
  <2>1. row[x] \in Row
    BY DEF TypeOK, NoRow
  <2> QED
    BY <2>1, <1>3, <1>5, <1>6 DEF PathsAreWhole
<1>11. NotedIsUsable'
  <2> SUFFICES ASSUME NEW x \in Agent, noted[x] # NoRow, x \notin shared \ Packaged
               PROVE  noted[x].version \in have'[x]
    BY <1>1 DEF NotedIsUsable
  <2>1. noted[x].version \in have[x] /\ noted[x] \in Row
    BY DEF TypeOK, NotedIsUsable
  <2>2. x = a => noted[x].form = "path"
    BY <1>1 DEF NotedIsUsable
  <2> QED
    BY <2>1, <2>2, <1>1, <1>3, <1>5, <1>6
<1>12. FormFits' /\ RowFollows'
  BY <1>1 DEF FormFits, RowFollows, Renewed
<1>13. LookedAfter'
  BY <1>1, <1>3, AdvanceMoves, Values DEF LookedAfter, Usable, Cached
<1> QED
  BY <1>2, <1>7, <1>8, <1>9, <1>10, <1>11, <1>12, <1>13

LEMMA UnpackKeeps == ASSUME NEW t \in Thread PROVE Inv /\ Unpack(t) => Inv'
<1> SUFFICES ASSUME Inv, Unpack(t) PROVE Inv'
  OBVIOUS
<1> DEFINE a == thread[t].agent
<1> USE DEF Inv
<1>1. /\ Busy(t) /\ thread[t].step = "cleared" /\ a \notin Packaged /\ a \in Agent
      /\ have' = [have EXCEPT ![a] = @ \cup {checkout[a]}] /\ checkout[a] # Unlisted
      /\ UNCHANGED <<row, used, checkout, daemon, noted, todo, shared>>
      /\ Advance(t, "unpacked")
  BY Busyness DEF Unpack, At, Gain, Target, WorkIsListed
<1>2. TypeOK'
  BY <1>1, AdvanceMoves DEF TypeOK
<1>3. /\ have'[a] = have[a] \cup {checkout[a]}
      /\ \A x \in Agent \ {a} : have'[x] = have[x]
  BY <1>1 DEF TypeOK
<1>4. OneEach'
  BY <1>1, AdvanceMoves DEF OneEach
<1>5. WorkIsListed'
  <2>1. \A u \in Thread : Busy(u)' =>
           /\ Busy(u) /\ thread'[u].agent = thread[u].agent /\ thread[u].agent \in Agent
           /\ thread'[u].agent \in Packaged => thread'[u].step = thread[u].step
    BY <1>1, AdvanceMoves, Busyness
  <2> QED
    BY <1>1, <2>1, WorkStays
<1>6. Staged'
  <2> SUFFICES ASSUME NEW u \in Thread, Busy(u)', thread'[u].agent \notin shared \cup Packaged
               PROVE  /\ thread'[u].step = "begun" =>
                           \/ row[thread'[u].agent] # Expected(thread'[u].agent)
                           \/ checkout[thread'[u].agent] \notin have'[thread'[u].agent]
                      /\ thread'[u].step = "cleared" =>
                           /\ row[thread'[u].agent] # Expected(thread'[u].agent)
                           /\ noted[thread'[u].agent] # Expected(thread'[u].agent)
                      /\ thread'[u].step = "unpacked" =>
                           checkout[thread'[u].agent] \in have'[thread'[u].agent]
    BY <1>1 DEF Staged, Expected, Target
  <2>1. CASE u = t
    BY <2>1, <1>1, <1>3, AdvanceMoves
  <2>2. CASE u # t
    <3>1. Busy(u) /\ thread'[u] = thread[u] /\ thread[u].agent \in Agent
      BY <2>2, <1>1, AdvanceMoves, Busyness
    <3>2. thread[u].agent # a
      BY <2>2, <3>1, <1>1 DEF OneEach, WorksOn
    <3> QED
      BY <3>1, <3>2, <1>3 DEF Staged, Target
  <2> QED
    BY <2>1, <2>2
<1>7. PathsAreWhole' /\ NotedIsUsable' /\ FormFits' /\ RowFollows'
  BY <1>1, <1>3 DEF PathsAreWhole, NotedIsUsable, FormFits, RowFollows, Renewed
<1>8. LookedAfter'
  BY <1>1, <1>3, AdvanceMoves, Values DEF LookedAfter, Usable, Cached
<1> QED
  BY <1>2, <1>4, <1>5, <1>6, <1>7, <1>8

\* The row of an agent that is being installed changes when its thread ends:
\* only a thread that shares the agent with another is left on it.
LEMMA OthersWorkOnOthers ==
  ASSUME Inv, NEW t \in Thread, Busy(t), Done(t), shared' = shared,
         NEW u \in Thread, Busy(u)', thread'[u].agent \notin shared
  PROVE  /\ Busy(u) /\ thread'[u] = thread[u] /\ thread[u].agent \in Agent
         /\ thread[u].agent # thread[t].agent
<1>1. Busy(u) /\ thread'[u] = thread[u] /\ u # t
  BY DoneFrees DEF Inv
<1>2. thread[u].agent \in Agent
  BY <1>1, Busyness DEF Inv
<1> QED
  BY <1>1, <1>2 DEF Inv, OneEach, WorksOn

LEMMA SavePathKeeps == ASSUME NEW t \in Thread PROVE Inv /\ SavePath(t) => Inv'
<1> SUFFICES ASSUME Inv, SavePath(t) PROVE Inv'
  OBVIOUS
<1> DEFINE a == thread[t].agent
<1> USE DEF Inv
<1>1. /\ Busy(t) /\ thread[t].step = "unpacked" /\ a \notin Packaged /\ a \in Agent
      /\ row' = [row EXCEPT ![a] = Expected(a)] /\ checkout[a] # Unlisted
      /\ UNCHANGED <<used, have, checkout, daemon, noted, todo, shared>>
      /\ Done(t) /\ daemon = "up"
  BY Busyness DEF SavePath, At, Save, WorkIsListed
<1>2. Expected(a) \in Row /\ Expected(a) # NoRow /\ Expected(a).form = "path"
      /\ Expected(a).version = checkout[a]
  BY <1>1 DEF TypeOK, Row, Expected, NoRow
<1>3. TypeOK'
  BY <1>1, <1>2, DoneFrees DEF TypeOK
<1>4. row'[a] = Expected(a) /\ \A x \in Agent \ {a} : row'[x] = row[x]
  BY <1>1 DEF TypeOK
<1>5. OneEach'
  BY <1>1, DoneFrees DEF OneEach
<1>6. WorkIsListed'
  BY <1>1, <1>2, <1>4, DoneFrees, WorkStays, Busyness
<1>7. Staged'
  BY <1>1, <1>4, OthersWorkOnOthers DEF Staged, Expected, Target
<1>8. PathsAreWhole'
  BY <1>1, <1>2, <1>4 DEF PathsAreWhole, Staged, Target
<1>9. NotedIsUsable' /\ FormFits'
  BY <1>1, <1>4, Values DEF NotedIsUsable, FormFits
<1>10. RowFollows'
  BY <1>1, <1>4 DEF RowFollows, Renewed, Expected
<1>11. LookedAfter'
  BY <1>1, <1>4, DoneFrees, Values DEF LookedAfter, Usable, Cached, WorksOn
<1> QED
  BY <1>3, <1>5, <1>6, <1>7, <1>8, <1>9, <1>10, <1>11

LEMMA FailKeeps == ASSUME NEW t \in Thread PROVE Inv /\ Fail(t) => Inv'
<1> SUFFICES ASSUME Inv, Fail(t) PROVE Inv'
  OBVIOUS
<1> DEFINE a == thread[t].agent
<1> USE DEF Inv
<1>1. /\ Busy(t) /\ a \in Agent /\ Done(t) /\ daemon = "up"
      /\ UNCHANGED <<used, have, checkout, daemon, noted, todo, shared>>
  BY Busyness DEF Fail, WorkIsListed
<1>2. /\ t = Updater => noted[a] # NoRow
      /\ row'[a] = IF t = Updater THEN noted[a] ELSE row[a]
      /\ \A x \in Agent \ {a} : row'[x] = row[x]
      /\ row' \in [Agent -> Row \cup {NoRow}]
  BY <1>1 DEF Fail, Save, TypeOK, WorkIsListed, WorksOn
<1>3. TypeOK'
  BY <1>1, <1>2, DoneFrees DEF TypeOK
<1>4. OneEach'
  BY <1>1, DoneFrees DEF OneEach
<1>5. WorkIsListed'
  BY <1>1, <1>2, DoneFrees, WorkStays, Busyness
<1>6. Staged'
  BY <1>1, <1>2, OthersWorkOnOthers DEF Staged, Expected, Target
<1>7. FormFits' /\ NotedIsUsable'
  BY <1>1, <1>2, Values DEF FormFits, NotedIsUsable
<1>8. PathsAreWhole'
  BY <1>1, <1>2 DEF PathsAreWhole, NotedIsUsable
<1>9. RowFollows'
  BY <1>1, <1>2 DEF RowFollows, Renewed
<1>10. LookedAfter'
  <2> SUFFICES ASSUME NEW x \in Packaged, noted[x] # NoRow, x \notin todo,
                      ~WorksOn(Updater, x)'
               PROVE  Usable(x)' \/ row'[x] = NoRow
    BY <1>1 DEF LookedAfter
  <2>1. CASE t = Updater /\ x = a
    BY <2>1, <1>1, <1>2, Values DEF Usable, Cached, NotedIsUsable
  <2>2. CASE ~(t = Updater /\ x = a)
    <3>1. ~WorksOn(Updater, x) /\ row'[x] = row[x]
      BY <2>2, <1>1, <1>2, DoneFrees, Values DEF WorksOn
    <3> QED
      BY <3>1, <1>1, Values DEF LookedAfter, Usable, Cached
  <2> QED
    BY <2>1, <2>2
<1> QED
  BY <1>3, <1>4, <1>5, <1>6, <1>7, <1>8, <1>9, <1>10

\* Chats change nothing an installation looks at.
LEMMA ChatsKeep == ASSUME NEW a \in Agent PROVE Inv /\ (Talk(a) \/ Forget(a)) => Inv'
<1> SUFFICES ASSUME Inv, Talk(a) \/ Forget(a) PROVE Inv'
  OBVIOUS
<1>1. UNCHANGED <<row, have, checkout, daemon, noted, todo, thread, shared>>
  BY DEF Talk, Forget, memory
<1>2. TypeOK'
  BY <1>1 DEF Inv, TypeOK, Talk, Forget
<1>3. OneEach' /\ WorkIsListed' /\ Staged' /\ FormFits'
  BY <1>1 DEF Inv, OneEach, WorkIsListed, WorksOn, Busy, Staged, FormFits, Expected, Target
<1>4. PathsAreWhole' /\ NotedIsUsable' /\ RowFollows' /\ LookedAfter'
  BY <1>1 DEF Inv, PathsAreWhole, NotedIsUsable, RowFollows, Renewed, LookedAfter,
     WorksOn, Busy, Usable, Cached, Installed
<1> QED
  BY <1>2, <1>3, <1>4 DEF Inv

LEMMA NextKeeps == Inv /\ [Next]_vars => Inv'
<1> SUFFICES ASSUME Inv, [Next]_vars PROVE Inv'
  OBVIOUS
<1>1. ASSUME NEW t \in Thread, Work(t) PROVE Inv'
  BY <1>1, PrefetchKeeps, ClearKeeps, UnpackKeeps, SavePathKeeps, FailKeeps DEF Work
<1>2. CASE Next
  BY <1>1, <1>2, StartKeeps, SynchronizeKeeps, LoadKeeps, CrashKeeps, BeginUpdateKeeps,
     BeginInstallKeeps, ChatsKeep DEF Next
<1>3. CASE UNCHANGED vars
  <2>1. UNCHANGED <<row, used, have, checkout, daemon, noted, todo, thread, shared>>
    BY <1>3 DEF vars, disk, memory
  <2>2. TypeOK' /\ OneEach' /\ WorkIsListed' /\ Staged' /\ FormFits'
    BY <2>1 DEF Inv, TypeOK, OneEach, WorkIsListed, WorksOn, Busy, Staged, FormFits,
       Expected, Target
  <2>3. PathsAreWhole' /\ NotedIsUsable' /\ RowFollows' /\ LookedAfter'
    BY <2>1 DEF Inv, PathsAreWhole, NotedIsUsable, RowFollows, Renewed, LookedAfter,
       WorksOn, Busy, Usable, Cached, Installed
  <2> QED
    BY <2>2, <2>3 DEF Inv
<1> QED
  BY <1>2, <1>3

LEMMA InvHolds == Spec => []Inv
BY InitInv, NextKeeps, PTL DEF Spec

-----------------------------------------------------------------------------
\* The rows, the files, the threads and the stages of the start are what they
\* are declared to be, whoever installs what and whenever the daemon ends.
THEOREM Typed == Spec => []TypeOK
<1>1. Inv => TypeOK
  BY DEF Inv
<1> QED
  BY <1>1, InvHolds, PTL

\* A row never names a binary that is not complete on disk: it is written after
\* the files are, the files of its version are not removed, and a definition
\* the updater puts back is one whose files are still there
\* (materialize_current, install_binary_distribution, update_installed).
THEOREM NoPathDangles == Spec => []PathsAreWhole
<1>1. Inv => PathsAreWhole
  BY DEF Inv
<1> QED
  BY <1>1, InvHolds, PTL

\* What worked when the daemon started works when the updater is through with
\* it, whatever failed, unless the registry dropped it (update_installed).
THEOREM WorkingAgentsStay == Spec => []LastUsableStays
<1>1. ASSUME Inv, NEW a \in Agent \ shared, daemon = "up", noted[a] # NoRow, AtRest(a)
      PROVE  Usable(a) \/ row[a] = NoRow
  <2>1. CASE a \in Packaged
    BY <1>1, <2>1, Values DEF Inv, LookedAfter, AtRest
  <2>2. CASE a \notin Packaged
    <3>1. row[a] # NoRow => row[a].form = "path"
      BY <1>1, <2>2 DEF Inv, RowFollows, NotedIsUsable, Renewed
    <3> QED
      BY <1>1, <2>2, <3>1 DEF Inv, PathsAreWhole, Usable, Installed
  <2> QED
    BY <2>1, <2>2
<1>2. Inv => LastUsableStays
  BY <1>1 DEF LastUsableStays
<1> QED
  BY <1>2, InvHolds, PTL
=============================================================================
