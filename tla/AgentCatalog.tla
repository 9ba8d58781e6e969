---------------------------- MODULE AgentCatalog ----------------------------
(***************************************************************************)
(* The agents of the registry: the rows the daemon keeps about them, what  *)
(* of them is installed, and the three parties that change either — the    *)
(* start of the daemon, which synchronizes the rows with the registry, the *)
(* updater it leaves behind, and the installations a user asks for.        *)
(*                                                                         *)
(* An agent is a package that bunx or uvx runs from its cache, or a binary *)
(* kept in a directory of its own for each version.                        *)
(***************************************************************************)
EXTENDS Naturals, FiniteSets

CONSTANTS
  Agent,       \* ids of the registry
  Packaged,    \* agents distributed as packages (npx, uvx), the rest as binaries
  MaxVersion,  \* versions the registry pins: 1..MaxVersion
  Caller       \* threads that serve agent.install

Updater == "updater"

ASSUME CatalogAssumption ==
  /\ Packaged \subseteq Agent /\ IsFiniteSet(Agent)
  /\ MaxVersion \in Nat \ {0}
  /\ Updater \notin Caller

Version == 1..MaxVersion
Unlisted == 0
Thread == Caller \cup {Updater}

\* How a row launches its agent: as the registry says, which is enough for a
\* package, or by the absolute path of an installed binary.
Row == [form : {"spec", "path"}, version : Version]
NoRow == [form |-> "none", version |-> Unlisted]
Idle == [step |-> "idle"]

VARIABLES
  \* on disk
  row,       \* agents table
  used,      \* agents with a row in agent_runs
  have,      \* versions that are complete: in the package cache, or unpacked
  checkout,  \* the registry's checkout: the version of each agent
  \* in memory
  daemon,    \* "down", or the stage its start has reached
  noted,     \* definitions that were usable when the daemon started
  todo,      \* agents the updater has yet to look at
  thread,    \* what the updater and each caller is doing
  \* for the properties
  shared     \* agents two threads were installing at the same time

disk == <<row, used, have, checkout>>
memory == <<daemon, noted, todo, thread>>
vars == <<disk, memory, shared>>

\* The binary's path is absolute and leads to an executable.
Installed(a) == row[a].form = "path" /\ row[a].version \in have[a]

\* The package is in the cache in the version the row names; that bunx or uvx
\* is there is not enough.
Cached(a) == row[a].form = "spec" /\ row[a].version \in have[a]

Usable(a) == IF a \in Packaged THEN Cached(a) ELSE Installed(a)

TypeOK ==
  /\ row \in [Agent -> Row \cup {NoRow}]
  /\ used \subseteq Agent
  /\ have \in [Agent -> SUBSET Version]
  /\ checkout \in [Agent -> Version \cup {Unlisted}]
  /\ daemon \in {"down", "sync", "load", "up"}
  /\ noted \in [Agent -> Row \cup {NoRow}]
  /\ todo \subseteq Agent
  /\ thread \in [Thread ->
       {Idle} \cup [step : {"begun", "cleared", "unpacked"}, agent : Agent]]
  /\ shared \subseteq Agent

\* The package caches are shared with whatever else the user runs.
Init ==
  /\ row = [a \in Agent |-> NoRow]
  /\ used = {}
  /\ have \in [Agent -> SUBSET Version]
  /\ \A a \in Agent \ Packaged : have[a] = {}
  /\ checkout = [a \in Agent |-> Unlisted]
  /\ daemon = "down"
  /\ noted = row
  /\ todo = {}
  /\ thread = [t \in Thread |-> Idle]
  /\ shared = {}

-----------------------------------------------------------------------------
(* The start of the daemon.                                                *)

\* Working installations are noted before the registry changes the rows.
Start ==
  /\ daemon = "down"
  /\ daemon' = "sync"
  /\ noted' = [a \in Agent |-> IF Usable(a) THEN row[a] ELSE NoRow]
  /\ UNCHANGED <<disk, todo, thread, shared>>

\* git leaves what upstream has, or, when it fails, what there was.
Checkouts == [Agent -> Version \cup {Unlisted}]

Synchronize ==
  /\ daemon = "sync"
  /\ daemon' = "load"
  /\ checkout' \in Checkouts
  /\ UNCHANGED <<row, used, have, noted, todo, thread, shared>>

\* An installed path is kept, anything else becomes what the registry says.
Preset(a) ==
  IF row[a].form = "path" THEN row[a] ELSE [form |-> "spec", version |-> checkout[a]]

\* sync_presets: unlisted agents go, unless a run refers to them.
Presets ==
  [a \in Agent |-> IF checkout[a] # Unlisted THEN Preset(a)
                   ELSE IF a \in used THEN row[a] ELSE NoRow]

\* load_agents may find a manifest it cannot read, and then the rows stay.
\* The updater looks at what was noted and is still listed.
Load ==
  /\ daemon = "load"
  /\ daemon' = "up"
  /\ row' \in {row, Presets}
  /\ todo' = {a \in Agent : noted[a] # NoRow /\ checkout[a] # Unlisted}
  /\ UNCHANGED <<used, have, checkout, noted, thread, shared>>

\* The process ends at any time, and its threads with it.
Crash ==
  /\ daemon # "down"
  /\ daemon' = "down"
  /\ noted' = [a \in Agent |-> NoRow]
  /\ todo' = {}
  /\ thread' = [t \in Thread |-> Idle]
  /\ UNCHANGED <<disk, shared>>

-----------------------------------------------------------------------------
(* materialize_current, by the updater or by a caller.                     *)

Busy(t) == thread[t] # Idle
WorksOn(t, a) == Busy(t) /\ thread[t].agent = a
AtRest(a) == a \notin todo /\ \A t \in Thread : ~WorksOn(t, a)

\* Where the executable of the version in the checkout belongs.
Expected(a) == [form |-> "path", version |-> checkout[a]]

\* Mutant of Needs: a package counts as installed when its runner is.
RunnerIsEnough(a) ==
  a \notin Packaged /\ (row[a] # Expected(a) \/ checkout[a] \notin have[a])

\* Whether there is anything to do for the version of the checkout.
Needs(a) ==
  IF a \in Packaged THEN ~Usable(a)
  ELSE row[a] # Expected(a) \/ checkout[a] \notin have[a]

Begin(t, a) ==
  IF row[a] # NoRow /\ checkout[a] # Unlisted /\ Needs(a)
  THEN /\ thread' = [thread EXCEPT ![t] = [step |-> "begun", agent |-> a]]
       /\ shared' = shared \cup {x \in {a} : \E u \in Thread : WorksOn(u, a)}
  ELSE UNCHANGED <<thread, shared>>

BeginUpdate ==
  /\ daemon = "up" /\ ~Busy(Updater)
  /\ \E a \in todo :
       /\ todo' = todo \ {a}
       /\ Begin(Updater, a)
  /\ UNCHANGED <<disk, daemon, noted>>

BeginInstall(c) ==
  /\ daemon = "up" /\ ~Busy(c)
  /\ \E a \in Agent : Begin(c, a)
  /\ UNCHANGED <<disk, daemon, noted, todo>>

At(t, step) == Busy(t) /\ thread[t].step = step
Advance(t, step) == thread' = [thread EXCEPT ![t].step = step]
Done(t) == thread' = [thread EXCEPT ![t] = Idle]
Target(t) == checkout[thread[t].agent]
Gain(t) == have' = [have EXCEPT ![thread[t].agent] = @ \cup {Target(t)}]
Save(a, r) == row' = [row EXCEPT ![a] = r]
Lose(t) == have' = [have EXCEPT ![thread[t].agent] = @ \ {Target(t)}]

\* bun add, or uv pip install: the cache gets the version of the checkout.
Prefetch(t) ==
  /\ At(t, "begun") /\ thread[t].agent \in Packaged
  /\ Gain(t)
  /\ Done(t)
  /\ UNCHANGED <<row, used, checkout, daemon, noted, todo, shared>>

\* Mutant of Clear: the row is written before the files.
SaveFirst(t) ==
  /\ At(t, "begun") /\ thread[t].agent \notin Packaged
  /\ Lose(t)
  /\ Save(thread[t].agent, Expected(thread[t].agent))
  /\ Advance(t, "cleared")
  /\ UNCHANGED <<used, checkout, daemon, noted, todo, shared>>

\* What the directory of the version held is removed first.
Clear(t) ==
  /\ At(t, "begun") /\ thread[t].agent \notin Packaged
  /\ Lose(t)
  /\ Advance(t, "cleared")
  /\ UNCHANGED <<row, used, checkout, daemon, noted, todo, shared>>

\* Downloaded, verified, extracted: the executable is there.
Unpack(t) ==
  /\ At(t, "cleared")
  /\ Gain(t)
  /\ Advance(t, "unpacked")
  /\ UNCHANGED <<row, used, checkout, daemon, noted, todo, shared>>

SavePath(t) ==
  /\ At(t, "unpacked")
  /\ Save(thread[t].agent, Expected(thread[t].agent))
  /\ Done(t)
  /\ UNCHANGED <<used, have, checkout, daemon, noted, todo, shared>>

\* Mutant of Fail: the updater leaves the row as it is.
OnlyReport(t) == Busy(t) /\ Done(t) /\ UNCHANGED <<disk, daemon, noted, todo, shared>>

\* Any stage may fail: no runner, no network, a timeout, a bad checksum. The
\* updater puts the definition back that worked, a caller only reports it.
Fail(t) ==
  /\ Busy(t)
  /\ IF t = Updater THEN Save(thread[t].agent, noted[thread[t].agent]) ELSE UNCHANGED row
  /\ Done(t)
  /\ UNCHANGED <<used, have, checkout, daemon, noted, todo, shared>>

-----------------------------------------------------------------------------
\* Chats run what is usable, and take the record of it with them.
Talk(a) ==
  /\ daemon = "up" /\ Usable(a)
  /\ used' = used \cup {a}
  /\ UNCHANGED <<row, have, checkout, memory, shared>>

Forget(a) ==
  /\ daemon = "up" /\ a \in used
  /\ used' = used \ {a}
  /\ UNCHANGED <<row, have, checkout, memory, shared>>

Boot == Start \/ Synchronize \/ Load
Work(t) == Prefetch(t) \/ Clear(t) \/ Unpack(t) \/ SavePath(t) \/ Fail(t)

Next ==
  \/ Start
  \/ Synchronize
  \/ Load
  \/ Crash
  \/ BeginUpdate
  \/ \E c \in Caller : BeginInstall(c)
  \/ \E t \in Thread : Work(t)
  \/ \E a \in Agent : Talk(a) \/ Forget(a)

\* A start goes on, and every command an installation runs has a time limit.
Spec ==
  /\ Init /\ [][Next]_vars
  /\ WF_vars(Boot)
  /\ WF_vars(BeginUpdate)
  /\ \A t \in Thread : WF_vars(Work(t))

-----------------------------------------------------------------------------
\* Whatever an update meets, an agent that worked when the daemon started works
\* once the updater is through with it, or the registry has dropped it
\* (update_installed). The exception is a binary two threads installed at once.
LastUsableStays ==
  \A a \in Agent \ shared :
    daemon = "up" /\ noted[a] # NoRow /\ AtRest(a) => Usable(a) \/ row[a] = NoRow

\* A row never points at a binary that is not there, whenever the process ends
\* and whatever fails: the version in use is not the one being replaced
\* (materialize_current, install_binary_distribution).
PathsAreWhole ==
  \A a \in Agent \ shared : row[a].form = "path" => row[a].version \in have[a]

\* A working package the registry moves to a version that is not there does not
\* stay unusable: it is fetched, or its definition put back (update_installed).
UpdatesEnd ==
  \A a \in Agent :
    noted[a] # NoRow /\ ~Usable(a) ~>
      Usable(a) \/ row[a] = NoRow \/ daemon = "down" \/ a \in shared
=============================================================================
