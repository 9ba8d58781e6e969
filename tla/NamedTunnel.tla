----------------------------- MODULE NamedTunnel -----------------------------
(***************************************************************************)
(* A machine's side of named tunnels, with the allocator: the daemon that  *)
(* enrolls, starts a connector with the token it is given and announces    *)
(* its address when the public endpoint answers, and the command that      *)
(* removes the installation.                                               *)
(***************************************************************************)
EXTENDS TunnelAllocator

ASSUME FirstPort == 1 \in Port

VARIABLES
  identity,  \* named-installation.json of a machine
  run,       \* the daemon in remote mode
  rm,        \* the command `tunnel --rm`: the identity it works on, or Nobody
  config     \* of the daemon: whether it takes short names, and its port

clientVars == <<identity, run, rm, config, orphans>>
vars == <<allocatorVars, clientVars>>

Off == [at |-> "off", who |-> Nobody, host |-> NoName, tunnel |-> NoTunnel]

Init ==
  /\ AllocatorInit
  /\ identity = [m \in Machine |-> Nobody]
  /\ run = [m \in Machine |-> Off]
  /\ rm = [m \in Machine |-> Nobody]
  /\ config = [m \in Machine |-> [short |-> FALSE, port |-> 1]]

\* A fresh identity is one nobody has enrolled with.
Known(i) ==
  \/ db[i].status # "none" \/ i = job.req.who
  \/ \E k \in DOMAIN queue : queue[k].who = i
  \/ \E m \in Machine : i \in {identity[m], rm[m], run[m].who}
Identities(m) == IF identity[m] # Nobody THEN {identity[m]} ELSE {i \in Installation : ~Known(i)}

\* allocate: with the identity on disk, or a new one.
Start(m) ==
  /\ run[m] = Off
  /\ \E i \in Identities(m) :
       /\ identity' = [identity EXCEPT ![m] = i]
       /\ run' = [run EXCEPT ![m] = [Off EXCEPT !.at = "asking", !.who = i]]
       /\ queue' = Append(queue, Put(<<m, "run">>, i, config[m].port, config[m].short))
  /\ UNCHANGED <<db, mem, job, answers, tunnels, dns, given, fails, rm, config, orphans>>

\* validate_assignment: an old daemon takes the legacy name only.
Accepts(m, a) ==
  /\ a.res = "ok" /\ a.port = config[m].port
  /\ config[m].short \/ a.host = Legacy(run[m].who)

Assigned(m) ==
  LET a == answers[<<m, "run">>] IN
  /\ run[m].at = "asking" /\ a # NoAnswer
  /\ answers' = [answers EXCEPT ![<<m, "run">>] = NoAnswer]
  /\ run' = [run EXCEPT ![m] =
       IF Accepts(m, a) THEN [@ EXCEPT !.at = "starting", !.host = a.host, !.tunnel = a.tunnel] ELSE Off]
  /\ UNCHANGED <<db, mem, job, queue, tunnels, dns, given, fails, identity, rm, config, orphans>>

\* A connector of a tunnel connects when its token is good, and may lose its
\* connection.
Connector(t) == t \in orphans \/ \E m \in Machine : run[m].at \in {"starting", "open"} /\ run[m].tunnel = t
Cut(t) == [tunnels EXCEPT ![t].up = FALSE]
Connect(t) ==
  /\ Connector(t)
  /\ tunnels[t].live /\ ~tunnels[t].rotated /\ ~tunnels[t].up
  /\ tunnels' = [tunnels EXCEPT ![t].up = TRUE]
  /\ UNCHANGED <<db, mem, job, queue, answers, dns, given, fails, clientVars>>
LoseConnection(t) ==
  /\ Connector(t) /\ tunnels[t].up
  /\ tunnels' = Cut(t)
  /\ UNCHANGED <<db, mem, job, queue, answers, dns, given, fails, clientVars>>

\* Whether the public endpoint leads to the daemon.
Reachable(m) ==
  LET r == run[m] IN
  /\ <<r.host, r.tunnel>> \in dns
  /\ tunnels[r.tunnel].up /\ tunnels[r.tunnel].route = <<r.host, config[m].port>>

Announce(m) ==
  /\ run[m].at = "starting" /\ Reachable(m)
  /\ run' = [run EXCEPT ![m].at = "open"]
  /\ UNCHANGED <<allocatorVars, identity, rm, config, orphans>>

\* A connector ends: another one of its tunnel may keep that connected.
HangsUp(t) == tunnels' = Cut(t) \/ (Connector(t)' /\ UNCHANGED tunnels)

\* The daemon ends, and its connector with it; or it is killed, and the connector
\* is left behind: only a daemon that comes to its end takes it down.
Stop(m) ==
  /\ run[m].at \in {"starting", "open"}
  /\ run' = [run EXCEPT ![m] = Off]
  /\ \E t \in {run[m].tunnel} :
       \/ UNCHANGED orphans /\ HangsUp(t)
       \/ orphans' = orphans \cup {t} /\ UNCHANGED tunnels
  /\ UNCHANGED <<db, mem, job, queue, answers, dns, given, fails, identity, rm, config>>

\* A connector that was left behind ends.
OrphanEnds(t) ==
  /\ t \in orphans /\ orphans' = orphans \ {t}
  /\ UNCHANGED <<db, mem, job, queue, answers, dns, given, fails, identity, run, rm, config>>
  /\ HangsUp(t)

\* A request whose client has gone is still carried out, for nobody.
Orphan(req, c) == IF req.from = c THEN [req EXCEPT !.from = Nobody] ELSE req
Disown(c) ==
  /\ queue' = [k \in DOMAIN queue |-> Orphan(queue[k], c)]
  /\ job' = [job EXCEPT !.req = Orphan(job.req, c)]
  /\ answers' = [answers EXCEPT ![c] = NoAnswer]
GiveUp(m) ==
  /\ fails < MaxFails /\ fails' = fails + 1
  /\ \/ /\ run[m].at = "asking" /\ Disown(<<m, "run">>)
        /\ run' = [run EXCEPT ![m] = Off] /\ UNCHANGED rm
     \/ /\ rm[m] # Nobody /\ Disown(<<m, "rm">>)
        /\ rm' = [rm EXCEPT ![m] = Nobody] /\ UNCHANGED run
  /\ UNCHANGED <<db, mem, tunnels, dns, given, identity, config, orphans>>

\* remove: the identity is forgotten when the allocator has confirmed.
Remove(m) ==
  /\ rm[m] = Nobody /\ identity[m] # Nobody
  /\ rm' = [rm EXCEPT ![m] = identity[m]]
  /\ queue' = Append(queue, Delete(<<m, "rm">>, identity[m]))
  /\ UNCHANGED <<db, mem, job, answers, tunnels, dns, given, fails, identity, run, config, orphans>>

RemoveEnds(m) ==
  /\ rm[m] # Nobody /\ answers[<<m, "rm">>] # NoAnswer
  /\ answers' = [answers EXCEPT ![<<m, "rm">>] = NoAnswer]
  /\ rm' = [rm EXCEPT ![m] = Nobody]
  /\ identity' = IF answers[<<m, "rm">>].res = "deleted" THEN [identity EXCEPT ![m] = Nobody] ELSE identity
  /\ UNCHANGED <<db, mem, job, queue, tunnels, dns, given, fails, run, config, orphans>>

\* The daemon of the machine is updated; an updated one may get another port.
Update(m) ==
  /\ run[m] = Off
  /\ \/ ~config[m].short /\ config' = [config EXCEPT ![m].short = TRUE]
     \/ \E p \in Port : config[m].short /\ p > config[m].port /\ config' = [config EXCEPT ![m].port = p]
  /\ UNCHANGED <<allocatorVars, identity, run, rm, orphans>>

\* The machine loses its identity file.
Lose(m) ==
  /\ identity[m] # Nobody /\ run[m] = Off /\ rm[m] = Nobody
  /\ identity' = [identity EXCEPT ![m] = Nobody]
  /\ UNCHANGED <<allocatorVars, run, rm, config, orphans>>

MachineStep(m) ==
  \/ Start(m) \/ Assigned(m) \/ Announce(m) \/ Stop(m)
  \/ GiveUp(m) \/ Remove(m) \/ RemoveEnds(m) \/ Update(m) \/ Lose(m)

ConnectorStep(t) == Connect(t) \/ LoseConnection(t) \/ OrphanEnds(t)

Next ==
  \/ AllocatorNext /\ UNCHANGED clientVars
  \/ \E t \in Tunnel : ConnectorStep(t)
  \/ \E m \in Machine : MachineStep(m)

\* The object works and days pass, with a sweep in each: it gets its turn in the
\* queue, however many requests come.
Fairness ==
  /\ WF_vars((Take \/ Calls) /\ UNCHANGED clientVars)
  /\ SF_vars(Midnight /\ UNCHANGED clientVars)
  /\ SF_vars(Day /\ UNCHANGED clientVars)

Spec == Init /\ [][Next]_vars /\ Fairness

----------------------------------------------------------------------------
\* Types.
Request == [kind: {"put", "delete", "sweep"}, from: Client \cup {Nobody},
            who: Installation \cup {Nobody}, port: Port \cup {0}, short: BOOLEAN]
Job == [req: Request, left: SUBSET Installation,
        at: {"idle", "find", "look", "create", "route", "name", "leave", "token",
             "unname", "revoke", "disconnect", "destroy", "reclaim"}]
Assignment == [res: {"none", "ok", "error", "full", "gone", "missing", "deleted"},
               host: Hostname \cup {NoName}, port: Port \cup {0}, tunnel: Tunnel \cup {NoTunnel}]
TunnelState == [owner: Installation \cup {Nobody}, live: BOOLEAN, up: BOOLEAN, rotated: BOOLEAN,
                route: (Hostname \cup {NoName}) \X (Port \cup {0})]
DaemonState == [at: {"off", "asking", "starting", "open"}, who: Installation \cup {Nobody},
                host: Hostname \cup {NoName}, tunnel: Tunnel \cup {NoTunnel}]

TypeOK ==
  /\ db \in [Installation -> Record] /\ mem \in [Installation -> Record]
  /\ job \in Job /\ queue \in Seq(Request)
  /\ answers \in [Client -> Assignment]
  /\ tunnels \in [Tunnel -> TunnelState] /\ dns \subseteq Hostname \X Tunnel /\ orphans \subseteq Tunnel
  /\ given \subseteq Hostname \X Installation
  /\ fails \in 0..MaxFails
  /\ identity \in [Machine -> Installation \cup {Nobody}]
  /\ rm \in [Machine -> Installation \cup {Nobody}]
  /\ run \in [Machine -> DaemonState]
  /\ config \in [Machine -> [short: BOOLEAN, port: Port]]

\* Whatever answers are lost, what exists at the provider belongs to a record
\* that counts against the capacity.
NothingLeaks ==
  /\ \A t \in Tunnel : tunnels[t].live =>
       Holds(db[tunnels[t].owner]) /\ \A u \in Tunnel \ {t} : tunnels[u].live => tunnels[u].owner # tunnels[t].owner
  /\ \A d \in dns : \E i \in Installation : Holds(db[i]) /\ d[1] \in {db[i].host, db[i].previous}
  /\ Cardinality({i \in Installation : Holds(db[i])}) <= Capacity

\* A name that one installation has held is never another's.
NamesStay == \A g, h \in given : g[1] = h[1] => g[2] = h[2]

\* A record stored as ready has a tunnel, and is provisioned: its name leads to
\* the tunnel, and the tunnel to the port of its daemon. Not so for one that the
\* sweep was reclaiming when it found it connected by a connector that has
\* outlived its daemon: that makes it ready as it is (tunnel-allocator.ts:175).
ReadyIsRouted ==
  \A i \in Installation : db[i].status = "ready" =>
    LET t == db[i].tunnel IN
    /\ t # NoTunnel /\ tunnels[t].live
    /\ ~db[i].spared =>
         /\ tunnels[t].route = <<db[i].host, db[i].port>>
         /\ {d \in dns : d[1] \in Names(db[i])} = {<<db[i].host, t>>}

\* No daemon, command or connector is at work for this identity: its machine is
\* off for good, or has lost the file.
Abandoned(i) ==
  /\ \A m \in Machine : run[m].who # i /\ rm[m] # i
  /\ \A t \in orphans : tunnels[t].owner # i

\* What an abandoned installation holds is given back in the end, wherever its
\* enrollment stopped and whatever answers were lost. A removal that has begun is
\* not: it holds its place until its owner tries again, as the sweep skips it
\* (tunnel-allocator.ts:148), against README.md:222 of the registry.
CapacityReturns ==
  \A i \in Installation :
    [](Abandoned(i) /\ db[i].status # "deleting") ~> ~Registered(db[i])

\* A removal that finds its tunnel deleted already, by an attempt whose answer was
\* lost or by a sweep that went no further.
FindsNone(r) == r.status = "deleting" /\ r.tunnel # NoTunnel /\ ~tunnels[r.tunnel].live

\* An enrolled installation can be removed: only so many attempts of the user
\* fail, however far each got, and whatever its daemon does meanwhile. Not so
\* once its tunnel is deleted: the provider may refuse to delete it again, and
\* every attempt asks it to (tunnel-allocator.ts:407, README.md:168).
RemovalEnds ==
  \A m \in Machine :
    <>[][~(RemoveEnds(m) /\ db[rm[m]].status # "none" /\ ~FindsNone(db[rm[m]]))]_vars

\* What is held is given back, whether its owner has left or wants to leave, but
\* for removals that stay half done.
GivenBack == CapacityReturns /\ RemovalEnds
=============================================================================
