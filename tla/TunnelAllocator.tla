--------------------------- MODULE TunnelAllocator ---------------------------
(***************************************************************************)
(* The allocator of named tunnels: a durable object that keeps a record    *)
(* per installation and provisions a tunnel and a hostname for it at a     *)
(* provider whose calls may fail, also after they have taken effect.       *)
(* Requests and the daily sweep are taken one at a time, in order; each    *)
(* call of the provider is a step. A step that fails ends the request, or  *)
(* the sweep's work on one record; what has been stored by then is what    *)
(* the next request finds. A restart of the object forgets the rest.       *)
(***************************************************************************)
EXTENDS Integers, FiniteSets, Sequences

CONSTANTS
  Installation,   \* the identities daemons enroll with
  Capacity,       \* how many installations may be registered
  Grace,          \* TUNNEL_IDLE_GRACE_MS, in days
  MaxShort,       \* short names there are
  Port,           \* ports daemons listen on
  Tunnel,         \* ids the provider gives to tunnels
  Machine,        \* machines that enroll, one daemon each
  MaxFails,       \* bound: calls that fail, restarts, requests given up
  Nobody, NoName, NoTunnel

\* A daemon asks for its tunnel, the command `tunnel --rm` for the removal.
Client == Machine \X {"run", "rm"}

Unset == -1
Short(n) == <<"short", n>>
Legacy(i) == <<"m", i>>
ShortName == {Short(n) : n \in 1..MaxShort}
Hostname == ShortName \cup {Legacy(i) : i \in Installation}

ASSUME AllocatorConstants ==
  /\ Capacity \in Nat \ {0} /\ Grace \in Nat \ {0}
  /\ MaxShort \in Nat /\ MaxFails \in Nat
  /\ NoTunnel \notin Tunnel /\ Nobody \notin Installation \cup Client /\ NoName \notin Hostname

VARIABLES
  db,        \* "installations" in the storage of the object
  mem,       \* the copy the request or sweep under way has read and changes
  job,       \* that request or sweep, and where it is
  queue,     \* requests that wait for it to end
  answers,   \* answers clients have not taken yet
  tunnels,   \* at the provider: tunnels, their secrets, connectors and routes
  dns,       \* at the provider: names and the tunnels they lead to
  orphans,   \* tunnels of connectors whose daemon was killed without them
  given,     \* history: the names records have held, with their owners
  fails      \* failures so far

cloud == <<tunnels, dns>>
allocatorVars == <<db, mem, job, queue, answers, tunnels, dns, given, fails>>

Status == {"none", "provisioning", "ready", "reclaiming", "reclaimed", "deleting", "deleted"}

\* spared is no field of the stored record but history: see Judge.
Record == [status: Status, host: Hostname \cup {NoName}, previous: Hostname \cup {NoName},
           retired: SUBSET Hostname, port: Port \cup {0}, tunnel: Tunnel \cup {NoTunnel},
           idle: Unset..Grace, spared: BOOLEAN]
Blank == [status |-> "none", host |-> NoName, previous |-> NoName, retired |-> {},
          port |-> 0, tunnel |-> NoTunnel, idle |-> Unset, spared |-> FALSE]
NoRoute == <<NoName, 0>>
Unused == [owner |-> Nobody, live |-> FALSE, up |-> FALSE, rotated |-> FALSE, route |-> NoRoute]

Put(c, i, p, s) == [kind |-> "put", from |-> c, who |-> i, port |-> p, short |-> s]
Delete(c, i) == [kind |-> "delete", from |-> c, who |-> i, port |-> 0, short |-> TRUE]
Sweep == [kind |-> "sweep", from |-> Nobody, who |-> Nobody, port |-> 0, short |-> TRUE]
Idle == [req |-> Sweep, at |-> "idle", left |-> {}]

Answer(res) == [res |-> res, host |-> NoName, port |-> 0, tunnel |-> NoTunnel]
NoAnswer == Answer("none")

Names(r) == ({r.host, r.previous} \cup r.retired) \ {NoName}
Me == job.req.who
My == mem[Me]

AllocatorInit ==
  /\ db = [i \in Installation |-> Blank] /\ mem = db
  /\ job = Idle /\ queue = <<>> /\ answers = [c \in Client |-> NoAnswer]
  /\ tunnels = [t \in Tunnel |-> Unused] /\ dns = {} /\ orphans = {} /\ given = {} /\ fails = 0

----------------------------------------------------------------------------
(* Storage, answers, and calls of the provider. *)

\* storage.put: the copy under way becomes what is stored.
Save(copy) ==
  /\ mem' = copy /\ db' = copy
  /\ given' = given \cup UNION {{<<n, i>> : n \in Names(copy[i])} : i \in Installation}

At(step) == job' = [job EXCEPT !.at = step]

\* The request is over: its answer goes to the client, if that still waits,
\* and the next request reads the storage again.
Tell(c, answer) == answers' = IF c = Nobody THEN answers ELSE [answers EXCEPT ![c] = answer]
Reply(answer) == Tell(job.req.from, answer) /\ job' = Idle

\* A request that ends before it makes a call.
Ends(req, res) == Tell(req.from, Answer(res)) /\ job' = Idle
Begins(req, step) == job' = [req |-> req, at |-> step, left |-> {}] /\ UNCHANGED answers

\* The sweep takes another record, with the copy it has.
NextRecord ==
  \/ \E i \in job.left :
       job' = [req |-> [job.req EXCEPT !.who = i], left |-> job.left \ {i},
               at |-> IF mem[i].tunnel = NoTunnel THEN "find" ELSE "look"]
  \/ job.left = {} /\ job' = Idle

\* What an exception does: a request answers with an error, the sweep goes on.
Throw ==
  /\ \/ job.req.kind = "sweep" /\ NextRecord /\ UNCHANGED answers
     \/ job.req.kind # "sweep" /\ Reply(Answer("error"))
  /\ mem' = IF job' = Idle THEN db ELSE mem
  /\ UNCHANGED <<db, given>>

\* A call does what it is for, or fails, with or without having done so.
Call(effect, then) ==
  /\ UNCHANGED queue
  /\ \/ effect /\ then /\ UNCHANGED fails
     \/ /\ fails < MaxFails /\ fails' = fails + 1
        /\ effect \/ UNCHANGED cloud
        /\ Throw

\* A call that fails whenever it is made.
Refused == UNCHANGED <<queue, fails, tunnels, dns>> /\ Throw

\* A call that only reads.
Read(then) == Call(UNCHANGED cloud, then)

----------------------------------------------------------------------------
(* A request begins. *)

Registered(r) == r.status \notin {"none", "deleted", "reclaimed"}

\* What is being removed after the sweep took all it had, or before it had a
\* tunnel, has nothing at the provider.
Holds(r) == Registered(r) /\ (r.status = "deleting" => r.tunnel # NoTunnel)

Enrolled(r) == r.status \in {"ready", "provisioning"}
Full == Cardinality({i \in Installation : Registered(db[i])}) >= Capacity

\* newHostname: a short name that no record holds or has held.
\* Mutant of Free: names a record gave up are free again.
FreeAgain == {n \in 1..MaxShort : \A i \in Installation : Short(n) \notin {db[i].host, db[i].previous}}

Free == {n \in 1..MaxShort : \A i \in Installation : Short(n) \notin Names(db[i])}

NewName == Short(CHOOSE n \in Free : TRUE)

Reserve(r, p) ==
  IF r.status \notin {"none", "reclaimed"} THEN r
  ELSE [Blank EXCEPT !.status = "provisioning", !.port = p, !.idle = 0, !.retired = r.retired,
                     !.host = IF r.host = NoName THEN NewName ELSE r.host]

\* The name the daemon wants, a short one or the only one an old daemon takes,
\* is taken when the name before the present one has been taken down.
Moves(r, i, short) ==
  /\ Enrolled(r) /\ r.previous = NoName
  /\ IF short THEN r.host \notin ShortName ELSE r.host # Legacy(i)

Migrate(i, r, short) ==
  IF ~Moves(r, i, short) THEN r
  ELSE [r EXCEPT !.retired = @ \cup {r.host}, !.previous = r.host, !.status = "provisioning",
                 !.host = IF short THEN NewName ELSE Legacy(i)]

\* Mutant of Repoint: the new port is noted, and the record stays ready.
RepointNoted(r, p) == IF Enrolled(r) THEN [r EXCEPT !.port = p] ELSE r

Repoint(r, p) ==
  IF Enrolled(r) /\ r.port # p THEN [r EXCEPT !.port = p, !.status = "provisioning"] ELSE r

Touch(r) == IF Enrolled(r) THEN [r EXCEPT !.idle = 0] ELSE r

Enroll(i, r, p, short) == Touch(Repoint(Migrate(i, Reserve(r, p), short), p))

\* Which call a PUT makes next for a record.
PutAt(r) == IF r.tunnel = NoTunnel THEN "create" ELSE IF r.status = "ready" THEN "token" ELSE "route"

\* A PUT up to its first call: capacity is reserved before anything is made.
PutBegins(req) ==
  LET i == req.who
      r == db[i]
      new == r.status \in {"none", "reclaimed"}
      open == new \/ Enrolled(r)
      full == new /\ Full
      nameless == new /\ r.host = NoName /\ Free = {}
      stuck == req.short /\ Free = {} /\ Reserve(r, req.port).host \notin ShortName
  IN \/ /\ full \/ r.status = "reclaiming"
        /\ Ends(req, "full") /\ UNCHANGED <<db, mem, given>>
     \/ /\ ~full /\ nameless
        /\ Ends(req, "error") /\ UNCHANGED <<db, mem, given>>
     \/ /\ open /\ ~full /\ ~nameless /\ stuck
        /\ Save([db EXCEPT ![i] = Reserve(r, req.port)]) /\ Ends(req, "error")
     \/ /\ open /\ ~full /\ ~nameless /\ ~stuck
        /\ Save([db EXCEPT ![i] = Enroll(i, r, req.port, req.short)])
        /\ Begins(req, IF r.tunnel = NoTunnel THEN "find" ELSE PutAt(mem'[i]))
     \/ /\ r.status = "deleting" /\ r.tunnel = NoTunnel
        /\ Begins(req, "find") /\ UNCHANGED <<db, mem, given>>
     \/ /\ r.status = "deleted" \/ (r.status = "deleting" /\ r.tunnel # NoTunnel)
        /\ Ends(req, "gone") /\ UNCHANGED <<db, mem, given>>

\* A DELETE up to its first call.
DeleteBegins(req) ==
  LET r == db[req.who] IN
  \/ /\ r.status = "none"
     /\ Ends(req, "missing") /\ UNCHANGED <<db, mem, given>>
  \/ /\ r.status = "deleted"
     /\ Ends(req, "deleted") /\ UNCHANGED <<db, mem, given>>
  \/ /\ Registered(r) /\ r.tunnel = NoTunnel
     /\ Begins(req, "find") /\ UNCHANGED <<db, mem, given>>
  \/ /\ r.status = "reclaimed" \/ (Registered(r) /\ r.tunnel # NoTunnel)
     /\ Save([db EXCEPT ![req.who].status = "deleting"]) /\ Begins(req, "unname")

\* Allocator.fetch: one request after the other.
Take ==
  /\ job = Idle /\ queue # <<>>
  /\ queue' = Tail(queue) /\ UNCHANGED <<tunnels, dns, fails>>
  /\ LET req == Head(queue) IN
     \/ req.kind = "put" /\ PutBegins(req)
     \/ req.kind = "delete" /\ DeleteBegins(req)

----------------------------------------------------------------------------
(* The sweep's verdict on one record. *)

\* Connected, it is kept; not, it has Grace days from when that was first seen.
\* What was being reclaimed is ready again, and spared if it may be no daemon
\* that connected it: such a record need not have been provisioned.
Judge(copy, connected) ==
  LET r == copy[Me]
      since == IF r.idle = Unset THEN 0 ELSE r.idle
  IN /\ UNCHANGED answers
     /\ \/ /\ connected
           /\ Save([copy EXCEPT ![Me] = [r EXCEPT !.idle = Unset,
                                !.status = IF r.status = "reclaiming" THEN "ready" ELSE r.status,
                                !.spared = @ \/ (r.status = "reclaiming" /\ r.tunnel \in orphans)]])
           /\ NextRecord
        \/ /\ ~connected /\ since < Grace
           /\ Save([copy EXCEPT ![Me].idle = since])
           /\ NextRecord
        \/ /\ ~connected /\ since >= Grace
           /\ Save([copy EXCEPT ![Me] = [r EXCEPT !.idle = since, !.status = "reclaiming"]])
           /\ At(IF r.tunnel # NoTunnel /\ tunnels[r.tunnel].live THEN "reclaim" ELSE "unname")

----------------------------------------------------------------------------
(* The calls. *)

\* Mutant of Named: nobody looks for the tunnel of a creation that went unanswered.
NamedUnseen == {t \in Tunnel : FALSE}

Named == {t \in Tunnel : tunnels[t].live /\ tunnels[t].owner = Me}

\* The tunnel of a creation whose answer was lost is found by its name.
Find ==
  /\ job.at = "find"
  /\ Read(\E t \in IF Named = {} THEN {NoTunnel} ELSE Named :
       LET found == [mem EXCEPT ![Me].tunnel = t] IN
       \/ /\ job.req.kind = "put" /\ My.status # "deleting"
          /\ Save(found) /\ At(PutAt(found[Me])) /\ UNCHANGED answers
       \/ /\ job.req.kind = "put" /\ My.status = "deleting"
          /\ Save(found) /\ Reply(Answer("gone"))
       \/ /\ job.req.kind = "delete"
          /\ Save([found EXCEPT ![Me].status = "deleting"])
          /\ At("unname") /\ UNCHANGED answers
       \/ /\ job.req.kind = "sweep" /\ t # NoTunnel
          /\ mem' = found /\ At("look") /\ UNCHANGED <<db, given, answers>>
       \/ /\ job.req.kind = "sweep" /\ t = NoTunnel
          /\ Judge(found, FALSE))

Look ==
  /\ job.at = "look"
  /\ Read(Judge(mem, tunnels[My.tunnel].live /\ tunnels[My.tunnel].up))

\* The provider makes a tunnel each time it is asked to.
Create ==
  /\ job.at = "create"
  /\ \/ \E t \in Tunnel :
          /\ tunnels[t] = Unused
          /\ Call(tunnels' = [tunnels EXCEPT ![t] = [Unused EXCEPT !.owner = Me, !.live = TRUE]] /\ UNCHANGED dns,
                  Save([mem EXCEPT ![Me].tunnel = t]) /\ At("route") /\ UNCHANGED answers)
     \/ (\A t \in Tunnel : tunnels[t] # Unused) /\ Refused

Route ==
  /\ job.at = "route"
  /\ Call(tunnels' = [tunnels EXCEPT ![My.tunnel].route = <<My.host, My.port>>] /\ UNCHANGED dns,
          At("name") /\ UNCHANGED <<db, mem, given, answers>>)

\* A record that leads elsewhere is not touched.
Foreign(n) == \E t \in Tunnel : <<n, t>> \in dns /\ t # My.tunnel

\* All is made: the record is ready, and its tunnel's token is fetched.
Provisioned ==
  /\ Save([mem EXCEPT ![Me] = [@ EXCEPT !.previous = NoName, !.status = "ready",
                                        !.spared = FALSE]])
  /\ At("token") /\ UNCHANGED answers

Name ==
  /\ job.at = "name"
  /\ \/ Foreign(My.host) /\ Refused
     \/ /\ ~Foreign(My.host)
        /\ Call(dns' = dns \cup {<<My.host, My.tunnel>>} /\ UNCHANGED tunnels,
                \/ My.previous = NoName /\ Provisioned
                \/ /\ My.previous # NoName /\ At("leave")
                   /\ UNCHANGED <<db, mem, given, answers>>)

\* removeDns for the name before, once the new one leads to the tunnel.
Leave ==
  /\ job.at = "leave"
  /\ \/ Foreign(My.previous) /\ Refused
     \/ /\ ~Foreign(My.previous)
        /\ Call(dns' = dns \ {<<My.previous, My.tunnel>>} /\ UNCHANGED tunnels, Provisioned)

Token ==
  /\ job.at = "token"
  /\ \/ ~tunnels[My.tunnel].live /\ Refused
     \/ /\ tunnels[My.tunnel].live
        /\ Read(/\ UNCHANGED <<db, mem, given>>
                /\ Reply([res |-> "ok", host |-> My.host, port |-> My.port, tunnel |-> My.tunnel]))

\* The record is gone from the provider: a tombstone that keeps its names, or,
\* for the sweep, one that its owner may enroll again.
Removed ==
  \/ /\ job.req.kind = "delete"
     /\ Save([mem EXCEPT ![Me].status = "deleted"]) /\ Reply(Answer("deleted"))
  \/ /\ job.req.kind = "sweep"
     /\ Save([mem EXCEPT ![Me] = [@ EXCEPT !.status = "reclaimed", !.tunnel = NoTunnel,
                                           !.previous = NoName, !.idle = Unset]])
     /\ NextRecord /\ UNCHANGED answers

Unnamed ==
  \/ /\ job.req.kind = "delete" /\ My.tunnel # NoTunnel
     /\ At("revoke") /\ UNCHANGED <<db, mem, given, answers>>
  \/ /\ job.req.kind = "sweep" \/ My.tunnel = NoTunnel
     /\ Removed

\* removeDns: the name before, then the present one.
Unname ==
  LET present == {n \in {My.previous, My.host} \ {NoName} : \E t \in Tunnel : <<n, t>> \in dns}
      n == IF My.previous \in present THEN My.previous ELSE My.host
  IN /\ job.at = "unname"
     /\ \/ present = {} /\ Read(Unnamed)
        \/ present # {} /\ Foreign(n) /\ Refused
        \/ /\ present # {} /\ ~Foreign(n)
           /\ Call(dns' = dns \ {<<n, My.tunnel>>} /\ UNCHANGED tunnels,
                   \/ present = {n} /\ Unnamed
                   \/ present # {n} /\ UNCHANGED <<job, db, mem, given, answers>>)

\* A removal makes the connector's credentials useless before it cuts it off.
Revoke ==
  /\ job.at = "revoke"
  /\ Call(tunnels' = [tunnels EXCEPT ![My.tunnel].rotated = @ \/ tunnels[My.tunnel].live] /\ UNCHANGED dns,
          At("disconnect") /\ UNCHANGED <<db, mem, given, answers>>)

Disconnect ==
  /\ job.at = "disconnect"
  /\ Call(tunnels' = [tunnels EXCEPT ![My.tunnel].up = FALSE] /\ UNCHANGED dns,
          At("destroy") /\ UNCHANGED <<db, mem, given, answers>>)

Gone(t) == [tunnels EXCEPT ![t] = [Unused EXCEPT !.owner = tunnels[t].owner]]

\* The provider refuses to delete a tunnel that is connected, and one that has
\* been deleted it may refuse to delete, or not know.
Destroy ==
  LET t == My.tunnel
  IN /\ job.at \in {"destroy", "reclaim"}
     /\ \/ (tunnels[t].up \/ ~tunnels[t].live) /\ Refused
        \/ /\ ~tunnels[t].up
           /\ Call(tunnels' = Gone(t) /\ UNCHANGED dns,
                   \/ job.at = "destroy" /\ Removed
                   \/ job.at = "reclaim" /\ At("unname") /\ UNCHANGED <<db, mem, given, answers>>)

Calls ==
  \/ Find \/ Look \/ Create \/ Route \/ Name \/ Leave \/ Token
  \/ Unname \/ Revoke \/ Disconnect \/ Destroy

----------------------------------------------------------------------------
(* The schedule, the calendar, and restarts of the object. *)

\* Mutant of Due: only what was ready once.
DueReady == {i \in Installation : db[i].status \in {"ready", "reclaiming"}}

\* The daily sweep passes over what has been removed or is being removed.
Due == {i \in Installation : db[i].status \in {"provisioning", "ready", "reclaiming"}}

\* It waits in the same queue: one that begins before requests that wait is one
\* that was due before they came.
Midnight ==
  /\ job = Idle
  /\ \E i \in Due :
       job' = [req |-> [Sweep EXCEPT !.who = i], left |-> Due \ {i},
               at |-> IF db[i].tunnel = NoTunnel THEN "find" ELSE "look"]
  /\ UNCHANGED <<db, mem, queue, answers, tunnels, dns, given, fails>>

\* A day passes for every record whose tunnel has been seen disconnected: calls
\* take seconds, and days pass between them.
Older(r) == IF r.idle \in 0..Grace - 1 THEN [r EXCEPT !.idle = @ + 1] ELSE r
Day ==
  /\ job = Idle
  /\ db' = [i \in Installation |-> Older(db[i])] /\ mem' = db'
  /\ UNCHANGED <<job, queue, answers, tunnels, dns, given, fails>>

\* The object is evicted: what it had not stored is lost, clients see errors.
Restart ==
  /\ job # Idle /\ fails < MaxFails /\ fails' = fails + 1
  /\ answers' = [c \in Client |->
       IF c = job.req.from \/ \E k \in DOMAIN queue : queue[k].from = c THEN Answer("error") ELSE answers[c]]
  /\ job' = Idle /\ queue' = <<>> /\ mem' = db
  /\ UNCHANGED <<db, tunnels, dns, given>>

AllocatorNext == Take \/ Calls \/ Midnight \/ Day \/ Restart
=============================================================================
