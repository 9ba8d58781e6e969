-------------------------- MODULE NamedTunnelProofs --------------------------
(***************************************************************************)
(* Proofs about named tunnels: whatever calls of the provider fail, with   *)
(* or without effect, and wherever the allocator is evicted, what exists   *)
(* at the provider belongs to a record that counts against the capacity, a *)
(* name stays with the installation that has held it, and a record that is *)
(* stored as ready leads from its name to the port of its daemon, unless   *)
(* a connector outlived that and the sweep was content with it.            *)
(***************************************************************************)
EXTENDS NamedTunnel, FiniteSetTheorems, SequenceTheorems, TLAPS

(***************************************************************************)
(* What holds of one record r of installation i, with tunnels T and names  *)
(* D at the provider, at every step of a request.                          *)
(***************************************************************************)
Owns(i, t, T) == T[t].live /\ T[t].owner = i
Routed(r, T, D) ==
  /\ r.tunnel # NoTunnel
  /\ ~r.spared => /\ T[r.tunnel].route = <<r.host, r.port>>
                  /\ <<r.host, r.tunnel>> \in D
                  /\ r.previous = NoName
Empty(r) == r.status \in {"none", "reclaimed", "deleted"} \/ (r.status = "deleting" /\ r.tunnel = NoTunnel)

\* The names a record has: what is blank has none, the name before is retired.
WellNamed(i, r) ==
  /\ r.status = "none" => r = Blank
  /\ r.status # "none" => r.host # NoName
  /\ r.previous # NoName => r.previous \in r.retired /\ r.previous # r.host
  /\ r.status \in {"none", "reclaimed"} => r.previous = NoName
  /\ \A j \in Installation : Legacy(j) \in Names(r) => j = i

\* Its tunnel is the only one there is for it, also when it has not been found.
Housed(i, r, T) ==
  /\ r.status \in {"none", "reclaimed"} => r.tunnel = NoTunnel
  /\ r.tunnel # NoTunnel => T[r.tunnel].owner = i
  /\ \A u \in Tunnel : Owns(i, u, T) => r.tunnel \in {NoTunnel, u}
  /\ \A t, u \in Tunnel : Owns(i, t, T) /\ Owns(i, u, T) => t = u
  /\ Empty(r) => \A u \in Tunnel : ~Owns(i, u, T)
  /\ r.status \in {"provisioning", "ready"} /\ r.tunnel # NoTunnel => T[r.tunnel].live

\* Names that lead to a tunnel of it are its own, and it holds something.
Pointed(i, r, T, D) ==
  \A d \in D : T[d[2]].owner = i =>
    Holds(r) /\ r.tunnel = d[2] /\ d[1] \in {r.host, r.previous}

Sound(i, r, T, D) ==
  /\ WellNamed(i, r)
  /\ Housed(i, r, T)
  /\ Pointed(i, r, T, D)
  /\ r.status = "ready" => Routed(r, T, D)

Sounds == \A i \in Installation : Sound(i, db[i], tunnels, dns)

\* Nothing at the provider is nobody's.
Claimed(T, D) ==
  /\ \A t \in Tunnel : T[t].live => T[t].owner \in Installation
  /\ \A d \in D : T[d[2]].owner \in Installation
Owned == Claimed(tunnels, dns)

\* The copy under way is what is stored, but for tunnels the sweep has found.
Found(i, t) == [db[i] EXCEPT !.tunnel = t]
Copies ==
  /\ job.at = "idle" => mem = db
  /\ \A i \in Installation :
       \/ mem[i] = db[i]
       \/ /\ job.req.kind = "sweep"
          /\ db[i].tunnel = NoTunnel
          /\ \E t \in Tunnel : mem[i] = Found(i, t) /\ Owns(i, t, tunnels)

Working == {"provisioning", "ready", "reclaiming"}
OwnsNone == \A t \in Tunnel : ~Owns(Me, t, tunnels)

\* What is so of a request or sweep at each of its calls.
AtFind ==
  /\ My.tunnel = NoTunnel
  /\ job.req.kind = "put" => My.status \in {"provisioning", "deleting"}
  /\ job.req.kind = "delete" => Registered(My)
  /\ job.req.kind = "sweep" => My.status \in Working
AtLook == job.req.kind = "sweep" /\ My.tunnel # NoTunnel /\ My.status \in Working
AtUnname ==
  /\ \/ job.req.kind = "delete" /\ My.status = "deleting"
     \/ job.req.kind = "sweep" /\ My.status = "reclaiming" /\ OwnsNone
  /\ My = db[Me]
AtEnd ==
  /\ job.req.kind = "delete" /\ My.status = "deleting" /\ My.tunnel # NoTunnel
  /\ \A d \in dns : d[2] # My.tunnel
AtReclaim ==
  job.req.kind = "sweep" /\ My.status = "reclaiming" /\ My.tunnel # NoTunnel /\ My = db[Me]

Placed ==
  /\ job.at = "idle" => job = Idle
  /\ job.at # "idle" => Me \in Installation
  /\ job.at = "find" => AtFind
  /\ job.at = "look" => AtLook
  /\ job.at \in {"create", "route", "name", "leave"} => job.req.kind = "put" /\ My.status = "provisioning"
  /\ job.at = "create" => My.tunnel = NoTunnel /\ OwnsNone
  /\ job.at \in {"route", "name", "leave"} => My.tunnel # NoTunnel
  /\ job.at \in {"name", "leave"} => tunnels[My.tunnel].route = <<My.host, My.port>>
  /\ job.at = "leave" => My.previous # NoName /\ <<My.host, My.tunnel>> \in dns
  /\ job.at = "token" => job.req.kind = "put" /\ My.status = "ready"
  /\ job.at = "unname" => AtUnname
  /\ job.at \in {"revoke", "disconnect", "destroy"} => AtEnd
  /\ job.at = "reclaim" => AtReclaim

\* The records the sweep has still to look at.
Listed ==
  /\ job.left # {} => job.req.kind = "sweep"
  /\ Me \notin job.left
  /\ \A i \in job.left : mem[i].status \in Working

\* Capacity.
Holders == {i \in Installation : Holds(db[i])}
Members == {i \in Installation : Registered(db[i])}
Few == IsFiniteSet(Members) /\ Cardinality(Holders) <= Capacity

\* Names.
Apart == \A i, j \in Installation : i # j => Names(db[i]) \cap Names(db[j]) = {}
Given == \A g \in given : g[1] \in Names(db[g[2]])

(***************************************************************************)
(* The machines.  An identity is of one machine; the request of a machine  *)
(* that still waits is the last there is for its identity; and what has    *)
(* been answered is true for as long as the machine relies on it.          *)
(***************************************************************************)
Asks(m) == <<m, "run">>
IsPut(r, i) == r.kind = "put" /\ r.who = i
Waiting(i) == IsPut(job.req, i) \/ \E k \in DOMAIN queue : IsPut(queue[k], i)
Runs(m) == run[m].at \in {"starting", "open"}
Promised(m) == run[m].at = "asking" /\ answers[Asks(m)].res = "ok"
Serves(m, i) == run[m].who = i /\ (Runs(m) \/ Promised(m))

Ids(m) == {identity[m], rm[m], run[m].who} \ {Nobody}
OneEach == \A m, n \in Machine : m # n => Ids(m) \cap Ids(n) = {}

AskedIn(m, r, R, A) ==
  r.from = Asks(m) => R[m].at = "asking" /\ r.kind = "put" /\ r.who = R[m].who /\ A[Asks(m)] = NoAnswer
Asked(m, r) == AskedIn(m, r, run, answers)
Queued ==
  \A m \in Machine :
    /\ Asked(m, job.req)
    /\ job.req.from = Asks(m) =>
         \A k \in DOMAIN queue : ~IsPut(queue[k], Me) /\ queue[k].from # Asks(m)
    /\ \A k \in DOMAIN queue :
         /\ Asked(m, queue[k])
         /\ queue[k].from = Asks(m) => \A l \in DOMAIN queue : l > k => ~IsPut(queue[l], queue[k].who)
Wanted == \A k \in DOMAIN queue : queue[k].who \in Installation /\ queue[k].kind \in {"put", "delete"}

Leads ==
  \A m \in Machine :
    /\ run[m].at = "off" => run[m] = Off
    /\ run[m].at # "off" => run[m].who \in Installation
    /\ Runs(m) => run[m].tunnel \in Tunnel /\ tunnels[run[m].tunnel].owner = run[m].who
    /\ Promised(m) => /\ answers[Asks(m)].tunnel \in Tunnel
                      /\ tunnels[answers[Asks(m)].tunnel].owner = run[m].who
Connected ==
  \A t \in Tunnel : tunnels[t].up => t \in orphans \/ \E m \in Machine : Runs(m) /\ run[m].tunnel = t

Silent == \A m \in Machine : run[m].at # "asking" => answers[Asks(m)] = NoAnswer

Kept(r, T, D) ==
  /\ r.status \notin {"none", "provisioning"}
  /\ r.status = "reclaiming" => r.tunnel # NoTunnel /\ (T[r.tunnel].live => Routed(r, T, D))
Served ==
  \A m \in Machine, i \in Installation :
    Serves(m, i) => ~Waiting(i) /\ Kept(db[i], tunnels, dns)

Store == Sounds /\ Owned /\ Copies /\ Placed /\ Listed /\ Few /\ Apart /\ Given
Clients == OneEach /\ Queued /\ Wanted /\ Leads /\ Silent /\ Connected /\ Served
IInv == TypeOK /\ Store /\ Clients

-----------------------------------------------------------------------------
(* Records and their names.                                                *)

LEMMA BlankIsRecord == Blank \in Record
BY AllocatorConstants DEF Blank, Record, Status, Unset

LEMMA RecordFields ==
  ASSUME NEW r \in Record
  PROVE  /\ r.status \in Status
         /\ r.host \in Hostname \cup {NoName} /\ r.previous \in Hostname \cup {NoName}
         /\ r.retired \subseteq Hostname
         /\ r.port \in Port \cup {0} /\ r.tunnel \in Tunnel \cup {NoTunnel}
         /\ r.idle \in Unset..Grace /\ r.spared \in BOOLEAN
BY DEF Record

\* A short name is not a legacy one, and each is of one number or installation.
LEMMA NamesDiffer ==
  /\ \A n, i : Short(n) # Legacy(i)
  /\ \A i, j : Legacy(i) = Legacy(j) => i = j
  /\ \A n, k : Short(n) = Short(k) => n = k
BY DEF Short, Legacy

LEMMA NamesAreHostnames ==
  ASSUME NEW r \in Record
  PROVE  Names(r) \subseteq Hostname
BY RecordFields DEF Names

\* What Names, WellNamed and the rest say of a record is said of its fields.
LEMMA SameNames ==
  ASSUME NEW i, NEW r, NEW s, WellNamed(i, r), r.status # "none", s.status # "none",
         s.host = r.host, s.previous = r.previous, s.retired = r.retired,
         s.status = "reclaimed" => s.previous = NoName
  PROVE  WellNamed(i, s) /\ Names(s) = Names(r)
BY DEF WellNamed, Names

\* A tunnel that was found for a record is its only one.
LEMMA FoundIsSound ==
  ASSUME TypeOK, NEW i \in Installation, NEW t \in Tunnel,
         NEW T \in [Tunnel -> TunnelState], NEW D \in SUBSET (Hostname \X Tunnel),
         Sound(i, db[i], T, D), db[i].tunnel = NoTunnel, Owns(i, t, T)
  PROVE  /\ Sound(i, Found(i, t), T, D)
         /\ Found(i, t) \in Record
         /\ Names(Found(i, t)) = Names(db[i])
         /\ Found(i, t).status = db[i].status
         /\ Found(i, t).tunnel = t
         /\ Holds(db[i])
         /\ db[i].status \in {"provisioning", "reclaiming"}
<1> DEFINE r == db[i]
           s == Found(i, t)
<1>0. r \in Record
  BY DEF TypeOK
<1>1. /\ s \in Record
      /\ s.status = r.status /\ s.host = r.host /\ s.previous = r.previous
      /\ s.retired = r.retired /\ s.port = r.port /\ s.tunnel = t
  BY <1>0 DEF Found, Record
<1>2. ~Empty(r) /\ r.status # "ready" /\ r.status \in Status
  BY <1>0, RecordFields DEF Sound, Housed, Routed
<1>3. r.status \in {"provisioning", "reclaiming"}
  BY <1>2 DEF Empty, Status
<1> HIDE DEF s
<1>4. WellNamed(i, s) /\ Names(s) = Names(r)
  BY <1>1, <1>3, SameNames DEF Sound
<1>5. Housed(i, s, T)
  <2>1. ~Empty(s)
    BY <1>1, <1>3 DEF Empty
  <2>2. T[t].owner = i /\ T[t].live /\ \A u \in Tunnel : Owns(i, u, T) => u = t
    BY DEF Owns, Sound, Housed
  <2> QED
    BY <1>1, <1>3, <2>1, <2>2 DEF Housed
<1>6. Pointed(i, s, T, D)
  <2> SUFFICES ASSUME NEW d \in D, T[d[2]].owner = i PROVE FALSE
    BY DEF Pointed
  <2>1. r.tunnel = d[2] /\ d[2] \in Tunnel
    BY DEF Sound, Pointed
  <2> QED
    BY <2>1, AllocatorConstants
<1>7. Sound(i, s, T, D)
  BY <1>1, <1>3, <1>4, <1>5, <1>6 DEF Sound
<1>8. Holds(r)
  BY <1>3 DEF Holds, Registered
<1> QED
  BY <1>1, <1>3, <1>4, <1>7, <1>8 DEF s

-----------------------------------------------------------------------------
(* What a call does at the provider is sound for what is stored.           *)

CloudStep ==
  /\ tunnels' \in [Tunnel -> TunnelState] /\ dns' \in SUBSET (Hostname \X Tunnel)
  /\ \A i \in Installation : Sound(i, db[i], tunnels', dns')
  /\ Claimed(tunnels', dns')
  /\ \A t \in Tunnel : tunnels[t].owner \in Installation => tunnels'[t].owner = tunnels[t].owner
  /\ \A i \in Installation, t \in Tunnel :
       db[i].tunnel = NoTunnel /\ Owns(i, t, tunnels) => Owns(i, t, tunnels')
  /\ \A t \in Tunnel : tunnels'[t].up => tunnels[t].up
  /\ \A i \in Installation : Kept(db[i], tunnels, dns) => Kept(db[i], tunnels', dns')

LEMMA NothingHappens == TypeOK /\ Sounds /\ Owned /\ UNCHANGED <<tunnels, dns>> => CloudStep
BY DEF CloudStep, TypeOK, Sounds, Owned

\* What is copied is as sound as what is stored.
LEMMA CopyIsSound ==
  ASSUME TypeOK, Copies, CloudStep, NEW i \in Installation
  PROVE  /\ Sound(i, mem[i], tunnels', dns')
         /\ mem[i] \in Record
         /\ Names(mem[i]) = Names(db[i])
         /\ mem[i].status = db[i].status
         /\ Holds(mem[i]) <=> Holds(db[i])
         /\ Registered(mem[i]) <=> Registered(db[i])
         /\ Kept(db[i], tunnels, dns) => Kept(mem[i], tunnels', dns')
<1>1. CASE mem[i] = db[i]
  BY <1>1 DEF CloudStep, TypeOK
<1>2. CASE db[i].tunnel = NoTunnel /\ \E t \in Tunnel : mem[i] = Found(i, t) /\ Owns(i, t, tunnels)
  <2>1. PICK t \in Tunnel : mem[i] = Found(i, t) /\ Owns(i, t, tunnels)
    BY <1>2
  <2>2. Owns(i, t, tunnels')
    BY <1>2, <2>1 DEF CloudStep
  <2>3. /\ Sound(i, Found(i, t), tunnels', dns')
        /\ Found(i, t) \in Record
        /\ Names(Found(i, t)) = Names(db[i])
        /\ Found(i, t).status = db[i].status
        /\ Holds(db[i])
        /\ db[i].status \in {"provisioning", "reclaiming"}
    BY <1>2, <2>2, FoundIsSound DEF CloudStep
  <2>4. Holds(mem[i]) /\ Registered(mem[i]) /\ Registered(db[i])
    BY <2>1, <2>3 DEF Holds, Registered
  <2>5. ~Kept(db[i], tunnels, dns)
    BY <1>2, <2>3 DEF Kept
  <2> QED
    BY <2>1, <2>3, <2>4, <2>5
<1> QED
  BY <1>1, <1>2 DEF Copies

-----------------------------------------------------------------------------
(* Storing a copy.                                                         *)

\* What is stored: for one record something new, for the others the copy
\* under way.
Stored(w) ==
  /\ db' \in [Installation -> Record] /\ mem' = db'
  /\ \A i \in Installation : i # w => db'[i] \in {db[i], mem[i]}
  /\ given' = given \cup UNION {{<<n, i>> : n \in Names(db'[i])} : i \in Installation}

LEMMA StoredOthers ==
  ASSUME TypeOK, Copies, NEW w, CloudStep, Stored(w), NEW i \in Installation, i # w
  PROVE  /\ Sound(i, db'[i], tunnels', dns')
         /\ Names(db'[i]) = Names(db[i])
         /\ db'[i].status = db[i].status
         /\ Holds(db'[i]) <=> Holds(db[i])
         /\ Registered(db'[i]) <=> Registered(db[i])
         /\ Kept(db[i], tunnels, dns) => Kept(db'[i], tunnels', dns')
<1>1. CASE db'[i] = db[i]
  BY <1>1 DEF CloudStep
<1>2. CASE db'[i] = mem[i]
  BY <1>2, CopyIsSound
<1> QED
  BY <1>1, <1>2 DEF Stored

LEMMA SoundsKept ==
  ASSUME TypeOK, Copies, NEW w, CloudStep, Stored(w),
         w \in Installation => Sound(w, db'[w], tunnels', dns')
  PROVE  Sounds' /\ Owned' /\ Copies'
<1>1. Sounds'
  BY StoredOthers DEF Sounds
<1>2. Owned'
  BY DEF CloudStep, Owned
<1>3. Copies'
  BY DEF Stored, Copies
<1> QED
  BY <1>1, <1>2, <1>3

\* Names that nobody else has may be added to the record in hand.
LEMMA NamesKept ==
  ASSUME TypeOK, Copies, NEW w, CloudStep, Stored(w), Apart, Given, w \in Installation,
         Names(db[w]) \subseteq Names(db'[w]),
         \A i \in Installation : i # w => Names(db'[w]) \cap Names(db[i]) = {}
  PROVE  Apart' /\ Given' /\ given' \subseteq Hostname \X Installation
<1>1. \A i \in Installation : i # w => Names(db'[i]) = Names(db[i])
  BY StoredOthers
<1>2. Apart'
  <2> SUFFICES ASSUME NEW i \in Installation, NEW j \in Installation, i # j
               PROVE  Names(db'[i]) \cap Names(db'[j]) = {}
    BY DEF Apart
  <2>1. CASE i = w
    BY <1>1, <2>1
  <2>2. CASE j = w
    BY <1>1, <2>2
  <2>3. CASE i # w /\ j # w
    BY <1>1, <2>3 DEF Apart
  <2> QED
    BY <2>1, <2>2, <2>3
<1>3. \A i \in Installation : Names(db[i]) \subseteq Names(db'[i])
  BY <1>1
<1>4. ASSUME NEW g \in given' PROVE g \in Hostname \X Installation /\ g[1] \in Names(db'[g[2]])
  <2>1. CASE g \in given
    <3>1. g \in Hostname \X Installation
      BY <2>1 DEF TypeOK
    <3>2. g[2] \in Installation /\ g[1] \in Names(db[g[2]])
      BY <2>1, <3>1 DEF Given
    <3> QED
      BY <1>3, <3>1, <3>2
  <2>2. CASE g \notin given
    <3>1. PICK i \in Installation : g \in {<<n, i>> : n \in Names(db'[i])}
      BY <2>2 DEF Stored
    <3>2. PICK n \in Names(db'[i]) : g = <<n, i>>
      BY <3>1
    <3>3. db'[i] \in Record
      BY DEF Stored
    <3>4. n \in Hostname
      BY <3>3, NamesAreHostnames
    <3> QED
      BY <3>2, <3>4
  <2> QED
    BY <2>1, <2>2
<1> QED
  BY <1>2, <1>4 DEF Given

\* One more record may be a member, when there is room for one more.
LEMMA FewKept ==
  ASSUME TypeOK, Copies, NEW w, CloudStep, Stored(w), Few, w \in Installation,
         Holds(db'[w]) => Holds(db[w]) \/ Cardinality(Members) < Capacity
  PROVE  Few'
<1>1. /\ \A i \in Installation : i # w => (Registered(db'[i]) <=> Registered(db[i]))
      /\ \A i \in Installation : i # w => (Holds(db'[i]) <=> Holds(db[i]))
  BY StoredOthers
<1>2. Members' \subseteq Members \cup {w}
  BY <1>1 DEF Members
<1>3. IsFiniteSet(Members \cup {w})
  BY FS_AddElement DEF Few
<1>4. IsFiniteSet(Members')
  BY <1>2, <1>3, FS_Subset
<1>5. IsFiniteSet(Holders) /\ Cardinality(Holders) <= Cardinality(Members)
      /\ Cardinality(Members) \in Nat /\ Cardinality(Holders) \in Nat
  <2>1. Holders \subseteq Members
    BY DEF Holders, Members, Holds
  <2> QED
    BY <2>1, FS_Subset, FS_CardinalityType DEF Few
<1>6. CASE Holds(db'[w]) => Holds(db[w])
  <2>1. Holders' \subseteq Holders
    BY <1>1, <1>6 DEF Holders
  <2>2. Cardinality(Holders') <= Cardinality(Holders) /\ Cardinality(Holders') \in Nat
    BY <1>5, <2>1, FS_Subset, FS_CardinalityType
  <2> QED
    BY <1>4, <1>5, <2>2, AllocatorConstants DEF Few
<1>7. CASE Cardinality(Members) < Capacity
  <2>1. Holders' \subseteq Holders \cup {w}
    BY <1>1 DEF Holders
  <2>2. IsFiniteSet(Holders \cup {w}) /\ Cardinality(Holders \cup {w}) <= Cardinality(Holders) + 1
        /\ Cardinality(Holders \cup {w}) \in Nat
    <3>1. IsFiniteSet(Holders \cup {w})
      BY <1>5, FS_AddElement
    <3>2. Cardinality(Holders \cup {w}) = IF w \in Holders THEN Cardinality(Holders)
                                           ELSE Cardinality(Holders) + 1
      BY <1>5, FS_AddElement
    <3> QED
      BY <1>5, <3>1, <3>2
  <2>3. Cardinality(Holders') <= Cardinality(Holders \cup {w}) /\ Cardinality(Holders') \in Nat
    BY <2>1, <2>2, FS_Subset, FS_CardinalityType
  <2> QED
    BY <1>4, <1>5, <1>7, <2>2, <2>3, AllocatorConstants DEF Few
<1> QED
  BY <1>6, <1>7

\* Nothing is stored: the others of the conjuncts follow from what happened at
\* the provider.
LEMMA NotStored ==
  ASSUME CloudStep, Apart, Given, Few, UNCHANGED <<db, given>>
  PROVE  Sounds' /\ Owned' /\ Apart' /\ Given' /\ Few'
<1>1. Sounds' /\ Owned'
  BY DEF CloudStep, Sounds, Owned
<1>2. Apart' /\ Given'
  BY DEF Apart, Given
<1>3. Few'
  BY DEF Few, Members, Holders
<1> QED
  BY <1>1, <1>2, <1>3

-----------------------------------------------------------------------------
(* What a call means for the clients.                                      *)

\* The request in hand goes on, is answered, or is the sweep's.
Proceeds ==
  /\ UNCHANGED <<queue, identity, run, rm, config, orphans>>
  /\ \/ job'.req = job.req /\ UNCHANGED answers
     \/ /\ job.req.kind = "sweep" /\ UNCHANGED answers
        /\ job'.req.kind = "sweep" /\ job'.req.from \in {Nobody, job.req.from}
     \/ /\ job' = Idle
        /\ \E a \in Assignment : /\ Tell(job.req.from, a)
                                 /\ a.res # "ok"

LEMMA IdleJob == Idle.req.kind = "sweep" /\ Idle.req.from = Nobody /\ Idle.at = "idle" /\ Idle.left = {}
                 /\ Idle \in Job /\ Idle.req = Sweep /\ Sweep.kind = "sweep" /\ Sweep.from = Nobody
BY DEF Idle, Sweep, Job, Request

LEMMA Askers ==
  ASSUME NEW m \in Machine
  PROVE  /\ Asks(m) \in Client /\ Asks(m) # Nobody
         /\ \A n \in Machine : Asks(m) = Asks(n) => m = n
BY AllocatorConstants DEF Asks, Client

\* Whoever is promised an address now was before.
LEMMA AnswersKept ==
  ASSUME TypeOK, Clients, Proceeds
  PROVE  /\ answers' \in [Client -> Assignment]
         /\ \A m \in Machine :
              \/ answers'[Asks(m)] = answers[Asks(m)]
              \/ (job.req.from = Asks(m) /\ job' = Idle /\ answers'[Asks(m)].res # "ok")
         /\ \A m \in Machine : Promised(m)' => Promised(m) /\ answers'[Asks(m)] = answers[Asks(m)]
<1>0. run' = run /\ answers \in [Client -> Assignment]
  BY DEF TypeOK, Proceeds
<1>1. CASE UNCHANGED answers
  BY <1>0, <1>1 DEF Promised, Asks
<1>2. CASE job' = Idle /\ \E a \in Assignment : Tell(job.req.from, a) /\ a.res # "ok"
  <2>1. PICK a \in Assignment : Tell(job.req.from, a) /\ a.res # "ok"
    BY <1>2
  <2>2. CASE job.req.from = Nobody
    <3>1. answers' = answers
      BY <2>1, <2>2 DEF Tell
    <3> QED
      BY <1>0, <3>1 DEF Promised, Asks
  <2>3. CASE job.req.from # Nobody
    <3>1. answers' = [answers EXCEPT ![job.req.from] = a]
      BY <2>1, <2>3 DEF Tell
    <3>2. answers' \in [Client -> Assignment]
      BY <3>1 DEF TypeOK
    <3>3. \A m \in Machine : IF job.req.from = Asks(m) THEN answers'[Asks(m)] = a
                             ELSE answers'[Asks(m)] = answers[Asks(m)]
      BY <3>1, Askers DEF TypeOK
    <3>4. \A m \in Machine : Promised(m)' => job.req.from # Asks(m)
      BY <2>1, <3>3 DEF Promised, Asks
    <3> QED
      BY <1>0, <1>2, <2>1, <3>2, <3>3, <3>4 DEF Promised, Asks
  <2> QED
    BY <2>2, <2>3
<1> QED
  BY <1>1, <1>2 DEF Proceeds

LEMMA ClientsKept ==
  ASSUME TypeOK, Clients, Proceeds, CloudStep,
         \A i \in Installation : Kept(db[i], tunnels, dns) => Kept(db'[i], tunnels', dns')
  PROVE  Clients'
<1>0. /\ queue' = queue /\ identity' = identity /\ run' = run /\ rm' = rm /\ orphans' = orphans
      /\ \/ job'.req = job.req
         \/ job.req.kind = "sweep" /\ job'.req.kind = "sweep" /\ job'.req.from \in {Nobody, job.req.from}
         \/ job'.req.kind = "sweep" /\ job'.req.from = Nobody
  BY IdleJob DEF Proceeds
<1>1. /\ \A m \in Machine :
            \/ answers'[Asks(m)] = answers[Asks(m)]
            \/ (job.req.from = Asks(m) /\ answers'[Asks(m)].res # "ok")
      /\ \A m \in Machine : Promised(m)' => (Promised(m) /\ answers'[Asks(m)] = answers[Asks(m)])
  BY AnswersKept
<1>2. OneEach' /\ Wanted'
  BY <1>0 DEF Clients, OneEach, Ids, Wanted
<1>3. Queued'
  <2> SUFFICES ASSUME NEW m \in Machine
               PROVE  /\ AskedIn(m, job'.req, run', answers')
                      /\ job'.req.from = Asks(m) =>
                           \A k \in DOMAIN queue' : ~IsPut(queue'[k], job'.req.who) /\ queue'[k].from # Asks(m)
                      /\ \A k \in DOMAIN queue' :
                           /\ AskedIn(m, queue'[k], run', answers')
                           /\ queue'[k].from = Asks(m) =>
                                \A l \in DOMAIN queue' : l > k => ~IsPut(queue'[l], queue'[k].who)
    BY DEF Queued, Me, Asks, IsPut, Asked, AskedIn
  <2>0. /\ Asked(m, job.req)
        /\ job.req.from = Asks(m) =>
             \A k \in DOMAIN queue : ~IsPut(queue[k], Me) /\ queue[k].from # Asks(m)
        /\ \A k \in DOMAIN queue :
             /\ Asked(m, queue[k])
             /\ queue[k].from = Asks(m) => \A l \in DOMAIN queue : l > k => ~IsPut(queue[l], queue[k].who)
    BY DEF Clients, Queued
  <2>1. job'.req.from = Asks(m) => job'.req = job.req
    BY <1>0, <2>0, Askers DEF Asked, AskedIn
  <2>2. job'.req.from = Asks(m) => answers'[Asks(m)] = answers[Asks(m)]
    <3> SUFFICES ASSUME job'.req.from = Asks(m), answers'[Asks(m)] # answers[Asks(m)] PROVE FALSE
      OBVIOUS
    <3>1. job' = Idle
      BY AnswersKept
    <3> QED
      BY <3>1, IdleJob, Askers
  <2>3. AskedIn(m, job'.req, run', answers')
    BY <1>0, <2>0, <2>1, <2>2 DEF Asked, AskedIn, Asks
  <2>4. ASSUME NEW k \in DOMAIN queue, queue[k].from = Asks(m)
        PROVE  answers'[Asks(m)] = answers[Asks(m)]
    BY <1>1, <2>0, <2>4
  <2>5. \A k \in DOMAIN queue' : AskedIn(m, queue'[k], run', answers')
    BY <1>0, <2>0, <2>4 DEF Asked, AskedIn, Asks
  <2> QED
    BY <1>0, <2>0, <2>1, <2>3, <2>5 DEF Me
<1>4. Leads'
  <2> SUFFICES ASSUME NEW m \in Machine
               PROVE  /\ run[m].at = "off" => run[m] = Off
                      /\ run[m].at # "off" => run[m].who \in Installation
                      /\ Runs(m) => run[m].tunnel \in Tunnel /\ tunnels'[run[m].tunnel].owner = run[m].who
                      /\ Promised(m) => /\ answers[Asks(m)].tunnel \in Tunnel
                                        /\ tunnels'[answers[Asks(m)].tunnel].owner = run[m].who
    BY <1>0, <1>1 DEF Leads, Runs, Asks
  <2>1. /\ run[m].at = "off" => run[m] = Off
        /\ run[m].at # "off" => run[m].who \in Installation
        /\ Runs(m) => run[m].tunnel \in Tunnel /\ tunnels[run[m].tunnel].owner = run[m].who
        /\ Promised(m) => /\ answers[Asks(m)].tunnel \in Tunnel
                          /\ tunnels[answers[Asks(m)].tunnel].owner = run[m].who
    BY DEF Clients, Leads
  <2>2. \A t \in Tunnel : tunnels[t].owner \in Installation => tunnels'[t].owner = tunnels[t].owner
    BY DEF CloudStep
  <2>3. Runs(m) \/ Promised(m) => run[m].who \in Installation
    BY <2>1 DEF Runs, Promised
  <2> QED
    BY <2>1, <2>2, <2>3
<1>5. Connected'
  <2> SUFFICES ASSUME NEW t \in Tunnel, tunnels'[t].up
               PROVE  t \in orphans \/ \E m \in Machine : Runs(m) /\ run[m].tunnel = t
    BY <1>0 DEF Connected, Runs
  <2>1. tunnels[t].up
    BY DEF CloudStep
  <2> QED
    BY <2>1 DEF Clients, Connected
<1>6. Served'
  <2> SUFFICES ASSUME NEW m \in Machine, NEW i \in Installation, Serves(m, i)'
               PROVE  Waiting(i)' = FALSE /\ Kept(db'[i], tunnels', dns')
    BY DEF Served, Kept, Routed
  <2>1. Serves(m, i)
    BY <1>0, <1>1 DEF Serves, Runs
  <2>2. ~Waiting(i) /\ Kept(db[i], tunnels, dns)
    BY <2>1 DEF Clients, Served
  <2>3. ~Waiting(i)'
    BY <1>0, <2>2 DEF Waiting, IsPut
  <2> QED
    BY <2>2, <2>3
<1>7. Silent'
  <2>1. \A m \in Machine : job.req.from = Asks(m) => run[m].at = "asking"
    BY DEF Clients, Queued, Asked, AskedIn
  <2> QED
    BY <1>0, <1>1, <2>1 DEF Clients, Silent, Asks
<1> QED
  BY <1>2, <1>3, <1>4, <1>5, <1>6, <1>7 DEF Clients

\* The request in hand is answered with an address that leads to its daemon.
LEMMA ClientsPromised ==
  ASSUME TypeOK, Clients, CloudStep, UNCHANGED <<queue, identity, run, rm, config, db, orphans>>,
         job' = Idle, Me \in Installation,
         NEW a \in Assignment, Tell(job.req.from, a),
         a.tunnel \in Tunnel, tunnels[a.tunnel].owner = Me,
         Kept(db[Me], tunnels, dns)
  PROVE  Clients' /\ answers' \in [Client -> Assignment]
<1>0. /\ queue' = queue /\ identity' = identity /\ run' = run /\ rm' = rm /\ db' = db
      /\ orphans' = orphans /\ job'.req.kind = "sweep" /\ job'.req.from = Nobody
  BY IdleJob
<1>1. /\ answers' \in [Client -> Assignment]
      /\ \A m \in Machine : answers'[Asks(m)] = IF job.req.from = Asks(m) THEN a ELSE answers[Asks(m)]
  <2>1. CASE job.req.from = Nobody
    <3>1. answers' = answers
      BY <2>1 DEF Tell
    <3> QED
      BY <2>1, <3>1, Askers DEF TypeOK
  <2>2. CASE job.req.from # Nobody
    <3>1. answers' = [answers EXCEPT ![job.req.from] = a]
      BY <2>2 DEF Tell
    <3> QED
      BY <3>1, Askers DEF TypeOK
  <2> QED
    BY <2>1, <2>2
<1>2. OneEach' /\ Wanted'
  BY <1>0 DEF Clients, OneEach, Ids, Wanted
<1>q. \A m \in Machine :
        /\ Asked(m, job.req)
        /\ job.req.from = Asks(m) =>
             \A k \in DOMAIN queue : ~IsPut(queue[k], Me) /\ queue[k].from # Asks(m)
        /\ \A k \in DOMAIN queue :
             /\ Asked(m, queue[k])
             /\ queue[k].from = Asks(m) => \A l \in DOMAIN queue : l > k => ~IsPut(queue[l], queue[k].who)
  BY DEF Clients, Queued
<1>3. Queued'
  <2> SUFFICES ASSUME NEW m \in Machine
               PROVE  /\ AskedIn(m, job'.req, run', answers')
                      /\ job'.req.from = Asks(m) => FALSE
                      /\ \A k \in DOMAIN queue :
                           /\ AskedIn(m, queue[k], run', answers')
                           /\ queue[k].from = Asks(m) =>
                                \A l \in DOMAIN queue : l > k => ~IsPut(queue[l], queue[k].who)
    BY <1>0 DEF Queued, Me, Asks, IsPut, Asked, AskedIn
  <2>1. \A k \in DOMAIN queue : queue[k].from = Asks(m) => answers'[Asks(m)] = answers[Asks(m)]
    BY <1>1, <1>q
  <2>2. \A k \in DOMAIN queue : AskedIn(m, queue[k], run', answers')
    BY <1>0, <1>q, <2>1 DEF Asked, AskedIn, Asks
  <2>3. job'.req.from # Asks(m)
    BY <1>0, Askers
  <2>4. AskedIn(m, job'.req, run', answers')
    BY <2>3 DEF Asked, AskedIn, Asks
  <2> QED
    BY <1>q, <2>2, <2>3, <2>4
<1>o. \A t \in Tunnel : tunnels[t].owner \in Installation => tunnels'[t].owner = tunnels[t].owner
  BY DEF CloudStep
<1>l. \A m \in Machine :
        /\ run[m].at = "off" => run[m] = Off
        /\ run[m].at # "off" => run[m].who \in Installation
        /\ Runs(m) => run[m].tunnel \in Tunnel /\ tunnels[run[m].tunnel].owner = run[m].who
        /\ Promised(m) => /\ answers[Asks(m)].tunnel \in Tunnel
                          /\ tunnels[answers[Asks(m)].tunnel].owner = run[m].who
  BY DEF Clients, Leads
<1>4. Leads'
  <2> SUFFICES ASSUME NEW m \in Machine
               PROVE  /\ run[m].at = "off" => run[m] = Off
                      /\ run[m].at # "off" => run[m].who \in Installation
                      /\ Runs(m) => run[m].tunnel \in Tunnel /\ tunnels'[run[m].tunnel].owner = run[m].who
                      /\ Promised(m)' => /\ answers'[Asks(m)].tunnel \in Tunnel
                                         /\ tunnels'[answers'[Asks(m)].tunnel].owner = run[m].who
    BY <1>0 DEF Leads, Runs, Asks
  <2>1. Runs(m) => run[m].tunnel \in Tunnel /\ tunnels'[run[m].tunnel].owner = run[m].who
    BY <1>l, <1>o DEF Runs
  <2>2. ASSUME Promised(m)'
        PROVE  answers'[Asks(m)].tunnel \in Tunnel /\ tunnels'[answers'[Asks(m)].tunnel].owner = run[m].who
    <3>1. CASE job.req.from = Asks(m)
      <4>1. run[m].who = Me
        BY <1>q, <3>1 DEF Asked, AskedIn, Me
      <4>2. answers'[Asks(m)] = a
        BY <1>1, <3>1
      <4> QED
        BY <4>1, <4>2, <1>o
    <3>2. CASE job.req.from # Asks(m)
      <4>1. answers'[Asks(m)] = answers[Asks(m)]
        BY <1>1, <3>2
      <4>2. Promised(m) /\ run[m].at = "asking"
        BY <1>0, <2>2, <4>1 DEF Promised, Asks
      <4> QED
        BY <1>l, <1>o, <4>1, <4>2
    <3> QED
      BY <3>1, <3>2
  <2> QED
    BY <1>l, <2>1, <2>2
<1>5. Connected'
  <2> SUFFICES ASSUME NEW t \in Tunnel, tunnels'[t].up
               PROVE  t \in orphans \/ \E m \in Machine : Runs(m) /\ run[m].tunnel = t
    BY <1>0 DEF Connected, Runs
  <2>1. tunnels[t].up
    BY DEF CloudStep
  <2> QED
    BY <2>1 DEF Clients, Connected
<1>6. Served'
  <2> SUFFICES ASSUME NEW m \in Machine, NEW i \in Installation, Serves(m, i)'
               PROVE  Waiting(i)' = FALSE /\ Kept(db'[i], tunnels', dns')
    BY DEF Served, Kept, Routed
  <2>1. CASE Serves(m, i)
    <3>1. ~Waiting(i) /\ Kept(db[i], tunnels, dns)
      BY <2>1 DEF Clients, Served
    <3>2. ~Waiting(i)'
      BY <1>0, <3>1 DEF Waiting, IsPut
    <3> QED
      BY <1>0, <3>1, <3>2 DEF CloudStep
  <2>2. CASE ~Serves(m, i)
    <3>1. job.req.from = Asks(m) /\ run[m].who = i
      <4>1. answers'[Asks(m)] # answers[Asks(m)] /\ run[m].who = i
        BY <1>0, <2>2 DEF Serves, Runs, Promised, Asks
      <4> QED
        BY <1>1, <4>1
    <3>2. i = Me
      BY <1>q, <3>1 DEF Asked, AskedIn, Me
    <3>3. ~Waiting(i)'
      BY <1>0, <1>q, <3>1, <3>2 DEF Waiting, IsPut
    <3> QED
      BY <1>0, <3>2, <3>3 DEF CloudStep
  <2> QED
    BY <2>1, <2>2
<1>7. Silent'
  <2>1. \A m \in Machine : job.req.from = Asks(m) => run[m].at = "asking"
    BY <1>q DEF Asked, AskedIn
  <2> QED
    BY <1>0, <1>1, <2>1 DEF Clients, Silent, Asks
<1> QED
  BY <1>1, <1>2, <1>3, <1>4, <1>5, <1>6, <1>7 DEF Clients

-----------------------------------------------------------------------------
(* Steps of a request or sweep.                                            *)

\* A step of the request in hand: what remains to be shown of it.
LEMMA Advances ==
  ASSUME IInv, CloudStep, Proceeds,
         Sounds', Copies', Few', Apart', Given', given' \subseteq Hostname \X Installation,
         db' \in [Installation -> Record], mem' \in [Installation -> Record], job' \in Job,
         \A i \in Installation : Kept(db[i], tunnels, dns) => Kept(db'[i], tunnels', dns'),
         Placed', Listed', fails' \in 0..MaxFails
  PROVE  IInv'
<1>1. Clients' /\ answers' \in [Client -> Assignment]
  BY ClientsKept, AnswersKept DEF IInv
<1>2. Owned'
  BY DEF CloudStep, Owned
<1>3. TypeOK'
  BY <1>1 DEF IInv, TypeOK, CloudStep, Proceeds
<1>4. Store'
  BY <1>2 DEF Store
<1> QED
  BY <1>1, <1>3, <1>4 DEF IInv

\* A step that stores nothing and leaves the copy as it is, or drops it.
LEMMA OnlyMoves ==
  ASSUME IInv, CloudStep, Proceeds, UNCHANGED <<db, given>>, job' \in Job,
         (mem' = mem /\ job'.req.kind = job.req.kind /\ job'.at # "idle") \/ mem' = db,
         Placed', Listed', fails' \in 0..MaxFails
  PROVE  IInv'
<1>1. Sounds' /\ Apart' /\ Given' /\ Few'
  BY NotStored DEF IInv, Store
<1>2. Copies'
  <2>1. CASE mem' = db
    BY <2>1 DEF Copies
  <2>2. CASE mem' = mem /\ job'.req.kind = job.req.kind /\ job'.at # "idle"
    <3> SUFFICES ASSUME NEW i \in Installation
                 PROVE  \/ mem[i] = db[i]
                        \/ /\ job.req.kind = "sweep"
                           /\ db[i].tunnel = NoTunnel
                           /\ \E t \in Tunnel : mem[i] = Found(i, t) /\ Owns(i, t, tunnels')
      BY <2>2 DEF Copies, Found
    <3> QED
      BY DEF IInv, Store, Copies, CloudStep
  <2> QED
    BY <2>1, <2>2
<1>3. /\ db' \in [Installation -> Record] /\ mem' \in [Installation -> Record]
      /\ given' \subseteq Hostname \X Installation
  BY DEF IInv, TypeOK
<1>4. \A i \in Installation : Kept(db[i], tunnels, dns) => Kept(db'[i], tunnels', dns')
  BY DEF CloudStep
<1> QED
  BY <1>1, <1>2, <1>3, <1>4, Advances

LEMMA IdlePlaced ==
  ASSUME job' = Idle PROVE Placed' /\ Listed' /\ job' \in Job
<1>1. job'.at = "idle" /\ job'.left = {} /\ job' \in Job
  BY IdleJob
<1>2. Placed'
  BY <1>1 DEF Placed
<1>3. Listed'
  BY <1>1 DEF Listed
<1> QED
  BY <1>1, <1>2, <1>3

\* The record the sweep takes next has not been touched.
LEMMA NextPlaced ==
  ASSUME TypeOK, Placed, Listed, NextRecord, job.req.kind = "sweep",
         job' # Idle => \A i \in Installation : i # Me => mem'[i] = mem[i]
  PROVE  Placed' /\ Listed' /\ job' \in Job /\ job'.req.kind = "sweep"
         /\ (job' = Idle \/ (job'.req.from = job.req.from /\ job'.at # "idle"))
<1>1. CASE job' = Idle
  BY <1>1, IdlePlaced, IdleJob
<1>2. CASE job' # Idle
  <2>1. PICK i \in job.left :
          job' = [req |-> [job.req EXCEPT !.who = i], left |-> job.left \ {i},
                  at |-> IF mem[i].tunnel = NoTunnel THEN "find" ELSE "look"]
    BY <1>2 DEF NextRecord
  <2>2. i \in Installation /\ job.left \subseteq Installation /\ job.req \in Request
    BY DEF TypeOK, Job
  <2>3. /\ job'.req \in Request /\ job'.req.kind = "sweep" /\ job'.req.who = i
        /\ job'.req.from = job.req.from /\ job'.left = job.left \ {i}
        /\ job'.at = IF mem[i].tunnel = NoTunnel THEN "find" ELSE "look"
    BY <2>1, <2>2 DEF Request
  <2>4. job' \in Job
    BY <2>1, <2>2, <2>3 DEF Job
  <2>5. \A k \in job.left : mem'[k] = mem[k] /\ mem[k].status \in Working
    BY <1>2, <2>2 DEF Listed
  <2>6. Placed'
    <3>1. CASE mem[i].tunnel = NoTunnel
      <4>1. job'.at = "find" /\ mem'[i].tunnel = NoTunnel
        BY <2>1, <2>3, <2>5, <3>1
      <4> QED
        BY <2>2, <2>3, <2>5, <4>1 DEF Placed, AtFind, Working, Me, My
    <3>2. CASE mem[i].tunnel # NoTunnel
      <4>1. job'.at = "look" /\ mem'[i].tunnel # NoTunnel
        BY <2>1, <2>3, <2>5, <3>2
      <4> QED
        BY <2>2, <2>3, <2>5, <4>1 DEF Placed, AtLook, Working, Me, My
    <3> QED
      BY <3>1, <3>2
  <2>7. Listed'
    BY <2>2, <2>3, <2>5 DEF Listed, Working, Me
  <2> QED
    BY <2>3, <2>4, <2>6, <2>7
<1> QED
  BY <1>1, <1>2

LEMMA Throws ==
  ASSUME IInv, CloudStep, Throw, UNCHANGED <<queue, clientVars>>, job.at # "idle",
         fails' \in 0..MaxFails
  PROVE  IInv'
<1>0. /\ mem' = IF job' = Idle THEN db ELSE mem
      /\ UNCHANGED <<db, given>> /\ UNCHANGED <<queue, identity, run, rm, config, orphans>>
  BY DEF Throw, clientVars
<1>1. CASE job.req.kind = "sweep" /\ NextRecord /\ UNCHANGED answers
  <2>1. Placed' /\ Listed' /\ job' \in Job /\ job'.req.kind = "sweep"
        /\ (job' = Idle \/ (job'.req.from = job.req.from /\ job'.at # "idle"))
    <3>1. job' # Idle => \A i \in Installation : i # Me => mem'[i] = mem[i]
      BY <1>0
    <3> QED
      BY <1>1, <3>1, NextPlaced DEF IInv, Store
  <2>3. Proceeds
    BY <1>0, <1>1, <2>1, IdleJob DEF Proceeds
  <2> QED
    BY <1>0, <1>1, <2>1, <2>3, OnlyMoves
<1>2. CASE job.req.kind # "sweep" /\ Reply(Answer("error"))
  <2>1. job' = Idle /\ Tell(job.req.from, Answer("error"))
    BY <1>2 DEF Reply
  <2>2. Answer("error") \in Assignment /\ Answer("error").res # "ok"
    BY DEF Answer, Assignment
  <2>3. Proceeds
    BY <1>0, <2>1, <2>2 DEF Proceeds
  <2> QED
    BY <1>0, <2>1, <2>3, IdlePlaced, OnlyMoves
<1> QED
  BY <1>1, <1>2 DEF Throw

-----------------------------------------------------------------------------
(* A step that stores a new record r for the installation in hand, with    *)
(* the names it has, and no more of a holder than it is.                   *)

LEMMA Saves ==
  ASSUME IInv, CloudStep, Proceeds, Me \in Installation, NEW r \in Record,
         Save([mem EXCEPT ![Me] = r]),
         Sound(Me, r, tunnels', dns'), Names(r) = Names(mem[Me]), Holds(r) => Holds(mem[Me]),
         Kept(mem[Me], tunnels', dns') => Kept(r, tunnels', dns')
  PROVE  /\ db'[Me] = r /\ mem' = db' /\ \A i \in Installation : i # Me => mem'[i] = mem[i]
         /\ (Placed' /\ Listed' /\ job' \in Job /\ fails' \in 0..MaxFails => IInv')
<1>0. mem \in [Installation -> Record]
  BY DEF IInv, TypeOK
<1>1. /\ db' = [mem EXCEPT ![Me] = r] /\ mem' = db'
      /\ given' = given \cup UNION {{<<n, i>> : n \in Names(db'[i])} : i \in Installation}
  BY DEF Save
<1>2. /\ db' \in [Installation -> Record] /\ db'[Me] = r
      /\ \A i \in Installation : i # Me => db'[i] = mem[i]
  BY <1>0, <1>1
<1>3. Stored(Me)
  BY <1>1, <1>2 DEF Stored
<1> HIDE DEF Me
<1>4. TypeOK /\ Copies /\ Apart /\ Given /\ Few
  BY DEF IInv, Store
<1>5. /\ Names(mem[Me]) = Names(db[Me])
      /\ Holds(mem[Me]) <=> Holds(db[Me])
      /\ Kept(db[Me], tunnels, dns) => Kept(mem[Me], tunnels', dns')
  BY <1>4, CopyIsSound
<1>6. Sounds' /\ Owned' /\ Copies'
  BY <1>2, <1>3, <1>4, SoundsKept
<1>7. Apart' /\ Given' /\ given' \subseteq Hostname \X Installation
  <2>1. \A i \in Installation : i # Me => Names(db'[Me]) \cap Names(db[i]) = {}
    BY <1>2, <1>4, <1>5 DEF Apart
  <2> QED
    BY <1>2, <1>3, <1>4, <1>5, <2>1, NamesKept
<1>8. Few'
  BY <1>2, <1>3, <1>4, <1>5, FewKept
<1>9. \A i \in Installation : Kept(db[i], tunnels, dns) => Kept(db'[i], tunnels', dns')
  BY <1>2, <1>3, <1>4, <1>5, StoredOthers
<1>10. Placed' /\ Listed' /\ job' \in Job /\ fails' \in 0..MaxFails => IInv'
  BY <1>1, <1>2, <1>6, <1>7, <1>8, <1>9, Advances
<1> QED
  BY <1>1, <1>2, <1>10

-----------------------------------------------------------------------------
(* What each call does at the provider.                                    *)

LEMMA OthersSound ==
  ASSUME NEW i \in Installation, NEW r \in Record,
         NEW T \in [Tunnel -> TunnelState], NEW U \in [Tunnel -> TunnelState],
         NEW D \in SUBSET (Hostname \X Tunnel), NEW E \in SUBSET (Hostname \X Tunnel),
         Sound(i, r, T, D),
         \A t \in Tunnel : U[t].owner = i <=> T[t].owner = i,
         \A t \in Tunnel : T[t].owner = i => U[t].live = T[t].live /\ U[t].route = T[t].route,
         \A d \in Hostname \X Tunnel : T[d[2]].owner = i => (d \in E <=> d \in D)
  PROVE  Sound(i, r, U, E) /\ (Kept(r, T, D) => Kept(r, U, E))
<1>0. r.tunnel \in Tunnel \cup {NoTunnel} /\ r.host \in Hostname \cup {NoName}
  BY RecordFields
<1>1. \A t \in Tunnel : Owns(i, t, U) <=> Owns(i, t, T)
  BY DEF Owns
<1>2. Housed(i, r, T) /\ WellNamed(i, r) /\ Pointed(i, r, T, D)
  BY DEF Sound
<1>3. Housed(i, r, U)
  BY <1>0, <1>1, <1>2 DEF Housed
<1>4. Pointed(i, r, U, E)
  <2> SUFFICES ASSUME NEW d \in E, U[d[2]].owner = i
               PROVE  Holds(r) /\ r.tunnel = d[2] /\ d[1] \in {r.host, r.previous}
    BY DEF Pointed
  <2>1. d \in Hostname \X Tunnel /\ d[2] \in Tunnel
    OBVIOUS
  <2> QED
    BY <1>2, <2>1 DEF Pointed
<1>5. Routed(r, T, D) => Routed(r, U, E)
  <2> SUFFICES ASSUME Routed(r, T, D) PROVE Routed(r, U, E)
    OBVIOUS
  <2>1. r.tunnel \in Tunnel /\ T[r.tunnel].owner = i /\ (~r.spared => <<r.host, r.tunnel>> \in D)
    BY <1>0, <1>2 DEF Routed, Housed
  <2>2. ~r.spared => <<r.host, r.tunnel>> \in Hostname \X Tunnel /\ <<r.host, r.tunnel>>[2] = r.tunnel
    BY <2>1
  <2> QED
    BY <1>2, <2>1, <2>2 DEF Routed
<1>6. Kept(r, T, D) => Kept(r, U, E)
  BY <1>0, <1>2, <1>5, AllocatorConstants DEF Kept, Housed
<1> QED
  BY <1>2, <1>3, <1>4, <1>5, <1>6 DEF Sound

\* A call that touches nothing of the other installations.
LEMMA EffectIsSound ==
  ASSUME TypeOK, Sounds, Owned, NEW w \in Installation,
         tunnels' \in [Tunnel -> TunnelState], dns' \in SUBSET (Hostname \X Tunnel),
         \A t \in Tunnel : tunnels[t].owner \in Installation => tunnels'[t].owner = tunnels[t].owner,
         \A t \in Tunnel : tunnels[t].owner \in Installation \ {w} =>
           tunnels'[t].live = tunnels[t].live /\ tunnels'[t].route = tunnels[t].route,
         \A t \in Tunnel : tunnels[t].owner \notin Installation =>
           tunnels'[t] = tunnels[t] \/ tunnels'[t].owner = w,
         \A d \in Hostname \X Tunnel : tunnels[d[2]].owner # w => (d \in dns' <=> d \in dns),
         \A t \in Tunnel : tunnels'[t].up => tunnels[t].up,
         Sound(w, db[w], tunnels', dns'), Kept(db[w], tunnels, dns) => Kept(db[w], tunnels', dns'),
         db[w].tunnel = NoTunnel => \A t \in Tunnel : Owns(w, t, tunnels) => Owns(w, t, tunnels')
  PROVE  CloudStep
<1>0. tunnels \in [Tunnel -> TunnelState] /\ dns \in SUBSET (Hostname \X Tunnel)
  BY DEF TypeOK
<1>1. ASSUME NEW i \in Installation, i # w
      PROVE  Sound(i, db[i], tunnels', dns') /\ (Kept(db[i], tunnels, dns) => Kept(db[i], tunnels', dns'))
  <2>1. \A t \in Tunnel : tunnels'[t].owner = i <=> tunnels[t].owner = i
    BY <1>1
  <2>2. \A t \in Tunnel : tunnels[t].owner = i => tunnels'[t].live = tunnels[t].live /\ tunnels'[t].route = tunnels[t].route
    BY <1>1
  <2>3. \A d \in Hostname \X Tunnel : tunnels[d[2]].owner = i => (d \in dns' <=> d \in dns)
    BY <1>1
  <2>4. Sound(i, db[i], tunnels, dns) /\ db[i] \in Record
    BY DEF Sounds, TypeOK
  <2> QED
    BY <1>0, <2>1, <2>2, <2>3, <2>4, OthersSound
<1>2. \A i \in Installation, t \in Tunnel :
        db[i].tunnel = NoTunnel /\ Owns(i, t, tunnels) => Owns(i, t, tunnels')
  BY DEF Owns
<1>3. Claimed(tunnels', dns')
  <2>1. ASSUME NEW t \in Tunnel, tunnels'[t].live PROVE tunnels'[t].owner \in Installation
    BY <2>1 DEF Owned, Claimed
  <2>2. ASSUME NEW d \in dns' PROVE tunnels'[d[2]].owner \in Installation
    <3>1. d \in Hostname \X Tunnel /\ d[2] \in Tunnel
      OBVIOUS
    <3>2. CASE tunnels[d[2]].owner = w
      BY <3>1, <3>2
    <3>3. CASE tunnels[d[2]].owner # w
      BY <3>1, <3>3 DEF Owned, Claimed
    <3> QED
      BY <3>2, <3>3
  <2> QED
    BY <2>1, <2>2 DEF Claimed
<1> QED
  BY <1>1, <1>2, <1>3 DEF CloudStep

LEMMA InHand ==
  ASSUME IInv, job.at # "idle"
  PROVE  /\ Me \in Installation /\ TypeOK /\ Sounds /\ Owned /\ Copies /\ Placed /\ Listed
         /\ Sound(Me, db[Me], tunnels, dns) /\ db[Me] \in Record /\ My \in Record
         /\ tunnels \in [Tunnel -> TunnelState] /\ dns \in SUBSET (Hostname \X Tunnel)
         /\ mem \in [Installation -> Record] /\ job \in Job /\ job.req.kind \in {"put", "delete", "sweep"}
         /\ job.req.kind # "sweep" => My = db[Me]
         /\ My.tunnel = NoTunnel => My = db[Me]
<1>1. Me \in Installation
  BY DEF IInv, Store, Placed
<1>2. job.req.kind \in {"put", "delete", "sweep"}
  BY DEF IInv, TypeOK, Job, Request
<1>3. My.tunnel = NoTunnel => My = db[Me]
  <2> SUFFICES ASSUME My.tunnel = NoTunnel, My # db[Me] PROVE FALSE
    OBVIOUS
  <2>1. PICK t \in Tunnel : My = Found(Me, t)
    BY <1>1 DEF IInv, Store, Copies, My
  <2>2. Found(Me, t).tunnel = t
    BY <1>1 DEF Found, IInv, TypeOK, Record
  <2> QED
    BY <2>1, <2>2, AllocatorConstants
<1> QED
  BY <1>1, <1>2, <1>3 DEF IInv, Store, TypeOK, Sounds, Copies, My

\* Changes to a tunnel that Sound and Kept do not see.
LEMMA TunnelChanges ==
  ASSUME IInv, job.at # "idle", NEW t \in Tunnel, tunnels[t].owner = Me, UNCHANGED dns,
         NEW s \in TunnelState, tunnels' = [tunnels EXCEPT ![t] = s],
         s.owner = Me, s.up => tunnels[t].up,
         Sound(Me, db[Me], tunnels', dns'), Kept(db[Me], tunnels, dns) => Kept(db[Me], tunnels', dns'),
         db[Me].tunnel # NoTunnel
  PROVE  CloudStep
<1>1. /\ \A u \in Tunnel : u # t => tunnels'[u] = tunnels[u]
      /\ tunnels'[t] = s /\ tunnels' \in [Tunnel -> TunnelState]
  BY InHand
<1>2. dns' = dns
  OBVIOUS
<1> QED
  BY <1>1, <1>2, InHand, EffectIsSound

LEMMA CreateSound ==
  ASSUME IInv, job.at = "create", NEW t \in Tunnel, tunnels[t] = Unused, UNCHANGED dns,
         tunnels' = [tunnels EXCEPT ![t] = [Unused EXCEPT !.owner = Me, !.live = TRUE]]
  PROVE  CloudStep /\ Owns(Me, t, tunnels')
<1> DEFINE T == tunnels
           r == db[Me]
<1>1. /\ r.status = "provisioning" /\ r.tunnel = NoTunnel /\ r \in Record
      /\ \A u \in Tunnel : ~Owns(Me, u, T)
      /\ Me \in Installation /\ Sound(Me, r, T, dns)
      /\ T \in [Tunnel -> TunnelState] /\ dns \in SUBSET (Hostname \X Tunnel)
  BY InHand DEF Placed, OwnsNone
<1>2. Unused.owner = Nobody /\ Nobody \notin Installation
  BY AllocatorConstants DEF Unused
<1>3. /\ \A u \in Tunnel : u # t => tunnels'[u] = T[u]
      /\ tunnels'[t].owner = Me /\ tunnels'[t].live /\ tunnels'[t].up = T[t].up
      /\ tunnels' \in [Tunnel -> TunnelState]
  <2> DEFINE s == [Unused EXCEPT !.owner = Me, !.live = TRUE]
  <2>1. tunnels' = [tunnels EXCEPT ![t] = s]
    OBVIOUS
  <2>2. T[t] \in TunnelState
    BY <1>1
  <2>3. s \in TunnelState /\ s.owner = Me /\ s.live /\ s.up = T[t].up
    BY <1>1, <2>2 DEF TunnelState, Unused
  <2> HIDE DEF s
  <2> QED
    BY <1>1, <2>1, <2>3
<1>4. Sound(Me, r, tunnels', dns')
  <2>1. WellNamed(Me, r) /\ Housed(Me, r, T) /\ Pointed(Me, r, T, dns)
    BY <1>1 DEF Sound
  <2>2. Housed(Me, r, tunnels')
    <3>1. \A u \in Tunnel : Owns(Me, u, tunnels') => u = t
      BY <1>1, <1>3 DEF Owns
    <3>2. ~Empty(r)
      BY <1>1 DEF Empty
    <3> QED
      BY <1>1, <3>1, <3>2 DEF Housed
  <2>3. Pointed(Me, r, tunnels', dns')
    <3> SUFFICES ASSUME NEW d \in dns, tunnels'[d[2]].owner = Me PROVE FALSE
      BY DEF Pointed
    <3>1. d[2] \in Tunnel
      BY <1>1
    <3>2. d[2] # t
      BY <1>1, <1>2, InHand DEF Owned, Claimed
    <3>3. r.tunnel = d[2]
      BY <1>3, <2>1, <3>1, <3>2 DEF Pointed
    <3> QED
      BY <1>1, <3>1, <3>3, AllocatorConstants
  <2> QED
    BY <1>1, <2>1, <2>2, <2>3 DEF Sound
<1>5. ~Kept(r, T, dns)
  BY <1>1 DEF Kept
<1>6. dns' = dns
  OBVIOUS
<1>7. \A u \in Tunnel : Owns(Me, u, T) => Owns(Me, u, tunnels')
  BY <1>1
<1> QED
  BY <1>1, <1>2, <1>3, <1>4, <1>5, <1>6, <1>7, InHand, EffectIsSound DEF Owns

\* A PUT works on a record that is not ready, and on its own tunnel.
LEMMA PutInHand ==
  ASSUME IInv, job.at \in {"route", "name", "leave"}
  PROVE  /\ My = db[Me] /\ My.status = "provisioning" /\ My.tunnel \in Tunnel
         /\ tunnels[My.tunnel].owner = Me
         /\ My.host \in Hostname
         /\ WellNamed(Me, My) /\ Housed(Me, My, tunnels) /\ Pointed(Me, My, tunnels, dns)
         /\ Holds(My) /\ \A T, D : ~Kept(My, T, D)
<1>1. /\ My = db[Me] /\ My.status = "provisioning" /\ My.tunnel # NoTunnel /\ My \in Record
      /\ Sound(Me, My, tunnels, dns)
  BY InHand DEF Placed
<1>2. My.tunnel \in Tunnel /\ My.host \in Hostname
  BY <1>1, RecordFields DEF Sound, WellNamed
<1> QED
  BY <1>1, <1>2 DEF Sound, Housed, Holds, Registered, Kept

LEMMA RouteSound ==
  ASSUME IInv, job.at = "route", UNCHANGED dns,
         tunnels' = [tunnels EXCEPT ![My.tunnel].route = <<My.host, My.port>>]
  PROVE  CloudStep /\ tunnels'[My.tunnel].route = <<My.host, My.port>>
<1> DEFINE t == My.tunnel
           s == [tunnels[t] EXCEPT !.route = <<My.host, My.port>>]
<1>1. /\ t \in Tunnel /\ tunnels[t].owner = Me /\ My = db[Me] /\ My.status = "provisioning"
      /\ WellNamed(Me, My) /\ Housed(Me, My, tunnels) /\ Pointed(Me, My, tunnels, dns)
  BY PutInHand
<1>2. tunnels' = [tunnels EXCEPT ![t] = s]
  OBVIOUS
<1>3. tunnels[t] \in TunnelState /\ My.host \in Hostname /\ My.port \in Port \cup {0}
  BY <1>1, InHand, PutInHand, RecordFields
<1>4. /\ s \in TunnelState /\ s.owner = Me /\ s.up = tunnels[t].up /\ s.live = tunnels[t].live
      /\ s.route = <<My.host, My.port>>
  BY <1>1, <1>3 DEF TunnelState
<1> HIDE DEF s
<1>5. /\ \A u \in Tunnel : u # t => tunnels'[u] = tunnels[u]
      /\ tunnels'[t] = s
  BY <1>1, <1>2, InHand
<1>6. Housed(Me, My, tunnels')
  BY <1>1, <1>4, <1>5 DEF Housed, Owns
<1>7. Pointed(Me, My, tunnels', dns')
  <2> SUFFICES ASSUME NEW d \in dns, tunnels'[d[2]].owner = Me
               PROVE  tunnels[d[2]].owner = Me
    BY <1>1 DEF Pointed
  <2>1. d[2] \in Tunnel
    BY InHand
  <2> QED
    BY <1>1, <1>4, <1>5, <2>1
<1>8. Sound(Me, db[Me], tunnels', dns')
  BY <1>1, <1>6, <1>7 DEF Sound
<1>9. ~Kept(db[Me], tunnels, dns) /\ db[Me].tunnel # NoTunnel
  BY <1>1, PutInHand, AllocatorConstants
<1>10. job.at # "idle" /\ dns' = dns
  OBVIOUS
<1>11. CloudStep
  BY <1>1, <1>2, <1>4, <1>8, <1>9, <1>10, TunnelChanges
<1> QED
  BY <1>4, <1>5, <1>11

\* Names that lead to the tunnel of the record in hand come and go.
LEMMA NameChanges ==
  ASSUME IInv, job.at # "idle", NEW n \in Hostname, db[Me].tunnel \in Tunnel, UNCHANGED tunnels,
         \/ dns' = dns \cup {<<n, db[Me].tunnel>>} /\ n = db[Me].host /\ Holds(db[Me])
         \/ dns' = dns \ {<<n, db[Me].tunnel>>},
         db[Me].status # "ready", Kept(db[Me], tunnels, dns) => Kept(db[Me], tunnels', dns')
  PROVE  CloudStep
<1> DEFINE r == db[Me]
           t == r.tunnel
<1>1. /\ Sound(Me, r, tunnels, dns) /\ Me \in Installation /\ t \in Tunnel /\ t # NoTunnel
      /\ dns \in SUBSET (Hostname \X Tunnel)
  BY InHand, AllocatorConstants
<1>2. tunnels[t].owner = Me
  BY <1>1 DEF Sound, Housed
<1>3. dns' \in SUBSET (Hostname \X Tunnel)
  BY <1>1
<1>4. \A d \in Hostname \X Tunnel : tunnels[d[2]].owner # Me => (d \in dns' <=> d \in dns)
  <2>1. <<n, t>>[2] = t
    OBVIOUS
  <2> QED
    BY <1>2, <2>1
<1>5. Pointed(Me, r, tunnels', dns')
  <2> SUFFICES ASSUME NEW d \in dns', tunnels[d[2]].owner = Me
               PROVE  Holds(r) /\ r.tunnel = d[2] /\ d[1] \in {r.host, r.previous}
    BY DEF Pointed
  <2>1. CASE d \in dns
    BY <1>1, <2>1 DEF Sound, Pointed
  <2>2. CASE d \notin dns
    <3>1. d = <<n, t>> /\ n = r.host /\ Holds(r)
      BY <2>2
    <3> QED
      BY <3>1
  <2> QED
    BY <2>1, <2>2
<1>6. Sound(Me, r, tunnels', dns')
  BY <1>1, <1>5 DEF Sound
<1>7. tunnels' = tunnels
  OBVIOUS
<1> QED
  BY <1>1, <1>3, <1>4, <1>6, <1>7, InHand, EffectIsSound

\* Its credentials and its connector are nothing to a record.
LEMMA SameTunnel ==
  ASSUME IInv, job.at # "idle", NEW t \in Tunnel, tunnels[t].owner = Me, UNCHANGED dns,
         NEW s \in TunnelState, tunnels' = [tunnels EXCEPT ![t] = s],
         s.owner = Me, s.up => tunnels[t].up, s.live = tunnels[t].live, s.route = tunnels[t].route,
         db[Me].tunnel # NoTunnel
  PROVE  CloudStep
<1>1. /\ \A u \in Tunnel : u # t => tunnels'[u] = tunnels[u]
      /\ tunnels'[t] = s /\ tunnels' \in [Tunnel -> TunnelState]
  BY InHand
<1>2. /\ Me \in Installation /\ db[Me] \in Record /\ Sound(Me, db[Me], tunnels, dns)
      /\ tunnels \in [Tunnel -> TunnelState] /\ dns \in SUBSET (Hostname \X Tunnel)
  BY InHand
<1>3. /\ \A u \in Tunnel : tunnels'[u].owner = Me <=> tunnels[u].owner = Me
      /\ \A u \in Tunnel : tunnels[u].owner = Me =>
           tunnels'[u].live = tunnels[u].live /\ tunnels'[u].route = tunnels[u].route
  BY <1>1
<1>4. \A d \in Hostname \X Tunnel : tunnels[d[2]].owner = Me => (d \in dns' <=> d \in dns)
  OBVIOUS
<1>5. dns' \in SUBSET (Hostname \X Tunnel)
  BY <1>2
<1>6. Sound(Me, db[Me], tunnels', dns') /\ (Kept(db[Me], tunnels, dns) => Kept(db[Me], tunnels', dns'))
  BY ONLY <1>1, <1>2, <1>3, <1>4, <1>5, OthersSound
<1>7. /\ job.at # "idle" /\ dns' = dns /\ tunnels' = [tunnels EXCEPT ![t] = s]
      /\ s.up => tunnels[t].up
  OBVIOUS
<1> QED
  BY <1>6, <1>7, TunnelChanges

\* A removal works on the tunnel of its record, whose names are down.
LEMMA EndInHand ==
  ASSUME IInv, job.at \in {"revoke", "disconnect", "destroy"}
  PROVE  /\ My = db[Me] /\ My.status = "deleting" /\ My.tunnel \in Tunnel
         /\ tunnels[My.tunnel].owner = Me /\ job.req.kind = "delete"
         /\ \A d \in dns : d[2] # My.tunnel
         /\ db[Me].tunnel # NoTunnel
<1>1. AtEnd /\ My = db[Me] /\ My \in Record /\ Sound(Me, My, tunnels, dns)
  BY InHand DEF Placed, AtEnd
<1>2. My.tunnel \in Tunnel
  BY <1>1, RecordFields DEF AtEnd
<1> QED
  BY <1>1, <1>2 DEF Sound, Housed, AtEnd

LEMMA RevokeSound ==
  ASSUME IInv, job.at = "revoke", UNCHANGED dns,
         tunnels' = [tunnels EXCEPT ![My.tunnel].rotated = @ \/ tunnels[My.tunnel].live]
  PROVE  CloudStep
<1> DEFINE t == My.tunnel
           s == [tunnels[t] EXCEPT !.rotated = @ \/ tunnels[t].live]
<1>1. t \in Tunnel /\ tunnels[t].owner = Me /\ db[Me].tunnel # NoTunnel /\ tunnels[t] \in TunnelState
  BY EndInHand, InHand
<1>2. tunnels' = [tunnels EXCEPT ![t] = s]
  OBVIOUS
<1>3. /\ s \in TunnelState /\ s.owner = tunnels[t].owner /\ s.up = tunnels[t].up
      /\ s.live = tunnels[t].live /\ s.route = tunnels[t].route
  BY <1>1 DEF TunnelState
<1> HIDE DEF s, t
<1>4. job.at # "idle" /\ dns' = dns
  OBVIOUS
<1> QED
  BY <1>1, <1>2, <1>3, <1>4, SameTunnel

LEMMA DisconnectSound ==
  ASSUME IInv, job.at = "disconnect", UNCHANGED dns,
         tunnels' = [tunnels EXCEPT ![My.tunnel].up = FALSE]
  PROVE  CloudStep
<1> DEFINE t == My.tunnel
           s == [tunnels[t] EXCEPT !.up = FALSE]
<1>1. t \in Tunnel /\ tunnels[t].owner = Me /\ db[Me].tunnel # NoTunnel /\ tunnels[t] \in TunnelState
  BY EndInHand, InHand
<1>2. tunnels' = [tunnels EXCEPT ![t] = s]
  OBVIOUS
<1>3. /\ s \in TunnelState /\ s.owner = tunnels[t].owner /\ s.up = FALSE
      /\ s.live = tunnels[t].live /\ s.route = tunnels[t].route
  BY <1>1 DEF TunnelState
<1> HIDE DEF s, t
<1>4. job.at # "idle" /\ dns' = dns
  OBVIOUS
<1> QED
  BY <1>1, <1>2, <1>3, <1>4, SameTunnel

LEMMA DestroySound ==
  ASSUME IInv, job.at \in {"destroy", "reclaim"}, UNCHANGED dns, tunnels' = Gone(My.tunnel)
  PROVE  CloudStep /\ \A u \in Tunnel : ~Owns(Me, u, tunnels')
<1> DEFINE t == My.tunnel
           s == [Unused EXCEPT !.owner = tunnels[t].owner]
           r == db[Me]
<1>1. /\ r = My /\ r.status \in {"deleting", "reclaiming"} /\ r.tunnel # NoTunnel
      /\ Me \in Installation /\ r \in Record /\ Sound(Me, r, tunnels, dns)
      /\ tunnels \in [Tunnel -> TunnelState] /\ dns \in SUBSET (Hostname \X Tunnel)
  BY InHand DEF Placed, AtEnd, AtReclaim
<1>2. t \in Tunnel /\ tunnels[t].owner = Me /\ t = r.tunnel
  BY <1>1, RecordFields DEF Sound, Housed
<1>3. tunnels' = [tunnels EXCEPT ![t] = s]
  BY DEF Gone
<1>4. s \in TunnelState /\ s.owner = Me /\ s.up = FALSE /\ s.live = FALSE
  BY <1>1, <1>2, AllocatorConstants DEF TunnelState, Unused, NoRoute
<1> HIDE DEF s, t, r
<1>5. \A u \in Tunnel : u # t => tunnels'[u] = tunnels[u]
  BY <1>1, <1>3
<1>6. tunnels'[t] = s
  BY <1>1, <1>2, <1>3
<1>7. \A u \in Tunnel : ~Owns(Me, u, tunnels')
  <2> SUFFICES ASSUME NEW u \in Tunnel, Owns(Me, u, tunnels') PROVE FALSE
    OBVIOUS
  <2>1. u # t
    BY <1>4, <1>6 DEF Owns
  <2>2. Owns(Me, u, tunnels)
    BY <1>5, <2>1 DEF Owns
  <2> QED
    BY <1>1, <1>2, <2>1, <2>2 DEF Sound, Housed
<1>8. Housed(Me, r, tunnels')
  BY <1>1, <1>2, <1>4, <1>6, <1>7 DEF Housed
<1>9. Pointed(Me, r, tunnels', dns')
  <2> SUFFICES ASSUME NEW d \in dns, tunnels'[d[2]].owner = Me PROVE tunnels[d[2]].owner = Me
    BY <1>1 DEF Sound, Pointed
  <2>1. d[2] \in Tunnel
    BY <1>1
  <2> QED
    BY <1>2, <1>5, <2>1
<1>10. Sound(Me, r, tunnels', dns')
  BY <1>1, <1>8, <1>9 DEF Sound
<1>11. Kept(r, tunnels', dns')
  BY <1>1, <1>2, <1>4, <1>6 DEF Kept
<1>12. job.at # "idle" /\ dns' = dns
  OBVIOUS
<1>13. CloudStep
  BY <1>1, <1>2, <1>3, <1>4, <1>10, <1>11, <1>12, TunnelChanges DEF r
<1> QED
  BY <1>7, <1>13

-----------------------------------------------------------------------------
(* The calls, one after the other.                                         *)

Steps == {"find", "look", "create", "route", "name", "leave", "token",
          "unname", "revoke", "disconnect", "destroy", "reclaim"}

LEMMA AtStep ==
  ASSUME IInv, NEW s \in Steps, At(s)
  PROVE  job'.at = s /\ job'.req = job.req /\ job'.left = job.left /\ job' \in Job
<1>1. job \in Job
  BY DEF IInv, TypeOK
<1> QED
  BY <1>1 DEF At, Job, Steps

\* The request goes on and what it has in hand is as it was.
LEMMA GoesOn ==
  ASSUME IInv, CloudStep, NEW s \in Steps, At(s),
         UNCHANGED <<db, mem, given, answers, queue, fails, clientVars>>, Placed'
  PROVE  IInv'
<1>1. job'.at = s /\ job'.req = job.req /\ job'.left = job.left /\ job' \in Job /\ s # "idle"
  BY AtStep DEF Steps
<1>2. Proceeds
  BY <1>1 DEF Proceeds, clientVars
<1>3. Listed'
  BY <1>1 DEF IInv, Store, Listed, Me
<1>4. fails' \in 0..MaxFails
  BY DEF IInv, TypeOK
<1> QED
  BY <1>1, <1>2, <1>3, <1>4, OnlyMoves

LEMMA CloudAsIs == IInv /\ UNCHANGED cloud => CloudStep
BY NothingHappens DEF IInv, Store, cloud

LEMMA MoreFails == IInv /\ fails < MaxFails /\ fails' = fails + 1 => fails' \in 0..MaxFails
BY AllocatorConstants DEF IInv, TypeOK

LEMMA SameFails == IInv /\ UNCHANGED fails => fails' \in 0..MaxFails
BY DEF IInv, TypeOK

LEMMA RefusedKeeps ==
  ASSUME IInv, Refused, UNCHANGED clientVars, job.at # "idle" PROVE IInv'
<1>1. CloudStep /\ Throw /\ fails' \in 0..MaxFails /\ queue' = queue
  BY CloudAsIs, SameFails DEF Refused, cloud
<1> QED
  BY <1>1, Throws

LEMMA RouteKeeps == ASSUME IInv, Route, UNCHANGED clientVars PROVE IInv'
<1> DEFINE Effect == tunnels' = [tunnels EXCEPT ![My.tunnel].route = <<My.host, My.port>>] /\ UNCHANGED dns
<1>0. job.at = "route" /\ queue' = queue
  BY DEF Route, Call
<1>1. Effect => CloudStep /\ tunnels'[My.tunnel].route = <<My.host, My.port>>
  BY <1>0, RouteSound
<1>2. CASE Effect /\ At("name") /\ UNCHANGED <<db, mem, given, answers>> /\ UNCHANGED fails
  <2>1. job'.at = "name" /\ job'.req = job.req /\ "name" \in Steps
    BY <1>2, AtStep DEF Steps
  <2>2. My.status = "provisioning" /\ My.tunnel # NoTunnel /\ job.req.kind = "put" /\ Me \in Installation
    BY <1>0, InHand DEF Placed
  <2>3. My' = My /\ Me' = Me
    BY <1>2, <2>1 DEF Me, My
  <2>4. Placed'
    BY <1>1, <1>2, <2>1, <2>2, <2>3 DEF Placed
  <2> QED
    BY <1>0, <1>1, <1>2, <2>1, <2>4, GoesOn
<1>3. CASE /\ fails < MaxFails /\ fails' = fails + 1
           /\ Effect \/ UNCHANGED cloud
           /\ Throw
  <2>1. CloudStep
    BY <1>1, <1>3, CloudAsIs
  <2> QED
    BY <1>0, <1>3, <2>1, Throws, MoreFails
<1> QED
  BY <1>2, <1>3 DEF Route, Call

\* A name that leads elsewhere is not the record's to change.
LEMMA ProvisionedKeeps ==
  ASSUME IInv, CloudStep, job.at \in {"name", "leave"}, Provisioned,
         UNCHANGED <<queue, fails, tunnels, clientVars>>,
         <<My.host, My.tunnel>> \in dns',
         My.previous = NoName \/ <<My.previous, My.tunnel>> \notin dns'
  PROVE  IInv'
<1> DEFINE r == [My EXCEPT !.previous = NoName, !.status = "ready", !.spared = FALSE]
<1>0. /\ My = db[Me] /\ My.status = "provisioning" /\ My.tunnel \in Tunnel /\ My.host \in Hostname
      /\ Me \in Installation /\ My \in Record /\ tunnels[My.tunnel].owner = Me
      /\ My.tunnel # NoTunnel
  BY PutInHand, InHand, AllocatorConstants
<1>1. Sound(Me, My, tunnels', dns') /\ WellNamed(Me, My) /\ dns' \in SUBSET (Hostname \X Tunnel)
  BY <1>0 DEF CloudStep, Sound
<1>2. /\ r \in Record /\ r.status = "ready" /\ r.previous = NoName /\ r.host = My.host
      /\ r.retired = My.retired /\ r.port = My.port /\ r.tunnel = My.tunnel
  BY <1>0 DEF Record, Status
<1>3. Save([mem EXCEPT ![Me] = r]) /\ At("token") /\ UNCHANGED answers
  BY DEF Provisioned, My
<1> HIDE DEF r
<1>4. WellNamed(Me, r) /\ Names(r) = Names(My)
  <2>1. Names(r) = Names(My)
    BY <1>0, <1>1, <1>2 DEF WellNamed, Names
  <2> QED
    BY <1>0, <1>1, <1>2, <2>1 DEF WellNamed
<1>5. Housed(Me, r, tunnels')
  BY <1>0, <1>1, <1>2 DEF Sound, Housed, Empty
<1>6. Pointed(Me, r, tunnels', dns')
  <2> SUFFICES ASSUME NEW d \in dns', tunnels'[d[2]].owner = Me
               PROVE  Holds(r) /\ r.tunnel = d[2] /\ d[1] = r.host
    BY DEF Pointed
  <2>1. d[2] = My.tunnel /\ d[1] \in {My.host, My.previous} /\ d = <<d[1], d[2]>> /\ d[1] \in Hostname
    BY <1>1 DEF Sound, Pointed
  <2>2. d[1] # My.previous
    BY <2>1, AllocatorConstants
  <2> QED
    BY <1>2, <2>1, <2>2 DEF Holds, Registered
<1>7. Routed(r, tunnels', dns')
  <2>1. tunnels[My.tunnel].route = <<My.host, My.port>>
    BY DEF IInv, Store, Placed
  <2> QED
    BY <1>0, <1>2, <2>1 DEF Routed
<1>8. Sound(Me, r, tunnels', dns')
  BY <1>2, <1>4, <1>5, <1>6, <1>7 DEF Sound
<1>9. Holds(My) /\ Kept(r, tunnels', dns')
  BY <1>0, <1>2 DEF Holds, Registered, Kept
<1>10. job'.at = "token" /\ job'.req = job.req /\ job'.left = job.left /\ job' \in Job
  BY <1>3, AtStep DEF Steps
<1>11. Proceeds
  BY <1>3, <1>10 DEF Proceeds, clientVars
<1>12. /\ db'[Me] = r /\ mem' = db' /\ \A i \in Installation : i # Me => mem'[i] = mem[i]
       /\ (Placed' /\ Listed' /\ job' \in Job /\ fails' \in 0..MaxFails => IInv')
  BY <1>0, <1>2, <1>3, <1>4, <1>8, <1>9, <1>11, Saves DEF My
<1>13. job.req.kind = "put" /\ job.left = {}
  BY DEF IInv, Store, Placed, Listed
<1>14. Placed'
  BY <1>0, <1>2, <1>10, <1>12, <1>13 DEF Placed, Me, My
<1>15. Listed'
  BY <1>10, <1>13 DEF Listed
<1> QED
  BY <1>10, <1>12, <1>14, <1>15, SameFails

LEMMA NameKeeps == ASSUME IInv, Name, UNCHANGED clientVars PROVE IInv'
<1> DEFINE Effect == dns' = dns \cup {<<My.host, My.tunnel>>} /\ UNCHANGED tunnels
<1>0. job.at = "name"
  BY DEF Name
<1>1. CASE Refused
  BY <1>0, <1>1, RefusedKeeps
<1>2. Effect => CloudStep
  <2> SUFFICES ASSUME Effect PROVE CloudStep
    OBVIOUS
  <2>1. /\ My = db[Me] /\ My.status = "provisioning" /\ My.tunnel \in Tunnel /\ My.host \in Hostname
        /\ Holds(My) /\ ~Kept(My, tunnels, dns) /\ job.at # "idle"
    BY <1>0, PutInHand
  <2> QED
    BY <2>1, NameChanges
<1>3. CASE /\ UNCHANGED queue /\ Effect /\ UNCHANGED fails
           /\ \/ My.previous = NoName /\ Provisioned
              \/ My.previous # NoName /\ At("leave") /\ UNCHANGED <<db, mem, given, answers>>
  <2>1. CASE My.previous = NoName /\ Provisioned
    <3>1. <<My.host, My.tunnel>> \in dns'
      BY <1>3
    <3> QED
      BY <1>0, <1>2, <1>3, <2>1, <3>1, ProvisionedKeeps
  <2>2. CASE My.previous # NoName /\ At("leave") /\ UNCHANGED <<db, mem, given, answers>>
    <3>1. job'.at = "leave" /\ job'.req = job.req /\ "leave" \in Steps
      BY <2>2, AtStep DEF Steps
    <3>2. /\ My.status = "provisioning" /\ My.tunnel # NoTunnel /\ job.req.kind = "put" /\ Me \in Installation
          /\ tunnels[My.tunnel].route = <<My.host, My.port>>
      BY <1>0, InHand DEF Placed
    <3>3. mem' = mem /\ Me' = Me /\ tunnels' = tunnels /\ <<My.host, My.tunnel>> \in dns'
      BY <1>3, <2>2, <3>1 DEF Me
    <3>4. Placed'
      BY <2>2, <3>1, <3>2, <3>3 DEF Placed, My
    <3> QED
      BY <1>2, <1>3, <2>2, <3>1, <3>4, GoesOn
  <2> QED
    BY <1>3, <2>1, <2>2
<1>4. CASE /\ UNCHANGED queue
           /\ fails < MaxFails /\ fails' = fails + 1
           /\ Effect \/ UNCHANGED cloud
           /\ Throw
  <2>1. CloudStep
    BY <1>2, <1>4, CloudAsIs
  <2> QED
    BY <1>0, <1>4, <2>1, Throws, MoreFails
<1> QED
  BY <1>1, <1>3, <1>4 DEF Name, Call

LEMMA LeaveKeeps == ASSUME IInv, Leave, UNCHANGED clientVars PROVE IInv'
<1> DEFINE Effect == dns' = dns \ {<<My.previous, My.tunnel>>} /\ UNCHANGED tunnels
<1>0. job.at = "leave"
  BY DEF Leave
<1>1. CASE Refused
  BY <1>0, <1>1, RefusedKeeps
<1>2. /\ My = db[Me] /\ My.status = "provisioning" /\ My.tunnel \in Tunnel
      /\ ~Kept(My, tunnels, dns) /\ job.at # "idle" /\ WellNamed(Me, My)
      /\ My.previous \in Hostname /\ My.previous # My.host /\ <<My.host, My.tunnel>> \in dns
  <2>1. My \in Record /\ My.previous # NoName /\ <<My.host, My.tunnel>> \in dns
    BY <1>0, InHand DEF Placed
  <2>2. My.previous \in Hostname
    BY <2>1, RecordFields
  <2> QED
    BY <1>0, <2>1, <2>2, PutInHand DEF WellNamed
<1>3. Effect => CloudStep
  BY <1>2, NameChanges
<1>4. CASE UNCHANGED queue /\ Effect /\ UNCHANGED fails /\ Provisioned
  <2>1. <<My.host, My.tunnel>> \in dns' /\ <<My.previous, My.tunnel>> \notin dns'
    <3>1. <<My.host, My.tunnel>> # <<My.previous, My.tunnel>>
      BY <1>2
    <3> QED
      BY <1>2, <1>4, <3>1
  <2> QED
    BY <1>0, <1>3, <1>4, <2>1, ProvisionedKeeps
<1>5. CASE /\ UNCHANGED queue
           /\ fails < MaxFails /\ fails' = fails + 1
           /\ Effect \/ UNCHANGED cloud
           /\ Throw
  <2>1. CloudStep
    BY <1>3, <1>5, CloudAsIs
  <2> QED
    BY <1>0, <1>5, <2>1, Throws, MoreFails
<1> QED
  BY <1>1, <1>4, <1>5 DEF Leave, Call

LEMMA TokenKeeps == ASSUME IInv, Token, UNCHANGED clientVars PROVE IInv'
<1> DEFINE a == [res |-> "ok", host |-> My.host, port |-> My.port, tunnel |-> My.tunnel]
<1>0. job.at = "token"
  BY DEF Token
<1>1. CASE Refused
  BY <1>0, <1>1, RefusedKeeps
<1>2. CASE /\ UNCHANGED queue /\ UNCHANGED cloud /\ UNCHANGED fails
           /\ UNCHANGED <<db, mem, given>> /\ Reply(a)
  <2>0. CloudStep
    BY <1>2, CloudAsIs
  <2>1. /\ My = db[Me] /\ My.status = "ready" /\ My \in Record /\ Me \in Installation
        /\ Sound(Me, My, tunnels, dns) /\ job.req.kind = "put"
    BY <1>0, InHand DEF Placed
  <2>2. My.tunnel \in Tunnel /\ tunnels[My.tunnel].owner = Me
    BY <2>1, RecordFields DEF Sound, Routed, Housed
  <2>3. Kept(db[Me], tunnels, dns)
    BY <2>1 DEF Kept
  <2>4. a \in Assignment /\ a.tunnel = My.tunnel
    BY <2>1, RecordFields DEF Assignment
  <2>5. job' = Idle /\ Tell(job.req.from, a)
    BY <1>2 DEF Reply
  <2>6. UNCHANGED <<queue, identity, run, rm, config, orphans, db>>
    BY <1>2 DEF clientVars
  <2> HIDE DEF a
  <2>7. Clients' /\ answers' \in [Client -> Assignment]
    BY <2>0, <2>1, <2>2, <2>3, <2>4, <2>5, <2>6, ClientsPromised DEF IInv
  <2>8. Sounds' /\ Owned' /\ Apart' /\ Given' /\ Few'
    BY <1>2, <2>0, NotStored DEF IInv, Store
  <2>9. mem' = db'
    <3>1. \A i \in Installation : mem[i] = db[i]
      BY <2>1 DEF IInv, Store, Copies
    <3>2. mem \in [Installation -> Record] /\ db \in [Installation -> Record]
      BY DEF IInv, TypeOK
    <3> QED
      BY <1>2, <3>1, <3>2
  <2>10. Copies'
    BY <2>9 DEF Copies
  <2>11. Placed' /\ Listed' /\ job' \in Job
    BY <2>5, IdlePlaced
  <2>12. TypeOK'
    BY <1>2, <2>0, <2>6, <2>7, <2>11 DEF IInv, TypeOK, CloudStep
  <2> QED
    BY <2>7, <2>8, <2>10, <2>11, <2>12 DEF IInv, Store
<1>3. CASE /\ UNCHANGED queue
           /\ fails < MaxFails /\ fails' = fails + 1
           /\ UNCHANGED cloud
           /\ Throw
  BY <1>0, <1>3, CloudAsIs, Throws, MoreFails
<1> QED
  BY <1>1, <1>2, <1>3 DEF Token, Read, Call

LEMMA RevokeKeeps == ASSUME IInv, Revoke, UNCHANGED clientVars PROVE IInv'
<1> DEFINE Effect == tunnels' = [tunnels EXCEPT ![My.tunnel].rotated = @ \/ tunnels[My.tunnel].live] /\ UNCHANGED dns
<1>0. job.at = "revoke" /\ queue' = queue
  BY DEF Revoke, Call
<1>1. Effect => CloudStep
  BY <1>0, RevokeSound
<1>2. AtEnd /\ Me \in Installation
  BY <1>0, InHand DEF Placed
<1>3. ASSUME Effect, At("disconnect"), UNCHANGED <<db, mem, given, answers>>, UNCHANGED fails
      PROVE  IInv'
  <2>1. job'.at = "disconnect" /\ job'.req = job.req /\ "disconnect" \in Steps
    BY <1>3, AtStep DEF Steps
  <2>2. mem' = mem /\ Me' = Me /\ dns' = dns
    BY <1>3, <2>1 DEF Me
  <2>3. Placed'
    BY <1>2, <2>1, <2>2 DEF Placed, AtEnd, My
  <2> QED
    BY <1>0, <1>1, <1>3, <2>1, <2>3, GoesOn
<1>4. CASE /\ fails < MaxFails /\ fails' = fails + 1
           /\ Effect \/ UNCHANGED cloud
           /\ Throw
  <2>1. CloudStep
    BY <1>1, <1>4, CloudAsIs
  <2> QED
    BY <1>0, <1>4, <2>1, Throws, MoreFails
<1> QED
  BY <1>3, <1>4 DEF Revoke, Call

LEMMA DisconnectKeeps == ASSUME IInv, Disconnect, UNCHANGED clientVars PROVE IInv'
<1> DEFINE Effect == tunnels' = [tunnels EXCEPT ![My.tunnel].up = FALSE] /\ UNCHANGED dns
<1>0. job.at = "disconnect" /\ queue' = queue
  BY DEF Disconnect, Call
<1>1. Effect => CloudStep
  BY <1>0, DisconnectSound
<1>2. AtEnd /\ Me \in Installation
  BY <1>0, InHand DEF Placed
<1>3. ASSUME Effect, At("destroy"), UNCHANGED <<db, mem, given, answers>>, UNCHANGED fails
      PROVE  IInv'
  <2>1. job'.at = "destroy" /\ job'.req = job.req /\ "destroy" \in Steps
    BY <1>3, AtStep DEF Steps
  <2>2. mem' = mem /\ Me' = Me /\ dns' = dns
    BY <1>3, <2>1 DEF Me
  <2>3. Placed'
    BY <1>2, <2>1, <2>2 DEF Placed, AtEnd, My
  <2> QED
    BY <1>0, <1>1, <1>3, <2>1, <2>3, GoesOn
<1>4. CASE /\ fails < MaxFails /\ fails' = fails + 1
           /\ Effect \/ UNCHANGED cloud
           /\ Throw
  <2>1. CloudStep
    BY <1>1, <1>4, CloudAsIs
  <2> QED
    BY <1>0, <1>4, <2>1, Throws, MoreFails
<1> QED
  BY <1>3, <1>4 DEF Disconnect, Call

\* The end of a record: nothing is left of it at the provider.
LEMMA RemovedKeeps ==
  ASSUME IInv, CloudStep, job.at \in {"unname", "destroy"}, Removed,
         UNCHANGED <<queue, fails, clientVars>>,
         \A u \in Tunnel : ~Owns(Me, u, tunnels'),
         \A d \in dns' : tunnels'[d[2]].owner # Me
  PROVE  IInv'
<1>0. /\ My = db[Me] /\ Me \in Installation /\ My \in Record
      /\ Sound(Me, My, tunnels', dns')
      /\ job.req.kind = "delete" => My.status = "deleting"
      /\ job.req.kind = "sweep" => My.status = "reclaiming"
      /\ mem \in [Installation -> Record]
  <2>1. My = db[Me]
    BY InHand DEF Placed, AtEnd, AtUnname
  <2> QED
    BY <2>1, InHand DEF Placed, AtEnd, AtUnname, CloudStep
<1>1. ASSUME NEW r \in Record, r.status \in {"deleted", "reclaimed"},
             r.host = My.host, r.retired = My.retired, r.previous \in {My.previous, NoName},
             r.status = "reclaimed" => r.tunnel = NoTunnel /\ r.previous = NoName,
             r.tunnel \in {My.tunnel, NoTunnel}, My.status # "none",
             Save([mem EXCEPT ![Me] = r]), Proceeds
      PROVE  /\ \A i \in Installation : i # Me => mem'[i] = mem[i]
             /\ mem' = db'
             /\ (Placed' /\ Listed' /\ job' \in Job => IInv')
  <2>1. WellNamed(Me, My)
    BY <1>0 DEF Sound
  <2>2. WellNamed(Me, r) /\ Names(r) = Names(My)
    <3>1. Names(r) = Names(My)
      BY <1>1, <2>1 DEF WellNamed, Names
    <3> QED
      BY <1>1, <2>1, <3>1 DEF WellNamed
  <2>3. Housed(Me, r, tunnels')
    BY <1>0, <1>1, AllocatorConstants DEF Sound, Housed
  <2>4. Pointed(Me, r, tunnels', dns')
    BY DEF Pointed
  <2>5. Sound(Me, r, tunnels', dns') /\ ~Holds(r) /\ Kept(r, tunnels', dns')
    BY <1>1, <2>2, <2>3, <2>4 DEF Sound, Holds, Registered, Kept
  <2> QED
    BY <1>0, <1>1, <2>2, <2>5, Saves, SameFails DEF My
<1>2. CASE /\ job.req.kind = "delete"
           /\ Save([mem EXCEPT ![Me].status = "deleted"]) /\ Reply(Answer("deleted"))
  <2> DEFINE r == [My EXCEPT !.status = "deleted"]
  <2>1. /\ r \in Record /\ r.status = "deleted" /\ r.host = My.host /\ r.retired = My.retired
        /\ r.previous = My.previous /\ r.tunnel = My.tunnel
    BY <1>0 DEF Record, Status
  <2>2. Save([mem EXCEPT ![Me] = r])
    BY <1>2 DEF My
  <2>3. job' = Idle /\ Tell(job.req.from, Answer("deleted"))
    BY <1>2 DEF Reply
  <2>4. Answer("deleted") \in Assignment /\ Answer("deleted").res # "ok"
    BY DEF Answer, Assignment
  <2>5. Proceeds
    BY <2>3, <2>4 DEF Proceeds, clientVars
  <2> HIDE DEF r
  <2>6. Placed' /\ Listed' /\ job' \in Job
    BY <2>3, IdlePlaced
  <2>7. My.status # "none"
    BY <1>0, <1>2
  <2> QED
    BY <1>1, <2>1, <2>2, <2>5, <2>6, <2>7
<1>3. CASE /\ job.req.kind = "sweep"
           /\ Save([mem EXCEPT ![Me] = [@ EXCEPT !.status = "reclaimed", !.tunnel = NoTunnel,
                                                 !.previous = NoName, !.idle = Unset]])
           /\ NextRecord /\ UNCHANGED answers
  <2> DEFINE r == [My EXCEPT !.status = "reclaimed", !.tunnel = NoTunnel, !.previous = NoName, !.idle = Unset]
  <2>1. /\ r \in Record /\ r.status = "reclaimed" /\ r.host = My.host /\ r.retired = My.retired
        /\ r.previous = NoName /\ r.tunnel = NoTunnel
    <3>1. Unset \in Unset..Grace
      BY AllocatorConstants DEF Unset
    <3> QED
      BY <1>0, <3>1 DEF Record, Status
  <2>2. Save([mem EXCEPT ![Me] = r])
    BY <1>3 DEF My
  <2> HIDE DEF r
  <2>3. \A i \in Installation : i # Me => mem'[i] = mem[i]
    BY <1>0, <2>2 DEF Save
  <2>4. Placed' /\ Listed' /\ job' \in Job /\ job'.req.kind = "sweep"
        /\ (job' = Idle \/ (job'.req.from = job.req.from /\ job'.at # "idle"))
    <3>1. job' # Idle => \A i \in Installation : i # Me => mem'[i] = mem[i]
      BY <2>3
    <3>2. TypeOK /\ Placed /\ Listed
      BY DEF IInv, Store
    <3> QED
      BY <1>3, <3>1, <3>2, NextPlaced
  <2>5. Proceeds
    BY <1>3, <2>4, IdleJob DEF Proceeds, clientVars
  <2>6. My.status # "none"
    BY <1>0, <1>3
  <2> QED
    BY <1>1, <2>1, <2>2, <2>4, <2>5, <2>6
<1> QED
  BY <1>2, <1>3 DEF Removed

LEMMA DestroyKeeps == ASSUME IInv, Destroy, UNCHANGED clientVars PROVE IInv'
<1> DEFINE Effect == tunnels' = Gone(My.tunnel) /\ UNCHANGED dns
<1>0. job.at \in {"destroy", "reclaim"}
  BY DEF Destroy
<1>1. CASE Refused
  BY <1>0, <1>1, RefusedKeeps
<1>2. Effect => CloudStep /\ \A u \in Tunnel : ~Owns(Me, u, tunnels')
  BY <1>0, DestroySound
<1>3. ASSUME Effect, UNCHANGED <<queue, fails>>, job.at = "destroy", Removed PROVE IInv'
  <2>1. My.tunnel \in Tunnel /\ \A d \in dns : d[2] # My.tunnel
    BY <1>3, EndInHand
  <2>2. \A d \in dns' : tunnels'[d[2]].owner # Me
    <3> SUFFICES ASSUME NEW d \in dns, tunnels'[d[2]].owner = Me PROVE FALSE
      BY <1>3
    <3>1. d[2] \in Tunnel /\ Sound(Me, db[Me], tunnels', dns') /\ dns' = dns /\ My = db[Me]
      BY <1>2, <1>3, InHand, EndInHand DEF CloudStep
    <3> QED
      BY <2>1, <3>1 DEF Sound, Pointed
  <2>3. UNCHANGED <<queue, fails, clientVars>>
    BY <1>3
  <2> QED
    BY <1>2, <1>3, <2>2, <2>3, RemovedKeeps
<1>4. ASSUME Effect, UNCHANGED <<queue, fails>>, job.at = "reclaim",
             At("unname"), UNCHANGED <<db, mem, given, answers>>
      PROVE IInv'
  <2>1. job'.at = "unname" /\ job'.req = job.req /\ "unname" \in Steps
    BY <1>4, AtStep DEF Steps
  <2>2. AtReclaim /\ Me \in Installation
    BY <1>4, InHand DEF Placed
  <2>3. mem' = mem /\ Me' = Me /\ db' = db
    BY <1>4, <2>1 DEF Me
  <2>4. \A u \in Tunnel : ~Owns(Me, u, tunnels')
    BY <1>2, <1>4
  <2>5. Placed'
    BY <2>1, <2>2, <2>3, <2>4 DEF Placed, AtReclaim, AtUnname, OwnsNone, My, Owns
  <2> QED
    BY <1>2, <1>4, <2>1, <2>5, GoesOn
<1>5. CASE /\ UNCHANGED queue
           /\ fails < MaxFails /\ fails' = fails + 1
           /\ Effect \/ UNCHANGED cloud
           /\ Throw
  <2>1. CloudStep
    BY <1>2, <1>5, CloudAsIs
  <2> QED
    BY <1>0, <1>5, <2>1, Throws, MoreFails
<1> QED
  BY <1>1, <1>3, <1>4, <1>5 DEF Destroy, Call

\* The names of a record are down: a removal goes on to the tunnel, the sweep
\* is done with it.
LEMMA UnnamedKeeps ==
  ASSUME IInv, CloudStep, job.at = "unname", Unnamed,
         UNCHANGED <<queue, fails, tunnels, clientVars>>, dns' \subseteq dns,
         \A d \in dns' : d[1] \notin {My.previous, My.host}
  PROVE  IInv'
<1>0. AtUnname /\ My = db[Me] /\ Me \in Installation /\ dns \in SUBSET (Hostname \X Tunnel)
      /\ Sound(Me, My, tunnels, dns)
  BY InHand DEF Placed, AtUnname
<1>1. \A d \in dns' : tunnels'[d[2]].owner # Me
  <2> SUFFICES ASSUME NEW d \in dns', tunnels[d[2]].owner = Me PROVE FALSE
    OBVIOUS
  <2> QED
    BY <1>0 DEF Sound, Pointed
<1>2. ASSUME job.req.kind = "delete", My.tunnel # NoTunnel,
             At("revoke"), UNCHANGED <<db, mem, given, answers>>
      PROVE  IInv'
  <2>1. job'.at = "revoke" /\ job'.req = job.req /\ "revoke" \in Steps
    BY <1>2, AtStep DEF Steps
  <2>2. mem' = mem /\ Me' = Me
    BY <1>2, <2>1 DEF Me
  <2>3. \A d \in dns' : d[2] # My.tunnel
    <3> SUFFICES ASSUME NEW d \in dns', d[2] = My.tunnel PROVE FALSE
      OBVIOUS
    <3>1. tunnels[My.tunnel].owner = Me
      BY <1>0, <1>2 DEF Sound, Housed
    <3> QED
      BY <1>1, <3>1
  <2>4. Placed'
    BY <1>0, <1>2, <2>1, <2>2, <2>3 DEF Placed, AtEnd, AtUnname, My
  <2> QED
    BY <1>2, <2>1, <2>4, GoesOn
<1>3. ASSUME job.req.kind = "sweep" \/ My.tunnel = NoTunnel, Removed PROVE IInv'
  <2>1. \A u \in Tunnel : ~Owns(Me, u, tunnels)
    <3>1. CASE My.tunnel = NoTunnel /\ job.req.kind = "delete"
      BY <1>0, <3>1 DEF AtUnname, Sound, Housed, Empty
    <3>2. CASE job.req.kind = "sweep"
      BY <1>0, <3>2 DEF AtUnname, OwnsNone
    <3> QED
      BY <1>0, <1>3, <3>1, <3>2 DEF AtUnname
  <2>2. \A u \in Tunnel : ~Owns(Me, u, tunnels')
    BY <2>1
  <2>3. UNCHANGED <<queue, fails, clientVars>>
    OBVIOUS
  <2> QED
    BY <1>1, <1>3, <2>2, <2>3, RemovedKeeps
<1> QED
  BY <1>2, <1>3 DEF Unnamed

LEMMA UnnameKeeps == ASSUME IInv, Unname, UNCHANGED clientVars PROVE IInv'
<1> DEFINE present == {n \in {My.previous, My.host} \ {NoName} : \E t \in Tunnel : <<n, t>> \in dns}
           n == IF My.previous \in present THEN My.previous ELSE My.host
           Effect == dns' = dns \ {<<n, My.tunnel>>} /\ UNCHANGED tunnels
<1>0. job.at = "unname"
  BY DEF Unname
<1>1. /\ AtUnname /\ My = db[Me] /\ Me \in Installation /\ My \in Record
      /\ dns \in SUBSET (Hostname \X Tunnel) /\ Sound(Me, My, tunnels, dns)
  BY <1>0, InHand DEF Placed, AtUnname
<1>2. My.previous \in Hostname \cup {NoName} /\ My.host \in Hostname \cup {NoName}
  BY <1>1, RecordFields
<1>3. CASE Refused
  BY <1>0, <1>3, RefusedKeeps
<1>4. CASE present = {} /\ UNCHANGED queue /\ UNCHANGED cloud /\ Unnamed /\ UNCHANGED fails
  <2>1. \A d \in dns' : d[1] \notin {My.previous, My.host}
    <3> SUFFICES ASSUME NEW d \in dns, d[1] \in {My.previous, My.host} PROVE FALSE
      BY <1>4 DEF cloud
    <3>1. d = <<d[1], d[2]>> /\ d[1] \in Hostname /\ d[2] \in Tunnel
      BY <1>1
    <3>2. d[1] # NoName
      BY <3>1, AllocatorConstants
    <3>3. d[1] \in present
      BY <3>1, <3>2
    <3> QED
      BY <1>4, <3>3
  <2>2. CloudStep /\ UNCHANGED <<queue, fails, tunnels, clientVars>> /\ dns' \subseteq dns
    BY <1>4, CloudAsIs DEF cloud
  <2> HIDE DEF present
  <2> QED
    BY <1>0, <1>4, <2>1, <2>2, UnnamedKeeps
<1>5. CASE present = {} /\ UNCHANGED queue /\ UNCHANGED cloud /\ Throw /\ fails < MaxFails /\ fails' = fails + 1
  BY <1>0, <1>5, CloudAsIs, Throws, MoreFails
<1>6. ASSUME present # {}, ~Foreign(n)
      PROVE  My.tunnel \in Tunnel /\ n \in Hostname /\ n \in present
             /\ \A d \in dns : d[1] = n => d[2] = My.tunnel
  <2>1. n \in present
    BY <1>6
  <2>2. n \in Hostname
    BY <1>2, <2>1
  <2>3. PICK t \in Tunnel : <<n, t>> \in dns
    BY <2>1
  <2>4. t = My.tunnel
    BY <1>6, <2>3 DEF Foreign
  <2> HIDE DEF n
  <2>5. ASSUME NEW d \in dns, d[1] = n PROVE d[2] = My.tunnel
    <3>1. d = <<n, d[2]>> /\ d[2] \in Tunnel
      BY <1>1, <2>5
    <3> QED
      BY <1>6, <3>1 DEF Foreign
  <2> QED
    BY <2>1, <2>2, <2>4, <2>5
<1>7. present # {} /\ ~Foreign(n) /\ Effect => CloudStep
  <2> SUFFICES ASSUME present # {}, ~Foreign(n), Effect PROVE CloudStep
    OBVIOUS
  <2>1. My.tunnel \in Tunnel /\ n \in Hostname
    BY <1>6
  <2>2. My.status \in {"deleting", "reclaiming"} /\ My.status # "ready"
    BY <1>1 DEF AtUnname
  <2>3. Kept(My, tunnels, dns) => Kept(My, tunnels', dns')
    <3>1. CASE My.status = "deleting"
      BY <3>1 DEF Kept
    <3>2. CASE My.status = "reclaiming"
      <4>1. OwnsNone
        BY <1>1, <3>2 DEF AtUnname
      <4>2. tunnels[My.tunnel].owner = Me
        BY <1>1, <2>1, AllocatorConstants DEF Sound, Housed
      <4>3. ~tunnels[My.tunnel].live
        BY <2>1, <4>1, <4>2 DEF OwnsNone, Owns
      <4> QED
        BY <2>1, <3>2, <4>3, AllocatorConstants DEF Kept
    <3> QED
      BY <2>2, <3>1, <3>2
  <2>4. UNCHANGED tunnels /\ dns' = dns \ {<<n, db[Me].tunnel>>} /\ job.at # "idle" /\ db[Me].tunnel \in Tunnel
    BY <1>0, <1>1, <2>1
  <2> HIDE DEF n
  <2> QED
    BY <1>1, <2>1, <2>2, <2>3, <2>4, NameChanges
<1>8. ASSUME present # {}, ~Foreign(n), UNCHANGED queue, Effect, UNCHANGED fails, present = {n}, Unnamed
      PROVE  IInv'
  <2>0. \A d \in dns' : d \in dns /\ d # <<n, My.tunnel>>
    <3> HIDE DEF n
    <3> QED
      BY <1>8
  <2>1. \A d \in dns' : d[1] \notin {My.previous, My.host}
    <3> SUFFICES ASSUME NEW d \in dns', d[1] \in {My.previous, My.host} PROVE FALSE
      OBVIOUS
    <3>0. d \in dns /\ d # <<n, My.tunnel>>
      BY <2>0
    <3> HIDE DEF n
    <3>1. d = <<d[1], d[2]>> /\ d[1] \in Hostname /\ d[2] \in Tunnel /\ d \in dns /\ d # <<n, My.tunnel>>
      BY <1>1, <3>0
    <3>2. d[1] # NoName
      BY <3>1, AllocatorConstants
    <3>3. d[1] \in present
      BY <3>1, <3>2
    <3>4. d[1] = n
      BY <1>8, <3>3
    <3>5. d[2] = My.tunnel
      BY <1>6, <1>8, <3>1, <3>4
    <3> QED
      BY <3>1, <3>4, <3>5
  <2>2. CloudStep /\ UNCHANGED <<queue, fails, tunnels, clientVars>> /\ dns' \subseteq dns
    BY <1>7, <1>8
  <2> HIDE DEF present
  <2> QED
    BY <1>0, <1>8, <2>1, <2>2, UnnamedKeeps
<1>9. ASSUME present # {}, ~Foreign(n), UNCHANGED queue, Effect, UNCHANGED fails,
             UNCHANGED <<job, db, mem, given, answers>>
      PROVE  IInv'
  <2>1. CloudStep
    BY <1>7, <1>9
  <2>2. mem' = mem /\ job' = job /\ db' = db /\ tunnels' = tunnels
    BY <1>9
  <2>3. Placed'
    BY <1>0, <1>1, <2>2 DEF Placed, AtUnname, OwnsNone, Owns, Me, My
  <2>4. Listed' /\ Proceeds /\ job' \in Job /\ fails' \in 0..MaxFails
    BY <1>9 DEF IInv, Store, Listed, Proceeds, TypeOK, Me, clientVars
  <2> QED
    BY <1>0, <1>9, <2>1, <2>2, <2>3, <2>4, OnlyMoves
<1>10. ASSUME present # {}, ~Foreign(n), UNCHANGED queue, Effect \/ UNCHANGED cloud,
              fails < MaxFails, fails' = fails + 1, Throw
       PROVE  IInv'
  <2>1. CloudStep
    BY <1>7, <1>10, CloudAsIs
  <2> HIDE DEF present
  <2> QED
    BY <1>0, <1>10, <2>1, Throws, MoreFails
<1> QED
  BY <1>3, <1>4, <1>5, <1>8, <1>9, <1>10 DEF Unname, Call, Read

LEMMA CreateKeeps == ASSUME IInv, Create, UNCHANGED clientVars PROVE IInv'
<1>0. job.at = "create"
  BY DEF Create
<1>1. CASE Refused
  BY <1>0, <1>1, RefusedKeeps
<1>2. ASSUME NEW t \in Tunnel, tunnels[t] = Unused
      PROVE  /\ tunnels' = [tunnels EXCEPT ![t] = [Unused EXCEPT !.owner = Me, !.live = TRUE]] /\ UNCHANGED dns
                => CloudStep /\ Owns(Me, t, tunnels')
  BY <1>0, <1>2, CreateSound
<1>3. ASSUME NEW t \in Tunnel, tunnels[t] = Unused,
             tunnels' = [tunnels EXCEPT ![t] = [Unused EXCEPT !.owner = Me, !.live = TRUE]], UNCHANGED dns,
             Save([mem EXCEPT ![Me].tunnel = t]), At("route"), UNCHANGED answers, UNCHANGED <<queue, fails>>
      PROVE  IInv'
  <2> DEFINE r == Found(Me, t)
  <2>1. CloudStep /\ Owns(Me, t, tunnels')
    BY <1>2, <1>3
  <2>2. /\ My = db[Me] /\ Me \in Installation /\ My.status = "provisioning" /\ My.tunnel = NoTunnel
        /\ job.req.kind = "put" /\ TypeOK
    BY <1>0, InHand DEF Placed
  <2>3. /\ Sound(Me, r, tunnels', dns') /\ r \in Record /\ Names(r) = Names(My)
        /\ r.status = "provisioning" /\ r.tunnel = t /\ Holds(My)
    <3>1. Sound(Me, db[Me], tunnels', dns') /\ db[Me].tunnel = NoTunnel
      BY <2>1, <2>2 DEF CloudStep
    <3>2. tunnels' \in [Tunnel -> TunnelState] /\ dns' \in SUBSET (Hostname \X Tunnel)
      BY <2>1 DEF CloudStep
    <3> QED
      BY <2>1, <2>2, <3>1, <3>2, FoundIsSound
  <2>4. Save([mem EXCEPT ![Me] = r])
    BY <1>3, <2>2 DEF My, Found
  <2>5. job'.at = "route" /\ job'.req = job.req /\ job'.left = job.left /\ job' \in Job
    BY <1>3, AtStep DEF Steps
  <2>6. Proceeds
    BY <1>3, <2>5 DEF Proceeds, clientVars
  <2> HIDE DEF r
  <2>7. ~Kept(My, tunnels', dns')
    BY <2>2 DEF Kept
  <2>8. /\ db'[Me] = r /\ mem' = db'
        /\ (Placed' /\ Listed' /\ job' \in Job /\ fails' \in 0..MaxFails => IInv')
    BY <2>1, <2>2, <2>3, <2>4, <2>6, <2>7, Saves DEF My
  <2>9. job.left = {} /\ t # NoTunnel
    BY <2>2, AllocatorConstants DEF IInv, Store, Listed
  <2>10. Placed'
    BY <2>2, <2>3, <2>5, <2>8, <2>9 DEF Placed, Me, My
  <2>11. Listed' /\ fails' \in 0..MaxFails
    BY <1>3, <2>5, <2>9, SameFails DEF Listed
  <2> QED
    BY <2>5, <2>8, <2>10, <2>11
<1>4. ASSUME NEW t \in Tunnel, tunnels[t] = Unused,
             \/ tunnels' = [tunnels EXCEPT ![t] = [Unused EXCEPT !.owner = Me, !.live = TRUE]] /\ UNCHANGED dns
             \/ UNCHANGED cloud,
             fails < MaxFails, fails' = fails + 1, Throw, UNCHANGED queue
      PROVE  IInv'
  <2>1. CloudStep
    BY <1>2, <1>4, CloudAsIs
  <2> QED
    BY <1>0, <1>4, <2>1, Throws, MoreFails
<1> QED
  BY <1>1, <1>3, <1>4 DEF Create, Call

-----------------------------------------------------------------------------
(* The sweep.                                                              *)

\* A tunnel that is up is one a daemon serves: its record was provisioned. Or it
\* is one of a connector left behind.
LEMMA UpIsKept ==
  ASSUME IInv, Me \in Installation, My.tunnel \in Tunnel, tunnels[My.tunnel].up,
         tunnels[My.tunnel].owner = Me, My.tunnel \notin orphans
  PROVE  Kept(db[Me], tunnels, dns)
<1>1. PICK m \in Machine : Runs(m) /\ run[m].tunnel = My.tunnel
  BY DEF IInv, Clients, Connected
<1>2. run[m].who = Me
  BY <1>1 DEF IInv, Clients, Leads
<1>3. Serves(m, Me)
  BY <1>1, <1>2 DEF Serves
<1> QED
  BY <1>3 DEF IInv, Clients, Served

\* What the sweep stores for a record differs from it in its age, and perhaps
\* in being about to be reclaimed, or no more.
LEMMA Judged ==
  ASSUME IInv, UNCHANGED cloud, UNCHANGED <<queue, answers, clientVars>>, UNCHANGED fails,
         job.at # "idle", My.status \in Working,
         NEW r \in Record, r.host = My.host, r.previous = My.previous, r.retired = My.retired,
         r.port = My.port, r.tunnel = My.tunnel,
         r.status \in Working, My.spared => r.spared,
         r.status = "ready" => My.status = "ready" \/ (Routed(r, tunnels, dns) /\ tunnels[My.tunnel].live),
         r.status = "provisioning" => My.status = "provisioning",
         Save([mem EXCEPT ![Me] = r]), job'.req.kind = "sweep", job.req.kind = "sweep",
         job'.req.from \in {Nobody, job.req.from}
  PROVE  /\ db'[Me] = r /\ mem' = db' /\ \A i \in Installation : i # Me => mem'[i] = mem[i]
         /\ (Placed' /\ Listed' /\ job' \in Job => IInv')
<1>1. CloudStep /\ tunnels' = tunnels /\ dns' = dns
  BY CloudAsIs DEF cloud
<1>2. Me \in Installation /\ My \in Record /\ Sound(Me, My, tunnels', dns')
  <2>1. Me \in Installation /\ TypeOK /\ Copies /\ My \in Record
    BY InHand
  <2> QED
    BY <1>1, <2>1, CopyIsSound DEF My
<1>3. WellNamed(Me, r) /\ Names(r) = Names(My)
  <2>1. My.status # "none" /\ r.status # "none" /\ r.status # "reclaimed"
    BY DEF Working
  <2> QED
    BY <1>2, <2>1, SameNames DEF Sound
<1>4. Housed(Me, r, tunnels')
  <2>1. ~Empty(r) /\ ~Empty(My) /\ r.status \notin {"none", "reclaimed"}
    BY DEF Empty, Working
  <2>2. My.status = "reclaiming" \/ (My.tunnel # NoTunnel => tunnels[My.tunnel].live)
    BY <1>1, <1>2 DEF Sound, Housed, Working
  <2>3. r.status \in {"provisioning", "ready"} /\ r.tunnel # NoTunnel => tunnels'[r.tunnel].live
    BY <1>1, <2>2
  <2> QED
    BY <1>2, <2>1, <2>3 DEF Sound, Housed
<1>5. Pointed(Me, r, tunnels', dns')
  BY <1>2 DEF Sound, Pointed, Holds, Registered, Working
<1>6. Routed(My, tunnels', dns') => Routed(r, tunnels', dns')
  BY DEF Routed
<1>7. r.status = "ready" => Routed(r, tunnels', dns')
  BY <1>1, <1>2, <1>6 DEF Sound
<1>8. Sound(Me, r, tunnels', dns')
  BY <1>3, <1>4, <1>5, <1>7 DEF Sound
<1>9. Holds(My)
  BY DEF Holds, Registered, Working
<1>10. Kept(My, tunnels', dns') => Kept(r, tunnels', dns')
  <2> SUFFICES ASSUME Kept(My, tunnels', dns') PROVE Kept(r, tunnels', dns')
    OBVIOUS
  <2>1. My.status = "ready" \/ My.status = "reclaiming"
    BY DEF Kept, Working
  <2>2. My.tunnel # NoTunnel /\ (tunnels'[My.tunnel].live => Routed(My, tunnels', dns'))
    BY <1>2, <2>1 DEF Kept, Sound, Routed
  <2> QED
    BY <1>6, <2>1, <2>2 DEF Kept, Working
<1>11. Proceeds
  BY DEF Proceeds, clientVars
<1>12. fails' \in 0..MaxFails
  BY SameFails
<1> QED
  BY <1>1, <1>2, <1>3, <1>8, <1>9, <1>10, <1>11, <1>12, Saves DEF My

LEMMA JudgeKeeps ==
  ASSUME IInv, NEW connected \in BOOLEAN, job.at \in {"find", "look"}, job.req.kind = "sweep",
         Judge(mem, connected), UNCHANGED <<queue, fails, cloud, clientVars>>,
         connected => My.tunnel \in Tunnel /\ tunnels[My.tunnel].live /\ tunnels[My.tunnel].up,
         My.tunnel = NoTunnel => OwnsNone
  PROVE  IInv'
<1> DEFINE since == IF My.idle = Unset THEN 0 ELSE My.idle
<1>0. /\ Me \in Installation /\ My \in Record /\ My.status \in Working
      /\ mem \in [Installation -> Record] /\ Sound(Me, My, tunnels, dns)
      /\ My = mem[Me] /\ job \in Job
  <2>1. Me \in Installation /\ My \in Record /\ TypeOK /\ Copies /\ mem \in [Installation -> Record] /\ job \in Job
    BY InHand
  <2>2. My.status \in Working
    BY InHand DEF Placed, AtFind, AtLook
  <2>3. CloudStep /\ tunnels' = tunnels /\ dns' = dns
    BY CloudAsIs DEF cloud
  <2> QED
    BY <2>1, <2>2, <2>3, CopyIsSound DEF My
<1>1. /\ since \in Unset..Grace /\ 0 \in Unset..Grace /\ Unset \in Unset..Grace
  <2>1. My.idle \in Unset..Grace
    BY <1>0, RecordFields
  <2> QED
    BY <2>1, AllocatorConstants DEF Unset
<1> HIDE DEF since
<1>2. UNCHANGED answers
  BY DEF Judge
\* The record that is stored, and the next one that is taken.
<1>3. ASSUME NEW r \in Record, r.host = My.host, r.previous = My.previous, r.retired = My.retired,
             r.port = My.port, r.tunnel = My.tunnel,
             r.status \in Working, My.spared => r.spared,
             r.status = "ready" => My.status = "ready" \/ (Routed(r, tunnels, dns) /\ tunnels[My.tunnel].live),
             r.status = "provisioning" => My.status = "provisioning",
             Save([mem EXCEPT ![Me] = r]), NextRecord
      PROVE  IInv'
  <2>1. mem' = [mem EXCEPT ![Me] = r]
    BY <1>3 DEF Save
  <2>2. job' # Idle => \A i \in Installation : i # Me => mem'[i] = mem[i]
    BY <1>0, <2>1
  <2>3. TypeOK /\ Placed /\ Listed
    BY DEF IInv, Store
  <2>4. Placed' /\ Listed' /\ job' \in Job /\ job'.req.kind = "sweep"
        /\ (job' = Idle \/ (job'.req.from = job.req.from /\ job'.at # "idle"))
    BY <1>3, <2>2, <2>3, NextPlaced
  <2>5. job'.req.from \in {Nobody, job.req.from}
    BY <2>4, IdleJob
  <2>6. UNCHANGED cloud /\ UNCHANGED <<queue, answers, clientVars>> /\ UNCHANGED fails /\ job.at # "idle"
    BY <1>2
  <2> QED
    BY <1>0, <1>3, <2>4, <2>5, <2>6, Judged
<1>4. CASE /\ connected
           /\ Save([mem EXCEPT ![Me] = [My EXCEPT !.idle = Unset,
                                !.status = IF My.status = "reclaiming" THEN "ready" ELSE My.status,
                                !.spared = @ \/ (My.status = "reclaiming" /\ My.tunnel \in orphans)]])
           /\ NextRecord
  <2> DEFINE st == IF My.status = "reclaiming" THEN "ready" ELSE My.status
             sp == My.spared \/ (My.status = "reclaiming" /\ My.tunnel \in orphans)
             r == [My EXCEPT !.idle = Unset, !.status = st, !.spared = sp]
  <2>1. st \in Working /\ st \in Status /\ (st = "provisioning" => My.status = "provisioning")
    BY <1>0 DEF Working, Status
  <2>2. My.tunnel \in Tunnel /\ tunnels[My.tunnel].live /\ tunnels[My.tunnel].up
    BY <1>4
  <2>3. st = "ready" /\ ~sp => My.status = "ready" \/ Routed(My, tunnels, dns)
    <3> SUFFICES ASSUME My.status = "reclaiming", ~sp PROVE Routed(My, tunnels, dns)
      BY <2>2
    <3>1. tunnels[My.tunnel].owner = Me /\ My.tunnel \notin orphans
      BY <1>0, <2>2, AllocatorConstants DEF Sound, Housed
    <3>2. Kept(db[Me], tunnels, dns)
      BY <1>0, <2>2, <3>1, UpIsKept
    <3>3. CloudStep /\ tunnels' = tunnels /\ dns' = dns /\ TypeOK /\ Copies
      BY CloudAsIs, InHand DEF cloud
    <3>4. Kept(My, tunnels, dns)
      BY <1>0, <3>2, <3>3, CopyIsSound
    <3> QED
      BY <2>2, <3>4 DEF Kept
  <2>s. sp \in BOOLEAN /\ (My.spared => sp)
    OBVIOUS
  <2>0. Save([mem EXCEPT ![Me] = r])
    BY <1>4
  <2> HIDE DEF st, sp
  <2>4. /\ r \in Record /\ r.host = My.host /\ r.previous = My.previous /\ r.retired = My.retired
        /\ r.port = My.port /\ r.tunnel = My.tunnel /\ r.status = st /\ r.spared = sp
    BY <1>0, <1>1, <2>1, <2>s DEF Record
  <2> HIDE DEF r
  <2>6. My.spared => r.spared
    <3>1. r.spared = sp
      BY <2>4
    <3> QED
      BY <2>s, <3>1, Zenon
  <2>5. st = "ready" => My.status = "ready" \/ Routed(r, tunnels, dns)
    <3> SUFFICES ASSUME st = "ready", My.status # "ready" PROVE Routed(r, tunnels, dns)
      OBVIOUS
    <3>1. r.tunnel # NoTunnel
      BY <2>2, <2>4, AllocatorConstants
    <3>2. CASE r.spared
      BY <3>1, <3>2 DEF Routed
    <3>3. CASE ~r.spared
      <4>1. r.spared = sp
        BY <2>4
      <4>2. ~sp /\ ~My.spared
        BY <2>6, <3>3, <4>1, Zenon
      <4>3. Routed(My, tunnels, dns)
        BY <2>3, <4>2
      <4> QED
        BY <2>4, <4>2, <4>3, <3>1 DEF Routed
    <3> QED
      BY <3>2, <3>3
  <2>7. r.status = "ready" => My.status = "ready" \/ (Routed(r, tunnels, dns) /\ tunnels[My.tunnel].live)
    BY <2>2, <2>4, <2>5
  <2> QED
    BY <1>3, <1>4, <2>0, <2>1, <2>4, <2>6, <2>7
<1>5. CASE Save([mem EXCEPT ![Me].idle = since]) /\ NextRecord
  <2> DEFINE r == [My EXCEPT !.idle = since]
  <2>1. /\ r \in Record /\ r.host = My.host /\ r.previous = My.previous /\ r.retired = My.retired
        /\ r.port = My.port /\ r.tunnel = My.tunnel /\ r.status = My.status /\ r.spared = My.spared
    BY <1>0, <1>1 DEF Record
  <2>2. Save([mem EXCEPT ![Me] = r])
    BY <1>0, <1>5
  <2> HIDE DEF r
  <2> QED
    BY <1>0, <1>3, <1>5, <2>1, <2>2
<1>6. CASE /\ Save([mem EXCEPT ![Me] = [My EXCEPT !.idle = since, !.status = "reclaiming"]])
           /\ At(IF My.tunnel # NoTunnel /\ tunnels[My.tunnel].live THEN "reclaim" ELSE "unname")
  <2> DEFINE r == [My EXCEPT !.idle = since, !.status = "reclaiming"]
             s == IF My.tunnel # NoTunnel /\ tunnels[My.tunnel].live THEN "reclaim" ELSE "unname"
  <2>1. /\ r \in Record /\ r.host = My.host /\ r.previous = My.previous /\ r.retired = My.retired
        /\ r.port = My.port /\ r.tunnel = My.tunnel /\ r.status = "reclaiming" /\ r.spared = My.spared
    BY <1>0, <1>1 DEF Record, Status
  <2>2. Save([mem EXCEPT ![Me] = r])
    BY <1>6
  <2>3. s \in Steps /\ At(s)
    BY <1>6 DEF Steps
  <2>4. job'.at = s /\ job'.req = job.req /\ job'.left = job.left /\ job' \in Job
    BY <2>3, AtStep
  <2>5. ~(My.tunnel # NoTunnel /\ tunnels[My.tunnel].live) => OwnsNone
    <3> SUFFICES ASSUME My.tunnel # NoTunnel, ~tunnels[My.tunnel].live PROVE OwnsNone
      OBVIOUS
    <3> QED
      BY <1>0 DEF OwnsNone, Owns, Sound, Housed
  <2> HIDE DEF r
  <2>6. "reclaiming" \in Working
    BY DEF Working
  <2>7. UNCHANGED cloud /\ UNCHANGED <<queue, answers, clientVars>> /\ UNCHANGED fails /\ job.at # "idle"
    BY <1>2
  <2>8. /\ db'[Me] = r /\ mem' = db' /\ \A i \in Installation : i # Me => mem'[i] = mem[i]
        /\ (Placed' /\ Listed' /\ job' \in Job => IInv')
    BY <1>0, <2>1, <2>2, <2>4, <2>6, <2>7, Judged
  <2>9. tunnels' = tunnels /\ Me' = Me /\ My' = r /\ db'[Me] = r
    BY <2>4, <2>8 DEF cloud, Me, My
  <2>10. Placed'
    BY <1>0, <2>1, <2>4, <2>5, <2>9 DEF Placed, AtReclaim, AtUnname, OwnsNone, Owns
  <2>11. Listed'
    BY <1>0, <2>4, <2>8 DEF IInv, Store, Listed, Me, Working, TypeOK, Job
  <2> QED
    BY <2>4, <2>8, <2>10, <2>11
<1> QED
  BY <1>4, <1>5, <1>6 DEF Judge, My, since

LEMMA LookKeeps == ASSUME IInv, Look, UNCHANGED clientVars PROVE IInv'
<1>0. job.at = "look" /\ queue' = queue
  BY DEF Look, Read, Call
<1>1. ASSUME UNCHANGED cloud, Judge(mem, tunnels[My.tunnel].live /\ tunnels[My.tunnel].up), UNCHANGED fails
      PROVE  IInv'
  <2> DEFINE connected == tunnels[My.tunnel].live /\ tunnels[My.tunnel].up
  <2>1. My.tunnel \in Tunnel /\ job.req.kind = "sweep" /\ My.tunnel # NoTunnel
    BY <1>0, InHand, RecordFields DEF Placed, AtLook
  <2>2. connected \in BOOLEAN
    OBVIOUS
  <2>3. UNCHANGED <<queue, fails, cloud, clientVars>>
    BY <1>0, <1>1
  <2>4. Judge(mem, connected)
    BY <1>1
  <2>5. connected => My.tunnel \in Tunnel /\ tunnels[My.tunnel].live /\ tunnels[My.tunnel].up
    BY <2>1
  <2> HIDE DEF connected
  <2> QED
    BY <1>0, <2>1, <2>2, <2>3, <2>4, <2>5, JudgeKeeps
<1>2. CASE fails < MaxFails /\ fails' = fails + 1 /\ UNCHANGED cloud /\ Throw
  BY <1>0, <1>2, CloudAsIs, Throws, MoreFails
<1> QED
  BY <1>0, <1>1, <1>2 DEF Look, Read, Call

\* A removal begins: of a record with the tunnel it is known to have, if any.
LEMMA DeletingSound ==
  ASSUME NEW i \in Installation, NEW r \in Record, NEW s \in Record, NEW T,
         NEW D \in SUBSET (Hostname \X Tunnel),
         Sound(i, r, T, D), r.status \in Status \ {"none", "deleted"},
         s.status = "deleting", s.host = r.host, s.previous = r.previous, s.retired = r.retired,
         s.tunnel = r.tunnel,
         r.status \in {"reclaimed", "deleting"} \/ r.tunnel # NoTunnel \/ \A u \in Tunnel : ~Owns(i, u, T)
  PROVE  /\ Sound(i, s, T, D) /\ Names(s) = Names(r) /\ Kept(s, T, D)
         /\ Holds(s) => r.tunnel # NoTunnel
<1>1. WellNamed(i, s) /\ Names(s) = Names(r)
  BY SameNames DEF Sound
<1>2. Housed(i, s, T)
  BY DEF Sound, Housed, Empty
<1>3. Pointed(i, s, T, D)
  <2> SUFFICES ASSUME NEW d \in D, T[d[2]].owner = i
               PROVE  Holds(s) /\ s.tunnel = d[2] /\ d[1] \in {s.host, s.previous}
    BY DEF Pointed
  <2>1. Holds(r) /\ r.tunnel = d[2] /\ d[1] \in {r.host, r.previous}
    BY DEF Sound, Pointed
  <2>2. r.tunnel # NoTunnel
    BY <2>1, AllocatorConstants
  <2> QED
    BY <2>1, <2>2 DEF Holds, Registered
<1> QED
  BY <1>1, <1>2, <1>3 DEF Sound, Kept, Holds

LEMMA FindKeeps == ASSUME IInv, Find, UNCHANGED clientVars PROVE IInv'
<1>0. job.at = "find" /\ queue' = queue
  BY DEF Find, Read, Call
<1>1. CASE fails < MaxFails /\ fails' = fails + 1 /\ UNCHANGED cloud /\ Throw
  BY <1>0, <1>1, CloudAsIs, Throws, MoreFails
<1>2. /\ My = db[Me] /\ Me \in Installation /\ My \in Record /\ My.tunnel = NoTunnel
      /\ TypeOK /\ Copies /\ Sound(Me, My, tunnels, dns) /\ AtFind
      /\ mem \in [Installation -> Record] /\ tunnels \in [Tunnel -> TunnelState]
      /\ dns \in SUBSET (Hostname \X Tunnel) /\ My = mem[Me] /\ job \in Job
  BY <1>0, InHand DEF Placed, AtFind, My
<1>3. ASSUME UNCHANGED cloud PROVE CloudStep /\ tunnels' = tunnels /\ dns' = dns
  BY <1>3, CloudAsIs DEF cloud
<1>4. My.status \in Status
  BY <1>2, RecordFields
\* What has been found.
<1> DEFINE Candidates == IF Named = {} THEN {NoTunnel} ELSE Named
           r(t) == [My EXCEPT !.tunnel = t]
<1>5. ASSUME NEW t \in Candidates
      PROVE  /\ r(t) \in Record /\ r(t).tunnel = t /\ r(t).status = My.status
             /\ r(t).host = My.host /\ r(t).previous = My.previous /\ r(t).retired = My.retired
             /\ Sound(Me, r(t), tunnels, dns) /\ Names(r(t)) = Names(My)
             /\ t = NoTunnel => OwnsNone /\ r(t) = My
             /\ t # NoTunnel => /\ t \in Tunnel /\ Owns(Me, t, tunnels) /\ r(t) = Found(Me, t)
                                /\ My.status \in {"provisioning", "reclaiming"}
  <2>1. CASE t = NoTunnel
    <3>1. OwnsNone
      <4>1. Named = {}
        BY <2>1, AllocatorConstants DEF Named
      <4> QED
        BY <4>1 DEF Named, OwnsNone, Owns
    <3>2. r(t) = My
      BY <1>2, <2>1 DEF Record
    <3> QED
      BY <1>2, <2>1, <3>1, <3>2
  <2>2. CASE t # NoTunnel
    <3>1. t \in Tunnel /\ Owns(Me, t, tunnels)
      BY <2>2 DEF Named, Owns
    <3>2. r(t) = Found(Me, t)
      BY <1>2 DEF Found
    <3>3. /\ r(t) \in Record /\ r(t).tunnel = t /\ r(t).status = My.status
          /\ r(t).host = My.host /\ r(t).previous = My.previous /\ r(t).retired = My.retired
      BY <1>2, <3>1 DEF Record
    <3>4. /\ Sound(Me, Found(Me, t), tunnels, dns) /\ Names(Found(Me, t)) = Names(My)
          /\ My.status \in {"provisioning", "reclaiming"}
      <4>1. /\ TypeOK /\ Me \in Installation /\ t \in Tunnel
            /\ tunnels \in [Tunnel -> TunnelState] /\ dns \in SUBSET (Hostname \X Tunnel)
            /\ Sound(Me, db[Me], tunnels, dns) /\ db[Me].tunnel = NoTunnel /\ Owns(Me, t, tunnels)
            /\ My = db[Me]
        BY <1>2, <3>1
      <4> QED
        BY ONLY <4>1, FoundIsSound
    <3> QED
      BY <2>2, <3>1, <3>2, <3>3, <3>4
  <2> QED
    BY <2>1, <2>2
<1> HIDE DEF r, Candidates
<1>6. ASSUME UNCHANGED cloud, NEW t \in Candidates, UNCHANGED fails,
             job.req.kind = "put", My.status # "deleting",
             Save([mem EXCEPT ![Me] = r(t)]), At(PutAt(r(t))), UNCHANGED answers
      PROVE  IInv'
  <2>1. My.status = "provisioning" /\ Holds(My) /\ ~Kept(My, tunnels, dns) /\ r(t).status = "provisioning"
    BY <1>2, <1>5, <1>6 DEF AtFind, Holds, Registered, Kept
  <2>2. PutAt(r(t)) = IF t = NoTunnel THEN "create" ELSE "route"
    BY <1>5, <2>1 DEF PutAt
  <2>3. PutAt(r(t)) \in Steps
    BY <2>2 DEF Steps
  <2>4. job'.at = PutAt(r(t)) /\ job'.req = job.req /\ job'.left = job.left /\ job' \in Job
    BY <1>6, <2>3, AtStep
  <2>5. Proceeds
    BY <1>0, <1>6, <2>4 DEF Proceeds, clientVars
  <2>6. /\ db'[Me] = r(t) /\ mem' = db'
        /\ (Placed' /\ Listed' /\ job' \in Job /\ fails' \in 0..MaxFails => IInv')
    <3>1. /\ CloudStep /\ Me \in Installation /\ Save([mem EXCEPT ![Me] = r(t)])
          /\ mem[Me] = My
      BY <1>2, <1>3, <1>6
    <3>2. r(t) \in Record /\ Sound(Me, r(t), tunnels', dns') /\ Names(r(t)) = Names(My)
      BY <1>3, <1>5, <1>6
    <3>3. ~Kept(My, tunnels', dns') /\ Holds(My)
      BY <1>3, <1>6, <2>1
    <3> QED
      BY ONLY IInv, <2>5, <3>1, <3>2, <3>3, Saves
  <2>7. job.left = {} /\ Listed'
    BY <1>6, <2>4 DEF IInv, Store, Listed
  <2>8. Me' = Me /\ My' = r(t) /\ tunnels' = tunnels
    BY <1>3, <1>6, <2>4, <2>6 DEF Me, My
  <2>9. Placed'
    <3>1. CASE t = NoTunnel
      BY <1>2, <1>5, <1>6, <2>1, <2>2, <2>4, <2>8, <3>1 DEF Placed, OwnsNone, Owns
    <3>2. CASE t # NoTunnel
      BY <1>2, <1>5, <1>6, <2>1, <2>2, <2>4, <2>8, <3>2 DEF Placed
    <3> QED
      BY <3>1, <3>2
  <2> QED
    BY <1>6, <2>4, <2>6, <2>7, <2>9, SameFails
<1>7. ASSUME UNCHANGED cloud, NEW t \in Candidates, UNCHANGED fails,
             job.req.kind = "put", My.status = "deleting",
             Save([mem EXCEPT ![Me] = r(t)]), Reply(Answer("gone"))
      PROVE  IInv'
  <2>1. t = NoTunnel
    BY <1>5, <1>7
  <2>2. r(t) = My /\ Sound(Me, My, tunnels, dns) /\ r(t) \in Record
    BY <1>2, <1>5, <2>1
  <2>3. job' = Idle /\ Tell(job.req.from, Answer("gone"))
    BY <1>7 DEF Reply
  <2>4. Answer("gone") \in Assignment /\ Answer("gone").res # "ok"
    BY DEF Answer, Assignment
  <2>5. Proceeds
    BY <1>0, <2>3, <2>4 DEF Proceeds, clientVars
  <2>6. Placed' /\ Listed' /\ job' \in Job /\ fails' \in 0..MaxFails
    BY <1>7, <2>3, IdlePlaced, SameFails
  <2> QED
    BY <1>2, <1>3, <1>5, <1>7, <2>2, <2>5, <2>6, Saves
<1>8. ASSUME UNCHANGED cloud, NEW t \in Candidates, UNCHANGED fails,
             job.req.kind = "delete",
             Save([mem EXCEPT ![Me] = [r(t) EXCEPT !.status = "deleting"]]),
             At("unname"), UNCHANGED answers
      PROVE  IInv'
  <2> DEFINE s == [r(t) EXCEPT !.status = "deleting"]
  <2>1. /\ s \in Record /\ s.status = "deleting" /\ s.host = r(t).host /\ s.previous = r(t).previous
        /\ s.retired = r(t).retired /\ s.tunnel = r(t).tunnel
    BY <1>5 DEF Record, Status
  <2>2. My.status \in Status \ {"none", "deleted"} /\ Registered(My)
    BY <1>2, <1>4, <1>8 DEF AtFind, Registered
  <2> HIDE DEF s
  <2>3. r(t).tunnel # NoTunnel \/ \A u \in Tunnel : ~Owns(Me, u, tunnels)
    BY <1>5 DEF OwnsNone
  <2>4. /\ Sound(Me, s, tunnels, dns) /\ Names(s) = Names(My) /\ Kept(s, tunnels, dns)
        /\ Holds(s) => t # NoTunnel
    BY <1>2, <1>5, <2>1, <2>2, <2>3, DeletingSound
  <2>5. Holds(s) => Holds(My)
    BY <1>5, <2>2, <2>4 DEF Holds
  <2>6. job'.at = "unname" /\ job'.req = job.req /\ job'.left = job.left /\ job' \in Job
    BY <1>8, AtStep DEF Steps
  <2>7. Proceeds
    BY <1>0, <1>8, <2>6 DEF Proceeds, clientVars
  <2>8. /\ db'[Me] = s /\ mem' = db'
        /\ (Placed' /\ Listed' /\ job' \in Job /\ fails' \in 0..MaxFails => IInv')
    BY <1>2, <1>3, <1>8, <2>1, <2>4, <2>5, <2>7, Saves DEF s
  <2>9. Listed'
    BY <1>8, <2>6 DEF IInv, Store, Listed
  <2>10. Me' = Me /\ My' = s /\ db'[Me] = s
    BY <2>6, <2>8 DEF Me, My
  <2>11. Placed'
    BY <1>2, <1>8, <2>1, <2>6, <2>10 DEF Placed, AtUnname
  <2> QED
    BY <1>8, <2>6, <2>8, <2>9, <2>11, SameFails
<1>9. ASSUME UNCHANGED cloud, NEW t \in Candidates, UNCHANGED fails,
             job.req.kind = "sweep", t # NoTunnel,
             mem' = [mem EXCEPT ![Me] = r(t)], At("look"), UNCHANGED <<db, given, answers>>
      PROVE  IInv'
  <2>1. job'.at = "look" /\ job'.req = job.req /\ job'.left = job.left /\ job' \in Job
    BY <1>9, AtStep DEF Steps
  <2>2. CloudStep /\ tunnels' = tunnels /\ dns' = dns
    BY <1>3, <1>9
  <2>3. Sounds' /\ Apart' /\ Given' /\ Few'
    BY <1>9, <2>2, NotStored DEF IInv, Store
  <2>4. /\ mem' \in [Installation -> Record] /\ mem'[Me] = Found(Me, t) /\ Owns(Me, t, tunnels)
        /\ t \in Tunnel
        /\ \A i \in Installation : i # Me => mem'[i] = mem[i]
    BY <1>2, <1>5, <1>9
  <2>5. Copies'
    <3> SUFFICES ASSUME NEW i \in Installation
                 PROVE  \/ mem'[i] = db[i]
                        \/ /\ db[i].tunnel = NoTunnel
                           /\ \E u \in Tunnel : mem'[i] = Found(i, u) /\ Owns(i, u, tunnels)
      BY <1>9, <2>1, <2>2 DEF Copies, Found
    <3>1. CASE i = Me
      BY <1>2, <2>4, <3>1
    <3>2. CASE i # Me
      BY <1>2, <2>4, <3>2 DEF Copies
    <3> QED
      BY <3>1, <3>2
  <2>6. Proceeds
    BY <1>0, <1>9, <2>1 DEF Proceeds, clientVars
  <2>7. Me' = Me /\ My' = r(t)
    BY <1>2, <1>9, <2>1 DEF Me, My
  <2>8. Placed'
    BY <1>2, <1>5, <1>9, <2>1, <2>7 DEF Placed, AtLook, AtFind
  <2>9. Listed'
    BY <1>2, <2>1, <2>4, <2>7 DEF IInv, Store, Listed, TypeOK, Job, Working
  <2>10. /\ db' \in [Installation -> Record] /\ given' \subseteq Hostname \X Installation
         /\ fails' \in 0..MaxFails
    BY <1>9, SameFails DEF IInv, TypeOK
  <2>11. \A i \in Installation : Kept(db[i], tunnels, dns) => Kept(db'[i], tunnels', dns')
    BY <1>9, <2>2 DEF CloudStep
  <2> QED
    BY <2>1, <2>2, <2>3, <2>4, <2>5, <2>6, <2>8, <2>9, <2>10, <2>11, Advances
<1>10. ASSUME UNCHANGED cloud, NEW t \in Candidates, UNCHANGED fails,
              job.req.kind = "sweep", t = NoTunnel, Judge([mem EXCEPT ![Me] = r(t)], FALSE)
       PROVE  IInv'
  <2>1. r(t) = My /\ OwnsNone
    BY <1>5, <1>10
  <2>2. [mem EXCEPT ![Me] = r(t)] = mem
    BY <1>2, <2>1
  <2>3. Judge(mem, FALSE)
    BY <1>10, <2>2
  <2>4. UNCHANGED <<queue, fails, cloud, clientVars>>
    BY <1>0, <1>10
  <2> QED
    BY <1>0, <1>10, <2>1, <2>3, <2>4, JudgeKeeps
<1>11. ASSUME UNCHANGED cloud, UNCHANGED fails,
              NEW t \in Candidates, NEW found, found = [mem EXCEPT ![Me].tunnel = t],
              \/ /\ job.req.kind = "put" /\ My.status # "deleting"
                 /\ Save(found) /\ At(PutAt(found[Me])) /\ UNCHANGED answers
              \/ /\ job.req.kind = "put" /\ My.status = "deleting"
                 /\ Save(found) /\ Reply(Answer("gone"))
              \/ /\ job.req.kind = "delete"
                 /\ Save([found EXCEPT ![Me].status = "deleting"])
                 /\ At("unname") /\ UNCHANGED answers
              \/ /\ job.req.kind = "sweep" /\ t # NoTunnel
                 /\ mem' = found /\ At("look") /\ UNCHANGED <<db, given, answers>>
              \/ /\ job.req.kind = "sweep" /\ t = NoTunnel
                 /\ Judge(found, FALSE)
       PROVE  IInv'
  <2>1. found = [mem EXCEPT ![Me] = r(t)]
    BY <1>11 DEF r, My
  <2>2. found[Me] = r(t)
    BY <1>2, <2>1
  <2>3. [found EXCEPT ![Me].status = "deleting"] = [mem EXCEPT ![Me] = [r(t) EXCEPT !.status = "deleting"]]
    BY <1>2, <2>1, <2>2
  <2> QED
    BY <1>6, <1>7, <1>8, <1>9, <1>10, <1>11, <2>1, <2>2, <2>3
<1>12. CASE /\ UNCHANGED cloud /\ UNCHANGED fails
            /\ \E t \in IF Named = {} THEN {NoTunnel} ELSE Named :
                 LET found == [mem EXCEPT ![Me].tunnel = t] IN
                 \/ /\ job.req.kind = "put" /\ My.status # "deleting"
                    /\ Save(found) /\ At(PutAt(found[Me])) /\ UNCHANGED answers
                 \/ /\ job.req.kind = "put" /\ My.status = "deleting"
                    /\ Save(found) /\ Reply(Answer("gone"))
                 \/ /\ job.req.kind = "delete"
                    /\ Save([found EXCEPT ![Me].status = "deleting"])
                    /\ At("unname") /\ UNCHANGED answers
                 \/ /\ job.req.kind = "sweep" /\ t # NoTunnel
                    /\ mem' = found /\ At("look") /\ UNCHANGED <<db, given, answers>>
                 \/ /\ job.req.kind = "sweep" /\ t = NoTunnel
                    /\ Judge(found, FALSE)
  BY <1>11, <1>12 DEF Candidates
<1> QED
  BY <1>1, <1>12 DEF Find, Read, Call

LEMMA CallsKeep == ASSUME IInv, Calls, UNCHANGED clientVars PROVE IInv'
BY FindKeeps, LookKeeps, CreateKeeps, RouteKeeps, NameKeeps, LeaveKeeps, TokenKeeps,
   UnnameKeeps, RevokeKeeps, DisconnectKeeps, DestroyKeeps DEF Calls

-----------------------------------------------------------------------------
(* A request is taken from the queue.                                      *)

LEMMA TailFacts ==
  ASSUME TypeOK, queue # <<>>
  PROVE  /\ Head(queue) \in Request /\ Head(queue) = queue[1] /\ 1 \in DOMAIN queue
         /\ Tail(queue) \in Seq(Request)
         /\ \A k \in DOMAIN Tail(queue) :
              k \in Nat \ {0} /\ k + 1 \in DOMAIN queue /\ Tail(queue)[k] = queue[k + 1]
         /\ \A k \in DOMAIN queue : queue[k] \in Request
<1>1. queue \in Seq(Request)
  BY DEF TypeOK
<1> QED
  BY <1>1

LEMMA ClientsTaken ==
  ASSUME TypeOK, Clients, job = Idle, queue # <<>>, queue' = Tail(queue),
         UNCHANGED <<identity, run, rm, config, orphans, tunnels, dns>>,
         \/ job'.req = Head(queue) /\ UNCHANGED answers
         \/ job' = Idle /\ \E a \in Assignment : Tell(Head(queue).from, a) /\ a.res # "ok",
         \A i \in Installation :
           IsPut(Head(queue), i) \/ (Kept(db[i], tunnels, dns) => Kept(db'[i], tunnels, dns))
  PROVE  Clients' /\ answers' \in [Client -> Assignment] /\ queue' \in Seq(Request)
<1> DEFINE req == Head(queue)
<1>0. /\ identity' = identity /\ run' = run /\ rm' = rm /\ tunnels' = tunnels /\ dns' = dns
      /\ job'.req = req \/ (job'.req.kind = "sweep" /\ job'.req.from = Nobody)
  BY IdleJob
<1>t. /\ req \in Request /\ req = queue[1] /\ 1 \in DOMAIN queue
      /\ queue' \in Seq(Request)
      /\ \A k \in DOMAIN queue' :
           k \in Nat \ {0} /\ k + 1 \in DOMAIN queue /\ queue'[k] = queue[k + 1]
  BY TailFacts
<1>a. /\ answers' \in [Client -> Assignment]
      /\ \A m \in Machine :
           \/ answers'[Asks(m)] = answers[Asks(m)]
           \/ (req.from = Asks(m) /\ job' = Idle /\ answers'[Asks(m)].res # "ok")
  <2>1. CASE UNCHANGED answers
    BY <2>1 DEF TypeOK
  <2>2. ASSUME NEW a \in Assignment, job' = Idle, Tell(req.from, a), a.res # "ok"
        PROVE  \A m \in Machine :
                 \/ answers'[Asks(m)] = answers[Asks(m)]
                 \/ (req.from = Asks(m) /\ job' = Idle /\ answers'[Asks(m)].res # "ok")
    <3>1. CASE req.from = Nobody
      <4>1. answers' = answers
        BY <2>2, <3>1 DEF Tell
      <4> QED
        BY <4>1
    <3>2. CASE req.from # Nobody
      <4>1. answers' = [answers EXCEPT ![req.from] = a]
        BY <2>2, <3>2 DEF Tell
      <4> HIDE DEF req
      <4> QED
        BY <2>2, <4>1, Askers DEF TypeOK
    <3> QED
      BY <3>1, <3>2
  <2>3. ASSUME NEW a \in Assignment, job' = Idle, Tell(req.from, a), a.res # "ok"
        PROVE  answers' \in [Client -> Assignment]
    <3>1. answers' = answers \/ answers' = [answers EXCEPT ![req.from] = a]
      BY <2>3 DEF Tell
    <3> HIDE DEF req
    <3> QED
      BY <2>3, <3>1 DEF TypeOK
  <2> QED
    BY <2>1, <2>2, <2>3
<1> HIDE DEF req
<1>b. \A m \in Machine : Promised(m)' => Promised(m) /\ answers'[Asks(m)] = answers[Asks(m)]
  BY <1>0, <1>a DEF Promised, Asks
<1>q. \A m \in Machine : \A k \in DOMAIN queue :
        /\ AskedIn(m, queue[k], run, answers)
        /\ queue[k].from = Asks(m) => \A l \in DOMAIN queue : l > k => ~IsPut(queue[l], queue[k].who)
  BY DEF Clients, Queued, Asked
<1>2. OneEach'
  BY <1>0 DEF Clients, OneEach, Ids
<1>3. Wanted'
  BY <1>t DEF Clients, Wanted
\* The others of the queue are not the machine's of the request that is taken.
<1>4. ASSUME NEW m \in Machine, NEW k \in DOMAIN queue', req.from = Asks(m)
      PROVE  ~IsPut(queue'[k], req.who) /\ queue'[k].from # Asks(m)
  <2>1. k + 1 > 1 /\ k + 1 \in DOMAIN queue /\ queue'[k] = queue[k + 1] /\ req = queue[1]
    BY <1>t
  <2>2. ~IsPut(queue[k + 1], queue[1].who)
    BY <1>4, <1>q, <1>t, <2>1
  <2>3. queue[k + 1].from = Asks(m) => IsPut(queue[k + 1], queue[1].who)
    BY <1>4, <1>q, <1>t, <2>1 DEF AskedIn, IsPut
  <2> QED
    BY <2>1, <2>2, <2>3
<1>5. Queued'
  <2> SUFFICES ASSUME NEW m \in Machine
               PROVE  /\ AskedIn(m, job'.req, run', answers')
                      /\ job'.req.from = Asks(m) =>
                           \A k \in DOMAIN queue' : ~IsPut(queue'[k], job'.req.who) /\ queue'[k].from # Asks(m)
                      /\ \A k \in DOMAIN queue' :
                           /\ AskedIn(m, queue'[k], run', answers')
                           /\ queue'[k].from = Asks(m) =>
                                \A l \in DOMAIN queue' : l > k => ~IsPut(queue'[l], queue'[k].who)
    BY DEF Queued, Me, Asks, IsPut, Asked, AskedIn
  <2>1. AskedIn(m, job'.req, run', answers')
    <3>1. CASE job'.req.from = Nobody
      BY <3>1, Askers DEF AskedIn
    <3>2. CASE job'.req = req /\ job'.req.from # Nobody
      <4>1. answers' = answers
        BY <3>2, IdleJob
      <4> QED
        BY <1>0, <1>q, <1>t, <3>2, <4>1
    <3> QED
      BY <1>0, <3>1, <3>2
  <2>2. job'.req.from = Asks(m) =>
          \A k \in DOMAIN queue' : ~IsPut(queue'[k], job'.req.who) /\ queue'[k].from # Asks(m)
    BY <1>0, <1>4, Askers
  <2>3. ASSUME NEW k \in DOMAIN queue' PROVE AskedIn(m, queue'[k], run', answers')
    <3>1. AskedIn(m, queue'[k], run, answers)
      BY <1>t, <1>q
    <3>2. queue'[k].from = Asks(m) => answers'[Asks(m)] = answers[Asks(m)]
      BY <1>4, <1>a
    <3> QED
      BY <1>0, <3>1, <3>2 DEF AskedIn
  <2>4. ASSUME NEW k \in DOMAIN queue', NEW l \in DOMAIN queue', l > k, queue'[k].from = Asks(m)
        PROVE  ~IsPut(queue'[l], queue'[k].who)
    <3>1. k + 1 \in DOMAIN queue /\ l + 1 \in DOMAIN queue /\ l + 1 > k + 1
          /\ queue'[k] = queue[k + 1] /\ queue'[l] = queue[l + 1]
      BY <1>t, <2>4
    <3> QED
      BY <1>q, <2>4, <3>1
  <2> QED
    BY <2>1, <2>2, <2>3, <2>4
<1>6. Leads'
  BY <1>0, <1>b DEF Clients, Leads, Runs, Promised, Asks
<1>7. Connected'
  BY <1>0 DEF Clients, Connected, Runs
<1>8. Served'
  <2> SUFFICES ASSUME NEW m \in Machine, NEW i \in Installation, Serves(m, i)'
               PROVE  ~Waiting(i)' /\ Kept(db'[i], tunnels', dns')
    BY DEF Served, Kept, Routed
  <2>1. Serves(m, i)
    BY <1>0, <1>b DEF Serves, Runs
  <2>2. ~Waiting(i) /\ Kept(db[i], tunnels, dns)
    BY <2>1 DEF Clients, Served
  <2>3. ~IsPut(req, i)
    BY <1>t, <2>2 DEF Waiting
  <2>4. ~IsPut(job'.req, i)
    BY <1>0, <2>3 DEF IsPut
  <2>5. \A k \in DOMAIN queue' : ~IsPut(queue'[k], i)
    BY <1>t, <2>2 DEF Waiting
  <2>6. ~Waiting(i)'
    BY <2>4, <2>5 DEF Waiting, IsPut
  <2> QED
    BY <1>0, <2>2, <2>3, <2>6 DEF req
<1>9. Silent'
  <2>1. \A m \in Machine : req.from = Asks(m) => run[m].at = "asking"
    BY <1>q, <1>t DEF AskedIn
  <2> QED
    BY <1>0, <1>a, <2>1 DEF Clients, Silent, Asks
<1> QED
  BY <1>a, <1>t, <1>2, <1>3, <1>5, <1>6, <1>7, <1>8, <1>9 DEF Clients

-----------------------------------------------------------------------------
(* What a PUT makes of a record.                                           *)

\* A record that installation i may have from now on.
Fits(i, s) ==
  /\ s \in Record /\ Sound(i, s, tunnels, dns) /\ Enrolled(s) /\ s.tunnel = db[i].tunnel
  /\ Names(db[i]) \subseteq Names(s)
  /\ \A j \in Installation : j # i => Names(s) \cap Names(db[j]) = {}

LEMMA FreshName ==
  ASSUME Free # {}
  PROVE  NewName \in ShortName /\ NewName \in Hostname /\ NewName # NoName
         /\ (\A j \in Installation : NewName \notin Names(db[j])) /\ \A j : NewName # Legacy(j)
<1>1. PICK n \in Free : NewName = Short(n)
  BY DEF NewName
<1>2. n \in 1..MaxShort /\ \A j \in Installation : Short(n) \notin Names(db[j])
  BY <1>1 DEF Free
<1>3. Short(n) \in ShortName /\ Short(n) \in Hostname
  BY <1>2 DEF ShortName, Hostname
<1>4. Short(n) # NoName
  BY <1>3, AllocatorConstants
<1> QED
  BY <1>1, <1>2, <1>3, <1>4, NamesDiffer

LEMMA LegacyName ==
  ASSUME NEW i \in Installation
  PROVE  Legacy(i) \in Hostname /\ Legacy(i) # NoName /\ Legacy(i) \notin ShortName
<1>1. Legacy(i) \in Hostname
  BY DEF Hostname
<1> QED
  BY <1>1, NamesDiffer, AllocatorConstants DEF ShortName

LEMMA EnrolledFits ==
  ASSUME IInv, NEW i \in Installation, Enrolled(db[i])
  PROVE  Fits(i, db[i])
BY DEF IInv, Store, TypeOK, Sounds, Apart, Fits

LEMMA ReserveFits ==
  ASSUME IInv, NEW i \in Installation, NEW p \in Port \cup {0},
         db[i].status \in {"none", "reclaimed"}, db[i].host # NoName \/ Free # {}
  PROVE  Fits(i, Reserve(db[i], p))
<1> DEFINE r == db[i]
           h == IF r.host = NoName THEN NewName ELSE r.host
           s == [Blank EXCEPT !.status = "provisioning", !.port = p, !.idle = 0, !.retired = r.retired, !.host = h]
<1>1. r \in Record /\ Sound(i, r, tunnels, dns) /\ WellNamed(i, r) /\ Housed(i, r, tunnels)
      /\ Pointed(i, r, tunnels, dns)
  BY DEF IInv, Store, TypeOK, Sounds, Sound
<1>2. /\ h \in Hostname /\ h # NoName
      /\ h = r.host \/ (r.host = NoName /\ Free # {} /\ h = NewName)
  BY <1>1, FreshName, RecordFields
<1>3. Reserve(r, p) = s
  BY DEF Reserve
<1>4. r.previous = NoName /\ r.tunnel = NoTunnel /\ Empty(r) /\ ~Holds(r) /\ r.retired \subseteq Hostname
  BY <1>1, RecordFields DEF WellNamed, Housed, Empty, Holds, Registered
<1> HIDE DEF h
<1>5. /\ s \in Record /\ s.status = "provisioning" /\ s.host = h /\ s.previous = NoName
      /\ s.retired = r.retired /\ s.port = p /\ s.tunnel = NoTunnel
  <2>1. 0 \in Unset..Grace
    BY AllocatorConstants DEF Unset
  <2> QED
    BY <1>2, <1>4, <2>1 DEF Record, Status, Blank
<1> HIDE DEF s
<1>6. Names(r) \subseteq Names(s) /\ Names(s) \subseteq Names(r) \cup {h}
  BY <1>2, <1>4, <1>5 DEF Names
<1>7. h \in Names(r) \/ ((\A j \in Installation : h \notin Names(db[j])) /\ \A j : h # Legacy(j))
  BY <1>2, FreshName DEF Names
<1>8. WellNamed(i, s)
  BY <1>1, <1>2, <1>5, <1>6, <1>7 DEF WellNamed
<1>9. \A j \in Installation : j # i => Names(s) \cap Names(db[j]) = {}
  BY <1>6, <1>7 DEF IInv, Store, Apart
<1>10. Housed(i, s, tunnels)
  BY <1>1, <1>4, <1>5 DEF Housed, Empty
<1>11. Pointed(i, s, tunnels, dns)
  BY <1>1, <1>4 DEF Pointed
<1>12. Sound(i, s, tunnels, dns) /\ Enrolled(s)
  BY <1>5, <1>8, <1>10, <1>11 DEF Sound, Enrolled
<1> QED
  BY <1>3, <1>4, <1>5, <1>6, <1>9, <1>12 DEF Fits

LEMMA MigrateFits ==
  ASSUME IInv, NEW i \in Installation, NEW r, Fits(i, r), NEW short \in BOOLEAN,
         short => Free # {} \/ r.host \in ShortName
  PROVE  Fits(i, Migrate(i, r, short))
<1> DEFINE h == IF short THEN NewName ELSE Legacy(i)
           s == [r EXCEPT !.retired = @ \cup {r.host}, !.previous = r.host, !.status = "provisioning", !.host = h]
<1>1. CASE ~Moves(r, i, short)
  BY <1>1 DEF Migrate
<1>2. CASE Moves(r, i, short)
  <2>1. /\ r \in Record /\ Sound(i, r, tunnels, dns) /\ WellNamed(i, r) /\ Housed(i, r, tunnels)
        /\ Pointed(i, r, tunnels, dns) /\ Enrolled(r) /\ r.previous = NoName
    BY <1>2 DEF Fits, Sound, Moves
  <2>2. Migrate(i, r, short) = s
    BY <1>2 DEF Migrate
  <2>3. r.host \in Hostname /\ r.host # NoName /\ r.retired \subseteq Hostname
    BY <2>1, RecordFields DEF WellNamed, Enrolled
  <2>4. /\ h \in Hostname /\ h # NoName /\ h # r.host
        /\ \/ h = Legacy(i)
           \/ (\A j \in Installation : h \notin Names(db[j])) /\ \A j : h # Legacy(j)
    <3>1. CASE short
      BY <1>2, <3>1, FreshName DEF Moves
    <3>2. CASE ~short
      BY <1>2, <3>2, LegacyName DEF Moves
    <3> QED
      BY <3>1, <3>2
  <2> HIDE DEF h
  <2>5. /\ s \in Record /\ s.status = "provisioning" /\ s.host = h /\ s.previous = r.host
        /\ s.retired = r.retired \cup {r.host} /\ s.port = r.port /\ s.tunnel = r.tunnel
    BY <2>1, <2>3, <2>4 DEF Record, Status
  <2> HIDE DEF s
  <2>6. Names(r) \subseteq Names(s) /\ Names(s) \subseteq Names(r) \cup {h}
    BY <2>1, <2>3, <2>5 DEF Names
  <2>7. WellNamed(i, s)
    BY <2>1, <2>3, <2>4, <2>5, <2>6, NamesDiffer DEF WellNamed
  <2>8. ASSUME NEW j \in Installation, j # i PROVE Names(s) \cap Names(db[j]) = {}
    <3>1. Names(r) \cap Names(db[j]) = {}
      BY <2>8 DEF Fits
    <3>2. h \notin Names(db[j])
      <4>1. WellNamed(j, db[j])
        BY DEF IInv, Store, Sounds, Sound
      <4> QED
        BY <2>4, <2>8, <4>1 DEF WellNamed
    <3> QED
      BY <2>6, <3>1, <3>2
  <2>9. Housed(i, s, tunnels)
    BY <2>1, <2>5 DEF Housed, Empty, Enrolled
  <2>10. Pointed(i, s, tunnels, dns)
    <3> SUFFICES ASSUME NEW d \in dns, tunnels[d[2]].owner = i
                 PROVE  Holds(s) /\ s.tunnel = d[2] /\ d[1] = s.previous
      BY DEF Pointed
    <3>1. d[1] \in Hostname
      BY DEF IInv, TypeOK
    <3>2. r.tunnel = d[2] /\ d[1] \in {r.host, r.previous}
      BY <2>1 DEF Pointed
    <3> QED
      BY <2>1, <2>5, <3>1, <3>2, AllocatorConstants DEF Holds, Registered
  <2>11. Sound(i, s, tunnels, dns) /\ Enrolled(s)
    BY <2>5, <2>7, <2>9, <2>10 DEF Sound, Enrolled
  <2> QED
    BY <2>2, <2>5, <2>6, <2>8, <2>11 DEF Fits
<1> QED
  BY <1>1, <1>2

LEMMA RepointFits ==
  ASSUME IInv, NEW i \in Installation, NEW r, Fits(i, r), NEW p \in Port \cup {0}
  PROVE  Fits(i, Touch(Repoint(r, p)))
<1>1. ASSUME NEW x, Fits(i, x), NEW s \in Record, s.host = x.host, s.previous = x.previous,
             s.retired = x.retired, s.tunnel = x.tunnel, s.spared = x.spared,
             s.status = "provisioning" \/ (s.status = x.status /\ s.port = x.port)
      PROVE  Fits(i, s)
  <2>1. /\ x \in Record /\ Sound(i, x, tunnels, dns) /\ WellNamed(i, x) /\ Housed(i, x, tunnels)
        /\ Pointed(i, x, tunnels, dns) /\ Enrolled(x)
    BY <1>1 DEF Fits, Sound
  <2>2. Enrolled(s) /\ x.status # "none" /\ s.status # "none" /\ s.status # "reclaimed"
        /\ (s.status = "ready" => x.status = "ready" /\ s.port = x.port)
    BY <1>1, <2>1 DEF Enrolled
  <2>3. WellNamed(i, s) /\ Names(s) = Names(x)
    BY <1>1, <2>1, <2>2, SameNames
  <2>4. Housed(i, s, tunnels)
    BY <1>1, <2>1, <2>2 DEF Housed, Empty, Enrolled
  <2>5. Pointed(i, s, tunnels, dns)
    BY <1>1, <2>1, <2>2 DEF Pointed, Holds, Registered, Enrolled
  <2>6. s.status = "ready" => Routed(s, tunnels, dns)
    BY <1>1, <2>1, <2>2 DEF Sound, Routed
  <2> QED
    BY <1>1, <2>2, <2>3, <2>4, <2>5, <2>6 DEF Fits, Sound
<1>2. Fits(i, Repoint(r, p))
  <2>1. CASE Enrolled(r) /\ r.port # p
    <3> DEFINE s == [r EXCEPT !.port = p, !.status = "provisioning"]
    <3>1. Repoint(r, p) = s
      BY <2>1 DEF Repoint
    <3>2. /\ s \in Record /\ s.host = r.host /\ s.previous = r.previous /\ s.retired = r.retired
          /\ s.tunnel = r.tunnel /\ s.status = "provisioning" /\ s.spared = r.spared
      BY DEF Fits, Record, Status
    <3> HIDE DEF s
    <3> QED
      BY <1>1, <3>1, <3>2
  <2>2. CASE ~(Enrolled(r) /\ r.port # p)
    BY <2>2 DEF Repoint
  <2> QED
    BY <2>1, <2>2
<1> DEFINE x == Repoint(r, p)
           s == [x EXCEPT !.idle = 0]
<1>3. Touch(x) = s
  BY <1>2 DEF Touch, Fits
<1> HIDE DEF x
<1>4. /\ s \in Record /\ s.host = x.host /\ s.previous = x.previous /\ s.retired = x.retired
      /\ s.tunnel = x.tunnel /\ s.status = x.status /\ s.port = x.port /\ s.spared = x.spared
  <2>1. 0 \in Unset..Grace /\ x \in Record
    BY <1>2, AllocatorConstants DEF Unset, Fits, x
  <2> QED
    BY <2>1 DEF Record
<1> HIDE DEF s
<1>5. Fits(i, s)
  BY <1>1, <1>2, <1>4 DEF x
<1> QED
  BY <1>3, <1>5 DEF x

LEMMA EnrollFits ==
  ASSUME IInv, NEW i \in Installation, NEW p \in Port \cup {0}, NEW short \in BOOLEAN,
         db[i].status \in {"none", "reclaimed", "ready", "provisioning"},
         db[i].status \in {"none", "reclaimed"} => db[i].host # NoName \/ Free # {},
         short => Free # {} \/ Reserve(db[i], p).host \in ShortName
  PROVE  Fits(i, Reserve(db[i], p)) /\ Fits(i, Enroll(i, db[i], p, short))
<1>1. Fits(i, Reserve(db[i], p))
  <2>1. CASE db[i].status \in {"none", "reclaimed"}
    BY <2>1, ReserveFits
  <2>2. CASE db[i].status \notin {"none", "reclaimed"}
    BY <2>2, EnrolledFits DEF Reserve, Enrolled
  <2> QED
    BY <2>1, <2>2
<1>2. Fits(i, Migrate(i, Reserve(db[i], p), short))
  BY <1>1, MigrateFits
<1> QED
  BY <1>1, <1>2, RepointFits DEF Enroll

LEMMA IdleFacts ==
  ASSUME IInv, job = Idle
  PROVE  /\ mem = db /\ \A i \in Installation : mem[i] = db[i]
         /\ db \in [Installation -> Record]
  BY IdleJob DEF IInv, Store, Copies, TypeOK

\* The frame of a request that is taken, and what is left to show of it.
Taking ==
  /\ job = Idle /\ queue # <<>>
  /\ queue' = Tail(queue) /\ UNCHANGED <<tunnels, dns, fails, clientVars>>
  /\ \/ job'.req = Head(queue) /\ UNCHANGED answers
     \/ job' = Idle /\ \E a \in Assignment : Tell(Head(queue).from, a) /\ a.res # "ok"
Owner == Head(queue).who

LEMMA TakenInHand ==
  ASSUME IInv, Taking
  PROVE  /\ Owner \in Installation /\ db[Owner] \in Record /\ Sound(Owner, db[Owner], tunnels, dns)
         /\ Head(queue).kind \in {"put", "delete"} /\ Head(queue).port \in Port \cup {0}
         /\ Head(queue).short \in BOOLEAN /\ Head(queue) \in Request
         /\ tunnels' = tunnels /\ dns' = dns /\ CloudStep /\ fails' = fails
<1>1. Head(queue) \in Request /\ Head(queue) = queue[1] /\ 1 \in DOMAIN queue
  BY TailFacts DEF IInv, Taking
<1>2. Owner \in Installation /\ Head(queue).kind \in {"put", "delete"}
  BY <1>1 DEF IInv, Clients, Wanted, Owner
<1>3. CloudStep
  BY CloudAsIs DEF Taking, cloud
<1> QED
  BY <1>1, <1>2, <1>3 DEF Request, IInv, TypeOK, Store, Sounds, Taking

LEMMA TakenUnsaved ==
  ASSUME IInv, Taking, UNCHANGED <<db, mem, given>>, Placed', Listed', job' \in Job
  PROVE  IInv'
<1>1. CloudStep /\ tunnels' = tunnels /\ dns' = dns /\ fails' = fails
  BY TakenInHand
<1>2. Clients' /\ answers' \in [Client -> Assignment] /\ queue' \in Seq(Request)
  <2>1. \A i \in Installation :
           IsPut(Head(queue), i) \/ (Kept(db[i], tunnels, dns) => Kept(db'[i], tunnels, dns))
    OBVIOUS
  <2>2. UNCHANGED <<identity, run, rm, config, orphans, tunnels, dns>>
    BY <1>1 DEF Taking, clientVars
  <2> QED
    BY <2>1, <2>2, ClientsTaken DEF IInv, Taking
<1>3. Sounds' /\ Owned' /\ Apart' /\ Given' /\ Few'
  BY <1>1, NotStored DEF IInv, Store
<1>4. Copies'
  BY IdleFacts DEF Copies, Taking
<1>5. TypeOK'
  BY <1>1, <1>2 DEF IInv, TypeOK, Taking, clientVars
<1> QED
  BY <1>2, <1>3, <1>4, <1>5 DEF IInv, Store

LEMMA TakenSaved ==
  ASSUME IInv, Taking, NEW s \in Record, Save([db EXCEPT ![Owner] = s]),
         Sound(Owner, s, tunnels, dns), Names(db[Owner]) \subseteq Names(s),
         \A i \in Installation : i # Owner => Names(s) \cap Names(db[i]) = {},
         Holds(s) => Holds(db[Owner]) \/ Cardinality(Members) < Capacity,
         Head(queue).kind = "put" \/ Kept(s, tunnels, dns)
  PROVE  /\ db'[Owner] = s /\ mem' = db'
         /\ (Placed' /\ Listed' /\ job' \in Job => IInv')
<1>0. /\ Owner \in Installation /\ CloudStep /\ tunnels' = tunnels /\ dns' = dns /\ fails' = fails
      /\ Head(queue).kind \in {"put", "delete"}
  BY TakenInHand
<1>1. mem = db /\ db \in [Installation -> Record]
  BY IdleFacts DEF Taking
<1>2. /\ db' = [db EXCEPT ![Owner] = s] /\ mem' = db'
      /\ given' = given \cup UNION {{<<n, i>> : n \in Names(db'[i])} : i \in Installation}
  BY DEF Save
<1> HIDE DEF Owner
<1>3. /\ db' \in [Installation -> Record] /\ db'[Owner] = s
      /\ \A i \in Installation : i # Owner => db'[i] = db[i]
  BY <1>0, <1>1, <1>2
<1>4. Stored(Owner)
  BY <1>2, <1>3 DEF Stored
<1>5. TypeOK /\ Copies /\ Apart /\ Given /\ Few
  BY DEF IInv, Store
<1>6. Sounds' /\ Owned' /\ Copies'
  BY <1>0, <1>3, <1>4, <1>5, SoundsKept
<1>7. Apart' /\ Given' /\ given' \subseteq Hostname \X Installation
  <2>1. \A i \in Installation : i # Owner => Names(db'[Owner]) \cap Names(db[i]) = {}
    BY <1>3
  <2> QED
    BY <1>0, <1>3, <1>4, <1>5, <2>1, NamesKept
<1>8. Few'
  BY <1>0, <1>3, <1>4, <1>5, FewKept
<1>9. Clients' /\ answers' \in [Client -> Assignment] /\ queue' \in Seq(Request)
  <2>1. \A i \in Installation :
           IsPut(Head(queue), i) \/ (Kept(db[i], tunnels, dns) => Kept(db'[i], tunnels, dns))
    BY <1>0, <1>3 DEF IsPut, Owner
  <2>2. UNCHANGED <<identity, run, rm, config, orphans, tunnels, dns>>
    BY <1>0 DEF Taking, clientVars
  <2> QED
    BY <2>1, <2>2, ClientsTaken DEF IInv, Taking
<1>10. ASSUME job' \in Job PROVE TypeOK'
  BY <1>0, <1>2, <1>3, <1>7, <1>9, <1>10 DEF IInv, TypeOK, Taking, clientVars
<1> QED
  BY <1>2, <1>3, <1>6, <1>7, <1>8, <1>9, <1>10 DEF IInv, Store

LEMMA EndsTaking ==
  ASSUME IInv, NEW res \in {"error", "full", "gone", "missing", "deleted"}, Ends(Head(queue), res),
         job = Idle, queue # <<>>, queue' = Tail(queue), UNCHANGED <<tunnels, dns, fails, clientVars>>
  PROVE  Taking /\ Placed' /\ Listed' /\ job' \in Job
<1>1. Answer(res) \in Assignment /\ Answer(res).res # "ok"
  BY DEF Answer, Assignment
<1>2. job' = Idle /\ Tell(Head(queue).from, Answer(res))
  BY DEF Ends
<1> QED
  BY <1>1, <1>2, IdlePlaced DEF Taking

LEMMA BeginsTaking ==
  ASSUME IInv, NEW s \in Steps, Begins(Head(queue), s),
         job = Idle, queue # <<>>, queue' = Tail(queue), UNCHANGED <<tunnels, dns, fails, clientVars>>
  PROVE  /\ Taking /\ job' \in Job /\ job'.req = Head(queue) /\ job'.at = s /\ job'.left = {}
         /\ Listed' /\ Me' = Owner
<1>1. Head(queue) \in Request
  BY TailFacts DEF IInv
<1>2. job' = [req |-> Head(queue), at |-> s, left |-> {}] /\ UNCHANGED answers
  BY DEF Begins
<1>3. job'.req = Head(queue) /\ job'.at = s /\ job'.left = {} /\ job' \in Job
  BY <1>1, <1>2 DEF Job, Steps
<1> QED
  BY <1>2, <1>3 DEF Taking, Listed, Me, Owner

\* A refused request, or one that is answered from what is stored.
LEMMA EndsKeeps ==
  ASSUME IInv, NEW res \in {"error", "full", "gone", "missing", "deleted"}, Ends(Head(queue), res),
         job = Idle, queue # <<>>, queue' = Tail(queue), UNCHANGED <<tunnels, dns, fails, clientVars>>,
         UNCHANGED <<db, mem, given>>
  PROVE  IInv'
<1>1. Taking /\ Placed' /\ Listed' /\ job' \in Job
  BY EndsTaking
<1> QED
  BY <1>1, TakenUnsaved

\* A request that looks for a tunnel first.
LEMMA SeekKeeps ==
  ASSUME IInv, Begins(Head(queue), "find"),
         job = Idle, queue # <<>>, queue' = Tail(queue), UNCHANGED <<tunnels, dns, fails, clientVars>>,
         UNCHANGED <<db, mem, given>>, db[Owner].tunnel = NoTunnel,
         Head(queue).kind = "put" => db[Owner].status \in {"provisioning", "deleting"},
         Head(queue).kind = "delete" => Registered(db[Owner])
  PROVE  IInv'
<1>1. /\ Taking /\ job' \in Job /\ job'.req = Head(queue) /\ job'.at = "find" /\ job'.left = {}
      /\ Listed' /\ Me' = Owner
  BY BeginsTaking DEF Steps
<1>2. Owner \in Installation /\ Head(queue).kind \in {"put", "delete"}
  BY <1>1, TakenInHand
<1>3. mem'[Owner] = db[Owner]
  BY IdleFacts, <1>2
<1>4. Placed'
  BY <1>1, <1>2, <1>3 DEF Placed, AtFind, My, Registered
<1> QED
  BY <1>1, <1>4, TakenUnsaved

LEMMA PutKeeps ==
  ASSUME IInv, Head(queue).kind = "put", PutBegins(Head(queue)),
         job = Idle, queue # <<>>, queue' = Tail(queue), UNCHANGED <<tunnels, dns, fails, clientVars>>
  PROVE  IInv'
<1> DEFINE req == Head(queue)
           i == req.who
           r == db[i]
           new == r.status \in {"none", "reclaimed"}
           open == new \/ Enrolled(r)
           full == new /\ Full
           nameless == new /\ r.host = NoName /\ Free = {}
           stuck == req.short /\ Free = {} /\ Reserve(r, req.port).host \notin ShortName
<1>1. CASE Ends(req, "full") /\ UNCHANGED <<db, mem, given>>
  BY <1>1, EndsKeeps
<1>2. CASE Ends(req, "error") /\ UNCHANGED <<db, mem, given>>
  BY <1>2, EndsKeeps
<1>3. CASE Ends(req, "gone") /\ UNCHANGED <<db, mem, given>>
  BY <1>3, EndsKeeps
<1>4. CASE r.status = "deleting" /\ r.tunnel = NoTunnel /\ Begins(req, "find") /\ UNCHANGED <<db, mem, given>>
  BY <1>4, SeekKeeps DEF Owner
\* There is room for it.
<1>5. ASSUME open, ~full PROVE Holds(db[Owner]) \/ Cardinality(Members) < Capacity
  <2>1. CASE Enrolled(r)
    BY <2>1 DEF Enrolled, Holds, Registered, Owner
  <2>2. CASE new
    <3>1. ~(Cardinality(Members) >= Capacity)
      BY <1>5, <2>2 DEF Full, Members
    <3>2. Cardinality(Members) \in Nat
      BY FS_CardinalityType DEF IInv, Store, Few
    <3> QED
      BY <3>1, <3>2, AllocatorConstants
  <2> QED
    BY <1>5, <2>1, <2>2
<1>6. ASSUME open, ~full, NEW s, Fits(Owner, s), Save([db EXCEPT ![i] = s]), Taking
      PROVE  /\ db'[Owner] = s /\ mem' = db'
             /\ (Placed' /\ Listed' /\ job' \in Job => IInv')
  <2>1. Save([db EXCEPT ![Owner] = s])
    BY <1>6 DEF Owner
  <2>2. /\ s \in Record /\ Sound(Owner, s, tunnels, dns) /\ Names(db[Owner]) \subseteq Names(s)
        /\ \A j \in Installation : j # Owner => Names(s) \cap Names(db[j]) = {}
    BY <1>6 DEF Fits
  <2>3. Holds(db[Owner]) \/ Cardinality(Members) < Capacity
    BY <1>5, <1>6
  <2> QED
    BY <1>6, <2>1, <2>2, <2>3, TakenSaved
<1>7. ASSUME open, ~full, ~nameless, Taking
      PROVE  /\ Fits(Owner, Reserve(r, req.port))
             /\ ~stuck => Fits(Owner, Enroll(i, r, req.port, req.short))
  <2>1. Owner \in Installation /\ req.port \in Port \cup {0} /\ req.short \in BOOLEAN
    BY <1>7, TakenInHand
  <2>2. /\ db[Owner].status \in {"none", "reclaimed", "ready", "provisioning"}
        /\ db[Owner].status \in {"none", "reclaimed"} => db[Owner].host # NoName \/ Free # {}
    BY <1>7 DEF Enrolled, Owner
  <2>3. Fits(Owner, Reserve(db[Owner], req.port))
    <3>1. CASE db[Owner].status \in {"none", "reclaimed"}
      BY <2>1, <2>2, <3>1, ReserveFits
    <3>2. CASE db[Owner].status \notin {"none", "reclaimed"}
      BY <2>1, <2>2, <3>2, EnrolledFits DEF Reserve, Enrolled
    <3> QED
      BY <3>1, <3>2
  <2>4. ~stuck => (req.short => Free # {} \/ Reserve(db[Owner], req.port).host \in ShortName)
    BY DEF Owner
  <2>5. ~stuck => Fits(Owner, Enroll(Owner, db[Owner], req.port, req.short))
    BY <2>1, <2>2, <2>4, EnrollFits
  <2> QED
    BY <2>3, <2>5 DEF Owner
<1>8. CASE /\ open /\ ~full /\ ~nameless /\ stuck
           /\ Save([db EXCEPT ![i] = Reserve(r, req.port)]) /\ Ends(req, "error")
  <2>1. Taking /\ Placed' /\ Listed' /\ job' \in Job
    BY <1>8, EndsTaking
  <2>2. Fits(Owner, Reserve(r, req.port))
    BY <1>7, <1>8, <2>1
  <2> QED
    BY <1>6, <1>8, <2>1, <2>2
<1>9. CASE /\ open /\ ~full /\ ~nameless /\ ~stuck
           /\ Save([db EXCEPT ![i] = Enroll(i, r, req.port, req.short)])
           /\ Begins(req, IF r.tunnel = NoTunnel THEN "find" ELSE PutAt(mem'[i]))
  <2> DEFINE s == Enroll(i, r, req.port, req.short)
             at == IF r.tunnel = NoTunnel THEN "find" ELSE PutAt(mem'[i])
  <2>0. at \in Steps
    BY DEF PutAt, Steps
  <2>1. /\ Taking /\ job' \in Job /\ job'.req = req /\ job'.at = at /\ job'.left = {}
        /\ Listed' /\ Me' = Owner
    BY <1>9, <2>0, BeginsTaking
  <2>2. Fits(Owner, s)
    BY <1>7, <1>9, <2>1
  <2> HIDE DEF s
  <2>3. /\ db'[Owner] = s /\ mem' = db'
        /\ (Placed' /\ Listed' /\ job' \in Job => IInv')
    BY <1>6, <1>9, <2>1, <2>2 DEF s
  <2>4. My' = s /\ mem'[i] = s /\ Owner \in Installation
    BY <2>1, <2>3, TakenInHand DEF My, Owner
  <2>5. s.tunnel = r.tunnel /\ s.status \in {"ready", "provisioning"} /\ (s.status = "ready" => s.tunnel # NoTunnel)
    BY <2>2 DEF Fits, Enrolled, Sound, Routed, Owner
  <2>6. Placed'
    <3>1. CASE r.tunnel = NoTunnel
      <4>1. at = "find" /\ s.status = "provisioning" /\ s.tunnel = NoTunnel
        BY <2>5, <3>1
      <4> QED
        BY <2>1, <2>4, <4>1 DEF Placed, AtFind
    <3>2. CASE r.tunnel # NoTunnel
      <4>1. at = IF s.status = "ready" THEN "token" ELSE "route"
        BY <2>4, <2>5, <3>2 DEF PutAt
      <4> HIDE DEF at
      <4>2. CASE s.status = "ready"
        BY <2>1, <2>4, <4>1, <4>2 DEF Placed
      <4>3. CASE s.status = "provisioning"
        BY <2>1, <2>4, <2>5, <3>2, <4>1, <4>3 DEF Placed
      <4> QED
        BY <2>5, <4>2, <4>3
    <3> QED
      BY <3>1, <3>2
  <2> QED
    BY <2>1, <2>3, <2>6
<1> QED
  BY <1>1, <1>2, <1>3, <1>4, <1>8, <1>9 DEF PutBegins

LEMMA DeleteKeeps ==
  ASSUME IInv, Head(queue).kind = "delete", DeleteBegins(Head(queue)),
         job = Idle, queue # <<>>, queue' = Tail(queue), UNCHANGED <<tunnels, dns, fails, clientVars>>
  PROVE  IInv'
<1> DEFINE req == Head(queue)
           r == db[req.who]
<1>1. CASE Ends(req, "missing") /\ UNCHANGED <<db, mem, given>>
  BY <1>1, EndsKeeps
<1>2. CASE Ends(req, "deleted") /\ UNCHANGED <<db, mem, given>>
  BY <1>2, EndsKeeps
<1>3. CASE Registered(r) /\ r.tunnel = NoTunnel /\ Begins(req, "find") /\ UNCHANGED <<db, mem, given>>
  BY <1>3, SeekKeeps DEF Owner
<1>4. CASE /\ r.status = "reclaimed" \/ (Registered(r) /\ r.tunnel # NoTunnel)
           /\ Save([db EXCEPT ![req.who].status = "deleting"]) /\ Begins(req, "unname")
  <2> DEFINE s == [r EXCEPT !.status = "deleting"]
  <2>1. /\ Taking /\ job' \in Job /\ job'.req = req /\ job'.at = "unname" /\ job'.left = {}
        /\ Listed' /\ Me' = Owner
    BY <1>4, BeginsTaking DEF Steps
  <2>2. /\ Owner \in Installation /\ r \in Record /\ Sound(Owner, r, tunnels, dns)
        /\ tunnels' = tunnels /\ dns' = dns
    BY <2>1, TakenInHand DEF Owner
  <2>3. /\ s \in Record /\ s.status = "deleting" /\ s.host = r.host /\ s.previous = r.previous
        /\ s.retired = r.retired /\ s.tunnel = r.tunnel
    BY <2>2 DEF Record, Status
  <2>4. Save([db EXCEPT ![Owner] = s])
    BY <1>4 DEF Owner
  <2>5. r.status \in Status \ {"none", "deleted"} /\ (r.status \in {"reclaimed", "deleting"} \/ r.tunnel # NoTunnel)
    BY <1>4, <2>2, RecordFields DEF Registered
  <2> HIDE DEF s
  <2>6. dns \in SUBSET (Hostname \X Tunnel)
    BY DEF IInv, TypeOK
  <2>7. /\ Sound(Owner, s, tunnels, dns) /\ Names(s) = Names(r) /\ Kept(s, tunnels, dns)
        /\ Holds(s) => r.tunnel # NoTunnel
    BY <2>2, <2>3, <2>5, <2>6, DeletingSound
  <2>8. Holds(s) => Holds(db[Owner])
    BY <1>4, <2>2, <2>7 DEF Holds, Owner, Sound, Housed
  <2>9. /\ Names(db[Owner]) \subseteq Names(s)
        /\ \A j \in Installation : j # Owner => Names(s) \cap Names(db[j]) = {}
    BY <2>2, <2>7 DEF Owner, IInv, Store, Apart
  <2>10. /\ db'[Owner] = s /\ mem' = db'
         /\ (Placed' /\ Listed' /\ job' \in Job => IInv')
    BY <2>1, <2>3, <2>4, <2>7, <2>8, <2>9, TakenSaved
  <2>11. Placed'
    BY <2>1, <2>2, <2>3, <2>10 DEF Placed, AtUnname, My
  <2> QED
    BY <2>1, <2>10, <2>11
<1> QED
  BY <1>1, <1>2, <1>3, <1>4 DEF DeleteBegins

LEMMA TakeKeeps == ASSUME IInv, Take, UNCHANGED clientVars PROVE IInv'
<1>1. job = Idle /\ queue # <<>> /\ queue' = Tail(queue) /\ UNCHANGED <<tunnels, dns, fails, clientVars>>
  BY DEF Take
<1> QED
  BY <1>1, PutKeeps, DeleteKeeps DEF Take

-----------------------------------------------------------------------------
(* The schedule, the calendar and restarts.                                *)

LEMMA MidnightKeeps == ASSUME IInv, Midnight, UNCHANGED clientVars PROVE IInv'
<1>1. PICK i \in Due :
        job' = [req |-> [Sweep EXCEPT !.who = i], left |-> Due \ {i},
                at |-> IF db[i].tunnel = NoTunnel THEN "find" ELSE "look"]
  BY DEF Midnight
<1>2. /\ job = Idle /\ UNCHANGED <<db, mem, queue, answers, tunnels, dns, given, fails>>
      /\ UNCHANGED <<identity, run, rm, config, orphans>>
  BY DEF Midnight, clientVars
<1>3. i \in Installation /\ Due \subseteq Installation /\ \A k \in Due : db[k].status \in Working
  BY DEF Due, Working
<1> DEFINE req == [Sweep EXCEPT !.who = i]
<1>4. /\ req \in Request /\ req.kind = "sweep" /\ req.who = i /\ req.from = Nobody
  BY <1>3 DEF Request, Sweep
<1> HIDE DEF req
<1>5. /\ job' \in Job /\ job'.req = req /\ job'.left = Due \ {i}
      /\ job'.at = IF db[i].tunnel = NoTunnel THEN "find" ELSE "look"
  BY <1>1, <1>3, <1>4 DEF Job, req
<1>6. mem' = db /\ mem' = mem /\ \A k \in Due : mem'[k] = db[k]
  BY <1>2, IdleFacts
<1>7. Placed'
  <2>1. CASE db[i].tunnel = NoTunnel
    <3>1. job'.at = "find" /\ mem'[i].tunnel = NoTunnel
      BY <1>1, <1>5, <1>6, <2>1
    <3> QED
      BY <1>1, <1>3, <1>4, <1>5, <1>6, <3>1 DEF Placed, AtFind, Me, My
  <2>2. CASE db[i].tunnel # NoTunnel
    <3>1. job'.at = "look" /\ mem'[i].tunnel # NoTunnel
      BY <1>1, <1>5, <1>6, <2>2
    <3> QED
      BY <1>1, <1>3, <1>4, <1>5, <1>6, <3>1 DEF Placed, AtLook, Me, My
  <2> QED
    BY <2>1, <2>2
<1>8. Listed'
  BY <1>3, <1>4, <1>5, <1>6 DEF Listed, Me
<1>9. CloudStep /\ fails' \in 0..MaxFails
  BY <1>2, CloudAsIs, SameFails DEF cloud
<1>10. Proceeds
  BY <1>2, <1>4, <1>5, IdleJob DEF Proceeds
<1> QED
  BY <1>2, <1>5, <1>6, <1>7, <1>8, <1>9, <1>10, OnlyMoves

LEMMA OlderSound ==
  ASSUME NEW i \in Installation, NEW r \in Record, NEW T, NEW D, Sound(i, r, T, D)
  PROVE  /\ Older(r) \in Record /\ Sound(i, Older(r), T, D) /\ Names(Older(r)) = Names(r)
         /\ Holds(Older(r)) <=> Holds(r)
         /\ Registered(Older(r)) <=> Registered(r)
         /\ Kept(r, T, D) => Kept(Older(r), T, D)
<1> DEFINE s == [r EXCEPT !.idle = @ + 1]
<1>1. CASE r.idle \notin 0..Grace - 1
  BY <1>1 DEF Older
<1>2. CASE r.idle \in 0..Grace - 1
  <2>1. Older(r) = s
    BY <1>2 DEF Older
  <2>2. r.idle + 1 \in Unset..Grace
    BY <1>2, AllocatorConstants DEF Unset
  <2>3. /\ s \in Record /\ s.status = r.status /\ s.host = r.host /\ s.previous = r.previous
        /\ s.retired = r.retired /\ s.port = r.port /\ s.tunnel = r.tunnel /\ s.spared = r.spared
    BY <2>2 DEF Record
  <2> HIDE DEF s
  <2>4. r.status # "none"
    BY <1>2, AllocatorConstants DEF Sound, WellNamed, Blank, Unset
  <2>5. s.status = "reclaimed" => s.previous = NoName
    BY <2>3 DEF Sound, WellNamed
  <2>6. WellNamed(i, s) /\ Names(s) = Names(r)
    BY <2>3, <2>4, <2>5, SameNames DEF Sound
  <2>7. (Holds(s) <=> Holds(r)) /\ (Registered(s) <=> Registered(r))
    BY <2>3 DEF Holds, Registered
  <2>8. Housed(i, s, T)
    BY <2>3 DEF Sound, Housed, Empty
  <2>9. Pointed(i, s, T, D)
    BY <2>3, <2>7 DEF Sound, Pointed
  <2>10. Routed(r, T, D) => Routed(s, T, D)
    BY <2>3 DEF Routed
  <2>11. Sound(i, s, T, D)
    BY <2>3, <2>6, <2>8, <2>9, <2>10 DEF Sound
  <2>12. Kept(r, T, D) => Kept(s, T, D)
    BY <2>3, <2>10 DEF Kept
  <2> QED
    BY <2>1, <2>3, <2>6, <2>7, <2>11, <2>12
<1> QED
  BY <1>1, <1>2

LEMMA DayKeeps == ASSUME IInv, Day, UNCHANGED clientVars PROVE IInv'
<1>1. /\ job = Idle /\ db' = [i \in Installation |-> Older(db[i])] /\ mem' = db'
      /\ UNCHANGED <<job, queue, answers, tunnels, dns, given, fails>>
      /\ UNCHANGED <<identity, run, rm, config, orphans>>
  BY DEF Day, clientVars
<1>2. \A i \in Installation : db[i] \in Record /\ Sound(i, db[i], tunnels, dns)
  BY DEF IInv, Store, TypeOK, Sounds
<1>3. \A i \in Installation :
        /\ db'[i] \in Record /\ Sound(i, db'[i], tunnels, dns) /\ Names(db'[i]) = Names(db[i])
        /\ Holds(db'[i]) <=> Holds(db[i])
        /\ Registered(db'[i]) <=> Registered(db[i])
        /\ Kept(db[i], tunnels, dns) => Kept(db'[i], tunnels, dns)
  <2> SUFFICES ASSUME NEW i \in Installation
               PROVE  /\ db'[i] \in Record /\ Sound(i, db'[i], tunnels, dns) /\ Names(db'[i]) = Names(db[i])
                      /\ Holds(db'[i]) <=> Holds(db[i])
                      /\ Registered(db'[i]) <=> Registered(db[i])
                      /\ Kept(db[i], tunnels, dns) => Kept(db'[i], tunnels, dns)
    OBVIOUS
  <2>1. db'[i] = Older(db[i])
    BY <1>1
  <2> QED
    BY <1>2, <2>1, OlderSound
<1>4. CloudStep /\ tunnels' = tunnels /\ dns' = dns /\ fails' \in 0..MaxFails
  BY <1>1, CloudAsIs, SameFails DEF cloud
<1>5. Sounds'
  BY <1>3, <1>4 DEF Sounds
<1>6. Copies'
  BY <1>1 DEF Copies
<1>7. Apart' /\ Given' /\ given' \subseteq Hostname \X Installation
  <2>1. given \subseteq Hostname \X Installation /\ given' = given
    BY <1>1 DEF IInv, TypeOK
  <2>2. \A g \in given : g[2] \in Installation
    BY <2>1
  <2> QED
    BY <1>3, <2>1, <2>2 DEF IInv, Store, Apart, Given
<1>8. Few'
  <2>1. Members' = Members /\ Holders' = Holders
    BY <1>3 DEF Members, Holders
  <2> QED
    BY <2>1 DEF IInv, Store, Few
<1>9. db' \in [Installation -> Record] /\ mem' \in [Installation -> Record] /\ job' \in Job
  BY <1>1, <1>3 DEF IInv, TypeOK
<1>10. Placed' /\ Listed'
  BY <1>1, IdlePlaced
<1>11. Proceeds
  BY <1>1 DEF Proceeds
<1> QED
  BY <1>3, <1>4, <1>5, <1>6, <1>7, <1>8, <1>9, <1>10, <1>11, Advances

LEMMA RestartKeeps == ASSUME IInv, Restart, UNCHANGED clientVars PROVE IInv'
<1>1. /\ job' = Idle /\ queue' = <<>> /\ mem' = db /\ fails < MaxFails /\ fails' = fails + 1
      /\ UNCHANGED <<db, tunnels, dns, given>>
      /\ identity' = identity /\ run' = run /\ rm' = rm /\ config' = config /\ orphans' = orphans
      /\ db' = db /\ tunnels' = tunnels /\ dns' = dns
  BY DEF Restart, clientVars
<1>2. /\ answers' \in [Client -> Assignment]
      /\ \A c \in Client : answers'[c] = Answer("error") \/ answers'[c] = answers[c]
  <2>1. Answer("error") \in Assignment /\ answers \in [Client -> Assignment]
    BY DEF Answer, Assignment, IInv, TypeOK
  <2>2. answers' = [c \in Client |->
       IF c = job.req.from \/ \E k \in DOMAIN queue : queue[k].from = c THEN Answer("error") ELSE answers[c]]
    BY DEF Restart
  <2> QED
    BY <2>1, <2>2
<1>3. CloudStep /\ fails' \in 0..MaxFails
  BY <1>1, CloudAsIs, MoreFails DEF cloud
<1>4. Answer("error").res # "ok"
  BY DEF Answer
<1>5. \A m \in Machine : Promised(m)' => Promised(m) /\ answers'[Asks(m)] = answers[Asks(m)]
  BY <1>1, <1>2, <1>4, Askers DEF Promised, Asks
<1>6. OneEach'
  BY <1>1 DEF IInv, Clients, OneEach, Ids
<1>7. Wanted' /\ queue' \in Seq(Request)
  BY <1>1 DEF Wanted
<1>8. Queued'
  BY <1>1, IdleJob, Askers DEF Queued, Asked, AskedIn, Asks
<1>9. Leads'
  BY <1>1, <1>5 DEF IInv, Clients, Leads, Runs, Promised, Asks
<1>9a. Silent'
  <2>1. answers' = [c \in Client |->
       IF c = job.req.from \/ \E k \in DOMAIN queue : queue[k].from = c THEN Answer("error") ELSE answers[c]]
    BY DEF Restart
  <2>2. ASSUME NEW m \in Machine, run[m].at # "asking" PROVE answers'[Asks(m)] = answers[Asks(m)]
    <3>1. job.req.from # Asks(m) /\ \A k \in DOMAIN queue : queue[k].from # Asks(m)
      BY <2>2 DEF IInv, Clients, Queued, Asked, AskedIn
    <3> QED
      BY <2>1, <3>1, Askers
  <2> QED
    BY <1>1, <2>2 DEF IInv, Clients, Silent, Asks
<1>10. Connected'
  BY <1>1 DEF IInv, Clients, Connected, Runs
<1>11. Served'
  <2> SUFFICES ASSUME NEW m \in Machine, NEW i \in Installation, Serves(m, i)'
               PROVE  ~Waiting(i)' /\ Kept(db'[i], tunnels', dns')
    BY DEF Served, Kept, Routed
  <2>1. Serves(m, i)
    BY <1>1, <1>5 DEF Serves, Runs
  <2>2. Kept(db[i], tunnels, dns)
    BY <2>1 DEF IInv, Clients, Served
  <2>3. ~Waiting(i)'
    BY <1>1, IdleJob DEF Waiting, IsPut
  <2> QED
    BY <1>1, <2>2, <2>3
<1>12. Clients'
  BY <1>6, <1>7, <1>8, <1>9, <1>9a, <1>10, <1>11 DEF Clients
<1>13. Sounds' /\ Owned' /\ Apart' /\ Given' /\ Few'
  BY <1>1, <1>3, NotStored DEF IInv, Store
<1>14. Copies' /\ Placed' /\ Listed' /\ job' \in Job
  BY <1>1, IdlePlaced DEF Copies
<1>15. TypeOK'
  BY <1>1, <1>2, <1>3, <1>7, <1>14 DEF IInv, TypeOK
<1> QED
  BY <1>12, <1>13, <1>14, <1>15 DEF IInv, Store

LEMMA AllocatorKeeps == ASSUME IInv, AllocatorNext, UNCHANGED clientVars PROVE IInv'
BY TakeKeeps, CallsKeep, MidnightKeeps, DayKeeps, RestartKeeps DEF AllocatorNext

-----------------------------------------------------------------------------
(* The steps of a machine.                                                 *)

\* Connectors come and go, and a request may have lost its client.
Aside ==
  /\ UNCHANGED <<db, mem, dns, given>>
  /\ tunnels' \in [Tunnel -> TunnelState] /\ job' \in Job
  /\ \A t \in Tunnel : /\ tunnels'[t].owner = tunnels[t].owner /\ tunnels'[t].live = tunnels[t].live
                       /\ tunnels'[t].route = tunnels[t].route
  /\ job'.at = job.at /\ job'.left = job.left /\ job'.req.kind = job.req.kind /\ job'.req.who = job.req.who
  /\ job'.req.from \in {Nobody, job.req.from}
  /\ job.at = "idle" => job' = job

LEMMA AsideSound ==
  ASSUME IInv, Aside, NEW i \in Installation
  PROVE  /\ Sound(i, db[i], tunnels', dns') /\ \A t \in Tunnel : Owns(i, t, tunnels') <=> Owns(i, t, tunnels)
         /\ Kept(db[i], tunnels, dns) => Kept(db'[i], tunnels', dns')
<1>1. /\ tunnels \in [Tunnel -> TunnelState] /\ tunnels' \in [Tunnel -> TunnelState]
      /\ dns \in SUBSET (Hostname \X Tunnel) /\ dns' \in SUBSET (Hostname \X Tunnel)
      /\ db[i] \in Record /\ Sound(i, db[i], tunnels, dns) /\ db' = db /\ dns' = dns /\ i \in Installation
  BY DEF IInv, TypeOK, Store, Sounds, Aside
<1>2. /\ \A t \in Tunnel : tunnels'[t].owner = i <=> tunnels[t].owner = i
      /\ \A t \in Tunnel : tunnels[t].owner = i => tunnels'[t].live = tunnels[t].live /\ tunnels'[t].route = tunnels[t].route
      /\ \A d \in Hostname \X Tunnel : tunnels[d[2]].owner = i => (d \in dns' <=> d \in dns)
  BY <1>1 DEF Aside
<1>3. Sound(i, db[i], tunnels', dns') /\ (Kept(db[i], tunnels, dns) => Kept(db[i], tunnels', dns'))
  BY ONLY <1>1, <1>2, OthersSound
<1>4. \A t \in Tunnel : Owns(i, t, tunnels') <=> Owns(i, t, tunnels)
  BY DEF Owns, Aside
<1> QED
  BY <1>1, <1>3, <1>4

LEMMA AsideStore == ASSUME IInv, Aside PROVE Store'
<1>0. db' = db /\ mem' = mem /\ dns' = dns /\ given' = given /\ Me' = Me
  BY DEF Aside, Me
<1>1. Sounds'
  BY <1>0, AsideSound DEF Sounds
<1>2. Owned'
  BY <1>0 DEF IInv, Store, Owned, Claimed, Aside, TypeOK
<1>3. Copies'
  <2>1. job'.at = "idle" => mem' = db'
    BY <1>0 DEF IInv, Store, Copies, Aside
  <2>2. ASSUME NEW i \in Installation
        PROVE  \/ mem[i] = db[i]
               \/ /\ job.req.kind = "sweep"
                  /\ db[i].tunnel = NoTunnel
                  /\ \E t \in Tunnel : mem[i] = Found(i, t) /\ Owns(i, t, tunnels')
    BY AsideSound DEF IInv, Store, Copies
  <2>3. job'.req.kind = job.req.kind
    BY DEF Aside
  <2> QED
    BY <1>0, <2>1, <2>2, <2>3 DEF Copies, Found
<1>4. Placed'
  <2>1. /\ job'.at = job.at /\ job'.req.kind = job.req.kind /\ (job.at = "idle" => job' = job)
        /\ My' = My /\ \A t \in Tunnel : tunnels'[t].route = tunnels[t].route /\ tunnels'[t].live = tunnels[t].live
    BY <1>0 DEF Aside, My
  <2>2. job.at # "idle" => (OwnsNone' <=> OwnsNone)
    BY <1>0, AsideSound, InHand DEF OwnsNone, Owns, Aside
  <2>3. job.at \in {"name", "leave"} => tunnels'[My.tunnel].route = tunnels[My.tunnel].route
    <3>1. job.at \in {"name", "leave"} => My.tunnel \in Tunnel
      BY PutInHand
    <3> QED
      BY <2>1, <3>1
  <2>4. AtFind' <=> AtFind
    BY <2>1 DEF AtFind, Registered
  <2>5. AtLook' <=> AtLook
    BY <2>1 DEF AtLook
  <2>6. job.at # "idle" => (AtUnname' <=> AtUnname)
    BY <1>0, <2>1, <2>2 DEF AtUnname
  <2>7. (AtEnd' <=> AtEnd) /\ (AtReclaim' <=> AtReclaim)
    BY <1>0, <2>1 DEF AtEnd, AtReclaim
  <2> HIDE DEF My, Me
  <2>8. Placed
    BY DEF IInv, Store
  <2>9. job.at = "idle" => Placed'
    BY <2>1, <2>8 DEF Placed
  <2>10. job.at # "idle" => Placed'
    BY <1>0, <2>1, <2>2, <2>3, <2>4, <2>5, <2>6, <2>7, <2>8 DEF Placed
  <2> QED
    BY <2>9, <2>10
<1>5. Listed'
  BY <1>0 DEF IInv, Store, Listed, Aside
<1>6. Few' /\ Apart' /\ Given'
  BY <1>0 DEF IInv, Store, Few, Members, Holders, Apart, Given
<1> QED
  BY <1>1, <1>2, <1>3, <1>4, <1>5, <1>6 DEF Store

\* A step that asks for no tunnel: no request is new but for removals.
Quietly ==
  /\ queue' \in Seq(Request)
  /\ \A k \in DOMAIN queue' :
       \/ /\ k \in DOMAIN queue
          /\ queue'[k].kind = queue[k].kind /\ queue'[k].who = queue[k].who
          /\ queue'[k].from \in {Nobody, queue[k].from}
       \/ /\ queue'[k].kind = "delete" /\ queue'[k].who \in Installation
          /\ \A m \in Machine : queue'[k].from # Asks(m)
  /\ \A m \in Machine : Ids(m)' \subseteq Ids(m)
  /\ \A m \in Machine :
       \/ run'[m] = run[m] /\ answers'[Asks(m)] = answers[Asks(m)]
       \/ job'.req.from # Asks(m) /\ \A k \in DOMAIN queue' : queue'[k].from # Asks(m)

LEMMA QuietClients ==
  ASSUME IInv, Aside, Quietly,
         \A m \in Machine, i \in Installation : Serves(m, i)' => Serves(m, i)
  PROVE  OneEach' /\ Queued' /\ Wanted' /\ Served'
<1>a. \A m \in Machine : \A r : AskedIn(m, r, run, answers) /\ run'[m] = run[m] /\ answers'[Asks(m)] = answers[Asks(m)]
                                 => AskedIn(m, r, run', answers')
  BY DEF AskedIn
<1>q. \A m \in Machine :
        /\ AskedIn(m, job.req, run, answers)
        /\ job.req.from = Asks(m) =>
             \A k \in DOMAIN queue : ~IsPut(queue[k], Me) /\ queue[k].from # Asks(m)
        /\ \A k \in DOMAIN queue :
             /\ AskedIn(m, queue[k], run, answers)
             /\ queue[k].from = Asks(m) => \A l \in DOMAIN queue : l > k => ~IsPut(queue[l], queue[k].who)
  BY DEF IInv, Clients, Queued, Asked
<1>n. \A m \in Machine : Asks(m) # Nobody
  BY Askers
<1>1. OneEach'
  BY DEF IInv, Clients, OneEach, Quietly
<1>2. Wanted'
  BY DEF IInv, Clients, Wanted, Quietly
<1>3. Queued'
  <2> SUFFICES ASSUME NEW m \in Machine
               PROVE  /\ AskedIn(m, job'.req, run', answers')
                      /\ job'.req.from = Asks(m) =>
                           \A k \in DOMAIN queue' : ~IsPut(queue'[k], job'.req.who) /\ queue'[k].from # Asks(m)
                      /\ \A k \in DOMAIN queue' :
                           /\ AskedIn(m, queue'[k], run', answers')
                           /\ queue'[k].from = Asks(m) =>
                                \A l \in DOMAIN queue' : l > k => ~IsPut(queue'[l], queue'[k].who)
    BY DEF Queued, Me, Asks, IsPut, Asked, AskedIn
  <2>1. AskedIn(m, job'.req, run', answers')
    BY <1>n, <1>q DEF AskedIn, Aside, Quietly
  <2>2. job'.req.from = Asks(m) =>
          \A k \in DOMAIN queue' : ~IsPut(queue'[k], job'.req.who) /\ queue'[k].from # Asks(m)
    BY <1>n, <1>q DEF IsPut, Aside, Quietly, Me
  <2>3. \A k \in DOMAIN queue' : AskedIn(m, queue'[k], run', answers')
    BY <1>n, <1>q DEF AskedIn, Quietly
  <2>4. ASSUME NEW k \in DOMAIN queue', NEW l \in DOMAIN queue', l > k, queue'[k].from = Asks(m)
        PROVE  ~IsPut(queue'[l], queue'[k].who)
    <3>1. k \in DOMAIN queue /\ queue[k].from = Asks(m) /\ queue'[k].who = queue[k].who
      BY <1>n, <2>4 DEF Quietly
    <3>2. CASE l \in DOMAIN queue /\ queue'[l].kind = queue[l].kind /\ queue'[l].who = queue[l].who
      BY <1>q, <2>4, <3>1, <3>2 DEF IsPut
    <3>3. CASE queue'[l].kind = "delete"
      BY <3>3 DEF IsPut
    <3> QED
      BY <3>2, <3>3 DEF Quietly
  <2> QED
    BY <2>1, <2>2, <2>3, <2>4
<1>4. Served'
  <2> SUFFICES ASSUME NEW m \in Machine, NEW i \in Installation, Serves(m, i)'
               PROVE  ~Waiting(i)' /\ Kept(db'[i], tunnels', dns')
    BY DEF Served, Kept, Routed
  <2>1. ~Waiting(i) /\ Kept(db[i], tunnels, dns)
    BY DEF IInv, Clients, Served
  <2>2. ~IsPut(job'.req, i) /\ \A k \in DOMAIN queue' : ~IsPut(queue'[k], i)
    BY <2>1 DEF Waiting, IsPut, Aside, Quietly
  <2>3. ~Waiting(i)'
    BY <2>2 DEF Waiting, IsPut
  <2> QED
    BY <2>1, <2>3, AsideSound
<1> QED
  BY <1>1, <1>2, <1>3, <1>4

LEMMA QuietKeeps ==
  ASSUME IInv, Aside, Quietly,
         \A m \in Machine, i \in Installation : Serves(m, i)' => Serves(m, i),
         Leads', Silent', Connected',
         answers' \in [Client -> Assignment], fails' \in 0..MaxFails,
         identity' \in [Machine -> Installation \cup {Nobody}],
         rm' \in [Machine -> Installation \cup {Nobody}],
         run' \in [Machine -> DaemonState], config' \in [Machine -> [short: BOOLEAN, port: Port]],
         orphans' \in SUBSET Tunnel
  PROVE  IInv'
<1>1. TypeOK'
  BY DEF IInv, TypeOK, Aside, Quietly
<1> QED
  BY <1>1, AsideStore, QuietClients DEF IInv, Clients

LEMMA MachineFacts ==
  ASSUME IInv, NEW m \in Machine
  PROVE  /\ run \in [Machine -> DaemonState] /\ run[m] \in DaemonState
         /\ identity \in [Machine -> Installation \cup {Nobody}] /\ rm \in [Machine -> Installation \cup {Nobody}]
         /\ config \in [Machine -> [short: BOOLEAN, port: Port]]
         /\ answers \in [Client -> Assignment] /\ queue \in Seq(Request) /\ fails \in 0..MaxFails
         /\ orphans \in SUBSET Tunnel
         /\ run[m].at = "off" => run[m] = Off
         /\ run[m].at # "off" => run[m].who \in Installation
         /\ run[m].at # "asking" => answers[Asks(m)] = NoAnswer
         /\ Runs(m) => run[m].tunnel \in Tunnel /\ tunnels[run[m].tunnel].owner = run[m].who
BY DEF IInv, TypeOK, Clients, Leads, Silent

LEMMA OffState ==
  /\ Off \in DaemonState /\ Off.at = "off" /\ Off.who = Nobody
  /\ NoAnswer \in Assignment /\ NoAnswer.res = "none"
BY DEF Off, DaemonState, NoAnswer, Answer, Assignment

\* A change at the provider that is only a connection.
LEMMA Connections ==
  ASSUME IInv, NEW t \in Tunnel, NEW up \in BOOLEAN, tunnels' = [tunnels EXCEPT ![t].up = up],
         UNCHANGED <<db, mem, job, dns, given>>
  PROVE  Aside /\ tunnels'[t].up = up /\ \A u \in Tunnel : u # t => tunnels'[u] = tunnels[u]
<1> DEFINE s == [tunnels[t] EXCEPT !.up = up]
<1>1. tunnels \in [Tunnel -> TunnelState] /\ job' = job /\ job \in Job
  BY DEF IInv, TypeOK
<1>2. tunnels' = [tunnels EXCEPT ![t] = s]
  OBVIOUS
<1>3. /\ s \in TunnelState /\ s.owner = tunnels[t].owner /\ s.live = tunnels[t].live
      /\ s.route = tunnels[t].route /\ s.up = up
  BY <1>1 DEF TunnelState
<1> HIDE DEF s
<1>4. /\ \A u \in Tunnel : u # t => tunnels'[u] = tunnels[u]
      /\ tunnels'[t] = s /\ tunnels' \in [Tunnel -> TunnelState]
  BY ONLY <1>1, <1>2, <1>3, t \in Tunnel
<1> QED
  BY <1>1, <1>3, <1>4 DEF Aside

LEMMA AllAside ==
  ASSUME IInv, UNCHANGED <<db, mem, job, dns, given, tunnels>> PROVE Aside
BY DEF Aside, IInv, TypeOK

LEMMA ConnectKeeps == ASSUME IInv, NEW t \in Tunnel, Connect(t) PROVE IInv'
<1>1. /\ Connector(t) /\ tunnels' = [tunnels EXCEPT ![t].up = TRUE]
      /\ UNCHANGED <<db, mem, job, queue, answers, dns, given, fails>>
      /\ identity' = identity /\ run' = run /\ rm' = rm /\ config' = config /\ orphans' = orphans
  BY DEF Connect, clientVars
<1>2. t \in orphans \/ \E m \in Machine : Runs(m) /\ run[m].tunnel = t
  BY <1>1 DEF Connector, Runs
<1>3. Aside /\ \A u \in Tunnel : u # t => tunnels'[u] = tunnels[u]
  BY <1>1, Connections
<1>4. Quietly
  BY <1>1 DEF Quietly, IInv, TypeOK, Ids, Asks
<1>5. \A n \in Machine, i \in Installation : Serves(n, i)' => Serves(n, i)
  BY <1>1 DEF Serves, Runs, Promised, Asks
<1>6. Leads' /\ Silent'
  BY <1>1, <1>3 DEF IInv, Clients, Leads, Silent, Runs, Promised, Asks, Aside
<1>7. Connected'
  BY <1>1, <1>2, <1>3 DEF IInv, Clients, Connected, Runs
<1> QED
  BY <1>1, <1>3, <1>4, <1>5, <1>6, <1>7, QuietKeeps DEF IInv, TypeOK

LEMMA LoseConnectionKeeps == ASSUME IInv, NEW t \in Tunnel, LoseConnection(t) PROVE IInv'
<1>1. /\ Connector(t) /\ tunnels' = [tunnels EXCEPT ![t].up = FALSE]
      /\ UNCHANGED <<db, mem, job, queue, answers, dns, given, fails>>
      /\ identity' = identity /\ run' = run /\ rm' = rm /\ config' = config /\ orphans' = orphans
  BY DEF LoseConnection, clientVars, Cut
<1>3. Aside /\ tunnels'[t].up = FALSE /\ \A u \in Tunnel : u # t => tunnels'[u] = tunnels[u]
  BY <1>1, Connections
<1>4. Quietly
  BY <1>1 DEF Quietly, IInv, TypeOK, Ids, Asks
<1>5. \A n \in Machine, i \in Installation : Serves(n, i)' => Serves(n, i)
  BY <1>1 DEF Serves, Runs, Promised, Asks
<1>6. Leads' /\ Silent'
  BY <1>1, <1>3 DEF IInv, Clients, Leads, Silent, Runs, Promised, Asks, Aside
<1>7. Connected'
  BY <1>1, <1>3 DEF IInv, Clients, Connected, Runs
<1> QED
  BY <1>1, <1>3, <1>4, <1>5, <1>6, <1>7, QuietKeeps DEF IInv, TypeOK

LEMMA AnnounceKeeps == ASSUME IInv, NEW m \in Machine, Announce(m) PROVE IInv'
<1> DEFINE s == [run[m] EXCEPT !.at = "open"]
<1>1. /\ run[m].at = "starting" /\ run' = [run EXCEPT ![m] = s]
      /\ UNCHANGED <<db, mem, job, queue, answers, tunnels, dns, given, fails>>
      /\ identity' = identity /\ rm' = rm /\ config' = config /\ orphans' = orphans
  BY DEF Announce, allocatorVars
<1>2. s \in DaemonState /\ s.at = "open" /\ s.who = run[m].who /\ s.tunnel = run[m].tunnel
  BY MachineFacts DEF DaemonState
<1> HIDE DEF s
<1>3. /\ run'[m] = s /\ \A n \in Machine : n # m => run'[n] = run[n]
      /\ run' \in [Machine -> DaemonState]
  BY <1>1, <1>2, MachineFacts
<1>4. Aside
  BY <1>1, AllAside
<1>5. \A n \in Machine : /\ run'[n].who = run[n].who /\ run'[n].tunnel = run[n].tunnel
                         /\ Runs(n)' <=> Runs(n)
                         /\ Promised(n)' <=> Promised(n)
                         /\ run'[n].at = "asking" <=> run[n].at = "asking"
                         /\ run'[n].at = "off" <=> run[n].at = "off"
  <2> SUFFICES ASSUME NEW n \in Machine
               PROVE  /\ run'[n].who = run[n].who /\ run'[n].tunnel = run[n].tunnel
                      /\ Runs(n)' <=> Runs(n)
                      /\ Promised(n)' <=> Promised(n)
                      /\ run'[n].at = "asking" <=> run[n].at = "asking"
                      /\ run'[n].at = "off" <=> run[n].at = "off"
    OBVIOUS
  <2>1. CASE n = m
    BY <1>1, <1>2, <1>3, <2>1 DEF Runs, Promised
  <2>2. CASE n # m
    BY <1>1, <1>3, <2>2 DEF Runs, Promised, Asks
  <2> QED
    BY <2>1, <2>2
<1>6. Quietly
  <2>1. /\ job.req.from # Asks(m)
        /\ \A k \in DOMAIN queue : queue[k].from # Asks(m)
    BY <1>1 DEF IInv, Clients, Queued, Asked, AskedIn
  <2>2. \A n \in Machine : Ids(n)' = Ids(n)
    BY <1>1, <1>5 DEF Ids
  <2> QED
    BY <1>1, <1>3, <2>1, <2>2 DEF Quietly, IInv, TypeOK
<1>7. \A n \in Machine, i \in Installation : Serves(n, i)' => Serves(n, i)
  BY <1>5 DEF Serves
<1>8. Leads'
  <2> SUFFICES ASSUME NEW n \in Machine
               PROVE  /\ run'[n].at = "off" => run'[n] = Off
                      /\ run'[n].at # "off" => run'[n].who \in Installation
                      /\ Runs(n)' => run'[n].tunnel \in Tunnel /\ tunnels'[run'[n].tunnel].owner = run'[n].who
                      /\ Promised(n)' => /\ answers'[Asks(n)].tunnel \in Tunnel
                                         /\ tunnels'[answers'[Asks(n)].tunnel].owner = run'[n].who
    BY DEF Leads, Asks
  <2>1. answers' = answers /\ tunnels' = tunnels
    BY <1>1
  <2>2. run'[n].at = "off" => run'[n] = run[n]
    BY <1>2, <1>3
  <2> QED
    BY <1>5, <2>1, <2>2 DEF IInv, Clients, Leads
<1>9. Silent' /\ Connected'
  BY <1>1, <1>5 DEF IInv, Clients, Silent, Connected, Asks
<1> QED
  BY <1>1, <1>3, <1>4, <1>6, <1>7, <1>8, <1>9, MachineFacts, QuietKeeps

\* Another machine's daemon has a connector of the tunnel.
CarriedOn(m, t) == \E n \in Machine \ {m} : Runs(n) /\ run[n].tunnel = t

\* A daemon that stops or has not been given what it asked for is off.
LEMMA OffKeeps ==
  ASSUME IInv, NEW m \in Machine, run[m] # Off, Aside, run' = [run EXCEPT ![m] = Off],
         UNCHANGED <<identity, rm, config>>,
         queue' \in Seq(Request), fails' \in 0..MaxFails, answers' \in [Client -> Assignment],
         \A k \in DOMAIN queue' :
           /\ k \in DOMAIN queue
           /\ queue'[k].kind = queue[k].kind /\ queue'[k].who = queue[k].who
           /\ queue'[k].from \in {Nobody, queue[k].from} \ {Asks(m)},
         job'.req.from # Asks(m),
         answers'[Asks(m)] = NoAnswer,
         \A n \in Machine : n # m => answers'[Asks(n)] = answers[Asks(n)],
         orphans' \in SUBSET Tunnel, orphans \subseteq orphans',
         \A t \in Tunnel :
           tunnels'[t].up => tunnels[t].up /\ (t \in orphans' \/ CarriedOn(m, t) \/ ~(Runs(m) /\ run[m].tunnel = t))
  PROVE  IInv'
<1>1. /\ run'[m] = Off /\ \A n \in Machine : n # m => run'[n] = run[n]
      /\ run' \in [Machine -> DaemonState]
  BY OffState, MachineFacts
<1>2. \A n \in Machine : /\ Runs(n)' => n # m /\ Runs(n)
                         /\ Promised(n)' => n # m /\ Promised(n)
  <2> SUFFICES ASSUME NEW n \in Machine
               PROVE  /\ Runs(n)' => n # m /\ Runs(n)
                      /\ Promised(n)' => n # m /\ Promised(n)
    OBVIOUS
  <2>1. CASE n = m
    BY <1>1, <2>1, OffState DEF Runs, Promised
  <2>2. CASE n # m
    BY <1>1, <2>2 DEF Runs, Promised, Asks
  <2> QED
    BY <2>1, <2>2
<1>3. Quietly
  <2>1. \A n \in Machine : Ids(n)' \subseteq Ids(n)
    <3> SUFFICES ASSUME NEW n \in Machine PROVE Ids(n)' \subseteq Ids(n)
      OBVIOUS
    <3>1. CASE n = m
      BY <1>1, <3>1, OffState DEF Ids
    <3>2. CASE n # m
      BY <1>1, <3>2 DEF Ids
    <3> QED
      BY <3>1, <3>2
  <2> QED
    BY <1>1, <2>1 DEF Quietly
<1>4. \A n \in Machine, i \in Installation : Serves(n, i)' => Serves(n, i)
  BY <1>1, <1>2 DEF Serves
<1>5. Leads'
  <2> SUFFICES ASSUME NEW n \in Machine
               PROVE  /\ run'[n].at = "off" => run'[n] = Off
                      /\ run'[n].at # "off" => run'[n].who \in Installation
                      /\ Runs(n)' => run'[n].tunnel \in Tunnel /\ tunnels'[run'[n].tunnel].owner = run'[n].who
                      /\ Promised(n)' => /\ answers'[Asks(n)].tunnel \in Tunnel
                                         /\ tunnels'[answers'[Asks(n)].tunnel].owner = run'[n].who
    BY DEF Leads, Asks
  <2>1. CASE n = m
    BY <1>1, <1>2, <2>1, OffState
  <2>2. CASE n # m
    BY <1>1, <1>2, <2>2 DEF IInv, Clients, Leads, Aside
  <2> QED
    BY <2>1, <2>2
<1>6. Silent'
  <2> SUFFICES ASSUME NEW n \in Machine, run'[n].at # "asking" PROVE answers'[Asks(n)] = NoAnswer
    BY DEF Silent, Asks, NoAnswer, Answer
  <2> QED
    BY <1>1 DEF IInv, Clients, Silent
<1>7. Connected'
  <2> SUFFICES ASSUME NEW t \in Tunnel, tunnels'[t].up
               PROVE  t \in orphans' \/ \E n \in Machine : Runs(n)' /\ run'[n].tunnel = t
    BY DEF Connected, Runs
  <2> SUFFICES ASSUME t \notin orphans' PROVE \E n \in Machine : Runs(n)' /\ run'[n].tunnel = t
    OBVIOUS
  <2>1. PICK n \in Machine : Runs(n) /\ run[n].tunnel = t /\ n # m
    BY DEF IInv, Clients, Connected, CarriedOn
  <2> QED
    BY <1>1, <2>1 DEF Runs
<1> QED
  BY <1>1, <1>3, <1>4, <1>5, <1>6, <1>7, MachineFacts, QuietKeeps

LEMMA StopKeeps == ASSUME IInv, NEW m \in Machine, Stop(m) PROVE IInv'
<1>0. Runs(m) /\ run[m].tunnel \in Tunnel
  BY MachineFacts DEF Stop, Runs
<1>p. PICK t \in Tunnel :
        /\ t = run[m].tunnel
        /\ \/ orphans' = orphans /\ tunnels' = [tunnels EXCEPT ![t].up = FALSE]
           \/ orphans' = orphans /\ tunnels' = tunnels /\ Connector(t)'
           \/ orphans' = orphans \cup {t} /\ tunnels' = tunnels
  BY <1>0 DEF Stop, Cut, HangsUp
<1>1. /\ run' = [run EXCEPT ![m] = Off]
      /\ UNCHANGED <<db, mem, job, queue, answers, dns, given, fails, identity, rm, config>>
  BY DEF Stop
<1>2. /\ run[m] # Off /\ answers[Asks(m)] = NoAnswer
      /\ orphans' \in SUBSET Tunnel /\ orphans \subseteq orphans'
  BY <1>0, <1>p, MachineFacts, OffState DEF Runs
<1>3. /\ Aside
      /\ \/ tunnels'[t].up = FALSE /\ \A u \in Tunnel : u # t => tunnels'[u] = tunnels[u]
         \/ tunnels' = tunnels /\ (t \in orphans' \/ CarriedOn(m, t))
  <2>1. CASE tunnels' = [tunnels EXCEPT ![t].up = FALSE]
    BY <1>1, <2>1, Connections
  <2>2. CASE orphans' = orphans /\ tunnels' = tunnels /\ Connector(t)'
    <3>1. ASSUME NEW n \in Machine, run'[n].at \in {"starting", "open"}, run'[n].tunnel = t
          PROVE  CarriedOn(m, t)
      <4>1. run'[m] = Off /\ \A k \in Machine : k # m => run'[k] = run[k]
        BY <1>1, MachineFacts
      <4>2. n # m
        BY <3>1, <4>1, OffState
      <4> QED
        BY <3>1, <4>1, <4>2 DEF CarriedOn, Runs
    <3>2. t \in orphans' \/ CarriedOn(m, t)
      BY <2>2, <3>1 DEF Connector
    <3> QED
      BY <1>1, <2>2, <3>2, AllAside
  <2>3. CASE orphans' = orphans \cup {t} /\ tunnels' = tunnels
    BY <1>1, <2>3, AllAside
  <2> QED
    BY <1>p, <2>1, <2>2, <2>3
<1>4. /\ job.req.from # Asks(m)
      /\ \A k \in DOMAIN queue : queue[k].from # Asks(m)
  BY <1>0 DEF Runs, IInv, Clients, Queued, Asked, AskedIn
<1>5. \A u \in Tunnel :
        tunnels'[u].up => tunnels[u].up /\ (u \in orphans' \/ CarriedOn(m, u) \/ ~(Runs(m) /\ run[m].tunnel = u))
  BY <1>3, <1>p
<1> QED
  BY <1>1, <1>2, <1>3, <1>4, <1>5, MachineFacts, OffKeeps

LEMMA OrphanEndsKeeps == ASSUME IInv, NEW t \in Tunnel, OrphanEnds(t) PROVE IInv'
<1>1. /\ orphans' = orphans \ {t}
      /\ \/ tunnels' = [tunnels EXCEPT ![t].up = FALSE]
         \/ tunnels' = tunnels /\ Connector(t)'
      /\ UNCHANGED <<db, mem, job, queue, answers, dns, given, fails>>
      /\ identity' = identity /\ run' = run /\ rm' = rm /\ config' = config
  BY DEF OrphanEnds, HangsUp, Cut
<1>2. /\ Aside
      /\ \/ tunnels'[t].up = FALSE /\ \A u \in Tunnel : u # t => tunnels'[u] = tunnels[u]
         \/ tunnels' = tunnels /\ Connector(t)'
  <2>1. CASE tunnels' = [tunnels EXCEPT ![t].up = FALSE]
    BY <1>1, <2>1, Connections
  <2>2. CASE tunnels' = tunnels /\ Connector(t)'
    BY <1>1, <2>2, AllAside
  <2> QED
    BY <1>1, <2>1, <2>2
<1>3. Quietly
  BY <1>1 DEF Quietly, IInv, TypeOK, Ids, Asks
<1>4. \A n \in Machine, i \in Installation : Serves(n, i)' => Serves(n, i)
  BY <1>1 DEF Serves, Runs, Promised, Asks
<1>5. Leads' /\ Silent'
  BY <1>1, <1>2 DEF IInv, Clients, Leads, Silent, Runs, Promised, Asks, Aside
<1>6. Connected'
  <2> SUFFICES ASSUME NEW u \in Tunnel, tunnels'[u].up
               PROVE  u \in orphans' \/ \E n \in Machine : Runs(n)' /\ run'[n].tunnel = u
    BY DEF Connected, Runs
  <2>1. CASE u = t
    BY <1>1, <1>2, <2>1 DEF Connector, Runs
  <2>2. CASE u # t
    <3>1. u \in orphans \/ \E n \in Machine : Runs(n) /\ run[n].tunnel = u
      BY <1>2, <2>2 DEF IInv, Clients, Connected
    <3> QED
      BY <1>1, <2>2, <3>1 DEF Runs
  <2> QED
    BY <2>1, <2>2
<1> QED
  BY <1>1, <1>2, <1>3, <1>4, <1>5, <1>6, QuietKeeps DEF IInv, TypeOK

LEMMA AssignedKeeps == ASSUME IInv, NEW m \in Machine, Assigned(m) PROVE IInv'
<1> DEFINE a == answers[Asks(m)]
           s == [run[m] EXCEPT !.at = "starting", !.host = a.host, !.tunnel = a.tunnel]
<1>1. /\ run[m].at = "asking" /\ a # NoAnswer
      /\ answers' = [answers EXCEPT ![Asks(m)] = NoAnswer]
      /\ UNCHANGED <<db, mem, job, queue, tunnels, dns, given, fails>>
      /\ identity' = identity /\ rm' = rm /\ config' = config /\ orphans' = orphans
      /\ \/ a.res = "ok" /\ run' = [run EXCEPT ![m] = s]
         \/ run' = [run EXCEPT ![m] = Off]
  BY DEF Assigned, Accepts, Asks
<1>2. Asks(m) \in Client /\ \A n \in Machine : n # m => Asks(n) # Asks(m)
  BY DEF Asks, Client
<1>3. /\ answers' \in [Client -> Assignment] /\ answers'[Asks(m)] = NoAnswer
      /\ \A n \in Machine : n # m => answers'[Asks(n)] = answers[Asks(n)]
  <2>1. answers \in [Client -> Assignment] /\ NoAnswer \in Assignment
        /\ \A n \in Machine : Asks(n) \in Client
    BY MachineFacts, OffState DEF Asks, Client
  <2> QED
    BY ONLY <1>1, <1>2, <2>1
<1>4. Aside
  BY <1>1, AllAside
<1>5. /\ job.req.from # Asks(m)
      /\ \A k \in DOMAIN queue : queue[k].from # Asks(m)
  BY <1>1 DEF IInv, Clients, Queued, Asked, AskedIn
<1>6. ~Runs(m) /\ run[m] # Off
  BY <1>1, OffState DEF Runs
<1>7. CASE run' = [run EXCEPT ![m] = Off]
  BY <1>1, <1>3, <1>4, <1>5, <1>6, <1>7, MachineFacts, OffKeeps
<1>8. CASE a.res = "ok" /\ run' = [run EXCEPT ![m] = s]
  <2>1. /\ s \in DaemonState /\ s.at = "starting" /\ s.who = run[m].who /\ s.tunnel = a.tunnel
        /\ run[m].who \in Installation
    <3>1. a \in Assignment /\ run[m] \in DaemonState /\ run[m].who \in Installation
      BY <1>1, <1>2, MachineFacts
    <3> HIDE DEF a
    <3> QED
      BY <3>1 DEF Assignment, DaemonState
  <2> HIDE DEF s
  <2>2. /\ run'[m] = s /\ \A n \in Machine : n # m => run'[n] = run[n]
        /\ run' \in [Machine -> DaemonState]
    BY <1>8, <2>1, MachineFacts
  <2>3. Promised(m)
    BY <1>1, <1>8 DEF Promised
  <2>4. a.tunnel \in Tunnel /\ tunnels[a.tunnel].owner = run[m].who
    BY <2>3 DEF IInv, Clients, Leads
  <2> HIDE DEF a
  <2>5. Quietly
    <3>1. \A n \in Machine : Ids(n)' = Ids(n)
      <4> SUFFICES ASSUME NEW n \in Machine PROVE Ids(n)' = Ids(n)
        OBVIOUS
      <4>1. run'[n].who = run[n].who
        BY <2>1, <2>2
      <4> QED
        BY <1>1, <4>1 DEF Ids
    <3> QED
      BY <1>1, <1>3, <1>5, <2>2, <3>1 DEF Quietly, IInv, TypeOK
  <2>6. \A n \in Machine : /\ Runs(n)' => n = m \/ Runs(n)
                           /\ Promised(n)' => n # m /\ Promised(n)
    <3> SUFFICES ASSUME NEW n \in Machine
                 PROVE  /\ Runs(n)' => n = m \/ Runs(n)
                        /\ Promised(n)' => n # m /\ Promised(n)
      OBVIOUS
    <3>1. CASE n = m
      BY <2>1, <2>2, <3>1 DEF Promised
    <3>2. CASE n # m
      BY <1>3, <2>2, <3>2 DEF Runs, Promised, Asks
    <3> QED
      BY <3>1, <3>2
  <2>7. \A n \in Machine, i \in Installation : Serves(n, i)' => Serves(n, i)
    <3> SUFFICES ASSUME NEW n \in Machine, NEW i \in Installation, Serves(n, i)' PROVE Serves(n, i)
      OBVIOUS
    <3>1. run'[n].who = run[n].who
      BY <2>1, <2>2
    <3> QED
      BY <2>3, <2>6, <3>1 DEF Serves
  <2>8. Leads'
    <3> SUFFICES ASSUME NEW n \in Machine
                 PROVE  /\ run'[n].at = "off" => run'[n] = Off
                        /\ run'[n].at # "off" => run'[n].who \in Installation
                        /\ Runs(n)' => run'[n].tunnel \in Tunnel /\ tunnels'[run'[n].tunnel].owner = run'[n].who
                        /\ Promised(n)' => /\ answers'[Asks(n)].tunnel \in Tunnel
                                           /\ tunnels'[answers'[Asks(n)].tunnel].owner = run'[n].who
      BY DEF Leads, Asks
    <3>1. CASE n = m
      BY <1>1, <2>1, <2>2, <2>4, <2>6, <3>1
    <3>2. CASE n # m
      BY <1>1, <1>3, <2>2, <2>6, <3>2 DEF IInv, Clients, Leads
    <3> QED
      BY <3>1, <3>2
  <2>9. Silent'
    <3> SUFFICES ASSUME NEW n \in Machine, run'[n].at # "asking" PROVE answers'[Asks(n)] = NoAnswer
      BY DEF Silent, Asks, NoAnswer, Answer
    <3> QED
      BY <1>3, <2>2 DEF IInv, Clients, Silent
  <2>10. Connected'
    <3> SUFFICES ASSUME NEW t \in Tunnel, tunnels[t].up
                 PROVE  t \in orphans \/ \E n \in Machine : Runs(n)' /\ run'[n].tunnel = t
      BY <1>1 DEF Connected, Runs
    <3> SUFFICES ASSUME t \notin orphans PROVE \E n \in Machine : Runs(n)' /\ run'[n].tunnel = t
      OBVIOUS
    <3>1. PICK n \in Machine : Runs(n) /\ run[n].tunnel = t
      BY DEF IInv, Clients, Connected
    <3>2. n # m
      BY <1>6, <3>1
    <3> QED
      BY <2>2, <3>1, <3>2 DEF Runs
  <2> QED
    BY <1>1, <1>3, <1>4, <2>2, <2>5, <2>7, <2>8, <2>9, <2>10, MachineFacts, QuietKeeps
<1> QED
  BY <1>1, <1>7, <1>8

LEMMA OrphanOf ==
  ASSUME NEW r \in Request, NEW c
  PROVE  /\ Orphan(r, c) \in Request /\ Orphan(r, c).kind = r.kind /\ Orphan(r, c).who = r.who
         /\ Orphan(r, c).from \in {Nobody, r.from}
         /\ c # Nobody => Orphan(r, c).from # c
         /\ r.from # c => Orphan(r, c) = r
BY DEF Orphan, Request

\* A request that nobody waits for any more is the one that was asked.
LEMMA Disowned ==
  ASSUME IInv, NEW c \in Client, Disown(c), UNCHANGED <<db, mem, tunnels, dns, given>>
  PROVE  /\ Aside /\ queue' \in Seq(Request) /\ answers' \in [Client -> Assignment]
         /\ answers'[c] = NoAnswer /\ \A d \in Client : d # c => answers'[d] = answers[d]
         /\ job'.req.from \in {Nobody, job.req.from} \ {c}
         /\ \A k \in DOMAIN queue' :
              /\ k \in DOMAIN queue
              /\ queue'[k].kind = queue[k].kind /\ queue'[k].who = queue[k].who
              /\ queue'[k].from \in {Nobody, queue[k].from} \ {c}
<1>1. /\ queue \in Seq(Request) /\ job \in Job /\ answers \in [Client -> Assignment]
      /\ tunnels \in [Tunnel -> TunnelState]
      /\ queue' = [k \in DOMAIN queue |-> Orphan(queue[k], c)]
      /\ job' = [job EXCEPT !.req = Orphan(job.req, c)]
      /\ answers' = [answers EXCEPT ![c] = NoAnswer]
  BY DEF IInv, TypeOK, Disown
<1>2. c # Nobody
  BY AllocatorConstants
<1>3. \A k \in DOMAIN queue : queue[k] \in Request
  BY <1>1
<1>4. queue' \in Seq(Request)
  <2>1. Len(queue) \in Nat /\ DOMAIN queue = 1..Len(queue)
    BY <1>1
  <2>2. queue' \in [1..Len(queue) -> Request]
    BY <1>1, <1>3, <2>1, OrphanOf
  <2> QED
    BY <2>1, <2>2
<1>5. \A k \in DOMAIN queue' :
        /\ k \in DOMAIN queue
        /\ queue'[k].kind = queue[k].kind /\ queue'[k].who = queue[k].who
        /\ queue'[k].from \in {Nobody, queue[k].from} \ {c}
  <2> SUFFICES ASSUME NEW k \in DOMAIN queue'
               PROVE  /\ k \in DOMAIN queue
                      /\ queue'[k].kind = queue[k].kind /\ queue'[k].who = queue[k].who
                      /\ queue'[k].from \in {Nobody, queue[k].from} \ {c}
    OBVIOUS
  <2>1. k \in DOMAIN queue /\ queue'[k] = Orphan(queue[k], c)
    BY <1>1
  <2> QED
    BY <1>2, <1>3, <2>1, OrphanOf
<1>6. /\ job'.req = Orphan(job.req, c) /\ job'.at = job.at /\ job'.left = job.left
      /\ job.req \in Request /\ job' \in Job
  <2>1. job.req \in Request
    BY <1>1 DEF Job
  <2>2. Orphan(job.req, c) \in Request
    BY <2>1, OrphanOf
  <2> QED
    BY ONLY <1>1, <2>1, <2>2 DEF Job
<1>7. job.at = "idle" => job' = job
  <2> SUFFICES ASSUME job.at = "idle" PROVE job' = job
    OBVIOUS
  <2>1. job = Idle
    BY DEF IInv, Store, Placed
  <2>2. job.req.from # c
    BY <1>2, <2>1 DEF Idle, Sweep
  <2>3. Orphan(job.req, c) = job.req
    BY <1>6, <2>2, OrphanOf
  <2> QED
    BY <1>1, <2>3 DEF Job
<1>8. Aside
  BY <1>1, <1>6, <1>7, OrphanOf DEF Aside
<1>9. /\ answers' \in [Client -> Assignment] /\ answers'[c] = NoAnswer
      /\ \A d \in Client : d # c => answers'[d] = answers[d]
  BY <1>1, OffState
<1> QED
  BY <1>2, <1>4, <1>5, <1>6, <1>8, <1>9, OrphanOf

LEMMA GiveUpKeeps == ASSUME IInv, NEW m \in Machine, GiveUp(m) PROVE IInv'
<1>1. /\ fails' \in 0..MaxFails
      /\ UNCHANGED <<db, mem, tunnels, dns, given, identity, config, orphans>>
  <2>1. fails \in Nat /\ fails' = fails + 1 /\ fails < MaxFails /\ MaxFails \in Nat
    BY MachineFacts, AllocatorConstants DEF GiveUp
  <2> QED
    BY <2>1 DEF GiveUp
<1>2. CASE run[m].at = "asking" /\ Disown(Asks(m)) /\ run' = [run EXCEPT ![m] = Off] /\ UNCHANGED rm
  <2>1. Asks(m) \in Client /\ \A n \in Machine : n # m => Asks(n) # Asks(m) /\ Asks(n) \in Client
    BY DEF Asks, Client
  <2>2. /\ Aside /\ queue' \in Seq(Request) /\ answers' \in [Client -> Assignment]
        /\ answers'[Asks(m)] = NoAnswer /\ \A d \in Client : d # Asks(m) => answers'[d] = answers[d]
        /\ job'.req.from \in {Nobody, job.req.from} \ {Asks(m)}
        /\ \A k \in DOMAIN queue' :
             /\ k \in DOMAIN queue
             /\ queue'[k].kind = queue[k].kind /\ queue'[k].who = queue[k].who
             /\ queue'[k].from \in {Nobody, queue[k].from} \ {Asks(m)}
    BY <1>1, <1>2, <2>1, Disowned
  <2>3. ~Runs(m) /\ run[m] # Off
    BY <1>2, OffState DEF Runs
  <2>4. orphans' \in SUBSET Tunnel /\ orphans \subseteq orphans'
    BY <1>1, MachineFacts
  <2> QED
    BY <1>1, <1>2, <2>1, <2>2, <2>3, <2>4, OffKeeps
<1>3. CASE rm[m] # Nobody /\ Disown(<<m, "rm">>) /\ rm' = [rm EXCEPT ![m] = Nobody] /\ UNCHANGED run
  <2> DEFINE c == <<m, "rm">>
  <2>1. c \in Client /\ \A n \in Machine : Asks(n) # c /\ Asks(n) \in Client
    BY DEF Asks, Client
  <2> HIDE DEF c
  <2>2. /\ Aside /\ queue' \in Seq(Request) /\ answers' \in [Client -> Assignment]
        /\ \A d \in Client : d # c => answers'[d] = answers[d]
        /\ job'.req.from \in {Nobody, job.req.from} \ {c}
        /\ \A k \in DOMAIN queue' :
             /\ k \in DOMAIN queue
             /\ queue'[k].kind = queue[k].kind /\ queue'[k].who = queue[k].who
             /\ queue'[k].from \in {Nobody, queue[k].from} \ {c}
    <3>1. Disown(c)
      BY <1>3 DEF c
    <3> QED
      BY <1>1, <2>1, <3>1, Disowned
  <2>3. \A n \in Machine : answers'[Asks(n)] = answers[Asks(n)]
    BY <2>1, <2>2
  <2>4. rm' \in [Machine -> Installation \cup {Nobody}] /\ \A n \in Machine : rm'[n] \in {rm[n], Nobody}
    BY <1>3, MachineFacts
  <2>5. Quietly
    <3>1. \A n \in Machine : Ids(n)' \subseteq Ids(n)
      BY <1>1, <1>3, <2>4 DEF Ids
    <3> QED
      BY <1>3, <2>2, <2>3, <3>1 DEF Quietly
  <2>6. \A n \in Machine, i \in Installation : Serves(n, i)' => Serves(n, i)
    BY <1>3, <2>3 DEF Serves, Runs, Promised, Asks
  <2>7. Leads'
    BY <1>1, <1>3, <2>3 DEF IInv, Clients, Leads, Runs, Promised, Asks
  <2>8. Silent' /\ Connected'
    BY <1>1, <1>3, <2>3 DEF IInv, Clients, Silent, Connected, Runs, Asks
  <2> QED
    BY <1>1, <1>3, <2>2, <2>4, <2>5, <2>6, <2>7, <2>8, MachineFacts, QuietKeeps
<1> QED
  BY <1>2, <1>3 DEF GiveUp, Asks

\* Nothing but what a machine keeps changes, and it takes no other identity.
LEMMA KeptAlone ==
  ASSUME IInv, UNCHANGED <<allocatorVars, run, orphans>>,
         identity' \in [Machine -> Installation \cup {Nobody}],
         rm' \in [Machine -> Installation \cup {Nobody}],
         config' \in [Machine -> [short: BOOLEAN, port: Port]],
         \A m \in Machine : Ids(m)' \subseteq Ids(m)
  PROVE  IInv'
<1>1. /\ UNCHANGED <<db, mem, job, queue, answers, tunnels, dns, given, fails>>
      /\ run' = run /\ orphans' = orphans /\ Aside
  BY AllAside DEF allocatorVars
<1>2. Quietly
  BY <1>1 DEF Quietly, IInv, TypeOK
<1>3. \A n \in Machine, i \in Installation : Serves(n, i)' => Serves(n, i)
  BY <1>1 DEF Serves, Runs, Promised, Asks
<1>4. Leads'
  BY <1>1 DEF IInv, Clients, Leads, Runs, Promised, Asks
<1>5. Silent' /\ Connected'
  BY <1>1 DEF IInv, Clients, Silent, Connected, Runs, Asks
<1> QED
  BY <1>1, <1>2, <1>3, <1>4, <1>5, MachineFacts, QuietKeeps DEF IInv, TypeOK

LEMMA LoseKeeps == ASSUME IInv, NEW m \in Machine, Lose(m) PROVE IInv'
<1>1. identity' = [identity EXCEPT ![m] = Nobody] /\ UNCHANGED <<allocatorVars, run, rm, config, orphans>>
  BY DEF Lose
<1>2. /\ identity' \in [Machine -> Installation \cup {Nobody}]
      /\ \A n \in Machine : identity'[n] \in {identity[n], Nobody}
  BY <1>1, MachineFacts
<1>3. \A n \in Machine : Ids(n)' \subseteq Ids(n)
  BY <1>1, <1>2 DEF Ids
<1> QED
  BY <1>1, <1>2, <1>3, MachineFacts, KeptAlone DEF IInv, TypeOK

LEMMA UpdateKeeps == ASSUME IInv, NEW m \in Machine, Update(m) PROVE IInv'
<1>1. UNCHANGED <<allocatorVars, identity, run, rm, orphans>>
  BY DEF Update
<1>2. config \in [Machine -> [short: BOOLEAN, port: Port]]
  BY DEF IInv, TypeOK
<1>3. config' \in [Machine -> [short: BOOLEAN, port: Port]]
  <2> DEFINE s == [config[m] EXCEPT !.short = TRUE]
             q(p) == [config[m] EXCEPT !.port = p]
  <2>1. config[m] \in [short: BOOLEAN, port: Port]
    BY <1>2
  <2>2. s \in [short: BOOLEAN, port: Port] /\ \A p \in Port : q(p) \in [short: BOOLEAN, port: Port]
    BY <2>1
  <2>3. config' = [config EXCEPT ![m] = s] \/ \E p \in Port : config' = [config EXCEPT ![m] = q(p)]
    BY DEF Update
  <2> HIDE DEF s, q
  <2> QED
    BY <1>2, <2>2, <2>3
<1>4. \A n \in Machine : Ids(n)' = Ids(n)
  BY <1>1 DEF Ids
<1> QED
  BY <1>1, <1>3, <1>4, MachineFacts, KeptAlone DEF IInv, TypeOK

LEMMA RemoveKeeps == ASSUME IInv, NEW m \in Machine, Remove(m) PROVE IInv'
<1> DEFINE r == Delete(<<m, "rm">>, identity[m])
<1>1. /\ rm' = [rm EXCEPT ![m] = identity[m]] /\ queue' = Append(queue, r)
      /\ identity[m] \in Installation
      /\ UNCHANGED <<db, mem, job, answers, tunnels, dns, given, fails>>
      /\ identity' = identity /\ run' = run /\ config' = config /\ orphans' = orphans
  BY MachineFacts DEF Remove
<1>2. r \in Request /\ r.kind = "delete" /\ r.who = identity[m] /\ \A n \in Machine : r.from # Asks(n)
  BY <1>1 DEF Delete, Request, Client, Asks
<1> HIDE DEF r
<1>3. /\ rm' \in [Machine -> Installation \cup {Nobody}]
      /\ \A n \in Machine : rm'[n] = rm[n] \/ rm'[n] = identity[n]
  BY <1>1, MachineFacts
<1>4. /\ queue \in Seq(Request) /\ queue' \in Seq(Request)
      /\ \A k \in DOMAIN queue' : (k \in DOMAIN queue /\ queue'[k] = queue[k]) \/ queue'[k] = r
  <2>1. queue \in Seq(Request)
    BY MachineFacts
  <2> QED
    BY ONLY <1>1, <1>2, <2>1
<1>5. Aside
  BY <1>1, AllAside
<1>6. Quietly
  <2>1. \A n \in Machine : Ids(n)' \subseteq Ids(n)
    BY <1>1, <1>3 DEF Ids
  <2> QED
    BY <1>1, <1>2, <1>4, <2>1 DEF Quietly
<1>7. \A n \in Machine, i \in Installation : Serves(n, i)' => Serves(n, i)
  BY <1>1 DEF Serves, Runs, Promised, Asks
<1>8. Leads'
  BY <1>1 DEF IInv, Clients, Leads, Runs, Promised, Asks
<1>9. Silent' /\ Connected'
  BY <1>1 DEF IInv, Clients, Silent, Connected, Runs, Asks
<1> QED
  BY <1>1, <1>3, <1>5, <1>6, <1>7, <1>8, <1>9, MachineFacts, QuietKeeps

LEMMA RemoveEndsKeeps == ASSUME IInv, NEW m \in Machine, RemoveEnds(m) PROVE IInv'
<1> DEFINE c == <<m, "rm">>
<1>1. /\ answers' = [answers EXCEPT ![c] = NoAnswer]
      /\ rm' = [rm EXCEPT ![m] = Nobody]
      /\ identity' = [identity EXCEPT ![m] = Nobody] \/ identity' = identity
      /\ UNCHANGED <<db, mem, job, queue, tunnels, dns, given, fails>>
      /\ run' = run /\ config' = config /\ orphans' = orphans
  BY DEF RemoveEnds
<1>2. c \in Client /\ \A n \in Machine : Asks(n) # c /\ Asks(n) \in Client
  BY DEF Asks, Client
<1> HIDE DEF c
<1>3. /\ answers' \in [Client -> Assignment]
      /\ \A n \in Machine : answers'[Asks(n)] = answers[Asks(n)]
  BY <1>1, <1>2, MachineFacts, OffState
<1>4. /\ rm' \in [Machine -> Installation \cup {Nobody}]
      /\ \A n \in Machine : rm'[n] \in {rm[n], Nobody}
      /\ identity' \in [Machine -> Installation \cup {Nobody}]
      /\ \A n \in Machine : identity'[n] \in {identity[n], Nobody}
  BY <1>1, MachineFacts
<1>5. Aside
  BY <1>1, AllAside
<1>6. Quietly
  <2>1. \A n \in Machine : Ids(n)' \subseteq Ids(n)
    BY <1>1, <1>4 DEF Ids
  <2> QED
    BY <1>1, <1>3, <2>1 DEF Quietly, IInv, TypeOK
<1>7. \A n \in Machine, i \in Installation : Serves(n, i)' => Serves(n, i)
  BY <1>1, <1>3 DEF Serves, Runs, Promised, Asks
<1>8. Leads'
  BY <1>1, <1>3 DEF IInv, Clients, Leads, Runs, Promised, Asks
<1>9. Silent' /\ Connected'
  BY <1>1, <1>3 DEF IInv, Clients, Silent, Connected, Runs, Asks
<1> QED
  BY <1>1, <1>3, <1>4, <1>5, <1>6, <1>7, <1>8, <1>9, MachineFacts, QuietKeeps

\* The identity a daemon asks with is its own, or one nobody has.
LEMMA OwnIdentity ==
  ASSUME IInv, NEW m \in Machine, NEW i \in Identities(m)
  PROVE  i \in Installation /\ \A n \in Machine : n # m => i \notin Ids(n)
<1>0. Nobody \notin Installation
  BY AllocatorConstants
<1>1. CASE identity[m] # Nobody
  <2>1. i = identity[m] /\ i \in Ids(m) /\ i \in Installation
    BY <1>1, MachineFacts DEF Identities, Ids
  <2> QED
    BY <2>1 DEF IInv, Clients, OneEach
<1>2. CASE identity[m] = Nobody
  <2>1. i \in Installation /\ ~Known(i)
    BY <1>2 DEF Identities
  <2> QED
    BY <2>1 DEF Known, Ids
<1> QED
  BY <1>1, <1>2

LEMMA StartKeeps == ASSUME IInv, NEW m \in Machine, Start(m) PROVE IInv'
<1>0. Nobody \notin Installation
  BY AllocatorConstants
<1>1. PICK i \in Identities(m) :
        /\ identity' = [identity EXCEPT ![m] = i]
        /\ run' = [run EXCEPT ![m] = [Off EXCEPT !.at = "asking", !.who = i]]
        /\ queue' = Append(queue, Put(Asks(m), i, config[m].port, config[m].short))
  BY DEF Start, Asks
<1>2. /\ run[m] = Off /\ UNCHANGED <<db, mem, job, answers, tunnels, dns, given, fails>>
      /\ rm' = rm /\ config' = config /\ orphans' = orphans
  BY DEF Start
<1>3. i \in Installation /\ \A n \in Machine : n # m => i \notin Ids(n)
  BY OwnIdentity
<1> DEFINE s == [Off EXCEPT !.at = "asking", !.who = i]
           r == Put(Asks(m), i, config[m].port, config[m].short)
<1>4. s \in DaemonState /\ s.at = "asking" /\ s.who = i
  BY <1>3 DEF Off, DaemonState
<1>5. r \in Request /\ r.kind = "put" /\ r.who = i /\ r.from = Asks(m)
  <2>1. config[m].port \in Port /\ config[m].short \in BOOLEAN
    BY MachineFacts
  <2> QED
    BY <1>3, <2>1 DEF Put, Request, Client, Asks
<1>6. run' = [run EXCEPT ![m] = s] /\ queue' = Append(queue, r)
  BY <1>1
<1> HIDE DEF s, r
<1>7. /\ run'[m] = s /\ \A n \in Machine : n # m => run'[n] = run[n]
      /\ run' \in [Machine -> DaemonState]
  BY <1>4, <1>6, MachineFacts
<1>8. /\ identity' \in [Machine -> Installation \cup {Nobody}]
      /\ identity'[m] = i /\ \A n \in Machine : n # m => identity'[n] = identity[n]
  BY <1>1, <1>3, MachineFacts
<1>9. /\ queue' \in Seq(Request)
      /\ DOMAIN queue' = 1..Len(queue) + 1 /\ DOMAIN queue = 1..Len(queue) /\ Len(queue) \in Nat
      /\ queue'[Len(queue) + 1] = r
      /\ \A k \in DOMAIN queue : queue'[k] = queue[k]
  <2>1. queue \in Seq(Request)
    BY MachineFacts
  <2> QED
    BY ONLY <1>5, <1>6, <2>1
<1>10. \A n \in Machine : Asks(n) = Asks(m) => n = m
  BY DEF Asks
<1>11. /\ job.req.from # Asks(m)
       /\ \A k \in DOMAIN queue : queue[k].from # Asks(m)
       /\ answers[Asks(m)] = NoAnswer
  BY <1>2, OffState DEF IInv, Clients, Queued, Asked, AskedIn, Silent
\* Nobody else is at work for the identity.
<1>12. \A n \in Machine : n # m /\ run[n].at # "off" => run[n].who # i
  BY <1>0, <1>3 DEF Ids
<1>13. TypeOK'
  BY <1>2, <1>7, <1>8, <1>9 DEF IInv, TypeOK
<1>14. Store'
  BY <1>2, AllAside, AsideStore
<1>15. OneEach'
  <2>1. Ids(m)' \subseteq Ids(m) \cup {i} /\ \A n \in Machine : n # m => Ids(n)' = Ids(n)
    BY <1>2, <1>4, <1>7, <1>8 DEF Ids
  <2> QED
    BY <1>3, <2>1 DEF IInv, Clients, OneEach
<1>q. \A n \in Machine :
        /\ AskedIn(n, job.req, run, answers)
        /\ job.req.from = Asks(n) =>
             \A k \in DOMAIN queue : ~IsPut(queue[k], job.req.who) /\ queue[k].from # Asks(n)
        /\ \A k \in DOMAIN queue :
             /\ AskedIn(n, queue[k], run, answers)
             /\ queue[k].from = Asks(n) => \A l \in DOMAIN queue : l > k => ~IsPut(queue[l], queue[k].who)
  BY DEF IInv, Clients, Queued, Asked, Me
<1>16. Queued'
  <2> SUFFICES ASSUME NEW n \in Machine
               PROVE  /\ AskedIn(n, job.req, run', answers)
                      /\ job.req.from = Asks(n) =>
                           \A k \in DOMAIN queue' : ~IsPut(queue'[k], job.req.who) /\ queue'[k].from # Asks(n)
                      /\ \A k \in DOMAIN queue' :
                           /\ AskedIn(n, queue'[k], run', answers)
                           /\ queue'[k].from = Asks(n) =>
                                \A l \in DOMAIN queue' : l > k => ~IsPut(queue'[l], queue'[k].who)
    BY <1>2 DEF Queued, Me, Asks, IsPut, Asked, AskedIn
  <2>1. CASE n = m
    <3>1. AskedIn(m, r, run', answers)
      BY <1>4, <1>5, <1>7, <1>11 DEF AskedIn
    <3>2. \A k \in DOMAIN queue' : AskedIn(m, queue'[k], run', answers)
      BY <1>9, <1>11, <3>1 DEF AskedIn
    <3>3. \A k \in DOMAIN queue' : queue'[k].from = Asks(m) => k = Len(queue) + 1
      BY <1>9, <1>11
    <3>4. AskedIn(m, job.req, run', answers)
      BY <1>11 DEF AskedIn
    <3> QED
      BY <1>9, <1>11, <2>1, <3>2, <3>3, <3>4
  <2>2. CASE n # m
    <3>1. \A x : AskedIn(n, x, run, answers) => AskedIn(n, x, run', answers)
      BY <1>7, <2>2 DEF AskedIn
    <3>2. r.from # Asks(n)
      BY <1>5, <1>10, <2>2
    <3>3. AskedIn(n, job.req, run', answers)
      BY <1>q, <3>1
    <3>4. \A k \in DOMAIN queue' : AskedIn(n, queue'[k], run', answers)
      <4>1. AskedIn(n, r, run', answers)
        BY <3>2 DEF AskedIn
      <4> QED
        BY <1>9, <1>q, <3>1, <4>1
    <3>5. \A x : AskedIn(n, x, run, answers) /\ x.from = Asks(n) => ~IsPut(r, x.who)
      BY <1>5, <1>12, <2>2 DEF AskedIn, IsPut
    <3>6. job.req.from = Asks(n) =>
            \A k \in DOMAIN queue' : ~IsPut(queue'[k], job.req.who) /\ queue'[k].from # Asks(n)
      BY <1>9, <1>q, <3>2, <3>5
    <3>7. ASSUME NEW k \in DOMAIN queue', queue'[k].from = Asks(n), NEW l \in DOMAIN queue', l > k
          PROVE  ~IsPut(queue'[l], queue'[k].who)
      <4>1. k \in DOMAIN queue /\ queue'[k] = queue[k]
        BY <1>9, <3>2, <3>7
      <4> QED
        BY <1>9, <1>q, <3>5, <3>7, <4>1
    <3> QED
      BY <3>3, <3>4, <3>6, <3>7
  <2> QED
    BY <2>1, <2>2
<1>17. Wanted'
  BY <1>3, <1>5, <1>9 DEF IInv, Clients, Wanted
<1>18. \A n \in Machine : /\ Runs(n)' => n # m /\ Runs(n)
                          /\ Promised(n)' => n # m /\ Promised(n)
  <2> SUFFICES ASSUME NEW n \in Machine
               PROVE  /\ Runs(n)' => n # m /\ Runs(n)
                      /\ Promised(n)' => n # m /\ Promised(n)
    OBVIOUS
  <2>1. CASE n = m
    BY <1>2, <1>4, <1>7, <1>11, <2>1, OffState DEF Runs, Promised, Asks
  <2>2. CASE n # m
    BY <1>2, <1>7, <2>2 DEF Runs, Promised, Asks
  <2> QED
    BY <2>1, <2>2
<1>19. Leads'
  <2> SUFFICES ASSUME NEW n \in Machine
               PROVE  /\ run'[n].at = "off" => run'[n] = Off
                      /\ run'[n].at # "off" => run'[n].who \in Installation
                      /\ Runs(n)' => run'[n].tunnel \in Tunnel /\ tunnels'[run'[n].tunnel].owner = run'[n].who
                      /\ Promised(n)' => /\ answers'[Asks(n)].tunnel \in Tunnel
                                         /\ tunnels'[answers'[Asks(n)].tunnel].owner = run'[n].who
    BY DEF Leads, Asks
  <2>1. CASE n = m
    BY <1>3, <1>4, <1>7, <1>18, <2>1
  <2>2. CASE n # m
    BY <1>2, <1>7, <1>18, <2>2 DEF IInv, Clients, Leads
  <2> QED
    BY <2>1, <2>2
<1>20. Silent'
  <2> SUFFICES ASSUME NEW n \in Machine, run'[n].at # "asking" PROVE answers'[Asks(n)] = NoAnswer
    BY DEF Silent, Asks, NoAnswer, Answer
  <2> QED
    BY <1>2, <1>4, <1>7 DEF IInv, Clients, Silent
<1>21. Connected'
  <2> SUFFICES ASSUME NEW t \in Tunnel, tunnels[t].up
               PROVE  t \in orphans \/ \E n \in Machine : Runs(n)' /\ run'[n].tunnel = t
    BY <1>2 DEF Connected, Runs
  <2> SUFFICES ASSUME t \notin orphans PROVE \E n \in Machine : Runs(n)' /\ run'[n].tunnel = t
    OBVIOUS
  <2>1. PICK n \in Machine : Runs(n) /\ run[n].tunnel = t
    BY DEF IInv, Clients, Connected
  <2>2. n # m
    BY <1>2, <2>1, OffState DEF Runs
  <2> QED
    BY <1>7, <2>1, <2>2 DEF Runs
<1>22. Served'
  <2> SUFFICES ASSUME NEW n \in Machine, NEW j \in Installation, Serves(n, j)'
               PROVE  ~Waiting(j)' /\ Kept(db'[j], tunnels', dns')
    BY DEF Served, Kept, Routed
  <2>1. n # m /\ Serves(n, j)
    BY <1>7, <1>18 DEF Serves
  <2>2. ~Waiting(j) /\ Kept(db[j], tunnels, dns)
    BY <2>1 DEF IInv, Clients, Served
  <2>3. j # i
    BY <1>0, <1>3, <2>1 DEF Serves, Ids
  <2>4. ~IsPut(job.req, j) /\ \A k \in DOMAIN queue' : ~IsPut(queue'[k], j)
    BY <1>5, <1>9, <2>2, <2>3 DEF Waiting, IsPut
  <2>5. ~Waiting(j)'
    BY <1>2, <2>4 DEF Waiting, IsPut
  <2> QED
    BY <1>2, <2>2, <2>5
<1> QED
  BY <1>13, <1>14, <1>15, <1>16, <1>17, <1>19, <1>20, <1>21, <1>22 DEF IInv, Clients

-----------------------------------------------------------------------------
(* The invariant holds.                                                    *)

LEMMA InitSound == ASSUME Init PROVE IInv
<1>1. /\ db = [i \in Installation |-> Blank] /\ mem = db /\ job = Idle /\ queue = <<>>
      /\ answers = [c \in Client |-> NoAnswer] /\ tunnels = [t \in Tunnel |-> Unused]
      /\ dns = {} /\ orphans = {} /\ given = {} /\ fails = 0
      /\ identity = [m \in Machine |-> Nobody] /\ run = [m \in Machine |-> Off]
      /\ rm = [m \in Machine |-> Nobody]
      /\ config = [m \in Machine |-> [short |-> FALSE, port |-> 1]]
  BY DEF Init, AllocatorInit
<1>2. /\ Unused \in TunnelState /\ Unused.owner = Nobody /\ ~Unused.live /\ ~Unused.up
      /\ Idle \in Job /\ Idle.at = "idle" /\ Idle.left = {} /\ Idle.req.kind = "sweep"
      /\ Idle.req.who = Nobody /\ Idle.req.from = Nobody
      /\ Nobody \notin Installation \cup Client
  BY AllocatorConstants DEF Unused, TunnelState, NoRoute, Idle, Sweep, Job, Request
<1>3. TypeOK
  BY <1>1, <1>2, BlankIsRecord, OffState, FirstPort, AllocatorConstants DEF TypeOK
<1>4. \A i \in Installation : Sound(i, db[i], tunnels, dns)
  <2> SUFFICES ASSUME NEW i \in Installation PROVE Sound(i, Blank, tunnels, dns)
    BY <1>1
  <2>1. /\ Blank.status = "none" /\ Blank.previous = NoName /\ Blank.tunnel = NoTunnel
        /\ Blank.host = NoName /\ Blank.retired = {}
    BY DEF Blank
  <2>2. \A u \in Tunnel : ~Owns(i, u, tunnels)
    BY <1>1, <1>2 DEF Owns
  <2>3. WellNamed(i, Blank)
    BY <2>1 DEF WellNamed, Names
  <2>4. Housed(i, Blank, tunnels) /\ Pointed(i, Blank, tunnels, dns)
    BY <1>1, <2>1, <2>2 DEF Housed, Pointed
  <2> QED
    BY <2>1, <2>3, <2>4 DEF Sound
<1>5. Owned /\ Copies /\ Placed /\ Listed
  BY <1>1, <1>2 DEF Owned, Claimed, Copies, Placed, Listed
<1>6. Few /\ Apart /\ Given
  <2>1. \A i \in Installation : ~Registered(db[i]) /\ Names(db[i]) = {}
    BY <1>1 DEF Registered, Blank, Names
  <2>2. Members = {} /\ Holders = {}
    BY <2>1 DEF Members, Holders, Holds
  <2>3. IsFiniteSet({}) /\ Cardinality({}) = 0
    BY FS_EmptySet
  <2>4. 0 <= Capacity
    BY AllocatorConstants
  <2> QED
    BY <1>1, <2>1, <2>2, <2>3, <2>4 DEF Few, Apart, Given
<1>7. Clients
  <2>1. \A m \in Machine : /\ Ids(m) = {} /\ run[m] = Off /\ ~Runs(m) /\ ~Promised(m)
                           /\ answers[Asks(m)] = NoAnswer /\ Asks(m) # Nobody
    BY <1>1, <1>2, OffState DEF Ids, Runs, Promised, Asks, Client
  <2>2. OneEach /\ Queued /\ Wanted /\ Leads /\ Silent
    BY <1>1, <1>2, <2>1, OffState DEF OneEach, Queued, Wanted, Leads, Silent, Asked, AskedIn
  <2>3. Connected /\ Served
    BY <1>1, <1>2, <2>1 DEF Connected, Served, Serves
  <2> QED
    BY <2>2, <2>3 DEF Clients
<1> QED
  BY <1>3, <1>4, <1>5, <1>6, <1>7 DEF IInv, Store, Sounds

LEMMA StepSound == ASSUME IInv, [Next]_vars PROVE IInv'
<1>1. CASE AllocatorNext /\ UNCHANGED clientVars
  BY <1>1, AllocatorKeeps
<1>4. ASSUME NEW t \in Tunnel, ConnectorStep(t) PROVE IInv'
  BY <1>4, ConnectKeeps, LoseConnectionKeeps, OrphanEndsKeeps DEF ConnectorStep
<1>2. ASSUME NEW m \in Machine, MachineStep(m) PROVE IInv'
  BY <1>2, StartKeeps, AssignedKeeps, AnnounceKeeps, StopKeeps,
     GiveUpKeeps, RemoveKeeps, RemoveEndsKeeps, UpdateKeeps, LoseKeeps DEF MachineStep
<1>3. CASE UNCHANGED vars
  <2>1. /\ UNCHANGED <<allocatorVars, run, orphans>>
        /\ identity' = identity /\ rm' = rm /\ config' = config /\ orphans' = orphans /\ run' = run
    BY <1>3 DEF vars, clientVars
  <2>2. \A m \in Machine : Ids(m)' = Ids(m)
    BY <2>1 DEF Ids
  <2> QED
    BY <2>1, <2>2, KeptAlone DEF IInv, TypeOK
<1> QED
  BY <1>1, <1>2, <1>3, <1>4 DEF Next

LEMMA Inductive == Spec => []IInv
<1>1. Init => IInv
  BY InitSound
<1>2. IInv /\ [Next]_vars => IInv'
  BY StepSound
<1> QED
  BY <1>1, <1>2, PTL DEF Spec

-----------------------------------------------------------------------------

\* The records, requests, answers and tunnels are always what the allocator
\* and its clients declare them to be.
THEOREM Typed == Spec => []TypeOK
<1>1. IInv => TypeOK
  BY DEF IInv
<1> QED
  BY <1>1, Inductive, PTL

LEMMA NothingLeaksNow == IInv => NothingLeaks
<1> SUFFICES ASSUME IInv PROVE NothingLeaks
  OBVIOUS
<1>1. \A i \in Installation : Sound(i, db[i], tunnels, dns)
  BY DEF IInv, Store, Sounds
<1>2. ASSUME NEW t \in Tunnel, tunnels[t].live
      PROVE  /\ Holds(db[tunnels[t].owner])
             /\ \A u \in Tunnel \ {t} : tunnels[u].live => tunnels[u].owner # tunnels[t].owner
  <2> DEFINE i == tunnels[t].owner
  <2>1. i \in Installation
    BY <1>2 DEF IInv, Store, Owned, Claimed
  <2>2. Housed(i, db[i], tunnels) /\ Owns(i, t, tunnels)
    BY <1>1, <1>2, <2>1 DEF Sound, Owns
  <2>3. ~Empty(db[i])
    BY <2>2 DEF Housed
  <2>4. Holds(db[i])
    BY <2>3 DEF Empty, Holds, Registered
  <2>5. \A u \in Tunnel \ {t} : tunnels[u].live => tunnels[u].owner # i
    BY <2>2 DEF Housed, Owns
  <2> QED
    BY <2>4, <2>5
<1>3. ASSUME NEW d \in dns
      PROVE  \E i \in Installation : Holds(db[i]) /\ d[1] \in {db[i].host, db[i].previous}
  <2>1. tunnels[d[2]].owner \in Installation
    BY <1>3 DEF IInv, Store, Owned, Claimed
  <2> QED
    BY <1>1, <1>3, <2>1 DEF Sound, Pointed
<1>4. Cardinality({i \in Installation : Holds(db[i])}) <= Capacity
  BY DEF IInv, Store, Few, Holders
<1> QED
  BY <1>2, <1>3, <1>4 DEF NothingLeaks

\* A call of the provider that has worked and whose answer was lost, a request
\* that failed in the middle, an eviction, a sweep: whatever there is at the
\* provider belongs to a record that holds a place, each record has one tunnel
\* at most, and no more than Capacity records hold one (tunnel-allocator.ts).
THEOREM NoTunnelIsLost == Spec => []NothingLeaks
BY NothingLeaksNow, Inductive, PTL

LEMMA NamesStayNow == IInv => NamesStay
<1> SUFFICES ASSUME IInv, NEW g \in given, NEW h \in given, g[1] = h[1] PROVE g[2] = h[2]
  BY DEF NamesStay
<1>1. g[2] \in Installation /\ h[2] \in Installation
  BY DEF IInv, TypeOK
<1>2. g[1] \in Names(db[g[2]]) \cap Names(db[h[2]])
  BY DEF IInv, Store, Given
<1> QED
  BY <1>1, <1>2 DEF IInv, Store, Apart

\* A hostname that an installation was given is never given to another one,
\* also after the first has moved, was reclaimed or has been deleted
\* (newHostname, hostname_history).
THEOREM NamesAreNotReused == Spec => []NamesStay
BY NamesStayNow, Inductive, PTL

LEMMA ReadyIsRoutedNow == IInv => ReadyIsRouted
<1> SUFFICES ASSUME IInv, NEW i \in Installation, db[i].status = "ready"
             PROVE  LET t == db[i].tunnel IN
                    /\ t # NoTunnel /\ tunnels[t].live
                    /\ ~db[i].spared =>
                         /\ tunnels[t].route = <<db[i].host, db[i].port>>
                         /\ {d \in dns : d[1] \in Names(db[i])} = {<<db[i].host, t>>}
  BY DEF ReadyIsRouted
<1> DEFINE t == db[i].tunnel
<1>1. \A j \in Installation : Sound(j, db[j], tunnels, dns) /\ db[j] \in Record
  BY DEF IInv, TypeOK, Store, Sounds
<1>2. Routed(db[i], tunnels, dns) /\ t # NoTunnel /\ tunnels[t].live
  BY <1>1 DEF Sound, Housed, Routed
<1> SUFFICES ASSUME ~db[i].spared
             PROVE  /\ tunnels[t].route = <<db[i].host, db[i].port>>
                    /\ {d \in dns : d[1] \in Names(db[i])} = {<<db[i].host, t>>}
  BY <1>2
<1>3. ASSUME NEW d \in dns, d[1] \in Names(db[i]) PROVE d = <<db[i].host, t>>
  <2> DEFINE j == tunnels[d[2]].owner
  <2>1. j \in Installation /\ d \in Hostname \X Tunnel /\ NoName \notin Hostname
    BY AllocatorConstants DEF IInv, Store, Owned, Claimed, TypeOK
  <2>2. db[j].tunnel = d[2] /\ d[1] \in {db[j].host, db[j].previous} /\ d = <<d[1], d[2]>>
    BY <1>1, <2>1 DEF Sound, Pointed
  <2>3. d[1] \in Names(db[j])
    BY <2>1, <2>2 DEF Names
  <2>4. j = i
    BY <1>3, <2>1, <2>3 DEF IInv, Store, Apart
  <2>5. db[i].previous = NoName
    BY <1>2 DEF Routed
  <2> QED
    BY <2>1, <2>2, <2>4, <2>5
<1>4. <<db[i].host, t>> \in dns /\ db[i].host \in Names(db[i])
  <2>1. db[i].host # NoName
    BY <1>1 DEF Sound, WellNamed
  <2> QED
    BY <1>2, <2>1 DEF Routed, Names
<1> QED
  BY <1>2, <1>3, <1>4 DEF Routed

\* Whatever was interrupted between the storage and the provider, a record that is
\* stored as ready has a tunnel that is there, its address leads to that and
\* nowhere else, and the tunnel to the port of its daemon (Allocator.handle); but
\* not if the sweep made it ready for a connector whose daemon had been killed.
THEOREM ReadyLeadsHome == Spec => []ReadyIsRouted
BY ReadyIsRoutedNow, Inductive, PTL
=============================================================================
