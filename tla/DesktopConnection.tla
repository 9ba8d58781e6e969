-------------------------- MODULE DesktopConnection --------------------------
(***************************************************************************)
(* Which daemon the desktop talks to, and through what: the settings that  *)
(* are saved, the SSH tunnel, and the supervisor that keeps the tunnel of  *)
(* the saved settings open and publishes its endpoint.                     *)
(*                                                                         *)
(* A target stands for whole settings.  Remote targets are reached through *)
(* a tunnel, Local ones directly.  A tunnel is known by its target and its *)
(* port; no two tunnels share one.                                         *)
(***************************************************************************)
EXTENDS Naturals

CONSTANTS
  Remote,      \* targets behind an SSH tunnel
  Local,       \* the target that needs none: this machine, or a plain URL
  MaxUpsets,   \* how much happens from outside: saves, faults and
               \* what the modules on top of this one add (bound)
  Nil

ASSUME ConnectionAssumption == Local \notin Remote /\ MaxUpsets \in Nat

VARIABLES
  saved,    \* the settings in the file
  save,     \* the save under way
  holder,   \* who holds the lock on the manager's tunnel
  tunnel,   \* the tunnel of the manager, or Nil
  port,     \* the port of the latest tunnel
  upsets,   \* what has happened from outside (bound)
  sup,      \* the supervisor: where it is, the settings it has read, whether its
            \* connecting is cancelled, and the state it is about to publish
  unseen,   \* settings were saved since the supervisor looked
  state,    \* what the supervisor has published
  notice    \* the event stream has a change of settings or endpoint to look at

connVars == <<saved, save, holder, tunnel, port, upsets, sup, unseen, state, notice>>

Target == Remote \cup {Local}
Endpoint == [of : Remote, port : Nat]

Asleep == [at |-> "sleep", read |-> Nil, cut |-> FALSE, next |-> Nil, then |-> "sleep"]

ConnInit ==
  /\ saved \in Target
  /\ upsets = 0 /\ port = 0
  /\ save = [at |-> "idle", to |-> Nil]
  /\ holder = "nobody" /\ tunnel = Nil
  /\ sup = Asleep
  /\ state = [of |-> Nil, end |-> Nil]
  /\ unseen = FALSE /\ notice = FALSE

Open(t) == tunnel # Nil /\ tunnel.of = t /\ tunnel.up
Opened(t) == /\ port' = port + 1
             /\ tunnel' = [of |-> t, port |-> port + 1, up |-> TRUE]
EndOf(x) == [of |-> x.of, port |-> x.port]
Upset == upsets < MaxUpsets /\ upsets' = upsets + 1

SupAt(at) == sup' = IF at = "sleep" THEN Asleep ELSE [sup EXCEPT !.at = at]

\* publish: whoever has the endpoint that is gone must notice, before the state
\* is replaced.  The supervisor goes on as `then` says.
Publishes(of, end, then) ==
  LET next == [of |-> of, end |-> end]
  IN  /\ notice' = (notice \/ state.end # end)
      /\ IF next = state THEN SupAt(then)
         ELSE sup' = [sup EXCEPT !.at = "publish", !.next = next, !.then = then]

\* What a request to target t needs: the settings it was begun with are still
\* saved, and the published endpoint answers.
Reach(t) == /\ saved = t
            /\ t \in Remote => /\ state.of = t /\ state.end # Nil
                               /\ Open(t) /\ EndOf(tunnel) = state.end

\* The tunnel breaks: the process of ssh exits.
Lose ==
  /\ tunnel # Nil /\ tunnel.up /\ Upset
  /\ tunnel' = [tunnel EXCEPT !.up = FALSE]
  /\ UNCHANGED <<saved, save, holder, port, sup, unseen, state, notice>>

-----------------------------------------------------------------------------
(* Saving settings. *)

BeginSave(t) ==
  /\ save.at = "idle" /\ Upset
  /\ save' = [at |-> "wait", to |-> t]
  \* disconnect_transaction first cancels whoever is connecting.
  /\ sup' = IF t = Local /\ sup.at \in {"wait", "connect"} THEN [sup EXCEPT !.cut = TRUE] ELSE sup
  /\ UNCHANGED <<saved, holder, tunnel, port, unseen, state, notice>>

SaveLocks ==
  /\ save.at = "wait" /\ holder = "nobody"
  /\ holder' = "save"
  /\ save' = [save EXCEPT !.at = "connect"]
  /\ UNCHANGED <<saved, tunnel, port, upsets, sup, unseen, state, notice>>

\* commit: the file is replaced, everyone who watches the settings is told, all
\* while the tunnel is locked.
Commit ==
  /\ save.at = "connect"
  /\ saved' = save.to /\ unseen' = TRUE /\ notice' = TRUE
  /\ IF save.to = Local THEN tunnel' = Nil /\ UNCHANGED port
     ELSE IF Open(save.to) THEN UNCHANGED <<tunnel, port>>
     ELSE Opened(save.to)
  /\ save' = [save EXCEPT !.at = "reload"] /\ holder' = "nobody"
  /\ UNCHANGED <<upsets, sup, state>>

\* A target that does not answer, or a file that cannot be written: nothing
\* changes.
SaveFails ==
  /\ save.at = "connect"
  /\ save' = [at |-> "idle", to |-> Nil] /\ holder' = "nobody"
  /\ UNCHANGED <<saved, tunnel, port, upsets, sup, unseen, state, notice>>

-----------------------------------------------------------------------------
(* The supervisor.  The phase it publishes besides, which users see, only says *)
(* whether a request without an endpoint fails or waits first.                  *)

Unlocks == holder' = IF holder = "sup" THEN "nobody" ELSE holder

Read ==
  /\ sup.at = "sleep"
  /\ unseen' = FALSE
  /\ sup' = [sup EXCEPT !.at = "check", !.read = saved]
  /\ UNCHANGED <<saved, save, holder, tunnel, port, upsets, state, notice>>

\* A tunnel that is needed and not there any more is taken back before a new
\* one is sought.
Check ==
  LET had == state.of = sup.read /\ state.end # Nil
      has == had /\ Open(sup.read)
  IN
  /\ sup.at = "check"
  /\ sup.read \in Remote /\ had => holder = "nobody"    \* is_running locks the tunnel
  /\ IF sup.read = Local
     THEN Publishes(Local, Nil, "sleep")
     ELSE IF unseen THEN SupAt("sleep") /\ UNCHANGED notice
     ELSE IF has THEN SupAt("wait") /\ UNCHANGED notice
     ELSE Publishes(sup.read, Nil, "wait")
  /\ UNCHANGED <<saved, save, holder, tunnel, port, upsets, unseen, state>>

Publish ==
  /\ sup.at = "publish"
  /\ state' = sup.next
  /\ sup' = IF sup.then = "sleep" THEN Asleep ELSE [sup EXCEPT !.at = sup.then, !.next = Nil]
  /\ UNCHANGED <<saved, save, holder, tunnel, port, upsets, unseen, notice>>

SupLocks ==
  /\ sup.at = "wait" /\ holder = "nobody" /\ ~sup.cut
  /\ holder' = "sup" /\ SupAt("connect")
  /\ UNCHANGED <<saved, save, tunnel, port, upsets, unseen, state, notice>>

\* connect_transaction: a tunnel that lives is used again, else a new one takes
\* its place; its commit is that the settings are still the saved ones.
Connected ==
  /\ sup.at = "connect" /\ saved = sup.read
  /\ IF Open(sup.read) THEN UNCHANGED <<tunnel, port>> ELSE Opened(sup.read)
  /\ Publishes(sup.read, EndOf(tunnel'), "sleep")
  /\ Unlocks
  /\ UNCHANGED <<saved, save, upsets, unseen, state>>

\* A save has cancelled this, other settings are saved, or the daemon cannot be
\* reached (or is not one).
ConnectFails ==
  /\ \/ sup.at \in {"wait", "connect"} /\ sup.cut /\ UNCHANGED upsets
     \/ sup.at = "connect" /\ saved # sup.read /\ UNCHANGED upsets
     \/ sup.at = "connect" /\ Upset
  /\ Publishes(sup.read, Nil, "sleep")
  /\ Unlocks
  /\ UNCHANGED <<saved, save, tunnel, port, unseen, state>>

\* Connecting is given up for settings that are newly saved.
GivesUp ==
  /\ sup.at \in {"wait", "connect"} /\ unseen
  /\ SupAt("sleep") /\ Unlocks
  /\ UNCHANGED <<saved, save, tunnel, port, upsets, unseen, state, notice>>

Supervise == Read \/ Check \/ Publish \/ SupLocks \/ Connected \/ ConnectFails \/ GivesUp
Saving == SaveLocks \/ Commit \/ SaveFails
ConnNext == Supervise \/ Saving \/ Lose \/ \E t \in Target : BeginSave(t)

State == {x \in [of : Target \cup {Nil}, end : Endpoint \cup {Nil}] :
            x.end # Nil => x.end.of = x.of}

Supervisor == [at : {"sleep", "check", "publish", "wait", "connect"}, read : Target \cup {Nil},
               cut : BOOLEAN, next : State \cup {Nil}, then : {"sleep", "wait"}]

SupTypeOK ==
  /\ sup \in Supervisor
  /\ sup.at # "sleep" => sup.read \in Target
  /\ sup.at \in {"wait", "connect"} => sup.read \in Remote
  /\ sup.at = "publish" => sup.next \in State /\ (sup.then = "wait" => sup.read \in Remote)

LinkTypeOK ==
  /\ saved \in Target /\ upsets \in 0..MaxUpsets /\ port \in Nat
  /\ save \in [at : {"idle", "wait", "connect", "reload"}, to : Target \cup {Nil}]
  /\ save.at # "idle" => save.to \in Target
  /\ holder \in {"nobody", "save", "sup"}
  /\ holder = "save" <=> save.at = "connect"
  /\ holder = "sup" <=> sup.at = "connect"
  /\ tunnel \in [of : Remote, port : Nat, up : BOOLEAN] \cup {Nil}
  /\ unseen \in BOOLEAN /\ notice \in BOOLEAN
  /\ state \in State

ConnTypeOK == SupTypeOK /\ LinkTypeOK
=============================================================================
