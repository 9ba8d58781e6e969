---------------------------- MODULE BuiltinAgent ----------------------------
(***************************************************************************)
(* The bundled agent as the daemon keeps it: the provider profiles a user  *)
(* edits, in a file of the daemon and in the one the agent reads when it   *)
(* starts, and the releases of the agent, of which a row of the agents     *)
(* table names the one to launch.                                          *)
(***************************************************************************)
EXTENDS Naturals, FiniteSets

CONSTANTS
  Profile,     \* ids of saved profiles
  Url,         \* base URLs of providers
  Key,         \* API keys
  MaxRelease,  \* releases: 1..MaxRelease, in the order they appear
  MaxFails,    \* failed writes and restarts between two confirmed operations
  NoKey, NoFile,
  Free,        \* the profile of the free provider, which is not saved
  Unset        \* no profile selected: a file from before there were profiles

Provider == [url : Url, key : Key \cup {NoKey}]
FreeProvider == [url |-> Free, key |-> NoKey]
Release == 1..MaxRelease
NotInstalled == 0

Profiles == UNION {[S -> Provider] : S \in SUBSET Profile}
None == [p \in {} |-> FreeProvider]

\* A view is what the settings show: the profiles and which of them is active.
View == {v \in [active : Profile \cup {Free}, profiles : Profiles] :
           v.active \in DOMAIN v.profiles \cup {Free}}
ProviderOf(v) == IF v.active = Free THEN FreeProvider ELSE v.profiles[v.active]

ASSUME BuiltinAssumption ==
  /\ NoKey \notin Key
  /\ Profile # {}
  /\ Free \notin Profile /\ Unset \notin Profile \cup {Free}
  /\ NoFile \notin View
  /\ MaxRelease \in Nat /\ MaxFails \in Nat

VARIABLES
  \* on disk
  store,      \* the profiles file, a view
  config,     \* the agent's file: the provider, and what older daemons kept there
  releases,   \* executables under agents/
  row,        \* the release the row of the agent launches
  \* in memory
  op,         \* the holder of acp_provider_lock
  installer,  \* the holder of the installation lock
  \* for the properties
  shown,      \* views the user may expect: the last confirmed, and later attempts
  typed,      \* keys with the URL they were entered for
  removed,    \* releases whose file did not verify and has not been replaced since
  fails       \* failures since the last confirmed operation

vars == <<store, config, releases, row, op, installer, shown, typed, removed, fails>>

Idle == [step |-> "idle"]

\* The profiles f with q under p.
With(f, p, q) == [x \in DOMAIN f \cup {p} |-> IF x = p THEN q ELSE f[x]]

\* load_provider_profiles: the views two files amount to. A provider from
\* before there were profiles becomes one, under a new id.
ViewsOf(s, c) ==
  LET old == IF c = NoFile THEN [provider |-> FreeProvider, active |-> Unset, profiles |-> None]
             ELSE c
      f == IF s = NoFile THEN [active |-> old.active, profiles |-> old.profiles] ELSE s
  IN IF f.active # Unset THEN {f}
     ELSE IF old.provider = FreeProvider THEN {[f EXCEPT !.active = Free]}
     ELSE {[active |-> p, profiles |-> With(f.profiles, p, old.provider)] :
             p \in Profile \ DOMAIN f.profiles}

\* The agent's file as this daemon writes it.
ConfigOf(v) == [provider |-> ProviderOf(v), active |-> Unset, profiles |-> None]

\* Nothing yet, the file of one provider, or the one with profiles in it.
Combined(v) == [provider |-> ProviderOf(v), active |-> v.active, profiles |-> v.profiles]
Single(p) == [provider |-> p, active |-> Unset, profiles |-> None]
KeysIn(v) == {v.profiles[p] : p \in DOMAIN v.profiles}

Init ==
  /\ store = NoFile
  /\ config \in {NoFile} \cup {Single(p) : p \in Provider} \cup {Combined(v) : v \in View}
  /\ releases = {}
  /\ row = NotInstalled
  /\ op = Idle
  /\ installer = Idle
  /\ shown = ViewsOf(store, config)
  /\ typed = UNION {KeysIn(v) : v \in shown}
  /\ removed = {}
  /\ fails = 0

-----------------------------------------------------------------------------
(* Provider settings. An operation loads, which may change the files by    *)
(* itself, edits, writes the profiles and then the agent's file, and       *)
(* refreshes the row.                                                      *)

Requests ==
  [action : {"reset"}]
    \cup [action : {"activate", "delete"}, id : Profile \cup {Free}]
    \cup [action : {"save"}, id : Profile \cup {Free}, url : Url, key : Key \cup {NoKey}, clear : BOOLEAN]

Load ==
  /\ op = Idle
  /\ \E v \in ViewsOf(store, config) : op' = [step |-> "heal profiles", view |-> v]
  /\ UNCHANGED <<store, config, releases, row, installer, shown, typed, removed, fails>>

\* Mutant of WriteProfiles: what a load finds goes to the agent's file only.
HealConfigOnly ==
  /\ op.step \in {"heal profiles", "profiles"}
  /\ store' = IF op.step = "profiles" THEN op.view ELSE store
  /\ op' = [op EXCEPT !.step = IF @ = "profiles" THEN "config" ELSE "heal config"]
  /\ UNCHANGED <<config, releases, row, installer, shown, typed, removed, fails>>

WriteProfiles ==
  /\ op.step \in {"heal profiles", "profiles"}
  /\ store' = op.view
  /\ op' = [op EXCEPT !.step = IF @ = "profiles" THEN "config" ELSE "heal config"]
  /\ UNCHANGED <<config, releases, row, installer, shown, typed, removed, fails>>

\* Mutant of KeyFor: whatever the URL.
KeyKept(v, r) ==
  CASE r.clear -> NoKey
    [] ~r.clear /\ r.key # NoKey -> r.key
    [] OTHER -> IF r.id \in DOMAIN v.profiles THEN v.profiles[r.id].key ELSE NoKey

\* A key left blank stays only while the URL does.
KeyFor(v, r) ==
  CASE r.clear -> NoKey
    [] ~r.clear /\ r.key # NoKey -> r.key
    [] OTHER -> IF r.id \in DOMAIN v.profiles /\ v.profiles[r.id].url = r.url
                THEN v.profiles[r.id].key ELSE NoKey

\* The views an edit makes of v: none when it is refused.
Edited(v, r) ==
  CASE r.action = "reset" -> {[v EXCEPT !.active = Free]}
    [] r.action = "activate" ->
         {[v EXCEPT !.active = p] : p \in {r.id} \cap (DOMAIN v.profiles \cup {Free})}
    [] r.action = "delete" ->
         {[active |-> IF v.active = p THEN Free ELSE v.active,
           profiles |-> [q \in DOMAIN v.profiles \ {p} |-> v.profiles[q]]]
            : p \in {r.id} \cap DOMAIN v.profiles}
    [] r.action = "save" ->
         {[active |-> p, profiles |-> With(v.profiles, p, [url |-> r.url, key |-> KeyFor(v, r)])]
            : p \in IF r.id = Free THEN Profile \ DOMAIN v.profiles
                    ELSE {r.id} \cap DOMAIN v.profiles}

\* What a load finds out of date it writes.
HealConfig ==
  /\ op.step = "heal config"
  /\ config' = ConfigOf(op.view)
  /\ op' = [op EXCEPT !.step = "loaded"]
  /\ UNCHANGED <<store, releases, row, installer, shown, typed, removed, fails>>

Get ==
  /\ op.step = "loaded"
  /\ op' = Idle
  /\ shown' = {op.view}
  /\ fails' = 0
  /\ UNCHANGED <<store, config, releases, row, installer, typed, removed>>

Edit(r) ==
  /\ op.step = "loaded"
  /\ IF Edited(op.view, r) = {}
     THEN op' = Idle /\ UNCHANGED <<shown, typed>>
     ELSE \E v \in Edited(op.view, r) :
            /\ op' = [op EXCEPT !.step = "profiles", !.view = v]
            /\ shown' = shown \cup {v}
            /\ typed' = IF r.action = "save"
                        THEN typed \cup {[url |-> r.url, key |-> r.key]} ELSE typed
  /\ UNCHANGED <<store, config, releases, row, installer, removed, fails>>

\* Mutant of WriteConfig: the agent's file is left to the next load.
LeaveConfig ==
  /\ op.step = "config"
  /\ op' = [op EXCEPT !.step = "refresh"]
  /\ UNCHANGED <<store, config, releases, row, installer, shown, typed, removed, fails>>

WriteConfig ==
  /\ op.step = "config"
  /\ config' = ConfigOf(op.view)
  /\ op' = [op EXCEPT !.step = "refresh"]
  /\ UNCHANGED <<store, releases, row, installer, shown, typed, removed, fails>>

\* The release whose executable the row names, or the newest there is.
Found == IF row \in releases THEN row
         ELSE IF releases = {} THEN NotInstalled
         ELSE CHOOSE r \in releases : \A s \in releases : s <= r

\* refresh_builtin_definition reads the row and writes it, without the
\* installation lock.
Refresh ==
  /\ op.step = "refresh"
  /\ op' = [step |-> "save row", view |-> op.view, release |-> Found]
  /\ UNCHANGED <<store, config, releases, row, installer, shown, typed, removed, fails>>

SaveRow ==
  /\ op.step = "save row"
  /\ row' = IF op.release = NotInstalled THEN row ELSE op.release
  /\ op' = Idle
  /\ shown' = {op.view}
  /\ fails' = 0
  /\ UNCHANGED <<store, config, releases, installer, typed, removed>>

\* A write fails: the operation ends with an error where it stands.
FailWrite ==
  /\ op.step \in {"heal profiles", "heal config", "profiles", "config"}
  /\ fails < MaxFails /\ fails' = fails + 1
  /\ op' = Idle
  /\ UNCHANGED <<store, config, releases, row, installer, shown, typed, removed>>

-----------------------------------------------------------------------------
(* Releases, by agent.install or by the update at the start.               *)

BeginInstall ==
  /\ installer = Idle
  /\ \E r \in Release :
       /\ \A s \in releases \cup removed : s <= r
       /\ installer' = [step |-> "download", release |-> r]
  /\ UNCHANGED <<store, config, releases, row, op, shown, typed, removed, fails>>

\* What is there already is kept if it verifies.
Verify ==
  /\ installer.step = "download" /\ installer.release \in releases
  /\ installer' = [installer EXCEPT !.step = "save"]
  /\ UNCHANGED <<store, config, releases, row, op, shown, typed, removed, fails>>

\* Otherwise what is fetched takes its place, for which it is deleted first.
Download ==
  /\ installer.step = "download"
  /\ releases' = releases \ {installer.release}
  /\ removed' = removed \cup (releases \cap {installer.release})
  /\ installer' = [installer EXCEPT !.step = "place"]
  /\ UNCHANGED <<store, config, row, op, shown, typed, fails>>

Place ==
  /\ installer.step = "place"
  /\ releases' = releases \cup {installer.release}
  /\ removed' = removed \ {installer.release}
  /\ installer' = [installer EXCEPT !.step = "save"]
  /\ UNCHANGED <<store, config, row, op, shown, typed, fails>>

SaveRelease ==
  /\ installer.step = "save"
  /\ row' = installer.release
  /\ installer' = Idle
  /\ UNCHANGED <<store, config, releases, op, shown, typed, removed, fails>>

FailInstall ==
  /\ installer.step \in {"download", "place"}
  /\ installer' = Idle
  /\ UNCHANGED <<store, config, releases, row, op, shown, typed, removed, fails>>

\* The daemon ends, and starts again: sync_builtin_preset names the release
\* there is.
Restart ==
  /\ row' = Found
  /\ fails < MaxFails /\ fails' = fails + 1
  /\ op' = Idle
  /\ installer' = Idle
  /\ UNCHANGED <<store, config, releases, shown, typed, removed>>

Next ==
  \/ Load
  \/ WriteProfiles
  \/ HealConfig
  \/ Get
  \/ \E r \in Requests : Edit(r)
  \/ WriteConfig
  \/ Refresh
  \/ SaveRow
  \/ FailWrite
  \/ BeginInstall
  \/ Verify
  \/ Download
  \/ Place
  \/ SaveRelease
  \/ FailInstall
  \/ Restart

Spec == Init /\ [][Next]_vars

-----------------------------------------------------------------------------
\* The profiles on disk are those the settings showed last, or those an edit
\* since then was after: no failed write or restart loses a saved profile, nor
\* does the move from the files older daemons kept (load_provider_profiles,
\* save_provider_profiles).
ProfilesKept == ViewsOf(store, config) \subseteq shown

\* The agent is started with a release that is there, and with the active
\* profile of such a view: one that was removed or left is not used on, whatever
\* settings and installation do at the same time (update_amarcode_acp_config,
\* refresh_builtin_definition). The exception is a release whose file did not
\* verify: it is deleted before the new one is moved into its place
\* (download_artifact), and the move may fail.
LaunchedAsShown ==
  /\ row \in releases \cup removed \cup {NotInstalled}
  /\ config # NoFile => config.provider \in {ProviderOf(v) : v \in shown}

\* An API key is only used at the URL it was entered for: a key that is kept
\* does not follow its profile to another provider.
KeysStayHome ==
  config # NoFile /\ config.provider.key # NoKey => config.provider \in typed
=============================================================================
