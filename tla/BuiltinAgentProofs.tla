------------------------- MODULE BuiltinAgentProofs -------------------------
(***************************************************************************)
(* Proofs about the bundled agent as the daemon keeps it: no saved profile *)
(* is lost, the agent is started with what the settings showed, and a key  *)
(* stays with the URL it was entered for.                                  *)
(***************************************************************************)
EXTENDS BuiltinAgent, TLAPS

Config == [provider : Provider \cup {FreeProvider},
           active : Profile \cup {Free, Unset}, profiles : Profiles]

Acts == [step : {"heal profiles", "heal config", "loaded", "profiles", "config", "refresh"},
         view : View]
Saves == [step : {"save row"}, view : View, release : Release \cup {NotInstalled}]
Installs == [step : {"download", "place", "save"}, release : Release]

TypeOK ==
  /\ store \in {NoFile} \cup View
  /\ config \in {NoFile} \cup Config
  /\ releases \subseteq Release /\ removed \subseteq Release
  /\ row \in Release \cup {NotInstalled}
  /\ op \in {Idle} \cup Acts \cup Saves
  /\ installer \in {Idle} \cup Installs
  /\ shown \subseteq View

\* What an operation holds is a view the user may expect; from the write of the
\* profiles on it is the one on disk, and once the agent's file is written that
\* one agrees with it (save_provider_profiles).
Held ==
  /\ op # Idle => op.view \in shown
  /\ op.step \in {"heal config", "loaded", "config", "refresh", "save row"} => store = op.view
  /\ op.step = "profiles" => store # NoFile
  /\ op.step \in {"loaded", "refresh", "save row"} => config = ConfigOf(op.view)

\* Every key of a view the user may expect was entered for the URL it is with.
Entered ==
  \A v \in shown : \A p \in DOMAIN v.profiles :
    v.profiles[p].key # NoKey => v.profiles[p] \in typed

\* Among any releases there is a newest, and what is being installed is not older.
Newest ==
  /\ \A S \in SUBSET (releases \cup removed) : S # {} => \E r \in S : \A s \in S : s <= r
  /\ installer.step \in {"download", "place"} =>
       \A s \in releases \cup removed : s <= installer.release

\* What is about to be saved in the row is there to be launched, or was deleted for
\* one that has not come.
Fetched ==
  /\ op.step = "save row" => op.release \in releases \cup removed \cup {NotInstalled}
  /\ installer.step = "save" => installer.release \in releases

IInv ==
  /\ TypeOK
  /\ Held
  /\ Entered
  /\ Newest
  /\ Fetched
  /\ ProfilesKept
  /\ LaunchedAsShown

-----------------------------------------------------------------------------
(* The views that two files amount to.                                     *)

\* Once there is a profiles file, it alone says what the profiles are.
LEMMA StoredView ==
  ASSUME NEW s \in View, NEW c
  PROVE  ViewsOf(s, c) = {s}
<1>1. s # NoFile
  BY BuiltinAssumption
<1>2. s.active # Unset
  BY BuiltinAssumption DEF View
<1> QED
  BY <1>1, <1>2 DEF ViewsOf

\* A view is all that its fields say.
LEMMA ViewFields ==
  ASSUME NEW v \in View
  PROVE  /\ v.active \in Profile \cup {Free}
         /\ v.profiles \in Profiles
         /\ v.active \in DOMAIN v.profiles \cup {Free}
         /\ v = [active |-> v.active, profiles |-> v.profiles]
BY DEF View

\* Profiles are functions from some ids.
LEMMA ProfilesAreFunctions ==
  ASSUME NEW f \in Profiles
  PROVE  /\ DOMAIN f \subseteq Profile
         /\ f \in [DOMAIN f -> Provider]
         /\ \A p \in DOMAIN f : f[p] \in Provider
BY DEF Profiles

\* Any providers under some ids are profiles.
LEMMA FunctionsAreProfiles ==
  ASSUME NEW S \in SUBSET Profile, NEW f \in [S -> Provider]
  PROVE  f \in Profiles
BY DEF Profiles

\* No profiles are profiles.
LEMMA NoneIsProfiles == None \in Profiles /\ DOMAIN None = {}
<1>1. None \in [{} -> Provider]
  BY DEF None
<1> QED
  BY <1>1, FunctionsAreProfiles DEF None

\* The active provider of a view is one of its profiles, or the free one.
LEMMA ActiveProvider ==
  ASSUME NEW v \in View
  PROVE  /\ ProviderOf(v) \in Provider \cup {FreeProvider}
         /\ v.active # Free => /\ v.active \in DOMAIN v.profiles
                               /\ ProviderOf(v) = v.profiles[v.active]
         /\ v.active = Free => ProviderOf(v) = FreeProvider
BY ViewFields, ProfilesAreFunctions DEF ProviderOf

\* What the daemon writes for the agent has the form of its file.
LEMMA ConfigOfView ==
  ASSUME NEW v \in View
  PROVE  /\ ConfigOf(v) \in Config
         /\ ConfigOf(v).provider = ProviderOf(v)
BY ActiveProvider, NoneIsProfiles DEF ConfigOf, Config

\* One more profile, or another provider under its id, are profiles.
LEMMA OneMore ==
  ASSUME NEW f \in Profiles, NEW p \in Profile, NEW q \in Provider
  PROVE  With(f, p, q) \in Profiles
<1>1. DOMAIN f \subseteq Profile /\ \A x \in DOMAIN f : f[x] \in Provider
  BY ProfilesAreFunctions
<1>2. With(f, p, q) \in [DOMAIN f \cup {p} -> Provider]
  BY <1>1 DEF With
<1> QED
  BY <1>1, <1>2, FunctionsAreProfiles

\* The views of two files: there is at least one, each is a view, its active
\* provider is the one the agent's file names when there is no profiles file.
LEMMA FirstViews ==
  ASSUME NEW c \in {NoFile} \cup {Single(p) : p \in Provider} \cup {Combined(v) : v \in View}
  PROVE  /\ ViewsOf(NoFile, c) \subseteq View
         /\ c # NoFile => c.provider \in {ProviderOf(v) : v \in ViewsOf(NoFile, c)}
<1> DEFINE free == [active |-> Free, profiles |-> None]
<1>0. free \in View /\ ProviderOf(free) = FreeProvider
  BY NoneIsProfiles DEF View, ProviderOf
<1>1. CASE c = NoFile
  <2>1. ViewsOf(NoFile, c) = {free}
    BY <1>1 DEF ViewsOf
  <2> QED
    BY <1>0, <1>1, <2>1
<1>2. CASE c # NoFile /\ \E p \in Provider : c = Single(p)
  <2>1. PICK p \in Provider : c = Single(p)
    BY <1>2
  <2>2. c.provider = p /\ c.active = Unset /\ c.profiles = None
    BY <2>1 DEF Single
  <2>3. CASE p = FreeProvider
    <3>1. ViewsOf(NoFile, c) = {free}
      BY <1>2, <2>2, <2>3 DEF ViewsOf
    <3> QED
      BY <1>0, <2>2, <2>3, <3>1
  <2>4. CASE p # FreeProvider
    <3> DEFINE one(x) == [active |-> x, profiles |-> With(None, x, p)]
    <3>1. ViewsOf(NoFile, c) = {one(x) : x \in Profile}
      <4>1. Profile \ DOMAIN None = Profile
        BY NoneIsProfiles
      <4> QED
        BY <1>2, <2>2, <2>4, <4>1 DEF ViewsOf
    <3>2. ASSUME NEW x \in Profile
          PROVE  one(x) \in View /\ ProviderOf(one(x)) = p
      <4>0. With(None, x, p) \in Profiles
        BY NoneIsProfiles, OneMore
      <4>1. /\ x \in DOMAIN With(None, x, p)
            /\ With(None, x, p)[x] = p
        BY DEF With
      <4>2. x # Free
        BY BuiltinAssumption
      <4> QED
        BY <4>0, <4>1, <4>2 DEF View, ProviderOf
    <3>3. PICK x \in Profile : TRUE
      BY BuiltinAssumption
    <3> QED
      BY <2>2, <3>1, <3>2, <3>3
  <2> QED
    BY <2>3, <2>4
<1>3. CASE c # NoFile /\ \E v \in View : c = Combined(v)
  <2>1. PICK v \in View : c = Combined(v)
    BY <1>3
  <2>2. c.provider = ProviderOf(v) /\ c.active = v.active /\ c.profiles = v.profiles
    BY <2>1 DEF Combined
  <2>3. v.active # Unset
    BY BuiltinAssumption DEF View
  <2>4. ViewsOf(NoFile, c) = {v}
    BY <1>3, <2>2, <2>3, ViewFields DEF ViewsOf
  <2> QED
    BY <2>2, <2>4
<1> QED
  BY <1>1, <1>2, <1>3

\* An edit of a view makes a view.
LEMMA EditedViews ==
  ASSUME NEW v \in View, NEW r \in Requests, NEW w \in Edited(v, r)
  PROVE  w \in View
<1> DEFINE D == DOMAIN v.profiles
<1>0. /\ v.active \in D \cup {Free}
      /\ v.profiles \in Profiles
      /\ D \subseteq Profile
      /\ \A p \in D : v.profiles[p] \in Provider
      /\ v = [active |-> v.active, profiles |-> v.profiles]
  BY ViewFields, ProfilesAreFunctions
<1>1. CASE r.action = "reset"
  <2>1. w = [v EXCEPT !.active = Free]
    BY <1>1 DEF Edited
  <2> QED
    BY <1>0, <2>1 DEF View
<1>2. CASE r.action = "activate"
  <2>1. PICK p \in D \cup {Free} : w = [v EXCEPT !.active = p]
    BY <1>2 DEF Edited
  <2> QED
    BY <1>0, <2>1 DEF View
<1>3. CASE r.action = "delete"
  <2>1. PICK p \in D : w = [active |-> IF v.active = p THEN Free ELSE v.active,
                            profiles |-> [q \in D \ {p} |-> v.profiles[q]]]
    BY <1>3 DEF Edited
  <2>2. [q \in D \ {p} |-> v.profiles[q]] \in [D \ {p} -> Provider]
    BY <1>0
  <2>3. [q \in D \ {p} |-> v.profiles[q]] \in Profiles
    BY <1>0, <2>2, FunctionsAreProfiles
  <2> QED
    BY <1>0, <2>1, <2>3 DEF View
<1>4. CASE r.action = "save"
  <2>1. /\ r.url \in Url
        /\ KeyFor(v, r) \in Key \cup {NoKey}
    <3>1. r.url \in Url /\ r.key \in Key \cup {NoKey} /\ r.clear \in BOOLEAN
      BY <1>4 DEF Requests
    <3>2. \A p \in D : v.profiles[p].key \in Key \cup {NoKey}
      BY <1>0 DEF Provider
    <3> QED
      BY <3>1, <3>2 DEF KeyFor
  <2>2. PICK p \in Profile :
          w = [active |-> p, profiles |-> With(v.profiles, p, [url |-> r.url, key |-> KeyFor(v, r)])]
    BY <1>0, <1>4 DEF Edited
  <2> DEFINE new == [url |-> r.url, key |-> KeyFor(v, r)]
  <2>3. new \in Provider
    BY <2>1 DEF Provider
  <2>4. w = [active |-> p, profiles |-> With(v.profiles, p, new)]
    BY <2>2
  <2> HIDE DEF new
  <2>5. With(v.profiles, p, new) \in Profiles
    BY <1>0, <2>3, OneMore
  <2>6. p \in DOMAIN With(v.profiles, p, new)
    BY DEF With
  <2> QED
    BY <2>4, <2>5, <2>6 DEF View
<1>5. r.action \in {"reset", "activate", "delete", "save"}
  BY DEF Requests
<1> QED
  BY <1>1, <1>2, <1>3, <1>4, <1>5

\* An edit keeps or enters every key of the view it makes: a key stays only
\* with the URL it was with (ProviderConfigUpdate).
LEMMA EditedKeys ==
  ASSUME NEW v \in View, NEW r \in Requests, NEW w \in Edited(v, r),
         NEW p \in DOMAIN w.profiles, w.profiles[p].key # NoKey
  PROVE  \/ p \in DOMAIN v.profiles /\ w.profiles[p] = v.profiles[p]
         \/ r.action = "save" /\ w.profiles[p] = [url |-> r.url, key |-> r.key]
<1> DEFINE D == DOMAIN v.profiles
<1>0. /\ v.profiles \in Profiles
      /\ D \subseteq Profile
      /\ \A q \in D : v.profiles[q] \in Provider
  BY ViewFields, ProfilesAreFunctions
<1>1. CASE r.action = "reset"
  <2>1. w = [v EXCEPT !.active = Free]
    BY <1>1 DEF Edited
  <2>2. w.profiles = v.profiles
    BY <2>1, ViewFields
  <2> QED
    BY <2>2
<1>2. CASE r.action = "activate"
  <2>1. PICK q \in D \cup {Free} : w = [v EXCEPT !.active = q]
    BY <1>2 DEF Edited
  <2>2. w.profiles = v.profiles
    BY <2>1, ViewFields
  <2> QED
    BY <2>2
<1>3. CASE r.action = "delete"
  <2>1. PICK q \in D : w = [active |-> IF v.active = q THEN Free ELSE v.active,
                            profiles |-> [x \in D \ {q} |-> v.profiles[x]]]
    BY <1>3 DEF Edited
  <2>2. w.profiles = [x \in D \ {q} |-> v.profiles[x]]
    BY <2>1
  <2> QED
    BY <2>2
<1>4. CASE r.action = "save"
  <2> DEFINE new == [url |-> r.url, key |-> KeyFor(v, r)]
  <2>1. PICK q \in Profile :
          /\ r.id # Free => q = r.id
          /\ r.id = Free => q \notin D
          /\ w.profiles = With(v.profiles, q, new)
    BY <1>0, <1>4 DEF Edited
  <2>2. CASE p # q
    BY <2>1, <2>2 DEF With
  <2>3. CASE p = q
    <3>1. w.profiles[p] = new
      BY <2>1, <2>3 DEF With
    <3>2. KeyFor(v, r) # NoKey
      BY <3>1
    <3>3. CASE KeyFor(v, r) = r.key
      BY <1>4, <3>1, <3>3
    <3>4. CASE KeyFor(v, r) # r.key
      <4>1. /\ r.id \in D
            /\ v.profiles[r.id].url = r.url
            /\ KeyFor(v, r) = v.profiles[r.id].key
        BY <3>2, <3>4, <1>4 DEF KeyFor, Requests
      <4>2. r.id = q
        BY <1>0, <2>1, <4>1, BuiltinAssumption
      <4>3. v.profiles[q] = [url |-> v.profiles[q].url, key |-> v.profiles[q].key]
        BY <1>0, <4>1, <4>2 DEF Provider
      <4>4. v.profiles[q] = new
        BY <4>1, <4>2, <4>3
      <4> QED
        BY <2>3, <3>1, <4>1, <4>2, <4>4
    <3> QED
      BY <3>3, <3>4
  <2> QED
    BY <2>2, <2>3
<1>5. r.action \in {"reset", "activate", "delete", "save"}
  BY DEF Requests
<1> QED
  BY <1>1, <1>2, <1>3, <1>4, <1>5

-----------------------------------------------------------------------------
(* The invariant holds at first.                                           *)

LEMMA InitInv == Init => IInv
<1> SUFFICES ASSUME Init PROVE IInv
  OBVIOUS
<1>1. /\ ViewsOf(store, config) \subseteq View
      /\ config # NoFile => config.provider \in {ProviderOf(v) : v \in ViewsOf(store, config)}
  BY FirstViews DEF Init
<1>2. config \in {NoFile} \cup Config
  <2>1. ASSUME NEW p \in Provider PROVE Single(p) \in Config
    BY NoneIsProfiles DEF Single, Config
  <2>2. ASSUME NEW v \in View PROVE Combined(v) \in Config
    BY ViewFields, ActiveProvider DEF Combined, Config
  <2> QED
    BY <2>1, <2>2 DEF Init
<1>3. TypeOK
  BY <1>1, <1>2, BuiltinAssumption DEF TypeOK, Init, NotInstalled
<1>4. Held
  BY DEF Held, Init, Idle
<1>5. Entered
  <2> SUFFICES ASSUME NEW v \in shown, NEW p \in DOMAIN v.profiles
               PROVE  v.profiles[p] \in typed
    BY DEF Entered
  <2>1. v.profiles[p] \in KeysIn(v)
    BY DEF KeysIn
  <2>2. typed = UNION {KeysIn(x) : x \in shown}
    BY DEF Init
  <2> QED
    BY <2>1, <2>2
<1>6. Newest /\ Fetched
  BY DEF Newest, Fetched, Init, Idle
<1>7. ProfilesKept
  BY DEF ProfilesKept, Init
<1>8. LaunchedAsShown
  BY <1>1 DEF LaunchedAsShown, Init
<1> QED
  BY <1>3, <1>4, <1>5, <1>6, <1>7, <1>8 DEF IInv

-----------------------------------------------------------------------------
(* The release a refresh finds.                                            *)

LEMMA FoundRelease ==
  ASSUME TypeOK, Newest
  PROVE  Found \in releases \cup {NotInstalled}
<1>1. CASE row \in releases
  BY <1>1 DEF Found
<1>2. CASE row \notin releases /\ releases = {}
  BY <1>2 DEF Found
<1>3. CASE row \notin releases /\ releases # {}
  <2>1. \E r \in releases : \A s \in releases : s <= r
    BY <1>3 DEF Newest
  <2>2. Found = CHOOSE r \in releases : \A s \in releases : s <= r
    BY <1>3 DEF Found
  <2> QED
    BY <2>1, <2>2
<1> QED
  BY <1>1, <1>2, <1>3

\* The steps of an operation, and what it holds at each.
LEMMA OpForms ==
  ASSUME TypeOK
  PROVE  /\ op.step \in {"heal profiles", "heal config", "loaded", "profiles", "config", "refresh"}
              => op \in Acts /\ op.view \in View
         /\ op.step = "save row" => op \in Saves /\ op.view \in View
         /\ op.step = "idle" <=> op = Idle
<1>1. CASE op = Idle
  BY <1>1 DEF Idle
<1>2. CASE op \in Acts
  <2>1. op.step # "idle" /\ op.step # "save row" /\ op.view \in View
    BY <1>2 DEF Acts
  <2>2. op # Idle
    <3>1. Idle.step = "idle"
      BY DEF Idle
    <3> QED
      BY <2>1, <3>1
  <2> QED
    BY <1>2, <2>1, <2>2
<1>3. CASE op \in Saves
  <2>1. op.step = "save row" /\ op.view \in View
    BY <1>3 DEF Saves
  <2>2. op # Idle
    <3>1. Idle.step = "idle"
      BY DEF Idle
    <3> QED
      BY <2>1, <3>1
  <2> QED
    BY <1>3, <2>1, <2>2
<1> QED
  BY <1>1, <1>2, <1>3 DEF TypeOK

-----------------------------------------------------------------------------
(* Provider settings.                                                      *)

LEMMA LoadStep == IInv /\ Load => IInv'
<1> SUFFICES ASSUME IInv, Load PROVE IInv'
  OBVIOUS
<1>1. PICK v \in ViewsOf(store, config) : op' = [step |-> "heal profiles", view |-> v]
  BY DEF Load
<1>2. v \in shown /\ v \in View
  BY DEF IInv, ProfilesKept, TypeOK
<1>3. UNCHANGED <<store, config, releases, row, installer, shown, typed, removed>>
  BY DEF Load
<1>4. TypeOK'
  BY <1>1, <1>2, <1>3 DEF IInv, TypeOK, Acts
<1>5. Held'
  BY <1>1, <1>2, <1>3 DEF Held
<1>6. Fetched'
  BY <1>1, <1>3 DEF IInv, Fetched
<1>7. Entered' /\ Newest' /\ ProfilesKept' /\ LaunchedAsShown'
  BY <1>3 DEF IInv, Entered, Newest, ProfilesKept, LaunchedAsShown
<1> QED
  BY <1>4, <1>5, <1>6, <1>7 DEF IInv

LEMMA WriteProfilesStep == IInv /\ WriteProfiles => IInv'
<1> SUFFICES ASSUME IInv, WriteProfiles PROVE IInv'
  OBVIOUS
<1>0. op \in Acts /\ op.view \in View /\ op.view \in shown
  BY OpForms DEF IInv, WriteProfiles, Held, Idle
<1>1. store' = op.view /\ UNCHANGED <<config, releases, row, installer, shown, typed, removed>>
  BY DEF WriteProfiles
<1>2. op' \in Acts /\ op'.view = op.view /\ op'.step \in {"config", "heal config"}
  <2>1. op' = [op EXCEPT !.step = IF op.step = "profiles" THEN "config" ELSE "heal config"]
    BY DEF WriteProfiles
  <2> QED
    BY <1>0, <2>1 DEF Acts
<1>3. TypeOK'
  BY <1>0, <1>1, <1>2 DEF IInv, TypeOK
<1>4. Held'
  <2>1. op'.view \in shown' /\ store' = op'.view
    BY <1>0, <1>1, <1>2
  <2>2. op'.step \notin {"profiles", "loaded", "refresh", "save row"}
    BY <1>2
  <2> QED
    BY <2>1, <2>2 DEF Held
<1>5. Fetched'
  BY <1>1, <1>2 DEF IInv, Fetched
<1>6. ProfilesKept'
  <2>1. ViewsOf(op.view, config) = {op.view}
    BY <1>0, StoredView
  <2> QED
    BY <1>0, <1>1, <2>1 DEF ProfilesKept
<1>7. Entered' /\ Newest' /\ LaunchedAsShown'
  BY <1>1 DEF IInv, Entered, Newest, LaunchedAsShown
<1> QED
  BY <1>3, <1>4, <1>5, <1>6, <1>7 DEF IInv

\* The agent's file gets the provider of a view the user may expect, while the
\* profiles file, which is there by now, keeps saying what the profiles are.
LEMMA ConfigWritten ==
  ASSUME IInv, op.step \in {"heal config", "config"},
         config' = ConfigOf(op.view),
         op' = [op EXCEPT !.step = IF op.step = "config" THEN "refresh" ELSE "loaded"],
         UNCHANGED <<store, releases, row, installer, shown, typed, removed>>
  PROVE  IInv'
<1>0. op \in Acts /\ op.view \in View /\ op.view \in shown /\ store = op.view
  BY OpForms DEF IInv, Held, Idle
<1>1. op' \in Acts /\ op'.view = op.view /\ op'.step \in {"refresh", "loaded"}
  BY <1>0 DEF Acts
<1>2. ConfigOf(op.view) \in Config /\ ConfigOf(op.view).provider = ProviderOf(op.view)
  BY <1>0, ConfigOfView
<1>3. TypeOK'
  BY <1>1, <1>2 DEF IInv, TypeOK
<1>4. Held'
  <2>1. op'.view \in shown' /\ store' = op'.view /\ config' = ConfigOf(op'.view)
    <3>1. UNCHANGED <<store, shown>> /\ config' = ConfigOf(op.view)
      OBVIOUS
    <3> QED
      BY ONLY <1>0, <1>1, <3>1
  <2>2. op'.step # "profiles"
    BY <1>1
  <2> QED
    BY <2>1, <2>2 DEF Held
<1>5. Fetched'
  BY <1>1 DEF IInv, Fetched
<1>6. ProfilesKept'
  <2>1. ViewsOf(op.view, config') = {op.view}
    BY <1>0, StoredView
  <2> QED
    BY <1>0, <2>1 DEF ProfilesKept
<1>7. LaunchedAsShown'
  BY <1>0, <1>2 DEF IInv, LaunchedAsShown
<1>8. Entered' /\ Newest'
  BY DEF IInv, Entered, Newest
<1> QED
  BY <1>3, <1>4, <1>5, <1>6, <1>7, <1>8 DEF IInv

LEMMA HealConfigStep == IInv /\ HealConfig => IInv'
<1> SUFFICES ASSUME IInv, HealConfig PROVE IInv'
  OBVIOUS
<1>1. op.step # "config"
  BY DEF HealConfig
<1> QED
  BY <1>1, ConfigWritten DEF HealConfig

LEMMA WriteConfigStep == IInv /\ WriteConfig => IInv'
BY ConfigWritten DEF WriteConfig

\* An operation ends with both files written: what it holds is what they say.
LEMMA Confirmed ==
  ASSUME IInv, op.step \in {"loaded", "save row"},
         op' = Idle, shown' = {op.view},
         row' \in releases \cup removed \cup {NotInstalled},
         UNCHANGED <<store, config, releases, installer, typed, removed>>
  PROVE  IInv'
<1>0. /\ op.view \in View /\ op.view \in shown
      /\ store = op.view /\ config = ConfigOf(op.view)
  BY OpForms DEF IInv, Held, Idle
<1>1. TypeOK'
  BY <1>0 DEF IInv, TypeOK
<1>2. Held' /\ Fetched'
  BY DEF IInv, Held, Fetched, Idle
<1>3. Entered'
  BY <1>0 DEF IInv, Entered
<1>4. Newest'
  BY DEF IInv, Newest
<1>5. ProfilesKept'
  <2>1. ViewsOf(op.view, config) = {op.view}
    BY <1>0, StoredView
  <2> QED
    BY <1>0, <2>1 DEF ProfilesKept
<1>6. LaunchedAsShown'
  <2>1. config'.provider = ProviderOf(op.view)
    BY <1>0, ConfigOfView
  <2> QED
    BY <2>1 DEF LaunchedAsShown
<1> QED
  BY <1>1, <1>2, <1>3, <1>4, <1>5, <1>6 DEF IInv

LEMMA GetStep == IInv /\ Get => IInv'
<1> SUFFICES ASSUME IInv, Get PROVE IInv'
  OBVIOUS
<1>1. row' \in releases \cup removed \cup {NotInstalled}
  BY DEF Get, IInv, LaunchedAsShown
<1> QED
  BY <1>1, Confirmed DEF Get

LEMMA SaveRowStep == IInv /\ SaveRow => IInv'
<1> SUFFICES ASSUME IInv, SaveRow PROVE IInv'
  OBVIOUS
<1>1. row' \in releases \cup removed \cup {NotInstalled}
  BY DEF SaveRow, IInv, LaunchedAsShown, Fetched
<1> QED
  BY <1>1, Confirmed DEF SaveRow

\* An operation ends with nothing written.
LEMMA Ended ==
  ASSUME IInv, op' = Idle, UNCHANGED <<store, config, releases, row, installer, shown, typed, removed>>
  PROVE  IInv'
<1>1. TypeOK'
  BY DEF IInv, TypeOK
<1>2. Held' /\ Fetched'
  BY DEF IInv, Held, Fetched, Idle
<1>3. Entered' /\ Newest' /\ ProfilesKept' /\ LaunchedAsShown'
  BY DEF IInv, Entered, Newest, ProfilesKept, LaunchedAsShown
<1> QED
  BY <1>1, <1>2, <1>3 DEF IInv

LEMMA FailWriteStep == IInv /\ FailWrite => IInv'
BY Ended DEF FailWrite

LEMMA EditStep == ASSUME NEW r \in Requests PROVE IInv /\ Edit(r) => IInv'
<1> SUFFICES ASSUME IInv, Edit(r) PROVE IInv'
  OBVIOUS
<1>1. CASE Edited(op.view, r) = {}
  BY <1>1, Ended DEF Edit
<1>2. CASE Edited(op.view, r) # {}
  <2>0. op \in Acts /\ op.view \in View /\ op.view \in shown /\ store = op.view
    BY OpForms DEF IInv, Held, Edit, Idle
  <2>1. PICK v \in Edited(op.view, r) :
          /\ op' = [op EXCEPT !.step = "profiles", !.view = v]
          /\ shown' = shown \cup {v}
          /\ typed' = IF r.action = "save"
                      THEN typed \cup {[url |-> r.url, key |-> r.key]} ELSE typed
    BY <1>2 DEF Edit
  <2>2. UNCHANGED <<store, config, releases, row, installer, removed>>
    BY DEF Edit
  <2>3. v \in View
    BY <2>0, EditedViews
  <2>4. op' \in Acts /\ op'.step = "profiles" /\ op'.view = v
    BY <2>0, <2>1, <2>3 DEF Acts
  <2>5. TypeOK'
    BY <2>1, <2>2, <2>3, <2>4 DEF IInv, TypeOK
  <2>6. Held'
    BY <2>0, <2>1, <2>2, <2>4, BuiltinAssumption DEF Held
  <2>7. Fetched'
    BY <2>2, <2>4 DEF IInv, Fetched
  <2>8. Entered'
    <3> SUFFICES ASSUME NEW w \in shown', NEW p \in DOMAIN w.profiles,
                        w.profiles[p].key # NoKey
                 PROVE  w.profiles[p] \in typed'
      BY DEF Entered
    <3>1. typed \subseteq typed'
      BY <2>1
    <3>2. CASE w \in shown
      BY <3>1, <3>2 DEF IInv, Entered
    <3>3. CASE w = v
      <4>1. \/ p \in DOMAIN op.view.profiles /\ w.profiles[p] = op.view.profiles[p]
            \/ r.action = "save" /\ w.profiles[p] = [url |-> r.url, key |-> r.key]
        BY <2>0, <3>3, EditedKeys
      <4>2. CASE p \in DOMAIN op.view.profiles /\ w.profiles[p] = op.view.profiles[p]
        BY <2>0, <3>1, <4>2 DEF IInv, Entered
      <4>3. CASE r.action = "save" /\ w.profiles[p] = [url |-> r.url, key |-> r.key]
        BY <2>1, <4>3
      <4> QED
        BY <4>1, <4>2, <4>3
    <3> QED
      BY <2>1, <3>2, <3>3
  <2>9. ProfilesKept'
    BY <2>1, <2>2 DEF IInv, ProfilesKept
  <2>10. Newest' /\ LaunchedAsShown'
    BY <2>1, <2>2 DEF IInv, Newest, LaunchedAsShown
  <2> QED
    BY <2>5, <2>6, <2>7, <2>8, <2>9, <2>10 DEF IInv
<1> QED
  BY <1>1, <1>2

LEMMA RefreshStep == IInv /\ Refresh => IInv'
<1> SUFFICES ASSUME IInv, Refresh PROVE IInv'
  OBVIOUS
<1>0. op \in Acts /\ op.view \in View
  BY OpForms DEF IInv, Refresh
<1>1. Found \in releases \cup {NotInstalled}
  BY FoundRelease DEF IInv
<1>2. op' = [step |-> "save row", view |-> op.view, release |-> Found]
  BY DEF Refresh
<1>3. UNCHANGED <<store, config, releases, row, installer, shown, typed, removed>>
  BY DEF Refresh
<1>4. op' \in Saves /\ op'.step = "save row" /\ op'.view = op.view /\ op'.release = Found
  BY <1>0, <1>1, <1>2 DEF IInv, TypeOK, Saves
<1>5. TypeOK'
  BY <1>3, <1>4 DEF IInv, TypeOK
<1>6. Held'
  <2>1. op.view \in shown /\ store = op.view /\ config = ConfigOf(op.view)
    BY OpForms DEF IInv, Held, Refresh
  <2>2. op'.view \in shown' /\ store' = op'.view /\ config' = ConfigOf(op'.view)
    <3>1. UNCHANGED <<store, shown, config>>
      BY <1>3
    <3> QED
      BY ONLY <1>4, <2>1, <3>1
  <2>3. op'.step # "profiles"
    BY <1>4
  <2> QED
    BY <2>2, <2>3 DEF Held
<1>7. Fetched'
  BY <1>1, <1>3, <1>4 DEF IInv, Fetched
<1>8. Entered' /\ Newest' /\ ProfilesKept' /\ LaunchedAsShown'
  BY <1>3 DEF IInv, Entered, Newest, ProfilesKept, LaunchedAsShown
<1> QED
  BY <1>5, <1>6, <1>7, <1>8 DEF IInv

-----------------------------------------------------------------------------
(* Releases.                                                               *)

LEMMA InstallForms ==
  ASSUME TypeOK
  PROVE  installer.step \in {"download", "place", "save"} => installer \in Installs
BY DEF TypeOK, Installs, Idle

\* What an installation does leaves the files alone: it is enough that releases,
\* row and installer keep to the invariant.
LEMMA InstallStep ==
  ASSUME IInv, UNCHANGED <<store, config, op, shown, typed>>,
         releases' \subseteq Release, removed' \subseteq Release,
         row' \in releases' \cup removed' \cup {NotInstalled},
         releases \cup removed \subseteq releases' \cup removed',
         installer' \in {Idle} \cup Installs, Newest',
         installer'.step = "save" => installer'.release \in releases'
  PROVE  IInv'
<1>1. TypeOK'
  BY DEF IInv, TypeOK
<1>2. Fetched'
  BY DEF IInv, Fetched
<1>3. Held' /\ Entered' /\ ProfilesKept' /\ LaunchedAsShown'
  BY DEF IInv, Held, Entered, ProfilesKept, LaunchedAsShown
<1> QED
  BY <1>1, <1>2, <1>3 DEF IInv

LEMMA BeginInstallStep == IInv /\ BeginInstall => IInv'
<1> SUFFICES ASSUME IInv, BeginInstall PROVE IInv'
  OBVIOUS
<1>1. PICK r \in Release :
        /\ \A s \in releases \cup removed : s <= r
        /\ installer' = [step |-> "download", release |-> r]
  BY DEF BeginInstall
<1>2. installer' \in Installs /\ installer'.step = "download" /\ installer'.release = r
  BY <1>1 DEF Installs
<1>3. UNCHANGED <<store, config, releases, row, op, shown, typed, removed>>
  BY DEF BeginInstall
<1>4. Newest'
  BY <1>1, <1>2, <1>3 DEF IInv, Newest
<1> QED
  BY <1>2, <1>3, <1>4, InstallStep DEF IInv, TypeOK, LaunchedAsShown

LEMMA VerifyStep == IInv /\ Verify => IInv'
<1> SUFFICES ASSUME IInv, Verify PROVE IInv'
  OBVIOUS
<1>0. installer \in Installs
  BY InstallForms DEF IInv, Verify
<1>1. /\ installer' = [installer EXCEPT !.step = "save"] /\ installer.release \in releases
      /\ UNCHANGED <<store, config, releases, row, op, shown, typed, removed>>
  BY DEF Verify
<1>2. installer' \in Installs /\ installer'.step = "save" /\ installer'.release = installer.release
  BY <1>0, <1>1 DEF Installs
<1>3. Newest'
  BY <1>1, <1>2 DEF IInv, Newest
<1> QED
  BY <1>1, <1>2, <1>3, InstallStep DEF IInv, TypeOK, LaunchedAsShown

\* What is deleted to make room is still accounted for.
LEMMA DownloadStep == IInv /\ Download => IInv'
<1> SUFFICES ASSUME IInv, Download PROVE IInv'
  OBVIOUS
<1>0. installer \in Installs
  BY InstallForms DEF IInv, Download
<1>1. /\ releases' = releases \ {installer.release}
      /\ removed' = removed \cup (releases \cap {installer.release})
      /\ installer' = [installer EXCEPT !.step = "place"]
      /\ UNCHANGED <<store, config, row, op, shown, typed>>
  BY DEF Download
<1>2. /\ installer' \in Installs /\ installer'.step = "place"
      /\ installer'.release = installer.release
  BY <1>0, <1>1 DEF Installs
<1>3. releases' \cup removed' = releases \cup removed
  BY <1>1
<1>4. releases' \subseteq Release /\ removed' \subseteq Release
  BY <1>1 DEF IInv, TypeOK
<1>5. Newest'
  <2>1. \A s \in releases \cup removed : s <= installer.release
    BY DEF IInv, Newest, Download
  <2> QED
    BY <1>2, <1>3, <2>1 DEF IInv, Newest
<1>6. row' \in releases' \cup removed' \cup {NotInstalled}
  BY <1>1, <1>3 DEF IInv, LaunchedAsShown
<1> QED
  BY <1>1, <1>2, <1>3, <1>4, <1>5, <1>6, InstallStep

LEMMA PlaceStep == IInv /\ Place => IInv'
<1> SUFFICES ASSUME IInv, Place PROVE IInv'
  OBVIOUS
<1>0. installer \in Installs
  BY InstallForms DEF IInv, Place
<1> DEFINE new == installer.release
<1>1. /\ releases' = releases \cup {new}
      /\ removed' = removed \ {new}
      /\ installer' = [installer EXCEPT !.step = "save"]
      /\ UNCHANGED <<store, config, row, op, shown, typed>>
  BY DEF Place
<1>2. /\ installer' \in Installs /\ installer'.step = "save"
      /\ installer'.release = new /\ new \in Release
  BY <1>0, <1>1 DEF Installs
<1>3. releases' \cup removed' = releases \cup removed \cup {new}
  BY <1>1
<1>4. releases' \subseteq Release /\ removed' \subseteq Release
  BY <1>1, <1>2 DEF IInv, TypeOK
<1>5. Newest'
  <2>1. \A s \in releases \cup removed : s <= new
    BY DEF IInv, Newest, Place
  <2>2. new <= new
    BY <1>2, BuiltinAssumption DEF Release
  <2>3. ASSUME NEW S \in SUBSET (releases \cup removed \cup {new}), S # {}
        PROVE  \E r \in S : \A s \in S : s <= r
    <3>1. CASE new \in S
      BY <2>1, <2>2, <3>1
    <3>2. CASE new \notin S
      <4>1. S \in SUBSET (releases \cup removed)
        BY <3>2
      <4> QED
        BY <2>3, <4>1 DEF IInv, Newest
    <3> QED
      BY <3>1, <3>2
  <2> QED
    BY <1>2, <1>3, <2>3 DEF Newest
<1>6. row' \in releases' \cup removed' \cup {NotInstalled}
  BY <1>1, <1>3 DEF IInv, LaunchedAsShown
<1> QED
  BY <1>1, <1>2, <1>3, <1>4, <1>5, <1>6, InstallStep

LEMMA SaveReleaseStep == IInv /\ SaveRelease => IInv'
<1> SUFFICES ASSUME IInv, SaveRelease PROVE IInv'
  OBVIOUS
<1>1. /\ row' = installer.release
      /\ installer' = Idle
      /\ UNCHANGED <<store, config, releases, op, shown, typed, removed>>
  BY DEF SaveRelease
<1>2. installer.release \in releases
  BY DEF IInv, Fetched, SaveRelease
<1>3. Newest'
  BY <1>1 DEF IInv, Newest, Idle
<1>4. installer'.step # "save"
  BY <1>1 DEF Idle
<1> QED
  BY <1>1, <1>2, <1>3, <1>4, InstallStep DEF IInv, TypeOK

LEMMA FailInstallStep == IInv /\ FailInstall => IInv'
<1> SUFFICES ASSUME IInv, FailInstall PROVE IInv'
  OBVIOUS
<1>1. installer' = Idle /\ UNCHANGED <<store, config, releases, row, op, shown, typed, removed>>
  BY DEF FailInstall
<1>2. Newest'
  BY <1>1 DEF IInv, Newest, Idle
<1>3. installer'.step # "save"
  BY <1>1 DEF Idle
<1> QED
  BY <1>1, <1>2, <1>3, InstallStep DEF IInv, TypeOK, LaunchedAsShown

LEMMA RestartStep == IInv /\ Restart => IInv'
<1> SUFFICES ASSUME IInv, Restart PROVE IInv'
  OBVIOUS
<1>1. /\ row' = Found /\ op' = Idle /\ installer' = Idle
      /\ UNCHANGED <<store, config, releases, shown, typed, removed>>
  BY DEF Restart
<1>2. Found \in releases \cup {NotInstalled}
  BY FoundRelease DEF IInv
<1>3. TypeOK'
  BY <1>1, <1>2 DEF IInv, TypeOK
<1>4. Held' /\ Fetched'
  BY <1>1 DEF Held, Fetched, Idle
<1>5. Newest'
  BY <1>1 DEF IInv, Newest, Idle
<1>6. Entered' /\ ProfilesKept' /\ LaunchedAsShown'
  BY <1>1, <1>2 DEF IInv, Entered, ProfilesKept, LaunchedAsShown
<1> QED
  BY <1>3, <1>4, <1>5, <1>6 DEF IInv

-----------------------------------------------------------------------------
LEMMA NextInv == IInv /\ [Next]_vars => IInv'
<1> SUFFICES ASSUME IInv, [Next]_vars PROVE IInv'
  OBVIOUS
<1>1. CASE UNCHANGED vars
  <2>1. UNCHANGED <<store, config, releases, row, op, installer, shown, typed, removed>>
    BY <1>1 DEF vars
  <2>2. TypeOK'
    BY <2>1 DEF IInv, TypeOK
  <2>3. Held' /\ Fetched'
    BY <2>1 DEF IInv, Held, Fetched
  <2>4. Entered' /\ Newest' /\ ProfilesKept' /\ LaunchedAsShown'
    BY <2>1 DEF IInv, Entered, Newest, ProfilesKept, LaunchedAsShown
  <2> QED
    BY <2>2, <2>3, <2>4 DEF IInv
<1>2. CASE Next
  BY <1>2, LoadStep, WriteProfilesStep, HealConfigStep, GetStep, EditStep, WriteConfigStep,
     RefreshStep, SaveRowStep, FailWriteStep, BeginInstallStep, VerifyStep,
     DownloadStep, PlaceStep, SaveReleaseStep, FailInstallStep, RestartStep DEF Next
<1> QED
  BY <1>1, <1>2

\* A key of the provider the agent runs with is one of a view the user may
\* expect, all of which were entered there.
LEMMA KeysFollow == IInv => KeysStayHome
<1> SUFFICES ASSUME IInv, config # NoFile, config.provider.key # NoKey
             PROVE  config.provider \in typed
  BY DEF KeysStayHome
<1>1. PICK v \in shown : config.provider = ProviderOf(v)
  BY DEF IInv, LaunchedAsShown
<1>2. v \in View
  BY DEF IInv, TypeOK
<1>3. v.active # Free
  BY <1>1 DEF ProviderOf, FreeProvider
<1>4. v.active \in DOMAIN v.profiles /\ config.provider = v.profiles[v.active]
  BY <1>1, <1>2, <1>3, ActiveProvider
<1> QED
  BY <1>4 DEF IInv, Entered

LEMMA Invariance == Spec => []IInv
BY InitInv, NextInv, PTL DEF Spec

\* The profiles on disk are always those the settings showed last, or those an
\* edit since then was after: no failed write, restart or file of an older
\* daemon loses a saved profile (load_provider_profiles, save_provider_profiles).
THEOREM NoProfileIsLost == Spec => []ProfilesKept
<1>1. IInv => ProfilesKept
  BY DEF IInv
<1> QED
  BY <1>1, Invariance, PTL

\* The agent is always started with a release that is there, or whose executable was
\* deleted because it did not verify (download_artifact), and with the active profile
\* of such a view (update_amarcode_acp_config, refresh_builtin_definition).
THEOREM AgentRunsAsShown == Spec => []LaunchedAsShown
<1>1. IInv => LaunchedAsShown
  BY DEF IInv
<1> QED
  BY <1>1, Invariance, PTL

\* An API key is only ever used at the URL it was entered for.
THEOREM KeysStayWithTheirUrl == Spec => []KeysStayHome
BY KeysFollow, Invariance, PTL
=============================================================================
