--------------------------- MODULE Profiles_proofs ---------------------------
(***************************************************************************)
(* Proofs about the profile catalog, the settings and the discovery of     *)
(* server profiles, for every value of the constants.                      *)
(***************************************************************************)
EXTENDS Profiles, WellFoundedInduction, TLAPS

-----------------------------------------------------------------------------
(* The inductive invariant.                                                *)

\* The server that an identifier belongs to, for ever.
Home(id) ==
    IF id \in Sources THEN HostOf[id]
    ELSE IF id \in Hosts THEN id
    ELSE BuiltIns[CHOOSE i \in DOMAIN BuiltIns : BuiltIns[i].id = id].host

AtHome(q) == q \in Profile /\ q.host = Home(q.id) /\ (q.revision # 0 => q.host \in Hosts)

\* A catalog begins with the existing installation and names no profile twice.
SoundCatalog(c) ==
    /\ c \in Seq(Profile)
    /\ c # <<>> /\ c[1].id = BuiltIns[1].id
    /\ Consistent(c)
    /\ \A i \in DOMAIN c : AtHome(c[i])

\* A profile that is for a server is selected together with that server.
SoundSettings(s) == s \in Settings /\ (Home(s.profile) # None => s.host = Home(s.profile))

SoundFiles ==
    /\ SoundCatalog(catalog) /\ SoundSettings(settings) /\ pending \in Sources \cup {None}
    /\ previous \in [Ids -> Profile \cup {None}]
    /\ \A id \in Ids : previous[id] # None => previous[id].id = id /\ AtHome(previous[id])

SoundWindow(w) ==
    /\ w \in Window
    /\ SoundCatalog(w.catalog) /\ SoundSettings(w.settings)
    /\ Has(w.catalog, w.settings.profile)

\* A command, for the memory of the window that runs it and the master's list.
SoundCommand(o, me, list) ==
    /\ o \in Command
    /\ o.step = "idle" => o = Idle
    /\ o.step # "idle" => o.proc \in Procs /\ me.open
    /\ o.step \in {"list", "manifest"} => o.host \in Hosts
    /\ o.step = "manifest" => me.servers \in Adverts
    /\ o.step \in {"previous", "catalog"} => AtHome(o.profile)
    /\ o.step = "catalog" => \E i \in DOMAIN me.catalog : me.catalog[i] = o.profile
    /\ o.step \in {"prepare", "launch"} => o.kind = "launch"
    /\ o.kind = "launch" =>
          /\ o.host # None => list[o.host] \in o.seen
          /\ o.step \in {"previous", "catalog"} => o.profile.revision \in o.seen \ {0}
          /\ o.step \in {"settings", "prepare", "launch"} =>
                LET r == Selected(me).revision
                IN IF r # 0 THEN r \in o.seen ELSE ~ListAdvertises(me)

SoundWorld ==
    /\ advert \in Adverts
    /\ published \in 0..MaxPublish
    /\ changes \in 0..MaxChanges
    /\ mishaps \in 0..MaxMishaps

Sound ==
    /\ SoundFiles /\ SoundWorld
    /\ window \in [Procs -> Window] /\ \A p \in Procs : SoundWindow(window[p])
    /\ SoundCommand(op, Me, advert)

-----------------------------------------------------------------------------
(* Identifiers and catalogs.                                               *)

\* The built-in profiles and the bounds, as the other lemmas use them.
LEMMA BuiltInFacts ==
    /\ 1 \in DOMAIN BuiltIns
    /\ \A i \in DOMAIN BuiltIns : BuiltIns[i] \in Profile /\ BuiltIns[i].id \in Ids
    /\ MaxPublish \in Nat /\ MaxChanges \in Nat /\ MaxMishaps \in Nat
    /\ 0 \in Revisions
    /\ Hosts \subseteq Ids /\ Sources \subseteq Ids
<1>1. BuiltIns \in Seq(Profile) /\ BuiltIns # <<>>
  BY ProfilesAssumption
<1>2. MaxPublish \in Nat /\ MaxChanges \in Nat /\ MaxMishaps \in Nat
  BY ProfilesAssumption
<1> QED
  BY <1>1, <1>2 DEF Ids, Revisions

\* Imported, discovered and built-in identifiers are different.
LEMMA HomeOf ==
    /\ \A s \in Sources : Home(s) = HostOf[s] /\ Home(s) \in Hosts
    /\ \A h \in Hosts : Home(h) = h
    /\ \A i \in DOMAIN BuiltIns : Home(BuiltIns[i].id) = BuiltIns[i].host
<1>1. \A s \in Sources : Home(s) = HostOf[s] /\ Home(s) \in Hosts
  BY ProfilesAssumption DEF Home
<1>2. \A h \in Hosts : Home(h) = h
  BY ProfilesAssumption DEF Home
<1>3. ASSUME NEW i \in DOMAIN BuiltIns
      PROVE  Home(BuiltIns[i].id) = BuiltIns[i].host
  <2> DEFINE k == CHOOSE j \in DOMAIN BuiltIns : BuiltIns[j].id = BuiltIns[i].id
  <2>1. k \in DOMAIN BuiltIns /\ BuiltIns[k].id = BuiltIns[i].id
    OBVIOUS
  <2>2. k = i
    BY <2>1, ProfilesAssumption
  <2>3. Home(BuiltIns[i].id) = BuiltIns[k].host
    BY ProfilesAssumption DEF Home
  <2> QED
    BY <2>2, <2>3
<1> QED
  BY <1>1, <1>2, <1>3

\* The first catalog is sound.
LEMMA BuiltInsSound == SoundCatalog(BuiltIns) /\ SoundSettings(FirstSettings)
                       /\ Has(BuiltIns, FirstSettings.profile)
<1>1. \A i \in DOMAIN BuiltIns : AtHome(BuiltIns[i])
  BY BuiltInFacts, HomeOf, ProfilesAssumption DEF AtHome
<1>2. SoundCatalog(BuiltIns)
  BY <1>1, ProfilesAssumption DEF SoundCatalog, Consistent
<1>3. Home(BuiltIns[1].id) = None
  BY BuiltInFacts, HomeOf, ProfilesAssumption
<1>4. SoundSettings(FirstSettings)
  BY <1>3, BuiltInFacts DEF SoundSettings, FirstSettings, Settings
<1>5. Has(BuiltIns, FirstSettings.profile)
  BY BuiltInFacts DEF Has, Entries, FirstSettings
<1> QED
  BY <1>2, <1>4, <1>5

\* A profile that a player imports is for the server of its source.
LEMMA ManualHome ==
    ASSUME NEW s \in Sources
    PROVE  AtHome(Manual(s))
BY BuiltInFacts, HomeOf DEF AtHome, Manual, Profile

\* A set of positions has a least and a greatest one.
LEMMA LeastPosition ==
    ASSUME NEW n \in Nat, NEW own \in SUBSET (1..n), own # {}
    PROVE  \E i \in own : \A j \in own : i <= j
<1>1. own \subseteq Nat
  OBVIOUS
<1>2. PICK i \in own : \A j \in own : <<j, i>> \notin OpToRel(<, Nat)
  BY <1>1, NatLessThanWellFounded, WFMin
<1>3. \A j \in own : ~(j < i)
  BY <1>1, <1>2 DEF OpToRel
<1> QED
  BY <1>1, <1>3

\* Of some positions of a catalog one is the last.
LEMMA GreatestPosition ==
    ASSUME NEW n \in Nat, NEW own \in SUBSET (1..n), own # {}
    PROVE  \E i \in own : \A j \in own : i >= j
<1> DEFINE turned == {n + 1 - i : i \in own}
<1>1. turned \in SUBSET (1..n) /\ turned # {}
  <2>1. \A i \in own : n + 1 - i \in 1..n
    OBVIOUS
  <2>2. PICK i \in own : TRUE
    OBVIOUS
  <2>3. n + 1 - i \in turned
    BY <2>2
  <2> QED
    BY <2>1, <2>3
<1>2. PICK k \in turned : \A j \in turned : k <= j
  BY <1>1, LeastPosition
<1>3. PICK i \in own : k = n + 1 - i
  OBVIOUS
<1>4. \A j \in own : n + 1 - i <= n + 1 - j
  BY <1>2, <1>3
<1> QED
  BY <1>4

\* A discovered profile keeps the identifier that its server has in the catalog.
LEMMA DiscoveredHome ==
    ASSUME NEW c, SoundCatalog(c), NEW h \in Hosts, NEW r \in Revisions
    PROVE  AtHome([id |-> DiscoveredId(c, h), host |-> h, revision |-> r])
<1> DEFINE own == {i \in DOMAIN c : c[i].host = h}
<1>1. CASE own = {}
  <2>1. DiscoveredId(c, h) = h
    BY <1>1 DEF DiscoveredId
  <2> QED
    BY <2>1, BuiltInFacts, HomeOf DEF AtHome, Profile
<1>2. CASE own # {}
  <2>1. Len(c) \in Nat /\ own \in SUBSET (1..Len(c))
    BY DEF SoundCatalog
  <2> DEFINE k == CHOOSE i \in own : \A j \in own : i <= j
  <2>2. k \in own
    BY <1>2, <2>1, LeastPosition
  <2>3. DiscoveredId(c, h) = c[k].id
    BY <1>2 DEF DiscoveredId
  <2>4. AtHome(c[k]) /\ c[k].host = h
    BY <2>2 DEF SoundCatalog
  <2> QED
    BY <2>3, <2>4 DEF AtHome, Profile
<1> QED
  BY <1>1, <1>2

\* A server without discovery is selected with a profile of its own or with the
\* existing installation.
LEMMA PlainSound ==
    ASSUME NEW c, SoundCatalog(c), NEW h \in Hosts
    PROVE  LET s == [profile |-> PlainSelection(c, h), host |-> h]
           IN SoundSettings(s) /\ Has(c, s.profile)
<1> DEFINE own == {i \in DOMAIN c : c[i].host = h}
           s == [profile |-> PlainSelection(c, h), host |-> h]
<1>1. Len(c) \in Nat /\ DOMAIN c = 1..Len(c) /\ 1 \in DOMAIN c
  BY DEF SoundCatalog
<1>2. CASE own = {}
  <2>1. PlainSelection(c, h) = c[1].id
    BY <1>2 DEF PlainSelection, SoundCatalog
  <2>2. Has(c, c[1].id)
    BY <1>1 DEF Has, Entries
  <2>3. Home(c[1].id) = None /\ c[1].id \in Ids
    BY BuiltInFacts, HomeOf, ProfilesAssumption DEF SoundCatalog
  <2> QED
    BY <2>1, <2>2, <2>3 DEF SoundSettings, Settings
<1>3. CASE own # {}
  <2>1. own \in SUBSET (1..Len(c))
    BY <1>1
  <2> DEFINE k == CHOOSE i \in own : \A j \in own : i >= j
  <2>2. k \in own
    BY <1>1, <1>3, <2>1, GreatestPosition
  <2>3. PlainSelection(c, h) = c[k].id
    BY <1>3 DEF PlainSelection
  <2>4. AtHome(c[k]) /\ c[k].host = h /\ Has(c, c[k].id)
    BY <2>2 DEF SoundCatalog, Has, Entries
  <2> QED
    BY <2>3, <2>4 DEF AtHome, Profile, SoundSettings, Settings
<1> QED
  BY <1>2, <1>3

\* A profile that replaces the one of its identifier.
LEMMA ReplacedSound ==
    ASSUME NEW c, SoundCatalog(c), NEW q, AtHome(q), Has(c, q.id)
    PROVE  /\ SoundCatalog(Replaced(c, q))
           /\ \A id : Has(Replaced(c, q), id) <=> Has(c, id)
           /\ \E i \in DOMAIN Replaced(c, q) : Replaced(c, q)[i] = q
<1> DEFINE d == Replaced(c, q)
<1>1. Len(c) \in Nat /\ DOMAIN c = 1..Len(c) /\ \A i \in DOMAIN c : c[i] \in Profile
  BY DEF SoundCatalog
<1>2. DOMAIN d = DOMAIN c /\ \A i \in DOMAIN c : d[i] = IF c[i].id = q.id THEN q ELSE c[i]
  BY DEF Replaced
<1>3. d \in Seq(Profile) /\ d # <<>>
  <2>1. \A i \in DOMAIN c : d[i] \in Profile
    BY <1>1, <1>2 DEF AtHome
  <2>2. d \in [1..Len(c) -> Profile]
    BY <1>1, <2>1 DEF Replaced
  <2>3. 1 \in DOMAIN d
    BY <1>1, <1>2 DEF SoundCatalog
  <2> QED
    BY <1>1, <2>2, <2>3
<1>4. \A i \in DOMAIN c : d[i].id = c[i].id /\ AtHome(d[i])
  BY <1>2 DEF SoundCatalog
<1>5. 1 \in DOMAIN c
  BY <1>1 DEF SoundCatalog
<1>6. SoundCatalog(d)
  BY <1>2, <1>3, <1>4, <1>5 DEF SoundCatalog, Consistent
<1>7. \A id : Has(d, id) <=> Has(c, id)
  BY <1>2, <1>4 DEF Has, Entries
<1>8. \E i \in DOMAIN d : d[i] = q
  BY <1>2 DEF Has, Entries
<1> QED
  BY <1>6, <1>7, <1>8

\* A profile with a new identifier.
LEMMA AppendedSound ==
    ASSUME NEW c, SoundCatalog(c), NEW q, AtHome(q), ~Has(c, q.id)
    PROVE  /\ SoundCatalog(Append(c, q))
           /\ \A id : Has(c, id) => Has(Append(c, q), id)
           /\ \E i \in DOMAIN Append(c, q) : Append(c, q)[i] = q
<1> DEFINE d == Append(c, q)
<1>1. Len(c) \in Nat /\ DOMAIN c = 1..Len(c) /\ c \in Seq(Profile) /\ q \in Profile
  BY DEF SoundCatalog, AtHome
<1>2. /\ d \in Seq(Profile) /\ DOMAIN d = 1..(Len(c) + 1)
      /\ d[Len(c) + 1] = q /\ \A i \in 1..Len(c) : d[i] = c[i]
  BY <1>1
<1>3. 1 \in DOMAIN c /\ d # <<>>
  BY <1>1, <1>2 DEF SoundCatalog
<1>4. \A i \in DOMAIN c : c[i].id # q.id
  BY DEF Has, Entries
<1>5. \A i \in DOMAIN d : i \in DOMAIN c \/ i = Len(c) + 1
  BY <1>1, <1>2
<1>6. Consistent(d)
  BY <1>1, <1>2, <1>4, <1>5 DEF SoundCatalog, Consistent
<1>7. \A i \in DOMAIN d : AtHome(d[i])
  BY <1>1, <1>2, <1>5 DEF SoundCatalog
<1>8. SoundCatalog(d)
  BY <1>1, <1>2, <1>3, <1>6, <1>7 DEF SoundCatalog
<1>9. \A id : Has(c, id) => Has(d, id)
  BY <1>1, <1>2 DEF Has, Entries
<1> QED
  BY <1>1, <1>2, <1>8, <1>9

\* An identifier stands for one profile of the catalog.
LEMMA EntryIs ==
    ASSUME NEW c, SoundCatalog(c), NEW i \in DOMAIN c
    PROVE  Entry(c, c[i].id) = c[i]
<1>1. \E q \in Entries(c) : q.id = c[i].id
  BY DEF Entries
<1>2. \A q \in Entries(c) : q.id = c[i].id => q = c[i]
  BY DEF Entries, SoundCatalog, Consistent
<1> QED
  BY <1>1, <1>2 DEF Entry

\* What a window has selected is a profile of its catalog, for the server that is
\* selected with it.
LEMMA SelectedSound ==
    ASSUME NEW w, SoundWindow(w)
    PROVE  /\ AtHome(Selected(w)) /\ Selected(w).id = w.settings.profile
           /\ Selected(w).revision # 0 => w.settings.host \in Hosts
<1>1. PICK i \in DOMAIN w.catalog : w.catalog[i].id = w.settings.profile
  BY DEF SoundWindow, Has, Entries
<1>2. Selected(w) = w.catalog[i] /\ AtHome(w.catalog[i])
  BY <1>1, EntryIs DEF SoundWindow, SoundCatalog, Selected
<1> QED
  BY <1>1, <1>2, ProfilesAssumption DEF SoundWindow, SoundSettings, AtHome

-----------------------------------------------------------------------------
(* The memory of a window and the record of a command.                     *)

\* A window that reads the master's list is sound.
LEMMA ServersSet ==
    ASSUME NEW w, SoundWindow(w), NEW x \in Adverts
    PROVE  LET v == [w EXCEPT !.servers = x]
           IN /\ SoundWindow(v) /\ v.servers = x
              /\ v.open = w.open /\ v.catalog = w.catalog /\ v.settings = w.settings
<1> DEFINE v == [w EXCEPT !.servers = x]
<1>1. /\ v \in Window /\ v.servers = x
      /\ v.open = w.open /\ v.catalog = w.catalog /\ v.settings = w.settings
  BY DEF SoundWindow, Window
<1> QED
  BY <1>1 DEF SoundWindow

\* A window whose settings name a profile of its catalog is sound.
LEMMA SettingsSet ==
    ASSUME NEW w, SoundWindow(w), NEW s, SoundSettings(s), Has(w.catalog, s.profile)
    PROVE  LET v == [w EXCEPT !.settings = s]
           IN /\ SoundWindow(v) /\ v.settings = s
              /\ v.open = w.open /\ v.catalog = w.catalog /\ v.servers = w.servers
<1> DEFINE v == [w EXCEPT !.settings = s]
<1>1. /\ v \in Window /\ v.settings = s
      /\ v.open = w.open /\ v.catalog = w.catalog /\ v.servers = w.servers
  BY DEF SoundWindow, Window, SoundSettings
<1> QED
  BY <1>1 DEF SoundWindow

\* A window with another manifest under review is sound.
LEMMA ReviewSet ==
    ASSUME NEW w, SoundWindow(w), NEW x \in Sources \cup {None}
    PROVE  LET v == [w EXCEPT !.review = x]
           IN /\ SoundWindow(v) /\ v.settings = w.settings
              /\ v.open = w.open /\ v.catalog = w.catalog /\ v.servers = w.servers
<1> DEFINE v == [w EXCEPT !.review = x]
<1>1. /\ v \in Window /\ v.settings = w.settings
      /\ v.open = w.open /\ v.catalog = w.catalog /\ v.servers = w.servers
  BY DEF SoundWindow, Window
<1> QED
  BY <1>1 DEF SoundWindow

\* A window whose catalog has grown, or has one profile replaced, is sound.
LEMMA CatalogSet ==
    ASSUME NEW w, SoundWindow(w), NEW c, SoundCatalog(c), \A id : Has(w.catalog, id) => Has(c, id)
    PROVE  LET v == [w EXCEPT !.catalog = c]
           IN /\ SoundWindow(v) /\ v.catalog = c
              /\ v.open = w.open /\ v.settings = w.settings /\ v.servers = w.servers
<1> DEFINE v == [w EXCEPT !.catalog = c]
<1>1. /\ v \in Window /\ v.catalog = c
      /\ v.open = w.open /\ v.settings = w.settings /\ v.servers = w.servers
  BY DEF SoundWindow, Window, SoundCatalog
<1> QED
  BY <1>1 DEF SoundWindow

\* A window that is closed, and one that is opened on sound files.
LEMMA ClosedSound == SoundWindow(Closed)
BY BuiltInsSound DEF SoundWindow, Closed, Window, SoundCatalog, SoundSettings

\* What the constructor reads back is a sound window, whoever wrote it: a selected
\* profile that another window's catalog lacks gives way to the first.
LEMMA LoadedSound ==
    ASSUME SoundFiles, NEW p \in Procs
    PROVE  SoundWindow(Loaded(p)) /\ Loaded(p).open
<1> DEFINE s == IF Has(catalog, settings.profile) THEN settings
                ELSE [settings EXCEPT !.profile = catalog[1].id]
<1>1. SoundSettings(s) /\ Has(catalog, s.profile)
  <2>1. CASE Has(catalog, settings.profile)
    BY <2>1 DEF SoundFiles
  <2>2. CASE ~Has(catalog, settings.profile)
    <3>1. 1 \in DOMAIN catalog /\ catalog[1].id = BuiltIns[1].id
      BY DEF SoundFiles, SoundCatalog
    <3>2. Home(catalog[1].id) = None /\ catalog[1].id \in Ids
      BY <3>1, BuiltInFacts, HomeOf, ProfilesAssumption
    <3>3. s = [settings EXCEPT !.profile = catalog[1].id] /\ settings \in Settings
      BY <2>2 DEF SoundFiles, SoundSettings
    <3>4. s \in Settings /\ s.profile = catalog[1].id
      BY <3>2, <3>3 DEF Settings
    <3>5. Has(catalog, catalog[1].id)
      BY <3>1 DEF Has, Entries
    <3> QED
      BY <3>2, <3>4, <3>5 DEF SoundSettings
  <2> QED
    BY <2>1, <2>2
<1>2. Loaded(p) = [open |-> TRUE, catalog |-> catalog, settings |-> s, review |-> pending,
                   servers |-> None]
  BY DEF Loaded
<1> HIDE DEF s
<1> QED
  BY <1>1, <1>2 DEF SoundWindow, Window, SoundFiles, SoundCatalog, SoundSettings

\* The memory of one window changes.
LEMMA WindowSet ==
    ASSUME Sound, NEW p \in Procs, NEW w, SoundWindow(w), window' = [window EXCEPT ![p] = w]
    PROVE  /\ window' \in [Procs -> Window] /\ \A q \in Procs : SoundWindow(window'[q])
           /\ window'[p] = w /\ \A q \in Procs \ {p} : window'[q] = window[q]
BY DEF Sound, SoundWindow

\* No command asks nothing of the windows.
LEMMA IdleSound ==
    ASSUME NEW me, NEW list
    PROVE  SoundCommand(Idle, me, list)
BY DEF SoundCommand, Idle, Command, Kinds, Steps

\* A command that begins is that of an open window; a launch has seen what its server
\* advertises.
LEMMA BeginFields ==
    ASSUME Sound, NEW p \in Procs, NEW kind \in Kinds, NEW step \in Steps,
           NEW host \in Hosts \cup {None}, NEW profile \in Profile \cup {None},
           Begin(p, kind, step, host, profile)
    PROVE  /\ op = Idle /\ window[p].open /\ SoundWindow(window[p])
           /\ op' \in Command
           /\ op'.proc = p /\ op'.kind = kind /\ op'.step = step /\ op'.host = host
           /\ op'.profile = profile
           /\ kind = "launch" /\ host # None => op'.seen = {advert[host]}
<1> DEFINE s == IF kind = "launch" /\ host # None THEN {advert[host]} ELSE {}
<1>1. s \subseteq Revisions
  BY DEF Sound, SoundWorld, Adverts
<1>2. op' = [proc |-> p, kind |-> kind, step |-> step, host |-> host, profile |-> profile,
             seen |-> s]
  BY DEF Begin
<1>3. kind = "launch" /\ host # None => s = {advert[host]}
  OBVIOUS
<1> HIDE DEF s
<1> QED
  BY <1>1, <1>2, <1>3 DEF Begin, Command, Sound

\* A command that goes on changes its step and nothing else.
LEMMA ContinueFields ==
    ASSUME Sound, NEW step \in Steps, Continue(step)
    PROVE  /\ op' \in Command /\ op'.step = step /\ op'.proc = op.proc /\ op'.kind = op.kind
           /\ op'.host = op.host /\ op'.profile = op.profile /\ op'.seen = op.seen
BY DEF Continue, Sound, SoundCommand, Command

\* The window that runs a command is open and sound.
LEMMA MineSound ==
    ASSUME Sound, op.step # "idle"
    PROVE  op.proc \in Procs /\ Me.open /\ SoundWindow(Me)
BY DEF Sound, SoundCommand, Me

-----------------------------------------------------------------------------
(* The player's steps.                                                     *)

\* A change of mind, and only that, happens to the world.
LEMMA ChangeSound ==
    ASSUME Sound, Change
    PROVE  SoundWorld' /\ advert' = advert
BY BuiltInFacts DEF Sound, SoundWorld, Change

\* A window that opens has what is on disk, and leaves the command of another alone.
LEMMA OpenStep ==
    ASSUME Sound, NEW p \in Procs, Open(p)
    PROVE  Sound'
<1>1. SoundWindow(Loaded(p))
  BY LoadedSound DEF Sound
<1>2. /\ window' \in [Procs -> Window]
      /\ \A q \in Procs : SoundWindow(window'[q])
      /\ \A r \in Procs \ {p} : window'[r] = window[r]
  BY <1>1, WindowSet DEF Open
<1>3. SoundCommand(op', Me', advert')
  <2>1. CASE op.step = "idle"
    BY <2>1, IdleSound DEF Open, Sound, SoundCommand
  <2>2. CASE op.step # "idle"
    <3>1. op.proc \in Procs \ {p}
      BY <2>2, MineSound DEF Open, Me
    <3>2. Me' = Me /\ op' = op /\ advert' = advert
      BY <1>2, <3>1 DEF Open, Me, world
    <3> QED
      BY <3>2 DEF Sound
  <2> QED
    BY <2>1, <2>2
<1> QED
  BY <1>2, <1>3 DEF Open, Sound, SoundFiles, SoundWorld, files, world

\* A window that asks for the servers has the master's list.
LEMMA RefreshStep ==
    ASSUME Sound, NEW p \in Procs, Refresh(p)
    PROVE  Sound'
<1> DEFINE v == [window[p] EXCEPT !.servers = advert]
<1>1. SoundWindow(v)
  BY ServersSet DEF Sound, SoundWorld
<1>2. window' = [window EXCEPT ![p] = v]
  BY DEF Refresh, Sound
<1>3. window' \in [Procs -> Window] /\ \A q \in Procs : SoundWindow(window'[q])
  BY <1>1, <1>2, WindowSet
<1>4. SoundCommand(op', Me', advert')
  BY IdleSound DEF Refresh
<1> QED
  BY <1>3, <1>4, ChangeSound DEF Refresh, Sound, SoundFiles, files

\* Play and Prepare, with what is known of the server's profile.
LEMMA PlayStep ==
    ASSUME Sound, NEW p \in Procs, Play(p)
    PROVE  Sound'
<1> DEFINE step == IF Required(window[p]) THEN "list" ELSE "prepare"
           host == window[p].settings.host
<1>1. SoundWindow(window[p]) /\ host \in Hosts \cup {None}
  BY DEF Sound, SoundWindow, SoundSettings, Settings
<1>2. step \in Steps /\ "launch" \in Kinds
  BY DEF Steps, Kinds
<1>3. Begin(p, "launch", step, host, None)
  BY DEF Play
<1> HIDE DEF step, host
<1>4. /\ window[p].open
      /\ op' \in Command
      /\ op'.proc = p /\ op'.kind = "launch" /\ op'.step = step /\ op'.host = host
      /\ host # None => op'.seen = {advert[host]}
  BY <1>1, <1>2, <1>3, BeginFields
<1>5. Me' = window[p] /\ advert' = advert
  BY <1>4 DEF Play, Me, world
<1>6. CASE Required(window[p])
  <2>1. step = "list"
    BY <1>6 DEF step
  <2>2. host \in Hosts
    BY <1>1, <1>6, SelectedSound DEF Required, ListAdvertises, host
  <2> QED
    BY <1>2, <1>3, <1>4, <1>5, <2>1, <2>2
    DEF SoundCommand, Play, Sound, SoundFiles, SoundWorld, files, world
<1>7. CASE ~Required(window[p])
  <2>1. step = "prepare"
    BY <1>7 DEF step
  <2>2. Selected(window[p]).revision = 0 /\ ~ListAdvertises(window[p])
    BY <1>7 DEF Required
  <2>3. SoundCommand(op', Me', advert')
    BY <1>4, <1>5, <2>1, <2>2 DEF SoundCommand
  <2> QED
    BY <2>3 DEF Play, Sound, SoundFiles, SoundWorld, files, world
<1> QED
  BY <1>6, <1>7

\* Selecting a server begins with the list, or with the server's manifest.
LEMMA SelectStep ==
    ASSUME Sound, NEW p \in Procs, NEW h \in Hosts, Select(p, h)
    PROVE  Sound'
<1> DEFINE step == IF window[p].servers = None THEN "list" ELSE "manifest"
<1>1. step \in Steps /\ "select" \in Kinds
  BY DEF Steps, Kinds
<1>2. Begin(p, "select", step, h, None)
  BY DEF Select
<1> HIDE DEF step
<1>3. /\ window[p].open /\ SoundWindow(window[p])
      /\ op' \in Command
      /\ op'.proc = p /\ op'.kind = "select" /\ op'.step = step /\ op'.host = h
  BY <1>1, <1>2, BeginFields
<1>4. Me' = window[p]
  BY <1>3 DEF Select, Me
<1>5. step \in {"list", "manifest"} /\ (step = "manifest" => window[p].servers \in Adverts)
  BY <1>3 DEF step, SoundWindow, Window
<1>6. SoundCommand(op', Me', advert')
  BY <1>3, <1>4, <1>5 DEF SoundCommand
<1> QED
  BY <1>6, ChangeSound DEF Select, Sound, SoundFiles, files

\* Choosing a profile selects its server too.
LEMMA ChooseStep ==
    ASSUME Sound, NEW p \in Procs, NEW q, Choose(p, q)
    PROVE  Sound'
<1> DEFINE s == [profile |-> q.id,
                 host |-> IF q.host = None THEN window[p].settings.host ELSE q.host]
           v == [window[p] EXCEPT !.settings = s]
<1>1. SoundWindow(window[p]) /\ q \in Entries(window[p].catalog)
  BY DEF Choose, Sound
<1>2. AtHome(q) /\ Has(window[p].catalog, q.id)
  BY <1>1 DEF SoundWindow, SoundCatalog, Entries, Has
<1>3. SoundSettings(s)
  <2>1. q.id \in Ids /\ q.host \in Hosts \cup {None} /\ window[p].settings.host \in Hosts \cup {None}
    BY <1>1, <1>2 DEF AtHome, Profile, SoundWindow, SoundSettings, Settings
  <2>2. s \in Settings
    BY <2>1 DEF Settings
  <2> QED
    BY <1>2, <2>2 DEF SoundSettings, AtHome
<1>4. SoundWindow(v) /\ v.open = window[p].open
  <2> HIDE DEF s
  <2> QED
    BY <1>1, <1>2, <1>3, SettingsSet DEF s
<1>5. window' = [window EXCEPT ![p] = v]
  BY DEF Choose, Sound
<1> HIDE DEF v
<1>6. /\ window' \in [Procs -> Window] /\ \A r \in Procs : SoundWindow(window'[r])
      /\ window'[p] = v
  BY <1>4, <1>5, WindowSet
<1>7. /\ window[p].open /\ op' \in Command
      /\ op'.proc = p /\ op'.kind = "other" /\ op'.step = "settings"
  BY BeginFields DEF Choose, Steps, Kinds
<1>8. SoundCommand(op', Me', advert')
  BY <1>4, <1>6, <1>7 DEF SoundCommand, Me
<1> QED
  BY <1>6, <1>8, ChangeSound DEF Choose, Sound, SoundFiles, files

\* A review begins or is dismissed.
LEMMA ReviewStep ==
    ASSUME Sound, NEW p \in Procs, NEW s \in Sources \cup {None}, Review(p, s)
    PROVE  Sound'
<1> DEFINE v == [window[p] EXCEPT !.review = s]
<1>1. SoundWindow(window[p])
  BY DEF Sound
<1>2. SoundWindow(v) /\ v.open = window[p].open
  BY <1>1, ReviewSet
<1>3. window' = [window EXCEPT ![p] = v]
  BY DEF Review, Sound
<1> HIDE DEF v
<1>4. /\ window' \in [Procs -> Window] /\ \A r \in Procs : SoundWindow(window'[r])
      /\ window'[p] = v
  BY <1>2, <1>3, WindowSet
<1>5. /\ window[p].open /\ op' \in Command
      /\ op'.proc = p /\ op'.kind = "other" /\ op'.step = "review"
  BY BeginFields DEF Review, Steps, Kinds
<1>6. SoundCommand(op', Me', advert')
  BY <1>2, <1>4, <1>5 DEF SoundCommand, Me
<1> QED
  BY <1>4, <1>6, ChangeSound DEF Review, Sound, SoundFiles, files

\* What is confirmed is the profile of the source under review, at its server.
LEMMA ConfirmStep ==
    ASSUME Sound, NEW p \in Procs, Confirm(p)
    PROVE  Sound'
<1>1. window[p].review \in Sources
  BY DEF Confirm, Sound, SoundWindow, Window
<1> DEFINE q == Manual(window[p].review)
<1>2. AtHome(q) /\ q \in Profile
  BY <1>1, ManualHome DEF AtHome
<1>3. Begin(p, "confirm", "previous", None, q)
  BY DEF Confirm
<1> HIDE DEF q
<1>4. /\ window[p].open /\ op' \in Command
      /\ op'.proc = p /\ op'.kind = "confirm" /\ op'.step = "previous" /\ op'.profile = q
  BY <1>2, <1>3, BeginFields DEF Steps, Kinds
<1>5. Me' = window[p]
  BY <1>4 DEF Confirm, Me
<1>6. SoundCommand(op', Me', advert')
  BY <1>2, <1>4, <1>5 DEF SoundCommand
<1> QED
  BY <1>6, ChangeSound DEF Confirm, Sound, SoundFiles, files

\* rollbackProfile brings back a revision of the selected identifier.
LEMMA ReturnStep ==
    ASSUME Sound, NEW p \in Procs, Return(p)
    PROVE  Sound'
<1> DEFINE id == window[p].settings.profile
           prior == previous[id]
           c == Replaced(window[p].catalog, prior)
           v == [window[p] EXCEPT !.catalog = c]
<1>1. SoundWindow(window[p]) /\ id \in Ids
  BY DEF Sound, SoundWindow, SoundSettings, Settings
<1>2. prior # None /\ prior.id = id /\ AtHome(prior)
  BY <1>1 DEF Return, Sound, SoundFiles
<1>3. Has(window[p].catalog, prior.id) /\ SoundCatalog(window[p].catalog)
  BY <1>1, <1>2 DEF SoundWindow
<1>4. Begin(p, "other", "catalog", None, prior) /\ window' = [window EXCEPT ![p] = v]
  BY DEF Return, Sound
<1> HIDE DEF prior, id
<1>5. /\ SoundCatalog(c) /\ \A i : Has(window[p].catalog, i) => Has(c, i)
      /\ \E i \in DOMAIN c : c[i] = prior
  BY <1>2, <1>3, ReplacedSound
<1> HIDE DEF c
<1>6. SoundWindow(v) /\ v.catalog = c /\ v.open = window[p].open
  BY <1>1, <1>5, CatalogSet
<1> HIDE DEF v
<1>7. /\ window' \in [Procs -> Window] /\ \A r \in Procs : SoundWindow(window'[r])
      /\ window'[p] = v
  BY <1>4, <1>6, WindowSet
<1>8. /\ window[p].open /\ op' \in Command
      /\ op'.proc = p /\ op'.kind = "other" /\ op'.step = "catalog" /\ op'.profile = prior
  BY <1>2, <1>4, BeginFields DEF Steps, Kinds, AtHome
<1>9. SoundCommand(op', Me', advert')
  BY <1>2, <1>5, <1>6, <1>7, <1>8 DEF SoundCommand, Me
<1> QED
  BY <1>7, <1>9, ChangeSound DEF Return, Sound, SoundFiles, files

\* The player's steps keep the invariant.
LEMMA UserStep ==
    ASSUME Sound, NEW p \in Procs, User(p)
    PROVE  Sound'
BY OpenStep, RefreshStep, PlayStep, SelectStep, ChooseStep, ReviewStep, ConfirmStep, ReturnStep
DEF User

-----------------------------------------------------------------------------
(* The steps of a command.                                                 *)

\* The window of the command becomes w, and the others stay.
LEMMA MineSet ==
    ASSUME Sound, op.step # "idle", NEW w, SoundWindow(w), Mine(w)
    PROVE  /\ window' \in [Procs -> Window] /\ \A q \in Procs : SoundWindow(window'[q])
           /\ op'.proc = op.proc => Me' = w
<1>1. op.proc \in Procs
  BY MineSound
<1> QED
  BY <1>1, WindowSet DEF Mine, Me

\* The command's window is the same when no window changes.
LEMMA MineKept ==
    ASSUME UNCHANGED window, op'.proc = op.proc
    PROVE  Me' = Me
BY DEF Me

\* A command with the list goes on to the manifest of its server.
LEMMA ReadListStep ==
    ASSUME Sound, ReadList
    PROVE  Sound'
<1> DEFINE v == [Me EXCEPT !.servers = advert]
<1>1. Me.open /\ SoundWindow(Me) /\ op.proc \in Procs /\ advert \in Adverts
  BY MineSound DEF ReadList, Sound, SoundWorld
<1>2. SoundWindow(v) /\ v.servers = advert /\ v.open = Me.open
  BY <1>1, ServersSet
<1>3. Mine(v) /\ op.step = "list"
  BY DEF ReadList
<1> HIDE DEF v
<1>4. /\ op' \in Command /\ op'.step = "manifest" /\ op'.proc = op.proc /\ op'.kind = op.kind
      /\ op'.host = op.host /\ op'.seen = op.seen
  BY ContinueFields DEF ReadList, Steps
<1>5. /\ window' \in [Procs -> Window] /\ \A q \in Procs : SoundWindow(window'[q])
      /\ Me' = v /\ advert' = advert
  BY <1>2, <1>3, <1>4, MineSet DEF ReadList, world
<1>6. SoundCommand(op', Me', advert')
  BY <1>1, <1>2, <1>3, <1>4, <1>5 DEF SoundCommand, Sound
<1> QED
  BY <1>5, <1>6 DEF ReadList, Sound, SoundFiles, SoundWorld, files, world

\* The manifest's profile is for its server, and its revision is one that was
\* advertised while the launch ran.
LEMMA ReadManifestStep ==
    ASSUME Sound, ReadManifest
    PROVE  Sound'
<1> DEFINE q == [id |-> DiscoveredId(Me.catalog, op.host), host |-> op.host, revision |-> Listed]
<1>1. /\ op.step = "manifest" /\ Me.open /\ SoundWindow(Me) /\ op.proc \in Procs
      /\ op.host \in Hosts /\ Me.servers \in Adverts /\ op \in Command
  BY MineSound DEF ReadManifest, Sound, SoundCommand
<1>2. Listed \in Revisions /\ Listed # 0 /\ Listed = advert[op.host]
  BY <1>1 DEF ReadManifest, Listed, Adverts
<1>3. AtHome(q) /\ q.revision = advert[op.host] /\ q.revision # 0
  BY <1>1, <1>2, DiscoveredHome DEF SoundWindow
<1>4. op' = [op EXCEPT !.step = "previous", !.profile = q]
  BY DEF ReadManifest
<1> HIDE DEF q
<1>5. q \in Profile
  BY <1>3 DEF AtHome
<1>6. /\ op' \in Command /\ op'.step = "previous" /\ op'.proc = op.proc /\ op'.kind = op.kind
      /\ op'.host = op.host /\ op'.seen = op.seen /\ op'.profile = q
  BY <1>1, <1>4, <1>5 DEF Command, Steps
<1>7. Me' = Me /\ advert' = advert
  BY <1>6, MineKept DEF ReadManifest, world
<1>8. op.kind = "launch" => advert[op.host] \in op.seen
  BY <1>1, ProfilesAssumption DEF Sound, SoundCommand
<1>9. SoundCommand(op', Me', advert')
  BY <1>1, <1>3, <1>6, <1>7, <1>8 DEF SoundCommand
<1> QED
  BY <1>9 DEF ReadManifest, Sound, SoundFiles, SoundWorld, files, world

\* A server without a manifest selects its last profile, or the installation.
LEMMA SelectPlainStep ==
    ASSUME Sound, SelectPlain
    PROVE  Sound'
<1> DEFINE s == [profile |-> PlainSelection(Me.catalog, op.host), host |-> op.host]
           v == [Me EXCEPT !.settings = s]
<1>1. /\ op.step = "manifest" /\ Me.open /\ SoundWindow(Me) /\ op.proc \in Procs
      /\ op.host \in Hosts /\ op.kind = "select"
  BY MineSound DEF SelectPlain, Sound, SoundCommand
<1>2. SoundSettings(s) /\ Has(Me.catalog, s.profile)
  BY <1>1, PlainSound DEF SoundWindow
<1>3. Mine(v)
  BY DEF SelectPlain
<1> HIDE DEF s
<1>4. SoundWindow(v) /\ v.open = Me.open
  BY <1>1, <1>2, SettingsSet
<1> HIDE DEF v
<1>5. op' \in Command /\ op'.step = "settings" /\ op'.proc = op.proc /\ op'.kind = op.kind
  BY ContinueFields DEF SelectPlain, Steps
<1>6. /\ window' \in [Procs -> Window] /\ \A q \in Procs : SoundWindow(window'[q])
      /\ Me' = v
  BY <1>1, <1>3, <1>4, <1>5, MineSet
<1>7. SoundCommand(op', Me', advert')
  BY <1>1, <1>4, <1>5, <1>6 DEF SoundCommand
<1> QED
  BY <1>6, <1>7 DEF SelectPlain, Sound, SoundFiles, SoundWorld, files, world

\* acceptProfile files what it replaces under its own identifier.
LEMMA KeepPreviousStep ==
    ASSUME Sound, KeepPrevious
    PROVE  Sound'
<1> DEFINE q == op.profile
           c == Me.catalog
           d == IF ~Has(c, q.id) THEN Append(c, q) ELSE Replaced(c, q)
           v == [Me EXCEPT !.catalog = d]
<1>1. /\ op.step = "previous" /\ Me.open /\ SoundWindow(Me) /\ op.proc \in Procs /\ AtHome(q)
      /\ op \in Command
  BY MineSound DEF KeepPrevious, Sound, SoundCommand
<1>2. SoundCatalog(c)
  BY <1>1 DEF SoundWindow
<1>3. /\ SoundCatalog(d) /\ \A id : Has(c, id) => Has(d, id)
      /\ \E i \in DOMAIN d : d[i] = q
  <2> HIDE DEF q, c
  <2>1. CASE Has(c, q.id)
    BY <1>1, <1>2, <2>1, ReplacedSound
  <2>2. CASE ~Has(c, q.id)
    BY <1>1, <1>2, <2>2, AppendedSound
  <2> QED
    BY <2>1, <2>2
<1>4. Mine(v)
  BY DEF KeepPrevious
<1>5. /\ previous' \in [Ids -> Profile \cup {None}]
      /\ \A id \in Ids : previous'[id] # None => previous'[id].id = id /\ AtHome(previous'[id])
  <2>1. /\ previous \in [Ids -> Profile \cup {None}]
        /\ \A id \in Ids : previous[id] # None => previous[id].id = id /\ AtHome(previous[id])
    BY DEF Sound, SoundFiles
  <2>2. CASE previous' = previous
    BY <2>1, <2>2
  <2>3. CASE Has(c, q.id) /\ previous' = [previous EXCEPT ![q.id] = Entry(c, q.id)]
    <3>1. PICK i \in DOMAIN c : c[i].id = q.id
      BY <2>3 DEF Has, Entries
    <3>2. Entry(c, q.id) = c[i] /\ AtHome(c[i])
      BY <1>2, <3>1, EntryIs DEF SoundCatalog
    <3>3. c[i] \in Profile /\ q.id \in Ids
      BY <1>1, <3>2 DEF AtHome, Profile
    <3> HIDE DEF q, c
    <3>4. previous' = [previous EXCEPT ![q.id] = c[i]]
      BY <2>3, <3>2
    <3> QED
      BY <2>1, <3>1, <3>2, <3>3, <3>4
  <2> QED
    BY <2>2, <2>3 DEF KeepPrevious
<1> HIDE DEF d
<1>6. SoundWindow(v) /\ v.catalog = d /\ v.open = Me.open
  BY <1>1, <1>3, CatalogSet
<1> HIDE DEF v
<1>7. /\ op' \in Command /\ op'.step = "catalog" /\ op'.proc = op.proc /\ op'.kind = op.kind
      /\ op'.host = op.host /\ op'.seen = op.seen /\ op'.profile = q
  BY ContinueFields DEF KeepPrevious, Steps
<1>8. /\ window' \in [Procs -> Window] /\ \A r \in Procs : SoundWindow(window'[r])
      /\ Me' = v /\ advert' = advert
  BY <1>1, <1>4, <1>6, <1>7, MineSet DEF KeepPrevious, world
<1>9. op.kind = "launch" => /\ op.host # None => advert[op.host] \in op.seen
                            /\ q.revision \in op.seen \ {0}
  BY <1>1 DEF Sound, SoundCommand
<1> HIDE DEF q
<1>10. SoundCommand(op', Me', advert')
  BY <1>1, <1>3, <1>6, <1>7, <1>8, <1>9 DEF SoundCommand
<1> QED
  BY <1>5, <1>8, <1>10 DEF KeepPrevious, Sound, SoundFiles, SoundWorld, world

\* After the catalog is written the accepted profile is the selected one.
LEMMA SaveCatalogStep ==
    ASSUME Sound, SaveCatalog
    PROVE  Sound'
<1> DEFINE q == op.profile
           s == [profile |-> q.id, host |-> q.host]
           v == [Me EXCEPT !.settings = s]
<1>1. /\ op.step = "catalog" /\ Me.open /\ SoundWindow(Me) /\ op.proc \in Procs /\ AtHome(q)
  BY MineSound DEF SaveCatalog, Sound, SoundCommand
<1>2. PICK i \in DOMAIN Me.catalog : Me.catalog[i] = q
  BY <1>1 DEF Sound, SoundCommand
<1>3. SoundSettings(s) /\ Has(Me.catalog, s.profile)
  BY <1>1, <1>2 DEF AtHome, Profile, SoundSettings, Settings, Has, Entries
<1>4. Mine(v)
  BY DEF SaveCatalog
<1>5. s.profile = q.id
  OBVIOUS
<1> HIDE DEF s
<1>6. SoundWindow(v) /\ v.catalog = Me.catalog /\ v.open = Me.open /\ v.settings = s
  BY <1>1, <1>3, SettingsSet
<1>7. Selected(v) = q
  BY <1>2, <1>5, <1>6, EntryIs DEF Selected, SoundWindow
<1> HIDE DEF v
<1>8. /\ op' \in Command /\ op'.step = "settings" /\ op'.proc = op.proc /\ op'.kind = op.kind
      /\ op'.host = op.host /\ op'.seen = op.seen
  BY ContinueFields DEF SaveCatalog, Steps
<1>9. /\ window' \in [Procs -> Window] /\ \A r \in Procs : SoundWindow(window'[r])
      /\ Me' = v /\ advert' = advert
  BY <1>1, <1>4, <1>6, <1>8, MineSet DEF SaveCatalog, world
<1>10. op.kind = "launch" => /\ op.host # None => advert[op.host] \in op.seen
                             /\ q.revision \in op.seen \ {0}
  BY <1>1 DEF Sound, SoundCommand
<1> HIDE DEF q
<1>11. SoundCommand(op', Me', advert')
  BY <1>1, <1>6, <1>7, <1>8, <1>9, <1>10 DEF SoundCommand
<1>12. SoundCatalog(catalog')
  BY <1>1 DEF SaveCatalog, SoundWindow
<1> QED
  BY <1>9, <1>11, <1>12 DEF SaveCatalog, Sound, SoundFiles, SoundWorld, world

\* The settings that are saved are the window's.
LEMMA SaveSettingsStep ==
    ASSUME Sound, SaveSettings
    PROVE  Sound'
<1>1. /\ op.step = "settings" /\ Me.open /\ SoundWindow(Me) /\ op.proc \in Procs
      /\ op \in Command
  BY MineSound DEF SaveSettings, Sound, SoundCommand
<1>2. SoundSettings(settings') /\ advert' = advert
  BY <1>1 DEF SaveSettings, SoundWindow, world
<1>3. SoundFiles' /\ SoundWorld'
  BY <1>2 DEF SaveSettings, Sound, SoundFiles, SoundWorld, world
<1>4. CASE op.kind = "confirm"
  <2> DEFINE v == [Me EXCEPT !.review = None]
  <2>1. SoundWindow(v) /\ v.open = Me.open
    BY <1>1, ReviewSet
  <2>2. Mine(v) /\ Continue("review")
    BY <1>4 DEF SaveSettings
  <2> HIDE DEF v
  <2>3. op' \in Command /\ op'.step = "review" /\ op'.proc = op.proc /\ op'.kind = op.kind
    BY <2>2, ContinueFields DEF Steps
  <2>4. /\ window' \in [Procs -> Window] /\ \A r \in Procs : SoundWindow(window'[r])
        /\ Me' = v
    BY <1>1, <2>1, <2>2, <2>3, MineSet
  <2>5. SoundCommand(op', Me', advert')
    BY <1>1, <1>4, <2>1, <2>3, <2>4 DEF SoundCommand
  <2> QED
    BY <1>3, <2>4, <2>5 DEF Sound
<1>5. CASE op.kind = "launch"
  <2>1. Continue("prepare") /\ UNCHANGED window
    BY <1>5 DEF SaveSettings
  <2>2. /\ op' \in Command /\ op'.step = "prepare" /\ op'.proc = op.proc /\ op'.kind = op.kind
        /\ op'.host = op.host /\ op'.seen = op.seen
    BY <2>1, ContinueFields DEF Steps
  <2>3. Me' = Me
    BY <2>1, <2>2, MineKept
  <2>4. SoundCommand(op', Me', advert')
    BY <1>1, <1>2, <1>5, <2>2, <2>3 DEF SoundCommand, Sound
  <2> QED
    BY <1>3, <2>1, <2>4 DEF Sound
<1>6. CASE op.kind \notin {"confirm", "launch"}
  <2>1. op' = Idle /\ UNCHANGED window
    BY <1>6 DEF SaveSettings
  <2>2. SoundCommand(op', Me', advert')
    BY <2>1, IdleSound
  <2> QED
    BY <1>3, <2>1, <2>2 DEF Sound
<1> QED
  BY <1>4, <1>5, <1>6

\* A command that ends, with what it wrote in its last step.
LEMMA LastStep ==
    ASSUME Sound, op' = Idle, SoundFiles', SoundWorld', UNCHANGED window
    PROVE  Sound'
<1>1. SoundCommand(op', Me', advert')
  BY IdleSound
<1> QED
  BY <1>1 DEF Sound

\* A launch that is prepared keeps its profile.
LEMMA PrepareStep ==
    ASSUME Sound, Prepare
    PROVE  Sound'
<1>1. SoundFiles' /\ SoundWorld' /\ UNCHANGED window /\ advert' = advert
  BY DEF Prepare, Sound, SoundFiles, SoundWorld, files, world
<1>2. CASE op' = Idle
  BY <1>1, <1>2, LastStep
<1>3. CASE Continue("launch")
  <2>1. /\ op' \in Command /\ op'.step = "launch" /\ op'.proc = op.proc /\ op'.kind = op.kind
        /\ op'.host = op.host /\ op'.seen = op.seen
    BY <1>3, ContinueFields DEF Steps
  <2>2. Me' = Me
    BY <1>1, <2>1, MineKept
  <2>3. op.proc \in Procs /\ Me.open
    BY MineSound DEF Prepare
  <2>4. SoundCommand(op', Me', advert')
    BY <1>1, <2>1, <2>2, <2>3 DEF SoundCommand, Sound, Prepare
  <2> QED
    BY <1>1, <2>4 DEF Sound
<1> QED
  BY <1>2, <1>3 DEF Prepare

\* The steps of a command keep the invariant.
LEMMA CommandStepSound ==
    ASSUME Sound, CommandStep
    PROVE  Sound'
<1>1. CASE DigestMismatch \/ NoLongerAdvertised
  BY <1>1, LastStep DEF DigestMismatch, NoLongerAdvertised, Sound, SoundFiles, SoundWorld, files, world
<1>2. CASE SaveReview
  <2>1. pending' \in Sources \cup {None}
    BY <1>2, MineSound DEF SaveReview, SoundWindow, Window
  <2> QED
    BY <1>2, <2>1, LastStep DEF SaveReview, Sound, SoundFiles, SoundWorld, world
<1>3. CASE Launch
  BY <1>3, LastStep DEF Launch, Sound, SoundFiles, SoundWorld, files
<1> QED
  BY <1>1, <1>2, <1>3, ReadListStep, ReadManifestStep, SelectPlainStep, KeepPreviousStep,
     SaveCatalogStep, SaveSettingsStep, PrepareStep
  DEF CommandStep


-----------------------------------------------------------------------------
(* Failures and surroundings.                                              *)

\* A request or a write fails: the command is over, the memory is as it was.
LEMMA FailsStep ==
    ASSUME Sound, Fails
    PROVE  Sound'
BY BuiltInFacts, LastStep DEF Fails, Mishap, Sound, SoundFiles, SoundWorld, files

\* A window dies, with the command that it runs or without one.
LEMMA CrashStep ==
    ASSUME Sound, NEW p \in Procs, Crash(p)
    PROVE  Sound'
<1>1. /\ window' \in [Procs -> Window] /\ \A q \in Procs : SoundWindow(window'[q])
      /\ \A r \in Procs \ {p} : window'[r] = window[r]
  BY ClosedSound, WindowSet DEF Crash
<1>2. SoundFiles' /\ SoundWorld' /\ advert' = advert
  BY BuiltInFacts DEF Crash, Mishap, Sound, SoundFiles, SoundWorld, files
<1>3. CASE op' = Idle
  BY <1>1, <1>2, <1>3, IdleSound DEF Sound
<1>4. CASE op' = op /\ op.proc # p
  <2>1. CASE op.step = "idle"
    BY <1>1, <1>2, <1>4, <2>1, IdleSound DEF Sound, SoundCommand
  <2>2. CASE op.step # "idle"
    <3>1. op.proc \in Procs \ {p}
      BY <1>4, <2>2, MineSound
    <3>2. Me' = Me
      BY <1>1, <1>4, <3>1 DEF Me
    <3> QED
      BY <1>1, <1>2, <1>4, <3>2 DEF Sound
  <2> QED
    BY <2>1, <2>2
<1> QED
  BY <1>3, <1>4 DEF Crash

\* What a server advertises while a window plays on it has been seen.
LEMMA PublishStep ==
    ASSUME Sound, NEW h \in Hosts, NEW r \in Revisions, Publish(h, r)
    PROVE  Sound'
<1> DEFINE s == IF op.kind = "launch" /\ op.host = h THEN op.seen \cup {r} ELSE op.seen
<1>1. op \in Command /\ advert \in Adverts /\ published \in 0..MaxPublish /\ MaxPublish \in Nat
  BY BuiltInFacts DEF Sound, SoundCommand, SoundWorld
<1>2. s \in SUBSET Revisions /\ op' = [op EXCEPT !.seen = s]
  BY <1>1 DEF Publish, Command
<1>3. op.seen \subseteq s /\ (op.kind = "launch" /\ op.host = h => r \in s)
  OBVIOUS
<1>4. op.kind # "launch" => s = op.seen
  OBVIOUS
<1> HIDE DEF s
<1>5. /\ op' \in Command /\ op'.step = op.step /\ op'.proc = op.proc /\ op'.kind = op.kind
      /\ op'.host = op.host /\ op'.profile = op.profile /\ op'.seen = s
  BY <1>1, <1>2 DEF Command
<1>6. op.step = "idle" => op' = Idle
  <2>1. op.step = "idle" => op = Idle
    BY DEF Sound, SoundCommand
  <2> QED
    BY <1>2, <1>4, <2>1 DEF Idle
<1>7. Me' = Me
  BY <1>5, MineKept DEF Publish
<1>8. advert' \in Adverts /\ advert' = [advert EXCEPT ![h] = r]
  BY <1>1 DEF Publish, Adverts
<1>9. op.kind = "launch" /\ op.host # None => advert'[op.host] \in s
  <2>1. op.host \in Hosts \cup {None}
    BY <1>1 DEF Command
  <2>2. op.kind = "launch" /\ op.host # None => advert[op.host] \in op.seen
    BY DEF Sound, SoundCommand
  <2> QED
    BY <1>1, <1>3, <1>8, <2>1, <2>2 DEF Adverts
<1>10. SoundCommand(op', Me', advert')
  <2>1. SoundCommand(op, Me, advert)
    BY DEF Sound
  <2> QED
    BY <1>3, <1>5, <1>6, <1>7, <1>9, <2>1 DEF SoundCommand
<1>11. published' \in 0..MaxPublish
  BY <1>1 DEF Publish
<1> QED
  BY <1>8, <1>10, <1>11 DEF Publish, Sound, SoundFiles, SoundWorld, files

\* The first state, with every window still closed.
LEMMA SoundInit ==
    ASSUME Init
    PROVE  Sound
<1>1. SoundFiles
  BY BuiltInsSound DEF Init, SoundFiles
<1>2. SoundWorld
  BY BuiltInFacts, ProfilesAssumption DEF Init, SoundWorld, Adverts, Revisions
<1>3. window \in [Procs -> Window] /\ \A p \in Procs : SoundWindow(window[p])
  BY ClosedSound DEF Init, SoundWindow
<1>4. SoundCommand(op, Me, advert)
  BY IdleSound DEF Init
<1> QED
  BY <1>1, <1>2, <1>3, <1>4 DEF Sound

\* Every step keeps the inductive invariant.
LEMMA SoundNext ==
    ASSUME Sound, [Next]_vars
    PROVE  Sound'
<1>1. CASE UNCHANGED vars
  <2>1. Me' = Me
    BY <1>1 DEF vars, Me
  <2> QED
    BY <1>1, <2>1 DEF vars, files, world, Sound, SoundFiles, SoundWorld
<1>2. CASE GameExit
  <2>1. Me' = Me
    BY <1>2 DEF GameExit, Me
  <2> QED
    BY <1>2, <2>1 DEF GameExit, files, Sound, SoundFiles, SoundWorld
<1> QED
  BY <1>1, <1>2, UserStep, CrashStep, CommandStepSound, FailsStep, PublishStep DEF Next

-----------------------------------------------------------------------------
(* Theorems.                                                               *)

\* The inductive invariant: a profile belongs to one server for ever, in every file and
\* every window's memory, and a launch has seen its revision advertised.
THEOREM ProfilesInductive == Spec => []Sound
<1>1. Init => Sound
  BY SoundInit
<1>2. Sound /\ [Next]_vars => Sound'
  BY SoundNext
<1> QED
  BY <1>1, <1>2, PTL DEF Spec

\* The invariant has the types.
LEMMA SoundTyped ==
    ASSUME Sound
    PROVE  TypeOK
<1>1. \A c : SoundCatalog(c) => Entries(c) \subseteq Profile
  BY DEF SoundCatalog, Entries
<1>2. /\ Entries(catalog) \subseteq Profile /\ settings \in Settings
      /\ pending \in Sources \cup {None}
      /\ \A id \in Ids : previous[id] # None => previous[id] \in Profile /\ previous[id].id = id
  BY <1>1 DEF Sound, SoundFiles, SoundSettings, AtHome
<1>3. \A p \in Procs :
          /\ Entries(window[p].catalog) \subseteq Profile
          /\ window[p].settings \in Settings
          /\ window[p].review \in Sources \cup {None}
          /\ window[p].servers = None \/ window[p].servers \in Adverts
  BY <1>1 DEF Sound, SoundWindow, SoundSettings, Window
<1>4. /\ op.kind \in Kinds /\ op.step \in Steps
      /\ op.step \in {"list", "manifest"} => op.host \in Hosts
      /\ op.step \in {"previous", "catalog"} => op.profile \in Profile
  BY DEF Sound, SoundCommand, Command, AtHome
<1>5. op.step = "idle" <=> op = Idle
  BY DEF Sound, SoundCommand, Idle
<1>6. advert \in Adverts /\ published \in 0..MaxPublish
      /\ changes \in 0..MaxChanges /\ mishaps \in 0..MaxMishaps
  BY DEF Sound, SoundWorld
<1> QED
  BY <1>2, <1>3, <1>4, <1>5, <1>6 DEF TypeOK

\* Every state of the files, the windows and the command has its type.
THEOREM ProfilesTyped == Spec => []TypeOK
BY ProfilesInductive, SoundTyped, PTL

\* Every open window shows a profile of its own catalog and no catalog names one twice,
\* for any number of windows that overwrite each other's files, and whatever fails
\* (native_backend.cpp:285-289, 351-356).
THEOREM SelectedExistsCorrect == Spec => []SelectedExists
<1>1. Sound => SelectedExists
  BY DEF Sound, SoundFiles, SoundWindow, SoundCatalog, SelectedExists
<1> QED
  BY <1>1, ProfilesInductive, PTL

\* Only Launch starts a game.
LEMMA LaunchStarts ==
    ASSUME [Next]_vars, game = None, game' # None
    PROVE  Launch
BY DEF Next, vars, files, world, User, Open, Play, Refresh, Select, Choose, Review, Confirm, Return,
   Change, CommandStep, ReadList, ReadManifest, DigestMismatch, NoLongerAdvertised, SelectPlain,
   KeepPrevious, SaveCatalog, SaveSettings, SaveReview, Prepare, Fails, Mishap, Crash, GameExit,
   Publish

\* What is launched was advertised during the launch, or needs no advertisement.
LEMMA LaunchSound ==
    ASSUME Sound, Launch
    PROVE  LET r == game'.profile.revision
           IN IF r # 0 THEN r \in op.seen ELSE ~ListAdvertises(Me)
<1>1. op.kind = "launch"
  BY DEF Launch, Sound, SoundCommand
<1>2. game'.profile.revision = Selected(Me).revision
  BY DEF Launch
<1> QED
  BY <1>1, <1>2 DEF Launch, Sound, SoundCommand

\* A game only starts with a discovered revision that its server advertised during that
\* very launch, for any servers, manifests and windows, whatever is published, returned
\* to, cut short or written by another window (native_backend.cpp:513-530).
THEOREM PlaysAdvertisedCorrect == Spec => PlaysAdvertised
<1>1. Sound /\ [Next]_vars =>
          [game = None /\ game' # None =>
              LET r == game'.profile.revision
              IN IF r # 0 THEN r \in op.seen ELSE ~ListAdvertises(Me)]_vars
  BY LaunchStarts, LaunchSound
<1> QED
  BY <1>1, ProfilesInductive, PTL DEF Spec, PlaysAdvertised
=============================================================================
