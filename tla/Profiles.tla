------------------------------- MODULE Profiles -------------------------------
(***************************************************************************)
(* The profile catalog, the settings and the discovery of server profiles  *)
(* (launcher/src/native_backend.cpp): the constructor, syncDiscovered-     *)
(* Profile, discoveredProfile, acceptProfile and the commands startup,     *)
(* refreshServers, selectServer, profile, reviewProfile, dismissProfile,   *)
(* confirmProfile, rollbackProfile, prepare and launch.                    *)
(*                                                                         *)
(* Each window reads catalog, settings and review once, when it opens, and *)
(* writes the whole of them back.  A command holds InstallLock from its    *)
(* first to its last step; the windows' memories are still their own.      *)
(* The revision that a server advertises is a number, which stands for the *)
(* document and for its digest.                                            *)
(***************************************************************************)
EXTENDS Integers, Sequences

CONSTANTS
    Procs,          \* launcher windows
    Hosts,          \* servers: the endpoints a player may select
    Sources,        \* manifests a player may import
    HostOf,         \* source -> the server its manifest is for
    BuiltIns,       \* builtinProfiles()
    FirstAdvert,    \* host -> the revision advertised at first, 0: none
    MaxChanges,     \* bound: the player's commands other than Play
    MaxPublish,     \* bound: revisions published or withdrawn
    MaxMishaps,     \* bound: failed requests or writes, and processes that die
    None

Revisions == 0..MaxPublish + 1
Adverts == [Hosts -> Revisions]
Ids == {BuiltIns[i].id : i \in DOMAIN BuiltIns} \cup Hosts \cup Sources

\* revision 0: a built-in or imported profile; it is not _discovered.
Profile == [id : Ids, host : Hosts \cup {None}, revision : Revisions]

\* Identifiers are "remote-" and "server-" with a digest of the source or of the
\* endpoint; the built-in ones have neither form.
ASSUME ProfilesAssumption ==
    /\ None \notin Procs \cup Hosts \cup Sources
    /\ Hosts \cap Sources = {}
    /\ \A i \in DOMAIN BuiltIns : BuiltIns[i].id \notin Hosts \cup Sources
    /\ {MaxChanges, MaxPublish, MaxMishaps} \subseteq Nat
    /\ HostOf \in [Sources -> Hosts]
    /\ FirstAdvert \in [Hosts -> 0..1]
    /\ BuiltIns \in Seq(Profile) /\ BuiltIns # <<>>
    /\ BuiltIns[1].host = None
    /\ \A i \in DOMAIN BuiltIns : BuiltIns[i].revision = 0
    /\ \A i, j \in DOMAIN BuiltIns : BuiltIns[i].id = BuiltIns[j].id => i = j

VARIABLES
    advert,         \* the master's list: host -> revision, 0: none
    published,      \* revisions published so far
    catalog,        \* fetcher-launcher-profiles.json
    settings,       \* settings.json: profile and host
    pending,        \* pending-profile.json: the source under review
    previous,       \* id -> previous-profile.json
    window,         \* memory of each window
    op,             \* the command in progress
    game,           \* what the running game was started with
    changes, mishaps

files == <<catalog, settings, pending, previous>>
world == <<advert, published, game, changes, mishaps>>
vars == <<files, window, op, world>>

Settings == [profile : Ids, host : Hosts \cup {None}]
Window == [open : BOOLEAN, catalog : Seq(Profile), settings : Settings,
           review : Sources \cup {None},
           servers : Adverts \cup {None}]       \* mServers, None: empty

Kinds == {"none", "launch", "select", "confirm", "other"}
Steps == {"idle", "list", "manifest", "previous", "catalog", "settings",
          "review", "prepare", "launch"}

Command ==
    [proc : Procs \cup {None}, kind : Kinds, step : Steps,
     host : Hosts \cup {None},              \* whose profile is discovered
     profile : Profile \cup {None},         \* what is being accepted
     seen : SUBSET Revisions]               \* what host advertised during a launch

Idle == [proc |-> None, kind |-> "none", step |-> "idle", host |-> None,
         profile |-> None, seen |-> {}]

FirstSettings == [profile |-> BuiltIns[1].id, host |-> None]

\* The memory of a window that is not open is of no account.
Closed == [open |-> FALSE, catalog |-> BuiltIns, settings |-> FirstSettings,
           review |-> None, servers |-> None]

Me == window[op.proc]
Entries(c) == {c[i] : i \in DOMAIN c}
Entry(c, id) == CHOOSE q \in Entries(c) : q.id = id
Has(c, id) == \E q \in Entries(c) : q.id = id
Selected(w) == Entry(w.catalog, w.settings.profile)

-----------------------------------------------------------------------------
(* Opening a window and beginning a command. *)

\* Mutant: the profile named by settings.json is not looked for.
LoadedUnchecked(p) ==
    [open |-> TRUE, catalog |-> catalog, settings |-> settings,
     review |-> pending, servers |-> None]

\* The constructor.  A profile that is no longer in the catalog gives way to
\* the first one; the host stays.
Loaded(p) ==
    [open |-> TRUE, catalog |-> catalog,
     settings |-> IF Has(catalog, settings.profile) THEN settings
                  ELSE [settings EXCEPT !.profile = catalog[1].id],
     review |-> pending, servers |-> None]

Open(p) ==
    /\ ~window[p].open
    /\ window' = [window EXCEPT ![p] = Loaded(p)]
    /\ UNCHANGED <<files, op, world>>

\* Bound: the player changes his mind MaxChanges times.
Change ==
    /\ changes < MaxChanges
    /\ changes' = changes + 1
    /\ UNCHANGED <<advert, published, game, mishaps>>

Begin(p, kind, step, host, profile) ==
    /\ op = Idle
    /\ window[p].open
    /\ op' = [proc |-> p, kind |-> kind, step |-> step, host |-> host,
              profile |-> profile,
              seen |-> IF kind = "launch" /\ host # None THEN {advert[host]} ELSE {}]

ListAdvertises(w) ==
    /\ w.settings.host # None
    /\ w.servers # None
    /\ w.servers[w.settings.host] # 0

\* Mutant: only the list at hand decides.
RequiredByList(w) == ListAdvertises(w)

\* syncDiscoveredProfile: a discovered profile, or a server known to advertise.
Required(w) == Selected(w).revision # 0 \/ ListAdvertises(w)

\* launch begins with syncDiscoveredProfile; so do prepare, check and the
\* storage commands, which are a launch that goes no further.
Play(p) ==
    /\ Begin(p, "launch", IF Required(window[p]) THEN "list" ELSE "prepare",
             window[p].settings.host, None)
    /\ UNCHANGED <<files, window, world>>

\* startup and refreshServers.
Refresh(p) ==
    /\ op = Idle
    /\ window[p].open
    /\ window' = [window EXCEPT ![p].servers = advert]
    /\ Change
    /\ UNCHANGED <<files, op>>

\* selectServer asks the master only when it knows no server at all.
Select(p, h) ==
    /\ Begin(p, "select", IF window[p].servers = None THEN "list" ELSE "manifest", h, None)
    /\ Change
    /\ UNCHANGED <<files, window>>

\* profile
Choose(p, q) ==
    /\ q \in Entries(window[p].catalog)
    /\ Begin(p, "other", "settings", None, None)
    /\ window' = [window EXCEPT ![p].settings =
                     [profile |-> q.id,
                      host |-> IF q.host = None THEN window[p].settings.host ELSE q.host]]
    /\ Change
    /\ UNCHANGED files

\* reviewProfile, and dismissProfile when s = None.
Review(p, s) ==
    /\ Begin(p, "other", "review", None, None)
    /\ window' = [window EXCEPT ![p].review = s]
    /\ Change
    /\ UNCHANGED files

Manual(s) == [id |-> s, host |-> HostOf[s], revision |-> 0]

\* confirmProfile, with the token of the review at hand.
Confirm(p) ==
    /\ window[p].review # None
    /\ Begin(p, "confirm", "previous", None, Manual(window[p].review))
    /\ Change
    /\ UNCHANGED <<files, window>>

Replaced(c, q) == [i \in DOMAIN c |-> IF c[i].id = q.id THEN q ELSE c[i]]

\* rollbackProfile
Return(p) ==
    LET prior == previous[window[p].settings.profile]
    IN /\ prior # None
       /\ Begin(p, "other", "catalog", None, prior)
       /\ window' = [window EXCEPT ![p].catalog = Replaced(@, prior)]
       /\ Change
       /\ UNCHANGED files

-----------------------------------------------------------------------------
(* The steps of a command. *)

Continue(step) == op' = [op EXCEPT !.step = step]
Mine(w) == window' = [window EXCEPT ![op.proc] = w]

\* Mutant: a list that is at hand is good enough.
ReadListOnce ==
    /\ op.step = "list"
    /\ Mine([Me EXCEPT !.servers = IF @ = None THEN advert ELSE @])
    /\ Continue("manifest")
    /\ UNCHANGED <<files, world>>

ReadList ==
    /\ op.step = "list"
    /\ Mine([Me EXCEPT !.servers = advert])
    /\ Continue("manifest")
    /\ UNCHANGED <<files, world>>

\* discoveredProfile: a managed profile for this server keeps its identifier.
DiscoveredId(c, h) ==
    LET own == {i \in DOMAIN c : c[i].host = h}
    IN IF own = {} THEN h ELSE c[CHOOSE i \in own : \A j \in own : i <= j].id

Listed == Me.servers[op.host]

ReadManifest ==
    /\ op.step = "manifest"
    /\ Listed # 0
    /\ Listed = advert[op.host]
    /\ op' = [op EXCEPT !.step = "previous",
                        !.profile = [id |-> DiscoveredId(Me.catalog, op.host),
                                     host |-> op.host, revision |-> Listed]]
    /\ UNCHANGED <<files, window, world>>

\* The digest of the list is not the document's.
DigestMismatch ==
    /\ op.step = "manifest"
    /\ Listed # 0
    /\ Listed # advert[op.host]
    /\ op' = Idle
    /\ UNCHANGED <<files, window, world>>

\* "This server no longer advertises its mod profile."
NoLongerAdvertised ==
    /\ op.step = "manifest"
    /\ Listed = 0
    /\ op.kind = "launch"
    /\ op' = Idle
    /\ UNCHANGED <<files, window, world>>

\* A server without discovery: the last profile for it, or the installation.
PlainSelection(c, h) ==
    LET own == {i \in DOMAIN c : c[i].host = h}
    IN IF own = {} THEN BuiltIns[1].id ELSE c[CHOOSE i \in own : \A j \in own : i >= j].id

SelectPlain ==
    /\ op.step = "manifest"
    /\ Listed = 0
    /\ op.kind = "select"
    /\ Mine([Me EXCEPT !.settings = [profile |-> PlainSelection(Me.catalog, op.host),
                                     host |-> op.host]])
    /\ Continue("settings")
    /\ UNCHANGED <<files, world>>

\* Mutant: the revision is filed under the profile that is selected.
KeepPreviousOfSelected ==
    /\ op.step = "previous"
    /\ LET q == op.profile
           c == Me.catalog
           new == ~Has(c, q.id)
           same == ~new /\ (\/ Entry(c, q.id) = q
                            \/ q.revision # 0 /\ Entry(c, q.id).revision = q.revision)
       IN /\ previous' = IF new \/ same THEN previous
                         ELSE [previous EXCEPT ![Me.settings.profile] = Entry(c, q.id)]
          /\ Mine([Me EXCEPT !.catalog = IF new THEN Append(@, q) ELSE Replaced(@, q)])
    /\ Continue("catalog")
    /\ UNCHANGED <<catalog, settings, pending, world>>

\* acceptProfile: the replaced revision is kept unless its content is the
\* advertised one's; then the memory has the new one.
KeepPrevious ==
    /\ op.step = "previous"
    /\ LET q == op.profile
           c == Me.catalog
           new == ~Has(c, q.id)
           same == ~new /\ (\/ Entry(c, q.id) = q
                            \/ q.revision # 0 /\ Entry(c, q.id).revision = q.revision)
       IN /\ previous' = IF new \/ same THEN previous
                         ELSE [previous EXCEPT ![q.id] = Entry(c, q.id)]
          /\ Mine([Me EXCEPT !.catalog = IF new THEN Append(@, q) ELSE Replaced(@, q)])
    /\ Continue("catalog")
    /\ UNCHANGED <<catalog, settings, pending, world>>

\* acceptProfile and rollbackProfile
SaveCatalog ==
    /\ op.step = "catalog"
    /\ catalog' = Me.catalog
    /\ Mine([Me EXCEPT !.settings = [profile |-> op.profile.id, host |-> op.profile.host]])
    /\ Continue("settings")
    /\ UNCHANGED <<settings, pending, previous, world>>

SaveSettings ==
    /\ op.step = "settings"
    /\ settings' = Me.settings
    /\ CASE op.kind = "confirm" -> /\ Mine([Me EXCEPT !.review = None])
                                   /\ Continue("review")
         [] op.kind = "launch" -> Continue("prepare") /\ UNCHANGED window
         [] OTHER -> op' = Idle /\ UNCHANGED window
    /\ UNCHANGED <<catalog, pending, previous, world>>

SaveReview ==
    /\ op.step = "review"
    /\ pending' = Me.review
    /\ op' = Idle
    /\ UNCHANGED <<catalog, settings, previous, window, world>>

\* assertGameStopped, and then what ManagedCache does with the packages.
Prepare ==
    /\ op.step = "prepare"
    /\ IF game = None THEN Continue("launch") ELSE op' = Idle
    /\ UNCHANGED <<files, window, world>>

Launch ==
    /\ op.step = "launch"
    /\ game' = [profile |-> Selected(Me), host |-> Me.settings.host]
    /\ op' = Idle
    /\ UNCHANGED <<files, window, advert, published, changes, mishaps>>

CommandStep ==
    \/ ReadList \/ ReadManifest \/ DigestMismatch \/ NoLongerAdvertised \/ SelectPlain
    \/ KeepPrevious \/ SaveCatalog \/ SaveSettings \/ SaveReview
    \/ Prepare \/ Launch

-----------------------------------------------------------------------------
(* Failures and surroundings. *)

\* Bound: MaxMishaps things go wrong.
Mishap ==
    /\ mishaps < MaxMishaps
    /\ mishaps' = mishaps + 1
    /\ UNCHANGED <<advert, published, game, changes>>

\* A request or a write fails: memory keeps what the command set before it.
Fails ==
    /\ op # Idle
    /\ Mishap
    /\ op' = Idle
    /\ UNCHANGED <<files, window>>

Crash(p) ==
    /\ window[p].open
    /\ Mishap
    /\ window' = [window EXCEPT ![p] = Closed]
    /\ op' = IF op.proc = p THEN Idle ELSE op
    /\ UNCHANGED files

GameExit ==
    /\ game # None
    /\ game' = None
    /\ UNCHANGED <<files, window, op, advert, published, changes, mishaps>>

\* The owner changes the profile of a server, or withdraws it.
Publish(h, r) ==
    /\ published < MaxPublish
    /\ r \in {0, published + 2}
    /\ r # advert[h]
    /\ published' = published + 1
    /\ advert' = [advert EXCEPT ![h] = r]
    /\ op' = [op EXCEPT !.seen = IF op.kind = "launch" /\ op.host = h THEN @ \cup {r} ELSE @]
    /\ UNCHANGED <<files, window, game, changes, mishaps>>

-----------------------------------------------------------------------------

Init ==
    /\ advert = FirstAdvert
    /\ published = 0
    /\ catalog = BuiltIns
    /\ settings = FirstSettings
    /\ pending = None
    /\ previous = [id \in Ids |-> None]
    /\ window = [p \in Procs |-> Closed]
    /\ op = Idle
    /\ game = None
    /\ changes = 0
    /\ mishaps = 0

User(p) ==
    \/ Open(p) \/ Refresh(p) \/ Play(p) \/ Confirm(p) \/ Return(p)
    \/ \E h \in Hosts : Select(p, h)
    \/ \E q \in Entries(window[p].catalog) : Choose(p, q)
    \/ \E s \in Sources \cup {None} : Review(p, s)

Next ==
    \/ \E p \in Procs : User(p) \/ Crash(p)
    \/ CommandStep
    \/ Fails
    \/ GameExit
    \/ \E h \in Hosts, r \in Revisions : Publish(h, r)

\* A command that has the lock runs on.
Spec == Init /\ [][Next]_vars /\ WF_vars(CommandStep)

-----------------------------------------------------------------------------
(* Properties. *)

TypeOK ==
    /\ advert \in Adverts
    /\ published \in 0..MaxPublish
    /\ Entries(catalog) \subseteq Profile
    /\ settings \in Settings
    /\ pending \in Sources \cup {None}
    /\ \A id \in Ids : previous[id] # None => previous[id] \in Profile /\ previous[id].id = id
    /\ \A p \in Procs :
          /\ Entries(window[p].catalog) \subseteq Profile
          /\ window[p].settings \in Settings
          /\ window[p].review \in Sources \cup {None}
          /\ window[p].servers = None \/ window[p].servers \in Adverts
    /\ op.kind \in Kinds
    /\ op.step \in Steps
    /\ op.step = "idle" <=> op = Idle
    /\ op.step \in {"list", "manifest"} => op.host \in Hosts
    /\ op.step \in {"previous", "catalog"} => op.profile \in Profile
    /\ changes \in 0..MaxChanges
    /\ mishaps \in 0..MaxMishaps

Consistent(c) == \A i, j \in DOMAIN c : c[i].id = c[j].id => i = j

\* The launcher opens and shows its profiles: the catalog on disk never has the
\* "Duplicate profile identifier" on which the constructor gives up
\* (native_backend.cpp:285-289), and the selected profile of a window is always in
\* its catalog (profile(), 351-356), whatever other windows have written over it
\* and whatever failed half-way.
SelectedExists ==
    /\ Consistent(catalog)
    /\ \A p \in Procs : window[p].open => Has(window[p].catalog, window[p].settings.profile)

\* "Play/Prepare re-check the live advertisement and digest; missing or invalid
\* advertisements fail closed" (launcher/PROFILE-FORMAT.md:16-17): a game that is
\* started with a discovered profile has a revision that its server advertised
\* during the command, after any rollback, restart, failure or other window; and
\* another profile is used only where no advertisement is known
\* (syncDiscoveredProfile, native_backend.cpp:513-530).
PlaysAdvertised ==
    [][game = None /\ game' # None =>
          LET r == game'.profile.revision
          IN IF r # 0 THEN r \in op.seen ELSE ~ListAdvertises(Me)]_vars

\* What is selected can be played: nothing discovered whose server has
\* withdrawn its profile.
Playable ==
    \A p \in Procs :
        window[p].open /\ Required(window[p]) => advert[window[p].settings.host] # 0

\* A player who presses Play again and again gets the game, whatever was
\* republished, failed or was cut short before: no list or manifest that was
\* read once stands in the way for ever (native_backend.cpp:522-527).
PlayArrives ==
    /\ []<><<\E p \in Procs : Play(p)>>_vars
    /\ <>[]Playable
    => []<>(game # None)

=============================================================================
