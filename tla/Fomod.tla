------------------------------- MODULE Fomod -------------------------------
(***************************************************************************)
(* The FOMOD installer of a package, run without a user from the selections *)
(* that the profile pins: installFomod and its helpers (fomod.cpp:162-486). *)
(* Each step that its condition shows asks for one selection per group; the *)
(* picked options queue files and set flags, which later steps see; then    *)
(* the queue is sorted by priority and written, later entries over earlier  *)
(* ones.  Any refusal leaves nothing: the caller drops the stage            *)
(* (native_backend.cpp:680-684).                                            *)
(*                                                                         *)
(* The XML is the record that it parses to.  A name is a number, in the     *)
(* order of its lower-case text; a directive has the entries that it adds,  *)
(* a folder itself and then what is in it.                                  *)
(***************************************************************************)
EXTENDS StagedTree, Integers, FiniteSets

CONSTANTS
    Flags,          \* names of condition flags
    Installers      \* parsed installers, each with the selections pinned for it

IsList(s) == s \in Seq(ToSet(s))

\* "duplicate step/group/option name.", "invalid ordering."
IsOrdered(list) ==
    /\ IsList(list.items)
    /\ list.order \in {"Explicit", "Ascending", "Descending"}
    /\ \A i \in DOMAIN list.items :
          /\ list.items[i].name \in Int
          /\ \A j \in DOMAIN list.items : list.items[i].name = list.items[j].name => i = j

AreDirectives(files) ==
    /\ IsList(files)
    /\ \A f \in ToSet(files) :
          /\ f.priority \in Int /\ IsList(f.entries)
          /\ \A e \in ToSet(f.entries) : e.is # None

\* What validateTree accepts (fomod.cpp:157-247); an entry is a file or a folder.
ASSUME InstallerAssumption ==
    \A j \in Installers :
        /\ AreDirectives(j.required) /\ IsOrdered(j.steps) /\ IsList(j.conditional)
        /\ \A c \in ToSet(j.conditional) : AreDirectives(c.files)
        /\ \A s \in ToSet(j.steps.items) :
              /\ IsOrdered(s.groups)
              /\ \A g \in ToSet(s.groups.items) :
                    /\ IsOrdered(g.plugins)
                    /\ \A o \in ToSet(g.plugins.items) : AreDirectives(o.files)

VARIABLES
    job,        \* the installer; it never changes
    phase,      \* "steps", "write", "done" or "refused"
    at,         \* the number of the next step, then of the next entry
    flags,      \* the flags that the steps so far have set
    files,      \* the directives queued so far
    consumed    \* the selections used so far

fomodVars == <<job, phase, at, flags, files, consumed>>

\* One level of an expression of flag tests, And or Or.
Matches(n, values) ==
    IF n.all THEN \A t \in n.tests : values[t[1]] = t[2]
             ELSE \E t \in n.tests : values[t[1]] = t[2]

\* std::stable_sort by a number for each place: what is no greater, and of
\* equal ones what is no later, comes no later.
StableSort(list, key) ==
    LET place == [i \in DOMAIN list |->
            Cardinality({j \in DOMAIN list : key[j] < key[i] \/ (key[j] = key[i] /\ j <= i)})]
    IN [k \in DOMAIN list |-> list[CHOOSE i \in DOMAIN list : place[i] = k]]

\* Ascending, Descending or Explicit.
InOrder(list) ==
    StableSort(list.items, [i \in DOMAIN list.items |->
        CASE list.order = "Explicit"   -> 0
          [] list.order = "Ascending"  -> list.items[i].name
          [] list.order = "Descending" -> -list.items[i].name])

\* The first pattern that matches gives the type of an option.
OptionType(option, values) ==
    LET matching == {i \in DOMAIN option.patterns : Matches(option.patterns[i].when, values)}
    IN IF matching = {} THEN option.default
       ELSE option.patterns[CHOOSE i \in matching : \A j \in matching : i <= j].type

Steps == InOrder(job.steps)
Step == Steps[at]
Groups(step) == ToSet(step.groups.items)
Key(step, group) == <<step.name, group.name>>
Options(group) == ToSet(group.plugins.items)
Selection(step, group) == job.selections[Key(step, group)]
Picked(step, group) == {o \in Options(group) : o.name \in Selection(step, group)}

\* "selection violates ..."
Admitted(group, n) ==
    CASE group.type = "SelectExactlyOne" -> n = 1
      [] group.type = "SelectAtMostOne"  -> n <= 1
      [] group.type = "SelectAtLeastOne" -> n >= 1
      [] group.type = "SelectAll"        -> n = Cardinality(Options(group))
      [] group.type = "SelectAny"        -> TRUE

\* "pin a selection", "unknown selected option", "selected option is not
\* usable", "required option is not selected".
Allowed(group) ==
    /\ Key(Step, group) \in DOMAIN job.selections
    /\ Selection(Step, group) \subseteq {o.name : o \in Options(group)}
    /\ Admitted(group, Cardinality(Selection(Step, group)))
    /\ \A o \in Options(group) :
          /\ o \in Picked(Step, group) => OptionType(o, flags) # "NotUsable"
          /\ OptionType(o, flags) = "Required" => o \in Picked(Step, group)

SetBy(step) == UNION {o.sets : o \in UNION {Picked(step, g) : g \in Groups(step)}}

\* "conflicting flags within one step."
Agree(sets) == \A s, t \in sets : s[1] = t[1] => s[2] = t[2]

\* Whether a file of an option is installed, with the flags before the step.
Installs(step, group, o, f, values) ==
    \/ o \in Picked(step, group) \/ f.always
    \/ f.ifUsable /\ OptionType(o, values) # "NotUsable"

OptionFiles(group, o) ==
    FlattenSeq([i \in DOMAIN o.files |->
        IF Installs(Step, group, o, o.files[i], flags) THEN <<o.files[i]>> ELSE <<>>])
GroupFiles(group) ==
    LET options == InOrder(group.plugins)
    IN FlattenSeq([i \in DOMAIN options |-> OptionFiles(group, options[i])])
StepFiles ==
    LET groups == InOrder(Step.groups)
    IN FlattenSeq([i \in DOMAIN groups |-> GroupFiles(groups[i])])

FomodInit ==
    /\ job \in Installers
    /\ flags = [f \in Flags |-> None]
    /\ phase = IF Matches(job.needs, flags) THEN "steps" ELSE "refused"
    /\ at = 1
    /\ files = job.required
    /\ consumed = {}
    /\ tree = [p \in Paths |-> None]

Refuse == phase' = "refused" /\ UNCHANGED <<job, at, flags, files, consumed, tree>>

Hidden ==
    /\ phase = "steps" /\ at <= Len(Steps)
    /\ ~Matches(Step.visible, flags)
    /\ at' = at + 1
    /\ UNCHANGED <<job, phase, flags, files, consumed, tree>>

RunStep ==
    /\ phase = "steps" /\ at <= Len(Steps)
    /\ Matches(Step.visible, flags)
    /\ IF (\A g \in Groups(Step) : Allowed(g)) /\ Agree(SetBy(Step))
       THEN /\ at' = at + 1
            /\ files' = files \o StepFiles
            /\ consumed' = consumed \cup {Key(Step, g) : g \in Groups(Step)}
            /\ flags' = [f \in Flags |->
                           IF \E s \in SetBy(Step) : s[1] = f
                           THEN (CHOOSE s \in SetBy(Step) : s[1] = f)[2] ELSE flags[f]]
            /\ UNCHANGED <<job, phase, tree>>
       ELSE Refuse

ConditionalFiles ==
    FlattenSeq([i \in DOMAIN job.conditional |->
        IF Matches(job.conditional[i].when, flags) THEN job.conditional[i].files ELSE <<>>])

\* Mutant: of two files of one priority the earlier one is written last.
ByPriorityAlone(queue) ==
    StableSort(queue, [i \in DOMAIN queue |-> queue[i].priority * Len(queue) - i])

ByPriority(queue) == StableSort(queue, [i \in DOMAIN queue |-> queue[i].priority])

\* "selection refers to a hidden or unknown group."
Conditional ==
    /\ phase = "steps" /\ at > Len(Steps)
    /\ IF consumed = DOMAIN job.selections
       THEN /\ phase' = "write"
            /\ at' = 1
            /\ files' = ByPriority(files \o ConditionalFiles)
            /\ UNCHANGED <<job, flags, consumed, tree>>
       ELSE Refuse

Output == FlattenSeq([i \in DOMAIN files |-> files[i].entries])

\* "file/directory output collision.", or what should be its folder is a file.
Clashes(e) ==
    \/ IF e.is = Dir THEN IsFile(tree, e.to) ELSE tree[e.to] = Dir
    \/ ~Reachable(e.to)

\* The instance ends at MaxDepth: nothing is put deeper.
Write ==
    /\ phase = "write" /\ at <= Len(Output)
    /\ Output[at].to \in Paths
    /\ IF Clashes(Output[at]) THEN Refuse
       ELSE /\ tree' = Put(Output[at].to, Output[at].is)
            /\ at' = at + 1
            /\ UNCHANGED <<job, phase, flags, files, consumed>>

\* "installer produced no output."
Finish ==
    /\ phase = "write" /\ at > Len(Output)
    /\ phase' = IF Output # <<>> THEN "done" ELSE "refused"
    /\ UNCHANGED <<job, at, flags, files, consumed, tree>>

FomodNext == Hidden \/ RunStep \/ Conditional \/ Write \/ Finish

-----------------------------------------------------------------------------
\* The steps that were shown, the flags that the picked options of those
\* before step k have left, and what each part of the installer is to install.
Shown(k) == \E g \in Groups(Steps[k]) : Key(Steps[k], g) \in consumed

Before(k) ==
    [f \in Flags |->
        LET setting == {j \in DOMAIN Steps :
                           j < k /\ Shown(j) /\ \E s \in SetBy(Steps[j]) : s[1] = f}
        IN IF setting = {} THEN None
           ELSE LET j == Max(setting) IN (CHOOSE s \in SetBy(Steps[j]) : s[1] = f)[2]]

Chosen(k) ==
    IF k = 0 THEN ToSet(job.required)
    ELSE IF k > Len(Steps)
    THEN UNION {ToSet(c.files) : c \in {c \in ToSet(job.conditional) : Matches(c.when, Before(k))}}
    ELSE IF ~Shown(k) THEN {}
    ELSE UNION {UNION {{f \in ToSet(o.files) : Installs(Steps[k], g, o, f, Before(k))} :
                          o \in Options(g)} : g \in Groups(Steps[k])}

\* Every path has what the highest priority, and of equal ones the later part
\* of the installer, puts there; a step with groups was shown exactly when the
\* flags that earlier steps set call for it, and nothing of a hidden one is
\* installed.
Bids(p) == UNION {{[part |-> k, file |-> f, entry |-> e] :
                      f \in {f \in Chosen(k) : \E e \in ToSet(f.entries) : e.to = p},
                      e \in UNION {ToSet(f.entries) : f \in Chosen(k)}} : k \in 0..Len(Steps) + 1}
OwnBids(p) == {b \in Bids(p) : b.entry \in ToSet(b.file.entries) /\ b.entry.to = p}
Outbids(b, c) ==
    \/ c.file.priority < b.file.priority
    \/ c.file.priority = b.file.priority /\ c.part <= b.part

InstallerOutput ==
    /\ \A k \in DOMAIN Steps :
          Groups(Steps[k]) # {} => (Shown(k) <=> Matches(Steps[k].visible, Before(k)))
    /\ \A p \in Paths :
          IF OwnBids(p) = {}
          THEN tree[p] \in {None, Dir}
          ELSE \E b \in OwnBids(p) :
                  tree[p] = b.entry.is /\ \A c \in OwnBids(p) : Outbids(b, c)
=============================================================================
