----------------------------- MODULE LoadOrder -----------------------------
(***************************************************************************)
(* The load order of the enabled plugins: Backend::loadOrder and the part   *)
(* of Backend::prepare that calls it (native_backend.cpp:711-753, 772-795). *)
(* The content of the server's profile is followed by the local mods that   *)
(* the player enabled; each plugin is looked up in the data folders and its *)
(* header names the masters it needs; a depth-first walk puts the masters   *)
(* first; and the server's own order must have survived the walk.           *)
(*                                                                         *)
(* Names are compared without their case in the code; here a name stands    *)
(* for all its spellings.  The recursion of visit() is an explicit stack.   *)
(***************************************************************************)
EXTENDS Naturals, Sequences

CONSTANTS
    Names,      \* file names of plugins, with those that only a header names
    Unsafe,     \* those of the names that are not the name of a file in a folder
    Absent,     \* what a folder without the plugin has in its place
    Broken,     \* a plugin whose header masters() refuses to read
    MaxPlugins, \* the most plugins that loadOrder takes (1024)
    Requests    \* what prepare may be asked to order

\* The profile's content, the enabled local mods and, per data folder in the
\* order of the roots, the masters in the header of each plugin it has.
Request ==
    [server : Seq(Names), local : Seq(Names),
     roots  : Seq([Names -> {Absent, Broken} \cup Seq(Names)])]

ASSUME RequestAssumption == Requests \subseteq Request
ASSUME HeaderAssumption == {Absent, Broken} \cap Seq(Names) = {}
ASSUME LimitAssumption == MaxPlugins \in Nat /\ Unsafe \subseteq Names

VARIABLES
    request,    \* the arguments; they never change
    verdict,    \* "index", "visit", "ordered" or "refused"
    color,      \* 0 unseen, 1 being visited, 2 placed; by position in content
    stack,      \* the active calls of visit(): a position and its next master
    order       \* the positions placed so far

orderVars == <<request, verdict, color, stack, order>>

Content == request.server \o request.local
Positions == 1..Len(Content)

\* The last folder that has the plugin provides it: the search stops within a
\* folder, not at it.
Header(name) ==
    LET having == {r \in DOMAIN request.roots : request.roots[r][name] # Absent}
    IN IF having = {} THEN Absent
       ELSE request.roots[CHOOSE r \in having : \A s \in having : s <= r][name]

PositionOf(name) == CHOOSE i \in Positions : Content[i] = name

\* deps[i] in the code: the masters of the i-th plugin, as positions.
Deps(i) == LET h == Header(Content[i]) IN [k \in DOMAIN h |-> PositionOf(h[k])]

\* The plugin was found, and masters() did not throw: it is an .omwscripts file or
\* begins with a whole TES3 header.
Readable(name) == Header(name) \notin {Absent, Broken}

\* What loadOrder looks at before any folder.
WithinLimits ==
    /\ Len(Content) <= MaxPlugins
    /\ \A i \in Positions : Content[i] \notin Unsafe

Distinct == \A i, j \in Positions : Content[i] = Content[j] => i = j
Present ==
    \A i \in Positions :
        /\ Readable(Content[i])
        /\ \A k \in DOMAIN Header(Content[i]) :
              \E j \in Positions : Content[j] = Header(Content[i])[k]

Ready ==
    /\ verdict = "index"
    /\ color = [i \in Positions |-> 0]
    /\ stack = <<>>
    /\ order = <<>>

OrderInit == request \in Requests /\ Ready

\* "Too many plugins.", "Invalid plugin filename.", "Duplicate plugin.", "Missing
\* enabled plugin", "Invalid TES3 plugin", "Missing master".
Index ==
    /\ verdict = "index"
    /\ verdict' = IF WithinLimits /\ Distinct /\ Present THEN "visit" ELSE "refused"
    /\ UNCHANGED <<request, color, stack, order>>

Call(i) ==
    /\ color' = [color EXCEPT ![i] = 1]
    /\ stack' = Append(stack, [at |-> i, dep |-> 1])

\* The outer loop: the first position that no visit has placed.
Start(i) ==
    /\ verdict = "visit"
    /\ stack = <<>>
    /\ color[i] = 0
    /\ \A j \in Positions : j < i => color[j] # 0
    /\ Call(i)
    /\ UNCHANGED <<request, verdict, order>>

Frame == stack[Len(stack)]
Visiting == verdict = "visit" /\ stack # <<>>
MastersLeft == Frame.dep <= Len(Deps(Frame.at))
Master == Deps(Frame.at)[Frame.dep]

Descend ==
    /\ Visiting /\ MastersLeft
    /\ color[Master] = 0
    /\ Call(Master)
    /\ UNCHANGED <<request, verdict, order>>

\* Mutant: a master that is being visited counts as placed.
PassUnplaced ==
    /\ Visiting /\ MastersLeft
    /\ color[Master] # 0
    /\ stack' = [stack EXCEPT ![Len(stack)] =
                    [at |-> Frame.at, dep |-> Frame.dep + 1]]
    /\ UNCHANGED <<request, verdict, color, order>>

\* visit() of the master returned, now or earlier.
Pass ==
    /\ Visiting /\ MastersLeft
    /\ color[Master] = 2
    /\ stack' = [stack EXCEPT ![Len(stack)] =
                    [at |-> Frame.at, dep |-> Frame.dep + 1]]
    /\ UNCHANGED <<request, verdict, color, order>>

\* "Cyclic plugin master dependency."
Cycle ==
    /\ Visiting /\ MastersLeft
    /\ color[Master] = 1
    /\ verdict' = "refused"
    /\ UNCHANGED <<request, color, stack, order>>

Place ==
    /\ Visiting /\ ~MastersLeft
    /\ color' = [color EXCEPT ![Frame.at] = 2]
    /\ order' = Append(order, Frame.at)
    /\ stack' = SubSeq(stack, 1, Len(stack) - 1)
    /\ UNCHANGED <<request, verdict>>

Ordered == [i \in DOMAIN order |-> Content[order[i]]]

\* The names that are kept, in their order.
Restricted(names, kept) ==
    LET upTo[n \in 0..Len(names)] ==
            IF n = 0 THEN <<>>
            ELSE IF names[n] \in kept THEN Append(upTo[n - 1], names[n])
            ELSE upTo[n - 1]
    IN upTo[Len(names)]

Filtered(names) ==
    Restricted(names, {request.server[i] : i \in DOMAIN request.server})

\* "Server profile load order conflicts with plugin master dependencies."
Compare ==
    /\ verdict = "visit"
    /\ stack = <<>>
    /\ \A i \in Positions : color[i] = 2
    /\ verdict' = IF Filtered(Ordered) = request.server THEN "ordered" ELSE "refused"
    /\ UNCHANGED <<request, color, stack, order>>

Finished == verdict \in {"ordered", "refused"} /\ UNCHANGED orderVars

OrderNext ==
    \/ Index \/ Descend \/ Pass \/ Cycle \/ Place \/ Compare \/ Finished
    \/ \E i \in Positions : Start(i)

OrderSpec == OrderInit /\ [][OrderNext]_orderVars

-----------------------------------------------------------------------------
OrderTypeOK ==
    /\ request \in Request
    /\ verdict \in {"index", "visit", "ordered", "refused"}
    /\ color \in [Positions -> 0..2]
    /\ stack \in Seq([at : Positions, dep : Nat \ {0}])
    /\ order \in Seq(Positions)

\* Whatever is placed has its masters placed before it: no plugin is loaded
\* without what its header needs (native_backend.cpp:734-747).
MastersFirst ==
    \A b \in DOMAIN order : \A k \in DOMAIN Deps(order[b]) :
        \E a \in DOMAIN order : a < b /\ order[a] = Deps(order[b])[k]

\* An order the game can use: all the content, nothing twice, every plugin one
\* with a header, every master there and earlier, the server's plugins in the
\* server's order.
Usable(names) ==
    /\ DOMAIN names = Positions
    /\ \A i \in Positions : \E j \in Positions : names[j] = Content[i]
    /\ \A i, j \in Positions : names[i] = names[j] => i = j
    /\ \A b \in DOMAIN names :
          /\ Readable(names[b])
          /\ \A k \in DOMAIN Header(names[b]) :
                \E a \in DOMAIN names : a < b /\ names[a] = Header(names[b])[k]
    /\ Filtered(names) = request.server

\* What is accepted is within the limits and can be used
\* (native_backend.cpp:711-753).
AcceptedIsUsable == verdict = "ordered" => WithinLimits /\ Usable(Ordered)

\* prepare orders the plugins exactly when they are at most MaxPlugins, go by
\* names of files, and some order would do: within those two limits the walk
\* never refuses content that has a usable order, whatever the local mods add
\* to the server's or shadow of it, and it never accepts another one.
OrderIsExact ==
    /\ AcceptedIsUsable
    /\ verdict = "refused" /\ WithinLimits =>
          ~ \E f \in [Positions -> Positions] :
                Usable([i \in Positions |-> Content[f[i]]])
=============================================================================
