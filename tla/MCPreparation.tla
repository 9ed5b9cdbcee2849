--------------------------- MODULE MCPreparation ---------------------------
(***************************************************************************)
(* Instances of Preparation.  Three plugins whose headers name any of one   *)
(* another or are broken, in two data folders, with a fourth that is one    *)
(* too many and a name that is no file's in some profiles; three package    *)
(* trees under every pair of operations on paths of at most two names; and  *)
(* installers of two steps, the second shown under a flag that the first    *)
(* may set.                                                                 *)
(***************************************************************************)
EXTENDS Preparation, TLC

Headers == {Absent, Broken, <<>>, <<"a">>, <<"b">>, <<"c">>, <<"a", "b">>, <<"c", "a">>, <<"b", "c">>}
Profiles == {[server |-> <<"a", "b">>, local |-> <<"c">>],
             [server |-> <<"a", "b", "c">>, local |-> <<>>],
             [server |-> <<"a">>, local |-> <<"b", "c">>],
             [server |-> <<"a", "b">>, local |-> <<>>],
             [server |-> <<"a", "b">>, local |-> <<"a">>],
             [server |-> <<"a", "b", "c">>, local |-> <<"d">>],
             [server |-> <<"a">>, local |-> <<"b", "d/e">>]}
SecondFolder == {[n \in Names |-> Absent]}
    \cup {[n \in Names |-> IF n = "b" THEN header ELSE Absent] : header \in {Broken, <<"c">>}}
FirstFolder ==
    {[n \in Names |-> IF n \in DOMAIN headers THEN headers[n] ELSE <<>>] :
        headers \in [{"a", "b", "c"} -> Headers]}
MCRequests ==
    {[server |-> p.server, local |-> p.local, roots |-> <<first, second>>] :
        p \in Profiles, first \in FirstFolder, second \in SecondFolder}
MCBriefRequests ==
    {r \in MCRequests : /\ r.server = <<"a">>
                        /\ r.roots[1] = [n \in Names |-> <<>>]
                        /\ r.roots[2] = [n \in Names |-> Absent]}

\* A tree with the given files and folders.
Tree(given) == [p \in Paths |-> IF p \in DOMAIN given THEN given[p] ELSE None]
MCPackages ==
    {Tree(<<"a">> :> Dir @@ <<"a", "a">> :> "f1" @@ <<"a", "b">> :> Dir @@ <<"b">> :> "f2"),
     Tree(<<"a">> :> Dir @@ <<"a", "a">> :> "f1" @@ <<"b">> :> Dir
          @@ <<"b", "a">> :> "f2" @@ <<"b", "b">> :> ""),
     Tree(<<"a">> :> Dir @@ <<"a", "a">> :> Dir @@ <<"a", "a", "b">> :> "f1"
          @@ <<"b">> :> Dir @@ <<"b", "a">> :> "f2")}
MCRaw == Tree(<<"a">> :> "f1")
Short == {p \in Paths : Len(p) <= 2}
MCOperations ==
    [kind : {"copy", "move"}, src : Short, dst : Short, force : BOOLEAN]
    \cup [kind : {"remove"}, src : Short]
    \cup [kind : {"patch"}, src : {<<"a", "a">>}, wants : {"f1"}, makes : {"f3"}, create : {FALSE}]
    \cup [kind : {"patch"}, src : {<<"b", "b">>}, wants : {""}, makes : {"f3"}, create : {TRUE}]
    \cup [kind : {"restore"}, src : {<<"b", "a">>}, asset : {"owned", "other"}, wants : {"g1"},
          makes : {"g2"}, force : BOOLEAN]
MCOwned == "owned" :> "g1" @@ "other" :> "g9"

File(to, is, priority, always, ifUsable) ==
    [priority |-> priority, always |-> always, ifUsable |-> ifUsable,
     entries |-> <<[to |-> to, is |-> is]>>]
Folder(to, is) ==
    [priority |-> 0, always |-> FALSE, ifUsable |-> FALSE,
     entries |-> <<[to |-> to, is |-> Dir], [to |-> Append(to, "a"), is |-> is]>>]
Always == [all |-> TRUE, tests |-> {}]
Test(value) == [all |-> TRUE, tests |-> {<<"x", value>>}]
OneOf(by, items) == [order |-> by, items |-> items]
Plain(name, sets, queued) ==
    [name |-> name, patterns |-> <<>>, default |-> "Optional", sets |-> sets, files |-> queued]

\* Step 1 sets x by either of its options, step 2 is shown when x is "on" and
\* its second option is usable, or required, under that flag.
MCInstallers ==
    {[needs |-> Always,
      required |-> <<Folder(<<"b">>, "r1")>>,
      steps |-> OneOf(by, <<
          [name |-> 2, visible |-> visible, groups |-> OneOf("Ascending", <<
              [name |-> 2, type |-> type, plugins |-> OneOf("Descending", <<
                  Plain(1, {}, <<File(<<"b", "a">>, "p1", 0, FALSE, FALSE)>>),
                  [name |-> 2, patterns |-> <<[when |-> Test("on"), type |-> usable]>>,
                   default |-> "NotUsable", sets |-> {<<"x", "off">>},
                   files |-> <<File(to, "p2", 0, FALSE, TRUE)>>] >>)],
              [name |-> 1, type |-> "SelectAny", plugins |-> OneOf("Explicit", <<
                  Plain(1, {}, <<File(<<"a">>, "p3", 1, FALSE, FALSE)>>)>>)] >>)],
          [name |-> 1, visible |-> Always, groups |-> OneOf("Explicit", <<
              [name |-> 1, type |-> "SelectExactlyOne", plugins |-> OneOf("Explicit", <<
                  Plain(1, {<<"x", "on">>}, <<File(<<"b", "a">>, "q1", priority, FALSE, FALSE)>>),
                  Plain(2, {<<"x", "off">>}, <<File(<<"b", "a">>, "q2", 0, TRUE, FALSE)>>)>>)] >>)]
          >>),
      conditional |-> <<[when |-> Test("off"), files |-> <<File(<<"b", "b">>, "c1", -1, FALSE, FALSE)>>]>>,
      selections |-> [k \in keys |-> IF k[1] = 1 THEN first ELSE IF k[2] = 2 THEN second ELSE {1}]] :
        by \in {"Ascending", "Descending"}, visible \in {Always, Test("on")},
        type \in {"SelectAll", "SelectAtLeastOne", "SelectAtMostOne"},
        usable \in {"Required", "CouldBeUsable"},
        to \in {<<"b", "a">>, <<"a", "a">>}, priority \in {-1, 1},
        keys \in {{<<1, 1>>}, {<<1, 1>>, <<2, 1>>, <<2, 2>>}},
        first \in {{1}, {2}}, second \in {{}, {1}, {1, 2}}}
=============================================================================
