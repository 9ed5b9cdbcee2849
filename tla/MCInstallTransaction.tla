------------------------ MODULE MCInstallTransaction ------------------------
(***************************************************************************)
(* Small instances of InstallTransaction.  The root holds client c1, whose *)
(* inventory also lists a protected path, as old packages do; c2 replaces  *)
(* "exe" and drops "lib"; c3 ships c2's "exe" again, after a new "lib".    *)
(* No tools build is installed at first.                                   *)
(***************************************************************************)
EXTENDS InstallTransaction, TLC

MCPaths == {"exe", "lib", "cfg", "clientList", "tool", "toolsList"}
MCContents == {"exe1", "exe2", "lib1", "lib3", "cfg1", "tool1",
               "list1", "list2", "list3", "tools1", "edited"}
MCKindOf == [b \in Builds |-> IF b = "t1" THEN "tools" ELSE "client"]
MCManifest == [k \in Kinds |-> IF k = "tools" THEN "toolsList" ELSE "clientList"]
MCAllowed == [k \in Kinds |->
    IF k = "tools" THEN {"tool", "toolsList"} ELSE {"exe", "lib", "clientList"}]

Payload(b) ==
    CASE b = "c1" -> [exe |-> "exe1", lib |-> "lib1", cfg |-> "cfg1", clientList |-> "list1"]
      [] b = "c2" -> [exe |-> "exe2", clientList |-> "list2"]
      [] b = "c3" -> [lib |-> "lib3", exe |-> "exe2", clientList |-> "list3"]
      [] b = "t1" -> [tool |-> "tool1", toolsList |-> "tools1"]

MCImage == [b \in Builds |-> [p \in MCPaths |->
    IF p \in DOMAIN Payload(b) THEN Payload(b)[p] ELSE Absent]]
MCInventory == [b \in Builds |->
    CASE b = "c1" -> <<"exe", "lib", "cfg">>
      [] b = "c2" -> <<"exe">>
      [] b = "c3" -> <<"lib", "exe">>
      [] b = "t1" -> <<"tool">>]
MCInitialFiles == [p \in MCPaths |->
    IF p \in DOMAIN Payload("c1") THEN Payload("c1")[p] ELSE Absent]
Windows == Permutations(Procs)
MCUserContents == {"edited"}
=============================================================================
