--------------------------- MODULE MCUpdateCommand ---------------------------
(***************************************************************************)
(* Small instances of UpdateCommand: client builds c1 to c3 and tools      *)
(* builds t1 and t2.  The PowerShell updater has installed c1 and t1.  An  *)
(* edit of "exe" keeps its size.                                           *)
(***************************************************************************)
EXTENDS UpdateCommand, TLC

MCPaths == {"exe", "clientList", "tool", "toolsList"}
MCKindOf == [b \in Builds |-> IF b \in {"t1", "t2"} THEN "tools" ELSE "client"]
MCManifest == [k \in Kinds |-> IF k = "tools" THEN "toolsList" ELSE "clientList"]
MCAllowed == [k \in Kinds |-> IF k = "tools" THEN {"tool", "toolsList"} ELSE {"exe", "clientList"}]
MCRank == [b \in Builds |-> IF b \in {"c1", "t1"} THEN 1 ELSE IF b = "c3" THEN 3 ELSE 2]

Payload(b) ==
    CASE b = "c1" -> [exe |-> "exe1", clientList |-> "list1"]
      [] b = "c2" -> [exe |-> "exe2", clientList |-> "list2"]
      [] b = "c3" -> [exe |-> "exe3", clientList |-> "list3"]
      [] b = "t1" -> [tool |-> "tool1", toolsList |-> "tools1"]
      [] b = "t2" -> [tool |-> "tool2", toolsList |-> "tools2"]

MCImage == [b \in Builds |-> [p \in MCPaths |->
    IF p \in DOMAIN Payload(b) THEN Payload(b)[p] ELSE Absent]]
MCShips == [b \in Builds |-> IF KindOf[b] = "tools" THEN {"tool"} ELSE {"exe"}]
MCInitialFiles == [exe |-> "exe1", clientList |-> "list1",
                   tool |-> "tool1", toolsList |-> "tools1"]
MCSize == [c \in {"exe1", "exe2", "exe3", "list1", "list2", "list3", "tool1",
                  "tool2", "tools1", "tools2", "edited"} |-> IF c \in {"exe2", "edited"} THEN 2 ELSE 1]
MCFirstReleases == [k \in Kinds |-> IF k = "tools" THEN "t1" ELSE "c1"]
MCUserContents == {"edited"}
=============================================================================
