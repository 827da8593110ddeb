----------------------------- MODULE MCArrImport -----------------------------
(* Instances of ArrImport for TLC. *)
EXTENDS ArrImport

Item(service, named, known) ==
  [service |-> service, named |-> named, known |-> known]

\* An episode whose release title is in the name of its folder: the lookup
\* finds no item by it, the service's scan does.
FolderItem == {Item("sonarr", {"folder"}, TRUE)}

\* Files whose item the lookup finds, and two by whose name it finds none.
AllItems ==
  {Item("sonarr", {"file"}, TRUE), Item("radarr", {"folder"}, TRUE),
   Item("radarr", {}, FALSE)} \cup FolderItem
=============================================================================
