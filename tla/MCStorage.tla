----------------------------- MODULE MCStorage -----------------------------
(* One shape for every disk: an application with data under ~/Library,     *)
(* a helper application and build output in it; a checkout with build      *)
(* output, a built application and a repository; Xcode's data; a personal  *)
(* folder; and a directory that is named as the end of a bundle's name and *)
(* nothing else.  Each size is a power of two, so that a sum tells which   *)
(* entries it holds.  A scan's root is named by its whole path, so those   *)
(* of bundles are bundles' names.                                          *)
EXTENDS Storage

Entry(up, name, dir) ==
  [up |-> up, name |-> name, dir |-> dir, ino |-> 0, links |-> FALSE, size |-> 0]
File(up, name, ino) == [Entry(up, name, FALSE) EXCEPT !.ino = ino, !.links = TRUE]
Dir(up, name) == Entry(up, name, TRUE)

Kinds == <<
  Dir(0, "/"), Dir(1, "Applications"), Dir(2, "Acme.app"), File(3, "acme", 7), Dir(3, "Helper.app"),
  Dir(1, "home"), Dir(6, "Library"), Dir(7, "Caches"), Dir(8, "com.acme"), File(9, "blob", 7),
  Dir(8, "Acme"), Dir(7, "Developer"), Dir(12, "Xcode"), Dir(13, "DerivedData"), Dir(12, "Caches"),
  Dir(6, "Documents"), Dir(16, "node_modules"), Dir(17, "Tool.app"), Dir(16, ".git"), File(16, "acme", 8),
  Dir(14, "Index"), Dir(2, ".app"), Dir(22, "Tool.app")>>
MCShape == [e \in DOMAIN Kinds |-> [Kinds[e] EXCEPT !.size = 2 ^ ((e - 1) % 20)]]

Rank == <<".app", ".git", "/", "/Applications", "/Applications/.app", "/Applications/Acme.app",
          "/Applications/Acme.app/Helper.app", "/home", "/home/Documents", "Acme", "Acme.app", "Applications",
          "Caches", "DerivedData", "Developer", "Documents", "Helper.app", "Index", "Library", "Tool.app", "Xcode",
          "acme", "blob", "com.acme", "home", "node_modules">>
MCRank == [n \in ToSet(Rank) |-> CHOOSE k \in DOMAIN Rank : Rank[k] = n]
MCFullName == [e \in DOMAIN Kinds |->
  CASE e = 2 -> "/Applications" [] e = 3 -> "/Applications/Acme.app" [] e = 5 -> "/Applications/Acme.app/Helper.app"
    [] e = 6 -> "/home" [] e = 16 -> "/home/Documents" [] e = 22 -> "/Applications/.app" [] OTHER -> "/"]
MCBundles == {"Acme.app", "Helper.app", "Tool.app", ".app",
              "/Applications/Acme.app", "/Applications/Acme.app/Helper.app", "/Applications/.app"}
MCHome == <<"home">>

Application == 1..11
Deep == {1, 6, 7, 12, 13, 14, 21}
Checkout == {1, 6, 7, 8, 12, 13, 14, 15, 16, 17, 18, 19, 20}
Nameless == {1, 2, 3, 4, 22, 23}
MCDisks ==
  [present : {Application}, mounted : SUBSET {9}, locked : {{}, {5}, {9}}, skipped : SUBSET {8}]
  \cup [present : {Checkout}, mounted : {{}}, locked : SUBSET {13}, skipped : {{}}]
  \cup [present : {Deep, Nameless}, mounted : {{}}, locked : {{}}, skipped : {{}}]
MCAsked == {1, 2, 3, 4, 5, 6, 16, 22}
MCSources == {<<"ncdu", TRUE>>, <<"ncdu", FALSE>>, <<"gdu", FALSE>>}
MCLocations == <<[label |-> "Containers", entry |-> 20], [label |-> "Caches", entry |-> 9]>>
MCVendor == <<11>>
MCInspected == {3, 18}
MCIdentified == {3}
=============================================================================
