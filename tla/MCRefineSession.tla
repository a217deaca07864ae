--------------------------- MODULE MCRefineSession ---------------------------
(***************************************************************************)
(* Instances of RefineSession for TLC.  One snapshot for the durability    *)
(* and multi-tab runs, one with repos, a group and services.               *)
(***************************************************************************)
EXTENDS RefineSession, TLC

CONSTANTS t1, t2

Tabs1 == {t1}
Tabs2 == {t1, t2}
None == {}
NoFunction == [x \in {} |-> x]
TabSymmetry == Permutations(Tabs2)

\* Small snapshot: one free package, one locked package, one group, one user.
SmallPackages == {"curl", "kernel"}
SmallNames == [p \in SmallPackages |-> p]
SmallRepos == [p \in SmallPackages |-> "norepo"]
SmallEnabling == [p \in SmallPackages |-> {}]
SmallMembers == [g \in {"core"} |-> {"curl"}]
SmallOps == {SetInclude("curl", FALSE), SetInclude("curl", TRUE)}
SmallBatches == {<<SetInclude("kernel", TRUE), SetInclude("curl", FALSE)>>,
                 <<SetInclude("kernel", TRUE)>>}
SmallHash == [u \in {"alice"} |-> "orig"]
PasswordOps == {UserPassword("alice", c) : c \in {"new_hash", "new_bare", "none", "preserve"}}

\* Repo part of the large snapshot: two sections sharing one .repo file and one key, a third on
\* its own, a distro section, a group whose members span two of them, and a
\* repo-enabling package.
RepoPackages == {"a1", "b1", "b2", "c1"}
RepoNames == [p \in RepoPackages |-> p]
RepoSections == {"A", "B", "base"}
RepoSource == [a1 |-> "A", b1 |-> "B", b2 |-> "B", c1 |-> "base"]
RepoFilesOf == [A |-> {"ab.repo"}, B |-> {"ab.repo", "b.repo"}, base |-> {"base.repo"}]
RepoKeysOf == [A |-> {"shared.key"}, B |-> {"shared.key"}, base |-> {}]
RepoEnablingFrom == [p \in RepoPackages |-> IF p = "c1" THEN {"A"} ELSE {}]
RepoOwned == [p \in RepoPackages |-> IF p = "c1" THEN {"ab.repo"} ELSE {}]
RepoGroups == [g \in {"G"} |-> {"a1", "b1"}]
RepoBatches == {<<SetInclude("A", FALSE), SetInclude("B", FALSE)>>}

\* Service part: a free and a locked row, drop-ins on both and on a unit at
\* its preset state.
SvcUnits == [d1 |-> "httpd", d2 |-> "firewalld", d3 |-> "norow", d4 |-> "httpd"]
SvcBatches == {<<SetInclude("httpd", b), SetInclude("d1", b), SetInclude("d2", b),
                 SetInclude("d3", b)>> : b \in BOOLEAN}

\* Both parts: each toggle that some rule couples to another row, both ways,
\* and one of every other kind.
ProjIncluded == {"a1", "b1", "b2", "c1", "ab.repo", "b.repo", "base.repo", "shared.key",
                 "httpd", "firewalld", "d1", "d3", "app.conf", "vm.swappiness"}
ProjOps == {SetInclude(i, b) : i \in {"A", "B", "G", "a1", "httpd", "d1", "d3"}, b \in BOOLEAN}
             \cup {SetInclude(i, TRUE) : i \in {"firewalld", "d2", "link.conf", "b2"}}
             \cup {SetInclude(i, FALSE) : i \in {"base", "app.conf", "vm.swappiness"}}
ProjBatches == RepoBatches \cup SvcBatches

ASSUME ScannedHost == RowsCoverDropIns
=============================================================================
