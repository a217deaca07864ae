---------------------------- MODULE MCFleetMerge ----------------------------
EXTENDS FleetMerge

\* Three hosts; each may have been found in any of these states.
Repos == (1 :> "distro") @@ (2 :> "third party")
Pkg(id, ver, repo) == [list |-> "packages_added", id |-> id, var |-> 0, body |-> [ver |-> ver, repo |-> repo]]
Conf(content) == [list |-> "files", id |-> "/etc/app.conf", var |-> content, body |-> [ver |-> 0, repo |-> 0]]
Env(content) == [list |-> "items", id |-> "pip:/opt/venv", var |-> content, body |-> [ver |-> 0, repo |-> 0]]
Unm(hash) == [list |-> "unmanaged", id |-> "/opt/tool", var |-> hash, body |-> [ver |-> 0, repo |-> 0]]
Label(body) == [key |-> "/srv(/.*)?", body |-> body]
Other == [key |-> "/data", body |-> "data_t"]
Dir(carried) == [path |-> "/var/lib/app", carried |-> carried]

Plain(h) ==
    [host |-> h, schema |-> 18, archs |-> {"x86_64"}, os |-> <<9, 4>>, system |-> "package",
     date |-> 1, sections |-> {"rpm", "config"}, rpm |-> "rpm", leafKnown |-> TRUE, leaves |-> {"p"},
     items |-> <<Pkg("p", 1, 1), Conf(1), Env(1), Unm(1)>>, fcontext |-> <<Label("web_t"), Other>>,
     vardirs |-> <<Dir(FALSE)>>, tuned |-> "site", users |-> <<[name |-> "app", uid |-> 1, groups |-> {"app"}]>>,
     level |-> 0, unsure |-> {}, image |-> 1, baseline |-> TRUE, expiry |-> 2,
     raw |-> FALSE, sensitive |-> FALSE]

Found(h) == {
    Plain(h),
    \* p is a dependency here, q the leaf; other contents, another image
    [Plain(h) EXCEPT !.leaves = {"q"}, !.items = <<Pkg("p", 2, 2), Pkg("q", 1, 1), Conf(2), Env(2), Unm(2)>>,
        !.fcontext = <<Other, Label("app_t")>>, !.vardirs = <<Dir(TRUE)>>, !.tuned = "stock",
        !.image = 2, !.users = <<[name |-> "app", uid |-> 2, groups |-> {"app", "wheel"}]>>, !.expiry = 3],
    \* the same repo with another version
    [Plain(h) EXCEPT !.items = <<Pkg("p", 3, 2), Pkg("r", 1, 1), Conf(2), Unm(1)>>, !.leaves = {"p", "r"},
        !.fcontext = <<Label("web_t")>>, !.baseline = FALSE, !.image = 2, !.level = 1, !.unsure = {"rpm"}],
    \* degraded: no leaf data
    [Plain(h) EXCEPT !.leafKnown = FALSE, !.leaves = {}, !.items = <<Pkg("p", 1, 1), Pkg("q", 1, 1), Env(1)>>,
        !.fcontext = <<>>, !.level = 2, !.unsure = {"rpm", "selinux"}, !.image = 0, !.baseline = FALSE,
        !.raw = TRUE, !.expiry = 0],
    \* no RPM section at all, equally many packages of two architectures elsewhere
    [Plain(h) EXCEPT !.rpm = NoSection, !.sections = {"config"}, !.leafKnown = FALSE, !.leaves = {}, !.items = <<Conf(1)>>,
        !.archs = {}, !.tuned = NoSection, !.image = 2, !.sensitive = TRUE, !.expiry = 1]}

\* Snapshots that validation turns away.
Misfit == {
    [Plain(3) EXCEPT !.archs = {"x86_64", "i686"}],
    [Plain(3) EXCEPT !.os = <<8, 10>>],
    [Plain(3) EXCEPT !.schema = 17],
    [Plain(3) EXCEPT !.sections = {"unmanaged_files"}, !.os = <<>>, !.rpm = NoSection,
                     !.items = <<Unm(1)>>, !.fcontext = <<>>, !.vardirs = <<>>]}

\* A host on which sha256sum failed for the unmanaged file.
Unhashed == [Plain(2) EXCEPT !.items = <<Pkg("p", 1, 1), Unm(0)>>]

Fleet == UNION {Found(h) : h \in 1..3} \cup Misfit \cup {Unhashed}
=============================================================================
