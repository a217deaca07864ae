--------------------------- MODULE MCRenderExport ---------------------------
(* One host with a finding of every kind the renderers branch on.  Field  *)
(* order: kind, id, path, flags, owner, refs.                             *)
EXTENDS RenderExport

MCBaseline == {"bash", "httpd"}

Findings == {
    <<"config", "app", <<"etc", "app.conf">>, {"default"}, "", {}>>,
    <<"config", "frag", <<"etc", "tmpfiles.d", "x.conf">>, {"default"}, "", {}>>,
    <<"config", "usr", <<"usr", "lib", "x.conf">>, {"default"}, "", {}>>,
    <<"config", "prof", <<"etc", "tuned", "p", "tuned.conf">>, {"default"}, "", {}>>,
    <<"config", "limits", <<"etc", "systemd", "system", "d.service">>, {"etcunit", "default"}, "", {}>>,
    <<"dropin", "limits", <<"etc", "systemd", "system", "d.service">>, {"etcunit"}, "", {}>>,
    <<"quadlet", "web", <<"etc", "containers", "systemd", "web">>, {"content"}, "", {}>>,
    <<"quadlet", "data", <<"etc", "containers", "systemd", "data">>, {}, "", {}>>,
    <<"flatpak", "ff", <<>>, {}, "", {}>>,
    <<"sysctl", "s", <<>>, {}, "", {}>>,
    <<"karg", "k", <<>>, {}, "", {}>>,
    <<"tuned", "p", <<>>, {}, "prof", {}>>,
    <<"repo", "extras", <<"etc", "yum.repos.d", "extras.repo">>, {"enabled"}, "key", {}>>,
    <<"repo", "epel", <<"etc", "yum.repos.d", "epel.repo">>, {"enabled"}, "", {}>>,
    <<"gpg", "key", <<"etc", "pki", "rpm-gpg", "key">>, {}, "", {}>>,
    <<"gpg", "weird", <<"tmp", "my key">>, {"unsafe"}, "", {}>>,
    <<"gpg", "odd", <<"opt", "keys", "odd">>, {}, "", {}>>,
    <<"pkg", "enabler", <<>>, {"leaf", "default", "enabling"}, "extras", {"epel"}>>,
    <<"pkg", "vim", <<>>, {"leaf", "default"}, "", {}>>,
    <<"pkg", "dep", <<>>, {}, "", {}>>,
    <<"pkg", "tool", <<>>, {"leaf", "norepo", "annotated", "cached"}, "", {}>>,
    <<"pkg", "site-tool", <<>>, {"leaf", "default", "annotated", "cached"}, "", {}>>,   \* its repo is disabled
    <<"pkg", "blob", <<>>, {"leaf", "local", "annotated"}, "", {}>>,
    <<"pkg", "a~b", <<>>, {"leaf", "norepo", "annotated", "cached", "unnamed"}, "", {}>>,
    <<"pkg", "a b", <<>>, {"leaf", "default", "unsafe"}, "", {}>>,
    <<"pkg", "tuned", <<>>, {"leaf"}, "", {}>>,
    <<"pkg", "firmware", <<>>, {"leaf", "locked"}, "", {}>>,
    <<"pkg", VersionlockPlugin, <<>>, {"leaf"}, "", {}>>,
    <<"group", "editors", <<>>, {}, "", {"vim", "firmware", "absent"}>>,
    <<"group", "hardware", <<>>, {}, "", {"firmware"}>>,
    <<"lock", "vim-9", <<>>, {}, "", {}>>,
    <<"module", "nodejs", <<>>, {}, "", {}>>,
    <<"service", "vim.service", <<>>, {"enable"}, "vim", {}>>,
    <<"service", "old.service", <<>>, {"enable"}, "oldpkg", {}>>,
    <<"service", "tuned.service", <<>>, {"enable"}, "tuned", {}>>,
    <<"service", "ab.service", <<>>, {"enable"}, "a b", {}>>,
    <<"service", "blob.service", <<>>, {"enable"}, "blob", {}>>,
    <<"gentimer", "b.timer", <<>>, {"timer", "service"}, "b.service", {}>>,
    <<"gentimer", "c.timer", <<>>, {"timer", "service"}, "c.service", {}>>,
    <<"lang", "gems", <<>>, {"high"}, "gem", {"Gemfile", "Gemfile.lock"}>>,
    <<"lang", "site", <<>>, {"high"}, "npm", {"package.json", "package-lock.json"}>>,
    <<"lang", "lockless", <<>>, {"high"}, "npm", {"package-lock.json"}>>,
    <<"lang", "envs", <<>>, {"high"}, "pip", {"requirements.txt"}>>,
    <<"lang", "venv", <<>>, {"high", "venv"}, "pip", {"requirements.txt"}>>,
    <<"env", "e", <<"opt", "e.env">>, {"content"}, "", {}>>,
    <<"user", "joe", <<>>, {"keys", "useradd"}, "staff", {}>>,
    <<"user", "ann", <<>>, {"keys"}, "", {}>>,
    <<"unmanaged", "u1", <<"opt", "a", "x">>, {}, "", {}>>,
    <<"unmanaged", "u2", <<"opt", "a", "y">>, {}, "", {}>>,
    <<"unmanaged", "u3", <<"opt", "a", "l">>, {"symlink", "target"}, "", {}>>,
    <<"unmanaged", "u4", <<"srv", "w">>, {}, "", {}>>,
    <<"subscription", "ent", <<"entitlement", "c.pem">>, {"preserved"}, "", {}>>,
    <<"port", "8443", <<>>, {}, "", {}>>,
    <<"compose", "c", <<"opt", "c.yml">>, {"content"}, "", {}>>,
    <<"vardir", "v0", <<>>, {"unbacked"}, "", {}>>,
    <<"vardir", "v1", <<>>, {"rpm", "mode"}, "tool", {}>>,
    <<"vardir", "v2", <<>>, {"rpm", "mode"}, "blob", {}>>,
    <<"vardir", "v3", <<>>, {"tmp_etc", "mode"}, "frag", {}>>,
    <<"vardir", "v4", <<>>, {"declared"}, "", {"limits", "vu"}>>,
    <<"vardir", "v5", <<>>, {"rpm", "mode"}, "a b", {}>>,
    <<"vardir", "v6", <<>>, {"rpm", "mode"}, "a~b", {}>>,
    <<"vendorunit", "vu", <<>>, {}, "enabler", {}>>
  }

MCHost == {[kind |-> f[1], id |-> f[2], rel |-> f[3], flags |-> f[4], owner |-> f[5],
            refs |-> f[6]] : f \in Findings}

Ids(S) == {h \in MCHost : h.id \in S}
\* A scan that left one finding of most kinds out.
MCInit == {MCHost \ Ids({"u2", "ann", "tool", "odd", "c.timer", "gems",
                          "tuned.service"})}
\* The findings whose decision some other finding's lines depend on, one whose
\* decision is not applied.
MCAsked == Ids({"enabler", "extras", "vim", "tool", "site-tool", "blob", "a~b", "frag", "prof",
                "limits", "dep", "site"})
=============================================================================
