----------------------------- MODULE RenderPlan -----------------------------
(***************************************************************************)
(* What the renderers of crates/pipeline/src/render make of a snapshot:    *)
(* the files each writer stages, and the Containerfile.                    *)
(*                                                                         *)
(* A snapshot's findings are the records of Host.  A finding has a kind,   *)
(* an id, its path on the host (rel, a sequence of components without the  *)
(* leading slash), flags (the facts the renderers branch on), an owner (a  *)
(* package, repository or key id, "" when there is none) and refs (the ids *)
(* or file names it refers to).  A view v is what one export sees of them: *)
(*   v.inc       the included findings                                     *)
(*   v.touched   those whose inclusion the operator changed (refine only)  *)
(*   v.uploaded  the packages that claim a staged upload                   *)
(*   v.verified  the packages whose staged upload the export proved        *)
(*   v.demoted   the packages an earlier export marked repo-less           *)
(*   v.groups    the package groups rendered as `dnf group install`        *)
(*   v.refine    FALSE for the scan's own render                           *)
(* A path is a sequence of components.  The Containerfile is a sequence of *)
(* blocks, a block a set of lines whose relative order does not matter.    *)
(***************************************************************************)
EXTENDS Naturals, Sequences, FiniteSets, SequencesExt

CONSTANTS Host,        \* the findings of the scanned host
          BaseKnown,   \* whether the scan had a baseline package list
          Baseline,    \* the packages of the target base image
          Aggregate    \* whether the snapshot is a merged fleet

Of(k) == {h \in Host : h.kind = k}
Is(h, f) == f \in h.flags
Included(v, k) == Of(k) \cap v.inc

Line(op, arg) == [op |-> op, arg |-> arg]
Copy(src) == Line("COPY", src)
If(b, S) == IF b THEN S ELSE {}

UnitDir == <<"etc", "systemd", "system">>
QuadletDir == <<"etc", "containers", "systemd">>
RepoDir == <<"etc", "yum.repos.d">>
TmpfilesDir == <<"etc", "tmpfiles.d">>
SysctlConf == <<"sysctl", "etc", "sysctl.d", "99-inspectah-migrated.conf">>
KargsConf == <<"config", "usr", "lib", "bootc", "kargs.d", "inspectah-migrated.toml">>
TmpfilesConf == <<"config", "usr", "lib", "tmpfiles.d", "inspectah-var.conf">>

\* The packages two sections install for the commands they run.
VersionlockPlugin == "python3-dnf-plugin-versionlock"
SemanageTool == "policycoreutils-python-utils"

\* The manifest files of a language environment.
manifests_of(eco) ==
    CASE eco = "pip" -> {"requirements.txt"}
      [] eco = "npm" -> {"package.json", "package-lock.json"}
      [] eco = "gem" -> {"Gemfile", "Gemfile.lock"}
      [] OTHER -> {}

\* What the scan may find to create a /var directory.
Verdicts == {"unbacked", "tmp_run", "tmp_usr", "tmp_etc", "declared", "rpm"}

\* A path is a sequence of names, and the scan marks a package's RPM as
\* cached only together with its repo-less annotation.
ASSUME HostAssumption ==
    /\ \A h \in Host : h.rel \in Seq(STRING)
    /\ \A h \in Host : "cached" \in h.flags => "annotated" \in h.flags

\* Where the inspectors of crates/collect look for files.  A name read from
\* a directory listing holds no "..", so the writers refuse none of those.
ASSUME PathAssumption ==
    /\ \A h \in Of("repo") : IsPrefix(RepoDir, h.rel) /\ ~Is(h, "refused")
    /\ \A h \in Of("dropin") : IsPrefix(UnitDir, h.rel) /\ ~Is(h, "refused")
    /\ \A h \in Of("gpg") \cup Of("unmanaged") : h.rel # <<>>
    /\ \A h \in Of("config") \cup Of("zone") : Len(h.rel) > 1 /\ h.rel[1] # "tmp"
    /\ \A h \in Of("quadlet") \cup Of("nm") : ~IsPrefix(TmpfilesDir, h.rel)

\* What they record: a converted cron entry has a timer, a reboot entry a
\* service; a local timer has its file; an environment has manifests of its
\* ecosystem; a unit has one row, a /var directory one row with one verdict,
\* which names a fragment of /etc/tmpfiles.d by its config row.
ASSUME RowAssumption ==
    /\ \A t \in Of("gentimer") : Is(t, IF Is(t, "reboot") THEN "service" ELSE "timer")
    /\ \A t \in Of("localtimer") : Is(t, "timer")
    /\ \A l \in Of("lang") : l.refs \subseteq manifests_of(l.owner)
    /\ \A s, t \in Of("service") : s.id = t.id => s = t
    /\ \A d, e \in Of("vardir") : d.id = e.id => d = e
    /\ \A d \in Of("vardir"), a, b \in Verdicts : Is(d, a) /\ Is(d, b) => a = b
    /\ \A d \in Of("vardir"), c \in Of("config") :
          Is(d, "tmp_etc") /\ c.id = d.owner => IsPrefix(TmpfilesDir, c.rel) /\ ~Is(c, "refused")

-----------------------------------------------------------------------------
(* Repo-enabling packages (repo_enabling.rs, service_intent.rs)            *)

\* A finding among the included ones, by id.
Carries(v, k, id) == \E h \in Included(v, k) : h.id = id

\* The section that served the package is carried, enabled and its key too.
section_survives(v, id) ==
    \E r \in Included(v, "repo") :
        /\ r.id = id
        /\ Is(r, "enabled")
        /\ r.owner # "" => Carries(v, "gpg", r.owner)

\* One of the package's own repo or key files is not carried.
dropped_owned_path(v, p) ==
    \E id \in p.refs : ~Carries(v, "repo", id) /\ ~Carries(v, "gpg", id)

repo_enabling_export(v, p) ==
    CASE ~Is(p, "enabling") -> "not_enabling"
      [] Is(p, "enabling") /\ ~dropped_owned_path(v, p) /\ section_survives(v, p.owner)
           -> "served"
      [] OTHER -> "lost"

\* The reason a package cannot be installed by name, as a yes or no.
manual_follow_up_reason(p) ==
    \/ \E f \in {"local", "norepo", "nosource"} : Is(p, f)
    \/ Is(p, "commandline") /\ ~Is(p, "enabling")

is_package_installable(p) == ~manual_follow_up_reason(p)

-----------------------------------------------------------------------------
(* Writers (configtree.rs, users.rs, language_packages.rs, mod.rs)         *)

\* Config entries another renderer owns: drop-ins, quadlets, DHCP profiles.
owned_elsewhere ==
    {h.rel : h \in Of("dropin") \cup Of("quadlet")}
      \cup {h.rel : h \in {n \in Of("nm") : Is(n, "auto")}}

config_files(v) ==
    {<<"config">> \o h.rel : h \in
        {c \in Included(v, "config") : /\ c.rel \notin owned_elsewhere
                                       /\ ~IsPrefix(QuadletDir, c.rel)
                                       /\ ~Is(c, "refused")}}

\* Repo files, GPG keys and firewall zones.
plain_files(v) ==
    {<<"config">> \o h.rel : h \in
        {c \in Included(v, "repo") \cup Included(v, "gpg") \cup Included(v, "zone") :
            c.rel # <<>> /\ ~Is(c, "refused")}}

\* Writes the units of every cron conversion, whatever was decided.
timer_files_undecided(v) ==
    LET T == Of("gentimer") \cup Of("localtimer") IN
    {<<"config">> \o Append(UnitDir, t.id) : t \in {x \in T : Is(x, "timer")}}

\* Units of cron conversions follow the decision, local timers do not.
timer_files(v) ==
    LET T == Included(v, "gentimer") \cup Of("localtimer") IN
    {<<"config">> \o Append(UnitDir, t.id) : t \in {x \in T : Is(x, "timer")}}
      \cup {<<"config">> \o Append(UnitDir, t.owner) : t \in {x \in T : Is(x, "service")}}

subscription_files ==
    {<<"subscription">> \o h.rel : h \in {s \in Of("subscription") : Is(s, "preserved")}}

write_config_tree(v) ==
    config_files(v) \cup plain_files(v) \cup timer_files(v) \cup subscription_files
      \cup If(Included(v, "sysctl") # {}, {SysctlConf})
      \cup If(Of("karg") # {}, {KargsConf})
      \cup {<<"drop-ins">> \o d.rel : d \in {x \in Included(v, "dropin") : ~Is(x, "refused")}}
      \cup {<<"quadlet", q.id>> : q \in {x \in Included(v, "quadlet") : Is(x, "content")}}
      \cup If(Included(v, "flatpak") # {},
              {<<"flatpak", "flatpak-install.json">>, <<"flatpak", "flatpak-provision.service">>})

\* Top-level directories of config/ that hold files; tmp is never copied.
config_copy_roots(tree) ==
    {p[2] : p \in {q \in tree : q[1] = "config" /\ Len(q) > 2}} \ {"tmp"}

write_env_files(v) ==
    {<<"env-files">> \o e.rel : e \in
        {x \in Included(v, "env") : x.rel # <<>> /\ Is(x, "content") /\ ~Is(x, "refused")}}

manifest_file(l, f) == <<"language-packages", l.owner, l.id, f>>

\* Only included environments whose method has a manifest are staged.
write_language_package_manifests(v) ==
    UNION {{manifest_file(l, f) : f \in l.refs} :
              l \in {x \in Included(v, "lang") : x.owner \in {"pip", "npm", "gem"}}}

ssh_key_file(u) == <<"users", "home", u.id, ".ssh", "authorized_keys">>
stage_ssh_keys(v) == {ssh_key_file(u) : u \in {x \in Included(v, "user") : Is(x, "keys")}}

-----------------------------------------------------------------------------
(* /var directories (var_dirs.rs)                                          *)

\* Counts on every package of the host, whatever was decided about it.
host_packages(v) == {p.id : p \in Of("pkg")}

\* Packages the export counts on being in the image.
install_set(v) ==
    {p.id : p \in {x \in Included(v, "pkg") :
        /\ is_package_installable(x) \/ x \in v.uploaded \/ Is(x, "cached")
        /\ repo_enabling_export(v, x) # "lost"}}

carriage(v, pkg) ==
    IF pkg \in install_set(v) \/ (BaseKnown /\ pkg \in Baseline) THEN "carried"
    ELSE IF BaseKnown THEN "lost" ELSE "unknown"

\* The unit file d declares a directory: an /etc unit follows its decision
\* (a drop-in row overrides the config row of the path), a vendor unit its
\* package, and a nested file runs nowhere.
unit_file_reach(v, id) ==
    LET rows == {h \in Of("config") \cup Of("dropin") : h.id = id /\ Is(h, "etcunit")}
        deciding == IF \E h \in rows : h.kind = "dropin"
                    THEN {h \in rows : h.kind = "dropin"} ELSE rows
        vendor == {h \in Of("vendorunit") : h.id = id} IN
    CASE rows # {} -> IF \E h \in deciding : h \in v.inc THEN "carried" ELSE "lost"
      [] rows = {} /\ vendor # {} ->
            LET u == CHOOSE h \in vendor : TRUE IN
            IF u.owner = "" THEN "unknown" ELSE carriage(v, u.owner)
      [] OTHER -> "lost"

classify_declarers(v, d) ==
    LET reach == {unit_file_reach(v, id) : id \in d.refs} IN
    CASE "carried" \in reach -> "carried"
      [] "carried" \notin reach /\ "unknown" \in reach -> "unresolved"
      [] OTHER -> "provision"

from_carriage(c) ==
    CASE c = "carried" -> "carried" [] c = "lost" -> "provision" [] OTHER -> "unresolved"

effective_var_backing(v, d) ==
    CASE Is(d, "unbacked") \/ Is(d, "tmp_run") -> "provision"
      [] Is(d, "tmp_usr") -> IF d.owner = "" THEN "unresolved"
                             ELSE from_carriage(carriage(v, d.owner))
      [] Is(d, "tmp_etc") -> IF Carries(v, "config", d.owner) THEN "carried" ELSE "provision"
      [] Is(d, "declared") -> classify_declarers(v, d)
      [] OTHER -> from_carriage(carriage(v, d.owner))

\* Directories the tmpfiles.d fragment has a line or a comment for.
render_tmpfiles_conf(v) ==
    {d \in Of("vardir") : LET backing == effective_var_backing(v, d) IN
                          backing = "unresolved" \/ (backing = "provision" /\ Is(d, "mode"))}

write_tmpfiles_conf(v) == If(render_tmpfiles_conf(v) # {}, {TmpfilesConf})

var_dir_section_lines(v) ==
    LET backed(how) == {d \in Of("vardir") : effective_var_backing(v, d) = how} IN
    <<If(render_tmpfiles_conf(v) # {}, {Copy(TmpfilesConf)})
        \cup {Line("mkdir", <<d.id>>) : d \in {x \in backed("provision") : ~Is(x, "mode")}}
        \cup {Line("fixme", <<d.id>>) : d \in backed("unresolved")}>>

-----------------------------------------------------------------------------
(* The Containerfile (containerfile.rs and the section renderers)          *)

group_member_suppressed(v) == UNION {g.refs : g \in v.groups}

\* Included, installable, not in the base, and a leaf unless something
\* other than the leaf classification decided it.
installable_packages(v) ==
    {p \in Included(v, "pkg") :
        /\ is_package_installable(p)
        /\ ~Is(p, "suppressed")
        /\ \/ Is(p, "locked") \/ Is(p, "anaconda") \/ p \in v.touched \/ Is(p, "leaf")}

\* Names a repo-enabling package in the main transaction as well.
named_in_both(v, how) ==
    {p.id : p \in {x \in installable_packages(v) :
        /\ x.id \notin group_member_suppressed(v)
        /\ ~Is(x, "unsafe")
        /\ repo_enabling_export(v, x) \in IF how = "not_enabling" THEN {how, "served"} ELSE {how}}}

\* Packages named in a `dnf install`, by the transaction they are in.  One
\* whose name the shell could not take is skipped without a word.
named_packages(v, how) ==
    {p.id : p \in {x \in installable_packages(v) :
        /\ x.id \notin group_member_suppressed(v)
        /\ ~Is(x, "unsafe")
        /\ repo_enabling_export(v, x) = how}}

\* A key whose path the shell could not take gets a FIXME instead.
safe_keys(v) == {k \in Included(v, "gpg") : ~Is(k, "refused") /\ ~Is(k, "unsafe")}

gpg_copies(v) == {Copy(<<"config">> \o (IF Len(k.rel) > 1 THEN Front(k.rel) ELSE k.rel)) : k \in safe_keys(v)}

\* Keys outside the directory RPM reads on its own are imported.
gpg_imports(v) ==
    {Line("import", <<k.id>>) : k \in {x \in safe_keys(v) : Front(x.rel) # <<"etc", "pki", "rpm-gpg">>}}

safe_locks(v) == {l \in Included(v, "lock") : ~Is(l, "refused")}

packages_section_lines(v) ==
    <<If(\E r \in Included(v, "repo") : ~Is(r, "default"), {Copy(<<"config">> \o RepoDir)}),
      gpg_copies(v),
      gpg_imports(v),
      {Line("module", <<m.id>>) : m \in {x \in Included(v, "module") :
                                     ~Is(x, "baseline") /\ ~Is(x, "refused")}},
      {Line("groupinstall", <<g.id>>) : g \in v.groups},
      {Line("fixme", <<n>>) : n \in named_packages(v, "lost")}
        \cup {Line("enable_repo", <<n>>) : n \in named_packages(v, "served")},
      {Line("install", <<n>>) : n \in named_packages(v, "not_enabling")},
      {Line("todo", <<p.id>>) : p \in {x \in Of("pkg") : manual_follow_up_reason(x)}},
      If(safe_locks(v) # {}, {Line("install", <<VersionlockPlugin>>)})
        \cup {Line("versionlock", <<l.id>>) : l \in safe_locks(v)}>>

\* A unit whose package is known to be absent from the target is omitted.
classify_service_presence(v, s) ==
    IF /\ ~Aggregate
       /\ s.owner # ""
       /\ \A p \in Of("pkg") : p.id # s.owner
       /\ BaseKnown
       /\ s.owner \notin Baseline
    THEN "omit" ELSE "emit"

\* The units the plan warns about: their package may not be in the image.
service_advisories(v) ==
    {s \in Included(v, "service") :
        /\ ~Aggregate
        /\ s.owner # ""
        /\ classify_service_presence(v, s) = "emit"
        /\ IF \E p \in Of("pkg") : p.id = s.owner
           THEN ~\E p \in Included(v, "pkg") : p.id = s.owner /\ is_package_installable(p)
           ELSE ~BaseKnown}

\* Units of timers, which the scheduled tasks section enables instead.
config_tree_units(v) ==
    {t.id : t \in Of("localtimer")} \cup {t.owner : t \in Of("localtimer")}
      \cup {t.id : t \in {x \in Included(v, "gentimer") : Is(x, "timer")}}
      \cup {t.owner : t \in {x \in Included(v, "gentimer") : Is(x, "service")}}

render_service_intent(v) ==
    LET emitted(a) == {s \in Included(v, "service") :
                          Is(s, a) /\ classify_service_presence(v, s) = "emit"} IN
    <<{Line("enable", <<s.id>>) : s \in {x \in emitted("enable") : x.id \notin config_tree_units(v)}},
      {Line("disable", <<s.id>>) : s \in emitted("disable")},
      {Line("mask", <<s.id>>) : s \in emitted("mask")}>>

drop_ins_section_lines(v) ==
    <<If(Included(v, "dropin") # {}, {Copy(<<"drop-ins">> \o UnitDir)})>>

\* Leaves the units to the config tree section, which comes later.
timers_enabled_only(v) ==
    <<{Line("enable", <<t.id>>) : t \in Included(v, "localtimer") \cup Included(v, "gentimer")}>>

scheduled_tasks_section_lines(v) ==
    LET loc == Included(v, "localtimer")
        gen == Included(v, "gentimer") IN
    <<If(loc \cup gen # {}, {Copy(<<"config">> \o UnitDir)}),
      {Line("enable", <<t.id>>) : t \in loc \cup {x \in gen : ~Is(x, "reboot")}},
      {Line("enable", <<t.owner>>) : t \in {x \in gen : Is(x, "reboot")}}>>

config_section_lines(v, roots) == <<{Copy(<<"config", r>>) : r \in roots}>>

\* An active install of a language environment needs a high-confidence
\* finding; everything else is a commented suggestion.
installed_environments(v) ==
    {l \in Included(v, "lang") :
        /\ Is(l, "high") /\ ~Is(l, "refused")
        /\ l.owner = "pip" => Is(l, "venv") /\ "requirements.txt" \in l.refs}

\* The manifests are copied by name, whether the scan found them or not.
language_package_lines(v) ==
    LET copies(l) == {Copy(manifest_file(l, f)) : f \in manifests_of(l.owner)} IN
    <<UNION {copies(l) : l \in installed_environments(v)},
      {Line("langinstall", <<l.id>>) : l \in installed_environments(v)}>>

\* Files bound for the image are copied one by one, or by directory when it
\* holds several; links are recreated, and /srv stays out of the image.
unmanaged_file_lines(v) ==
    LET image == {f \in Included(v, "unmanaged") : f.rel[1] # "srv"}
        regular == {f \in image : ~Is(f, "symlink")}
        beside(f) == {g \in regular : Front(g.rel) = Front(f.rel)} IN
    <<{Copy(<<"unmanaged">> \o (IF Cardinality(beside(f)) > 1 THEN Front(f.rel) ELSE f.rel)) :
          f \in regular}
        \cup {Line("link", f.rel) : f \in {x \in image : Is(x, "symlink") /\ Is(x, "target")}}>>

\* What demote_unserved_repo_enabling marks repo-less in the projection.
demote_unserved(v) == {p \in Included(v, "pkg") : repo_enabling_export(v, p) = "lost"}

\* The snapshot the session was opened on calls the package repo-less.
Annotated(v, p) == Is(p, "annotated") \/ p \in v.demoted

repoless(v, p) == Annotated(v, p) \/ (v.refine /\ p \in demote_unserved(v))

repoless_file(p) == <<"repoless-packages", p.id>>

\* Proved upload, refused upload, cached RPM, or a manual block.  A cached RPM
\* whose file name is none the exporter admits ("unnamed") gets a FIXME.
repoless_rpm_lines(v) ==
    LET R == {p \in Of("pkg") : repoless(v, p)}
        proved == {p \in R : p \in v.verified}
        refused == {p \in R \ proved : p \in v.uploaded \cap v.inc}
        cached == {p \in R \ (proved \cup refused) : Is(p, "cached")}
        unnamed == {p \in cached : Is(p, "unnamed")}
        active == proved \cup ((cached \ unnamed) \cap v.inc) IN
    <<{Copy(repoless_file(p)) : p \in active},
      {Line("rpminstall", <<p.id>>) : p \in active}
        \cup {Line("fixme", <<p.id>>) : p \in refused \cup unnamed}
        \cup {Line("manual", <<p.id>>) : p \in R \ (proved \cup refused \cup cached)}>>

containers_section_lines(v) ==
    LET fl == Included(v, "flatpak") # {} IN
    <<If(Included(v, "quadlet") # {}, {Copy(<<"quadlet">>)})
        \cup If(fl, {Copy(<<"flatpak">>), Copy(<<"flatpak", "flatpak-provision.service">>)}),
      If(fl, {Line("enable", <<"flatpak-provision.service">>)})>>

render_containerfile_users(v) ==
    LET U == {u \in Included(v, "user") : Is(u, "useradd") /\ ~Is(u, "refused")} IN
    <<{Line("groupadd", <<u.owner>>) : u \in {x \in U : x.owner # ""}},
      {Line("useradd", <<u.id>>) : u \in U},
      {Copy(ssh_key_file(u)) : u \in {x \in U : Is(x, "keys")}}>>

\* A custom tuned profile is activated only when its own file is carried.
active_profiles(v) ==
    {t \in Included(v, "tuned") :
        ~Is(t, "refused") /\ ~\E c \in Of("config") : c.id = t.owner /\ c \notin v.inc}

\* The daemon is enabled with the profile, whoever decided about its package.
kernel_boot_section_lines(v) ==
    <<If(Of("karg") # {}, {Copy(KargsConf)})
        \cup If(Included(v, "sysctl") # {}, {Copy(SysctlConf)})
        \cup {Line("tuned", <<t.id>>) : t \in active_profiles(v)}
        \cup If(active_profiles(v) # {}, {Line("enable", <<"tuned.service">>)})>>

\* semanage is installed only when a command needs it, before the first.
selinux_section_lines(v) ==
    LET cmds == {h \in Of("port") \cup Included(v, "fcontext") : ~Is(h, "refused")} IN
    <<If(cmds # {}, {Line("install", <<SemanageTool>>)}),
      {Line("semanage", <<h.id>>) : h \in cmds}>>

render_containerfile_inner(v, roots) ==
    packages_section_lines(v) \o render_service_intent(v) \o drop_ins_section_lines(v)
      \o scheduled_tasks_section_lines(v) \o config_section_lines(v, roots)
      \o language_package_lines(v) \o unmanaged_file_lines(v) \o repoless_rpm_lines(v)
      \o containers_section_lines(v) \o render_containerfile_users(v)
      \o kernel_boot_section_lines(v) \o selinux_section_lines(v) \o var_dir_section_lines(v)

=============================================================================
