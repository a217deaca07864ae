---------------------------- MODULE RenderExport ----------------------------
(***************************************************************************)
(* The two export pipelines over RenderPlan.  A scan renders its snapshot, *)
(* bundles the payloads and writes a tarball (cli scan.rs, render_all); a  *)
(* refine session opened on a tarball takes decisions and uploads, and     *)
(* exports again (session.rs, render_refine_export), taking the payloads   *)
(* from the tarball it was opened on.  An exported tarball may be opened   *)
(* by another session.  An export works on the plan it took under the      *)
(* lock, while staged uploads may vanish behind it.                        *)
(***************************************************************************)
EXTENDS RenderPlan

CONSTANTS InitIncludes,   \* the decisions a scan may end with (sets of findings)
          Asked,          \* bound: the findings the operator decides about
          MaxDecisions,   \* bound: decisions, over all sessions
          MaxUploads,     \* bound: uploads, over all sessions
          MaxFaults,      \* bound: files that vanish under the program
          MaxExports,     \* bound: refine exports per session
          MaxOpens        \* bound: sessions opened on an exported tarball

ASSUME RenderAssumption ==
    /\ InitIncludes \subseteq SUBSET Host /\ Asked \subseteq Host
    /\ {MaxDecisions, MaxUploads, MaxFaults, MaxExports, MaxOpens} \subseteq Nat

VARIABLES inc0,      \* the decisions the open session started from
          inc,      \* the projected decisions
          demoted,   \* packages the snapshot calls repo-less because of an earlier export
          uploaded,  \* packages marked uploaded
          staged,    \* packages whose staged upload can be proved
          src,       \* the files of the tarball the session was opened on
          preview,   \* the view the shown Containerfile was rendered from
          job,       \* the running export: kind, stage, view, config roots
          tree,      \* the files staged by the running export
          warn,      \* packages the export warned about
          out,       \* the last finished export; "past" once the session moved on
          gone,      \* host files that vanished before they were bundled
          count      \* how often each bounded event happened

vars == <<inc0, inc, demoted, uploaded, staged, src, preview, job, tree, warn, out, gone, count>>
session == <<inc0, inc, demoted, uploaded, staged, src, preview, gone, count>>

Bump(c) == count' = [count EXCEPT ![c] = @ + 1]

-----------------------------------------------------------------------------
(* Views and previews                                                      *)

\* The kinds whose locked rows a projection leaves out.
clamp_locked_items == {"pkg", "module", "lock", "repo", "config", "service", "dropin", "quadlet",
                       "flatpak", "sysctl", "nm", "zone", "gentimer", "localtimer", "port", "lang"}

\* The decisions a session starts from.  Packages and config files get the
\* defaults of their triage, whatever the tarball says: a repo-less package is
\* out until the operator asks for it.  So is an environment that is not a
\* high-confidence finding; the repo file of inspectah itself stays out.
normalize_defaults(i, marked) ==
    {h \in Host :
        /\ Is(h, "locked") => h.kind \notin clamp_locked_items
        /\ CASE h.kind = "pkg" -> Is(h, "default") /\ ~Is(h, "annotated") /\ h \notin marked
             [] h.kind = "config" -> Is(h, "default")
             [] h.kind = "lang" -> h \in i /\ Is(h, "high")
             [] h.kind = "repo" -> h \in i /\ ~Is(h, "own")
             [] OTHER -> h \in i}

\* The groups that render as one group install while no operation names a
\* group: no member has two rows, some member is not locked and none of
\* those is excluded.
derive_group_state(i) ==
    {g \in Of("group") :
        LET rows(n) == {p \in Of("pkg") : p.id = n}
            effective == {p \in Of("pkg") : p.id \in g.refs /\ ~Is(p, "locked")} IN
        /\ \A n \in g.refs : \A p, q \in rows(n) : p = q
        /\ effective # {}
        /\ effective \subseteq i}

ScanView(i) == [inc |-> i, touched |-> {}, uploaded |-> {}, verified |-> {},
                demoted |-> {}, groups |-> {}, refine |-> FALSE]

\* No export to look at: none yet, or the session has moved on.
NoExport(k) == [kind |-> k, v |-> ScanView({}), tree |-> {}, file |-> <<>>, warn |-> {}]

\* Renders without the includes the session started from.
export_plan_without_originals ==
    [inc |-> inc, touched |-> {}, uploaded |-> uploaded, verified |-> {},
     demoted |-> demoted, groups |-> derive_group_state(inc), refine |-> TRUE]

export_plan ==
    [inc |-> inc, touched |-> (inc \ inc0) \cup (inc0 \ inc), uploaded |-> uploaded, verified |-> {},
     demoted |-> demoted, groups |-> derive_group_state(inc), refine |-> TRUE]

\* The download is rendered without the group states of the session.
without_render_context(v) == [v EXCEPT !.groups = {}]

\* An included package that claims an upload, whose staged file is there.
prove_staged_uploads(v) == v.uploaded \cap v.inc \cap staged

\* What a session renders its preview from, after every change.
recompute_view(i, i0, d, u, s) ==
    [inc |-> i, touched |-> (i \ i0) \cup (i0 \ i), uploaded |-> u, verified |-> u \cap i \cap s,
     demoted |-> d, groups |-> derive_group_state(i), refine |-> TRUE]

\* The preview materialises the config tree once more for its roots.
containerfile_preview(v) == render_containerfile_inner(v, config_copy_roots(write_config_tree(v)))

-----------------------------------------------------------------------------
(* The stages of an export, in the order of each pipeline                  *)

ScanStages == <<"config", "env", "tmpfiles", "manifests", "containerfile", "users",
                "bundle_unmanaged", "bundle_repoless", "tarball">>
RefineStages == <<"config", "env", "tmpfiles", "users", "variants", "manifests", "payload",
                  "uploads", "compose", "strip", "containerfile", "tarball">>
Stages == IF job.kind = "scan" THEN ScanStages ELSE RefineStages

At(stage) == job.kind # "none" /\ Stages[job.at] = stage
Advance == job' = [job EXCEPT !.at = @ + 1]

Add(stage, files) ==
    /\ At(stage)
    /\ tree' = tree \cup files
    /\ Advance
    /\ UNCHANGED <<session, warn, out>>

\* write_config_tree also returns the roots the Containerfile copies.
WriteConfigTree ==
    /\ At("config")
    /\ tree' = write_config_tree(job.v)
    /\ job' = [job EXCEPT !.at = @ + 1, !.roots = config_copy_roots(tree')]
    /\ UNCHANGED <<session, warn, out>>

WriteEnvFiles == Add("env", write_env_files(job.v))
WriteTmpfiles == Add("tmpfiles", write_tmpfiles_conf(job.v))
WriteManifests == Add("manifests", write_language_package_manifests(job.v))
StageUsers == Add("users", stage_ssh_keys(job.v))

\* The contents not chosen, kept for reference in an aggregate export.
variant_files ==
    IF Aggregate
    THEN {<<"aggregate", "variants">> \o h.rel : h \in
            {x \in Of("config") \cup Of("dropin") \cup Of("quadlet") : Is(x, "alternative")}}
    ELSE {}
write_aggregate_variants == Add("variants", variant_files)

compose_files ==
    {<<"compose">> \o c.rel : c \in {x \in Of("compose") : Is(x, "content") /\ ~Is(x, "refused")}}
WriteCompose == Add("compose", compose_files)

unmanaged_files(v) ==
    {f \in Included(v, "unmanaged") : Is(f, "symlink") => Is(f, "target")}

\* A host file that can no longer be read fails the whole scan.
Bundle(stage, items, file(_)) ==
    /\ At(stage)
    /\ IF items \cap gone = {}
       THEN /\ tree' = tree \cup {file(h) : h \in items}
            /\ Advance
            /\ UNCHANGED out
       ELSE /\ job' = [job EXCEPT !.kind = "none"]
            /\ tree' = {}
            /\ out' = NoExport("failed")
    /\ UNCHANGED <<session, warn>>

bundle_unmanaged_files ==
    Bundle("bundle_unmanaged", unmanaged_files(job.v), LAMBDA f : <<"unmanaged">> \o f.rel)
bundle_repoless_rpms ==
    Bundle("bundle_repoless", {p \in Of("pkg") : Is(p, "cached")}, repoless_file)

\* Only the payloads of included findings are taken over, and neither a file
\* the uploads stage writes nor an RPM no COPY could name.
payload_files(v) ==
    src \cap ({<<"unmanaged">> \o f.rel : f \in Included(v, "unmanaged")}
                \cup {repoless_file(p) : p \in {x \in Included(v, "pkg") :
                              Is(x, "cached") /\ x \notin v.uploaded /\ ~Is(x, "unnamed")}})
extract_payload_dirs == Add("payload", payload_files(job.v))

\* Prove every claimed upload, copy the proved ones, warn about the rest.
copy_proved_uploads ==
    /\ At("uploads")
    /\ LET proved == prove_staged_uploads(job.v) IN
       /\ tree' = tree \cup {repoless_file(p) : p \in proved}
       /\ job' = [job EXCEPT !.at = @ + 1, !.v.verified = proved]
       /\ warn' = (job.v.uploaded \cap job.v.inc) \ proved
    /\ UNCHANGED <<session, out>>

\* The list before quadlets were exported.
allowed_without_quadlet ==
    {"config", "drop-ins", "flatpak", "sysctl", "tuned", "env-files", "aggregate",
     "schema", "users", "compose", "language-packages", "unmanaged", "repoless-packages"}

allowed_top_level ==
    {"config", "drop-ins", "quadlet", "flatpak", "sysctl", "tuned", "env-files", "aggregate",
     "schema", "users", "compose", "language-packages", "unmanaged", "repoless-packages"}

StripTopLevel ==
    /\ At("strip")
    /\ tree' = {p \in tree : p[1] \in allowed_top_level}
    /\ Advance
    /\ UNCHANGED <<session, warn, out>>

WriteContainerfile ==
    /\ At("containerfile")
    /\ job' = [job EXCEPT !.at = @ + 1, !.file = render_containerfile_inner(job.v, job.roots)]
    /\ UNCHANGED <<session, tree, warn, out>>

\* The tarball is written; a session opens on a scan's, from the defaults.
CreateTarball ==
    /\ At("tarball")
    /\ out' = [kind |-> job.kind, v |-> job.v, tree |-> tree, file |-> job.file, warn |-> warn]
    /\ job' = [job EXCEPT !.kind = "none"]
    /\ tree' = {}
    /\ IF job.kind = "scan"
       THEN /\ src' = tree
            /\ inc0' = normalize_defaults(inc, demoted)
            /\ inc' = inc0'
            /\ preview' = recompute_view(inc', inc0', demoted, uploaded, staged)
       ELSE UNCHANGED <<src, inc0, inc, preview>>
    /\ gone' = {}
    /\ UNCHANGED <<demoted, uploaded, staged, count, warn>>

-----------------------------------------------------------------------------
(* The session                                                             *)

\* Decisions come between exports: one taken while an export runs touches
\* nothing the export reads, so the interleavings add no outcome.  After
\* the last export of the bound nothing could observe one.
Open == out.kind \in {"scan", "refine", "past"} /\ job.kind = "none" /\ count.exports < MaxExports

\* The kinds whose decision project_snapshot applies.
Projected == {"pkg", "config", "repo", "service", "dropin", "quadlet", "flatpak",
              "sysctl", "tuned"}
\* The kinds the session accepts a decision for without applying it.
AcceptedOnly == {"lang", "unmanaged", "gentimer", "localtimer", "module", "lock", "port"}

\* SetInclude: accepted, recorded, and projected for the kinds above.
SetInclude(h, value) ==
    /\ Open
    /\ h \in Asked
    /\ h.kind \in Projected \cup AcceptedOnly
    /\ ~Is(h, "locked")
    /\ (h \in inc) # value
    /\ count.decisions < MaxDecisions
    /\ inc' = IF h.kind \in Projected
              THEN IF value THEN inc \cup {h} ELSE inc \ {h}
              ELSE inc
    /\ preview' = recompute_view(inc', inc0, demoted, uploaded, staged)
    /\ out' = NoExport("past")
    /\ Bump("decisions")
    /\ UNCHANGED <<inc0, demoted, uploaded, staged, src, job, tree, warn, gone>>

\* An RPM uploaded for a repo-less package (the protocol is in Uploads).
SetUploaded(p) ==
    /\ Open
    /\ p \in Of("pkg") \ uploaded
    /\ Is(p, "annotated") \/ p \in demoted
    /\ count.uploads < MaxUploads
    /\ uploaded' = uploaded \cup {p}
    /\ staged' = staged \cup {p}
    /\ preview' = recompute_view(inc, inc0, demoted, uploaded', staged')
    /\ out' = NoExport("past")
    /\ Bump("uploads")
    /\ UNCHANGED <<inc0, inc, demoted, src, job, tree, warn, gone>>

\* The export request: the plan without its render context.
StartExport ==
    /\ Open
    /\ job' = [kind |-> "refine", at |-> 1, v |-> without_render_context(export_plan),
               roots |-> {}, file |-> <<>>]
    /\ tree' = {}
    /\ warn' = {}
    /\ Bump("exports")
    /\ UNCHANGED <<inc0, inc, demoted, uploaded, staged, src, preview, out, gone>>

\* A session on the exported tarball.  Its snapshot is the projection: the
\* upload marks and the annotation of a demoted package are in it.  The upload
\* directory is a new one.
OpenExport ==
    /\ out.kind = "refine" /\ job.kind = "none"
    /\ count.opens < MaxOpens
    /\ demoted' = out.v.demoted \cup demote_unserved(out.v)
    /\ inc0' = normalize_defaults(out.v.inc, demoted')
    /\ inc' = inc0'
    /\ uploaded' = out.v.uploaded
    /\ staged' = {}
    /\ src' = out.tree
    /\ preview' = recompute_view(inc', inc0', demoted', uploaded', staged')
    /\ out' = NoExport("past")
    /\ count' = [count EXCEPT !.opens = @ + 1, !.exports = 0]
    /\ warn' = {}
    /\ UNCHANGED <<job, tree, gone>>

-----------------------------------------------------------------------------
(* The environment                                                         *)

\* A file of the host vanishes while the scan runs.
HostFileVanishes(h) ==
    /\ job.kind = "scan"
    /\ h.kind = "unmanaged" \/ Is(h, "cached")
    /\ count.faults < MaxFaults
    /\ gone' = gone \cup {h}
    /\ Bump("faults")
    /\ UNCHANGED <<inc0, inc, demoted, uploaded, staged, src, preview, job, tree, warn, out>>

\* A staged upload is deleted or replaced behind the session.
StagedFileLost(p) ==
    /\ p \in staged
    /\ count.faults < MaxFaults
    /\ staged' = staged \ {p}
    /\ Bump("faults")
    /\ UNCHANGED <<inc0, inc, demoted, uploaded, src, preview, job, tree, warn, out, gone>>

Init ==
    /\ inc0 \in InitIncludes
    /\ inc = inc0
    /\ demoted = {} /\ uploaded = {} /\ staged = {} /\ src = {} /\ gone = {} /\ tree = {} /\ warn = {}
    /\ preview = ScanView({})
    /\ job = [kind |-> "scan", at |-> 1, v |-> ScanView(inc0), roots |-> {}, file |-> <<>>]
    /\ out = NoExport("none")
    /\ count = [decisions |-> 0, uploads |-> 0, faults |-> 0, exports |-> 0, opens |-> 0]

Step ==
    \/ WriteConfigTree \/ WriteEnvFiles \/ WriteTmpfiles \/ WriteManifests \/ StageUsers
    \/ write_aggregate_variants \/ bundle_unmanaged_files \/ bundle_repoless_rpms
    \/ extract_payload_dirs \/ copy_proved_uploads \/ WriteCompose \/ StripTopLevel
    \/ WriteContainerfile \/ CreateTarball

Next ==
    \/ Step
    \/ \E h \in Host : SetInclude(h, TRUE) \/ SetInclude(h, FALSE)
                         \/ SetUploaded(h) \/ HostFileVanishes(h) \/ StagedFileLost(h)
    \/ StartExport
    \/ OpenExport

Spec == Init /\ [][Next]_vars

-----------------------------------------------------------------------------
(* Properties of a finished export                                         *)

Done == out.kind \in {"scan", "refine"} /\ job.kind = "none"
Blocks == DOMAIN out.file
LinesOf(file) == UNION {file[i] : i \in DOMAIN file}
Sources == {l.arg : l \in {x \in LinesOf(out.file) : x.op = "COPY"}}
Has(op, id) == \E i \in Blocks : Line(op, <<id>>) \in out.file[i]
Carried(p) == \E s \in Sources : IsPrefix(s, p)

\* The tarball and the Containerfile in it agree, both ways: the writers of
\* both pipelines, the payload extraction, the upload proof, the top-level
\* filter and the section renderers.  Every COPY names a file or directory
\* that the tarball holds, except in three cases: the cached RPM of an included
\* package without an upload that is not in the tarball the session was opened
\* on, because an earlier export left it out with its package; a language
\* manifest the scan did not find; and the quadlet directory when every included
\* quadlet is empty.  (copy_source_exists_test.rs says that there is no
\* legitimate case; its snapshots hold none of the three.)  Every staged file is
\* carried into the image by some COPY, unless that test's list or one of these
\* cases has it: env files and /srv files kept for the operator, preserved
\* entitlements, recreated links, the cached RPMs of excluded packages and the
\* manifests of environments that are not installed, whose COPYs are commented
\* suggestions, and keys and RPMs no COPY can name, which a FIXME names.
NotImageContent == {"users", "compose", "aggregate"}
KeptForOperator == {"env-files", "subscription"}
LostRpm(s) ==
    /\ out.kind = "refine" /\ s \notin src
    /\ \E p \in Included(out.v, "pkg") \ out.v.uploaded : Is(p, "cached") /\ s = repoless_file(p)
LostManifest(s) == \E l \in installed_environments(out.v) :
                      \E f \in manifests_of(l.owner) \ l.refs : s = manifest_file(l, f)
EmptyQuadlets(s) == s = <<"quadlet">> /\ \A q \in Included(out.v, "quadlet") : ~Is(q, "content")
TreeMatchesCopies ==
    Done => LET copied == Sources IN
    /\ \A s \in copied : LostRpm(s) \/ LostManifest(s) \/ EmptyQuadlets(s) \/ \E p \in out.tree : IsPrefix(s, p)
    /\ \A p \in out.tree :
        \/ p[1] \in NotImageContent \cup KeptForOperator
        \/ p[1] = "unmanaged" /\ (p[2] = "srv" \/ \E l \in LinesOf(out.file) :
                                    l.op = "link" /\ <<"unmanaged">> \o l.arg = p)
        \/ \E h \in Of("pkg") : /\ p = repoless_file(h)
                                /\ h \notin out.v.inc \/ (Is(h, "unnamed") /\ Has("fixme", h.id))
        \/ \E l \in Included(out.v, "lang") \ installed_environments(out.v) :
              \E f \in l.refs : p = manifest_file(l, f)
        \/ \E k \in Included(out.v, "gpg") : Is(k, "unsafe") /\ p = <<"config">> \o k.rel
        \/ \E s \in copied : IsPrefix(s, p)

\* The staged files a finding asks for.
FilesOf(h) ==
    CASE h.kind \in {"config", "repo", "gpg", "zone"} -> {<<"config">> \o h.rel}
      [] h.kind = "dropin" -> {<<"drop-ins">> \o h.rel}
      [] h.kind = "quadlet" -> {<<"quadlet", h.id>>}
      [] h.kind = "unmanaged" -> {<<"unmanaged">> \o h.rel}
      [] h.kind \in {"gentimer", "localtimer"} ->
            {<<"config">> \o Append(UnitDir, h.id), <<"config">> \o Append(UnitDir, h.owner)}
      [] OTHER -> {}

\* An excluded finding leaves no trace in the image.  Its file is not in the
\* tarball, where a COPY of a whole directory would carry it, unless an
\* included finding has the same path, or a local timer, whose units are
\* written undecided, or the exporter writes a file of its own there.  Its
\* package is not installed and its user not created, unless an included row
\* has the same name, or the SELinux or the version lock section installs the
\* package to have its command, which they do whatever was decided about it.
SectionTools == {SemanageTool, VersionlockPlugin}
ExcludedStaysOut ==
    Done => \A h \in Host \ out.v.inc :
        /\ \A p \in FilesOf(h) \cap out.tree :
             \/ \E k \in out.v.inc \cup Of("localtimer") : p \in FilesOf(k)
             \/ p \in {KargsConf, TmpfilesConf}
        /\ h.kind = "pkg" =>
             \A op \in {"install", "enable_repo", "rpminstall"} : Has(op, h.id) =>
                \/ Carries(out.v, "pkg", h.id)
                \/ op = "install" /\ h.id \in SectionTools
        /\ h.kind = "user" /\ Has("useradd", h.id) => Carries(out.v, "user", h.id)

\* The lines come in an order the build can run: a block's needs are met by
\* an earlier one.  Repository files and imported keys precede every
\* install, and repo-enabling packages the packages installed by name (not
\* the groups, which the code renders first); a timer is enabled after its
\* unit is copied; semanage is installed before it runs; a user exists
\* before the keys are copied to its home.
OrderedBefore(a, b) == \A i, j \in Blocks : a \in out.file[i] /\ b \in out.file[j] => i < j
BuildOrder ==
    Done => LET lines == LinesOf(out.file) IN \A b \in lines :
        /\ b.op \in {"install", "groupinstall"} =>
             \A a \in lines :
               (\/ a = Copy(<<"config">> \o RepoDir)
                \/ a.op = "import"
                \/ a.op = "enable_repo" /\ b.op = "install") => OrderedBefore(a, b)
        /\ (b.op = "enable" /\ \E t \in Included(out.v, "gentimer") : Is(t, "timer") /\ b.arg = <<t.id>>) =>
             /\ Copy(<<"config">> \o UnitDir) \in lines
             /\ OrderedBefore(Copy(<<"config">> \o UnitDir), b)
        /\ b.op = "semanage" => /\ Has("install", SemanageTool)
                                /\ OrderedBefore(Line("install", <<SemanageTool>>), b)
        /\ b.op = "COPY" /\ b.arg[1] = "users" => \A u \in Included(out.v, "user") :
             b = Copy(ssh_key_file(u)) =>
                /\ Has("useradd", u.id) /\ OrderedBefore(Line("useradd", <<u.id>>), b)

\* An included package whose install name the shell could not take: it is
\* neither installed nor mentioned, though the plan counts on it.
SkippedName(id) == \E p \in installable_packages(out.v) : p.id = id /\ Is(p, "unsafe")

\* An included package reaches the image by one route: named in one
\* transaction, or installed from a carried RPM.  Only the RPM of a repo-less
\* package that also has an installable name (its repo is disabled, or its
\* serving repo is carried again) comes on top.  Otherwise a TODO, FIXME or
\* MANUAL says so, or it is a dependency or base package that needs no line, or
\* its name was skipped.  A claimed upload is in the tarball and installed from
\* it, or the export warned about it and put nothing in its place, the RPM the
\* scan had cached included.  (Several rows of one id, as of kernels, and the
\* tools two sections install are left out.)
Named(p) == {op \in {"install", "enable_repo"} : Has(op, p.id)}
Routes(p) == Named(p) \cup {op \in {"rpminstall"} : Has(op, p.id)}
OneRow(p) == p.id \notin SectionTools /\ \A q \in Of("pkg") : q.id = p.id => q = p
PackageOneRoute ==
    Done => \A p \in Of("pkg") \cap out.v.inc : OneRow(p) =>
        /\ \A a, b \in Named(p) : a = b
        /\ Named(p) # {} /\ Has("rpminstall", p.id) =>
             Annotated(out.v, p) /\ is_package_installable(p)
        /\ Routes(p) = {} =>
             \/ \E op \in {"todo", "fixme", "manual"} : Has(op, p.id)
             \/ Is(p, "suppressed")
             \/ ~Is(p, "leaf")
             \/ SkippedName(p.id)
        /\ out.kind = "refine" /\ p \in out.v.uploaded =>
             IF p \in out.warn
             THEN ~Has("rpminstall", p.id) /\ repoless_file(p) \notin out.tree
             ELSE Has("rpminstall", p.id) /\ repoless_file(p) \in out.tree

\* A package is in the image: of the base, installed or pulled in.
InImage(p) ==
    \/ p \in Baseline
    \/ \E h \in Of("pkg") : /\ h.id = p
                           /\ \/ Routes(h) # {}
                              \/ ~Is(h, "leaf") /\ h \in out.v.inc
                              \/ Is(h, "suppressed")

\* A /var directory exists in the image: its creator is really there, the
\* export makes it in exactly one way, or a FIXME names it.  Three creators the
\* plan counts on are not there: a package whose upload was refused, about which
\* the export warned, one whose cached RPM no COPY can name, which has a FIXME,
\* and one whose name was skipped, of which nothing is said.
CountedAlthoughAbsent(id) == \/ \E w \in out.warn : w.id = id
                             \/ \E p \in Of("pkg") : p.id = id /\ Is(p, "unnamed") /\ Has("fixme", id)
                             \/ SkippedName(id)
VarDirMade(d, conf, backing) ==
    LET tmp == TmpfilesConf \in out.tree /\ d \in conf
        mk == Has("mkdir", d.id) IN
    CASE backing = "provision" -> tmp # mk
      [] backing = "unresolved" -> Has("fixme", d.id) /\ ~mk
      [] OTHER ->
           /\ ~tmp /\ ~mk
           /\ (Is(d, "rpm") \/ Is(d, "tmp_usr")) =>
                InImage(d.owner) \/ CountedAlthoughAbsent(d.owner)
           /\ Is(d, "tmp_etc") => \E c \in Of("config") :
                                    c.id = d.owner /\ Carried(<<"config">> \o c.rel)

\* The package that owns an enabled unit is in the image, or the plan warns
\* about it: by an advisory, or by the FIXME of a package that lost the
\* repository serving it.  Of a skipped name it says nothing.
UnitBacked(s) ==
    \/ s.owner = "" \/ InImage(s.owner)
    \/ s \in service_advisories(out.v)
    \/ Has("fixme", s.owner)
    \/ SkippedName(s.owner)

\* What the image needs at boot is in it or asked for in the file: every /var
\* directory of the host, and the owner of every unit of one host the export
\* enables, whatever packages, uploads and config files were excluded or lost
\* (effective_var_backing, classify_service_presence).  The units of timers
\* and the flatpak unit are written by the export itself; tuned.service is
\* enabled with its profile, without a look at its package.
OwnUnits(v) == config_tree_units(v) \cup {"flatpak-provision.service"}
                 \cup If(active_profiles(v) # {}, {"tuned.service"})
BootNeedsMet ==
    Done => /\ LET conf == render_tmpfiles_conf(out.v) IN
               \A d \in Of("vardir") : VarDirMade(d, conf, effective_var_backing(out.v, d))
            /\ ~Aggregate => \A s \in Of("service") :
                  Has("enable", s.id) /\ s.id \notin OwnUnits(out.v) => UnitBacked(s)

\* The Containerfile of a download is the one the session shows, rendered
\* without its groups, as long as no file was lost on the way: recompute_view
\* and export_plan put the renderer's input together separately.  So the two are
\* the same exactly when no group is renderable.  The code promises more ("guaranteeing
\* byte-identical output", session.rs:4353) and calls the
\* dropped context of the one route that exports a defect.
PreviewButGroups ==
    Done /\ out.kind = "refine" /\ count.faults = 0 =>
        \A v \in {preview, without_render_context(preview)} :
            (out.file = containerfile_preview(v)) <=> (v.groups = {})
=============================================================================
