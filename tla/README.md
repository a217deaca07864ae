# inspectah in TLA+

inspectah scans a package-based Linux host, writes what it found into a tarball,
lets an operator refine that scan in a browser, merges the scans of a fleet, and
renders the result as a Containerfile with the files it needs.  This directory
models the parts of it that keep state, run concurrently, survive a crash or
must agree with each other, checks them with TLC, and proves with TLAPS what
matters most about the session, its projection, variants, uploads, the fleet
merge, the exports, the executor and the scan.

## 1. The system

| part | state it keeps | operations | talks to |
|---|---|---|---|
| `inspectah scan`: `collect()` (`crates/pipeline/src/collect.rs`) and `run_scan` (`crates/cli/src/commands/scan.rs`) | inspector threads, the SIGINT flag, failed and degraded lists, the progress ledger | two waves of threads, join, completeness, write the report, exit code | inspectors, progress renderer, renderers |
| command executor (`crates/collect/src/executor/real.rs`) | a child process, its pipes, drain threads, a watchdog | run, run with stderr passed through, run with a line callback | inspectors, baseline pull |
| redaction (`crates/pipeline/src/redaction/engine.rs`) | the token registry, findings | one pass over all surfaces, then the label | scan |
| fleet aggregation (`crates/core/src/aggregate`, `commands/aggregate.rs`) | none beyond the command | load, validate, merge, write | refine |
| refine session (`crates/refine/src/session.rs`) | scan baseline, timeline and cursor, generation, cached view | apply, apply_directive, apply_batch, undo, redo, reset, export_plan | autosave, web handlers |
| projection (`project_snapshot`, `render/repo_enabling.rs`, `group_state.rs`) | none: a function of baseline and active timeline | replay with cascades, clamp of locked rows, group states | session |
| aggregate sessions (`crates/refine/src/aggregate`, `aggregate_handlers.rs`) | variants per path, replayed from the timeline | select, edit, discard a variant | session |
| autosave and resume (`autosave.rs`, `cli/src/commands/refine.rs`) | the sidecar file beside the tarball | save after each mutation, resume or discard at start | session |
| uploaded RPMs (`crates/web/src/upload.rs`, upload half of `session.rs`) | upload directory, part files, upload fields of package entries, `prior_cache` | stream, commit, remove, sweep, rescan | session lock, export |
| renderers and exports (`crates/pipeline/src/render`, `render_refine_export`, `export_tarball`) | the tree of the running export | stage files, render the Containerfile, strip, write the tarball | session, uploads, the source tarball |
| inspectors, classification, baseline pull, build | tables and text | conversions or calls of external commands | pipeline |

What is hard here: several browser tabs and uploads interleave over one mutex;
an export works outside that mutex; a body may take minutes to arrive; the
process may die between any two disk operations; autosave may fail once or for
good; another scan may replace the tarball while a session is open; undo, redo,
batches, cascades and variants reach states no single operation produces; two
pipelines stage trees for one renderer; a merge must not depend on the order of
its inputs nor trust a host that could not look; several patterns match one
text; a command may fill its pipes, hang, or leave processes behind; SIGINT and
panics arrive between any two steps of a scan.  `PROJECT.json` lists each of
these hazards at its line with the properties that would catch it.

## 2. Modules

| module | models | role |
|---|---|---|
| `RefineProjection` | `project_snapshot`, `validate_target`, the no-op checks, group states | constants and pure operators |
| `RefineSession` | `RefineSession`, autosave, resume, tabs, export check | state machine, EXTENDS `RefineProjection` |
| `DurableHistory` | what a session promises about its history | abstract specification that `RefineSession` implements |
| `Variants` | variants of aggregate sessions | state machine |
| `Uploads` | uploads, the directory, the export's staged-upload pass | state machine |
| `FleetMerge` | `inspectah aggregate` | state machine over a pure merge |
| `RenderPlan` | the Containerfile and the staged files of one view | constants and pure operators |
| `RenderExport` | scan export, refine export, a session on an export | state machine, EXTENDS `RenderPlan` |
| `Redaction` | `redact()` | state machine, one step per field and hint |
| `Executor` | one call of `RealExecutor` | state machine |
| `Scan` | `collect()`, SIGINT, ledger, exit code | state machine |
| `MC...` | | constants of the instances TLC checks |
| `RefineSessionProofs` | the session's durability and freshness, that it implements `DurableHistory`, and what a replayed timeline gives | theorems |
| `VariantsProofs`, `UploadsProofs`, `FleetMergeProofs`, `RenderExportProofs`, `ScanProofs`, `ExecutorProofs` | the module of that name | theorems |
| `InductionLemmas` | induction and recursive definitions, for the others | lemmas |

A definition whose comment describes a bug (a dropped guard, a missing reset) is
a mutant of the definition after it.  Replacing the one by the other must make
TLC report the property it was written for; the model itself never uses one.

### RefineSession and RefineProjection

A snapshot is reduced to the set of included entries plus each user's password
state.  Names, versions and contents are left out, because no rule of the
session reads them; the kinds of item kept are those that the code treats
differently (packages, repo sections with files and keys, groups, services,
drop-ins, config files, items toggled alone, users).  `Project` replays the
active prefix exactly as `project_snapshot` does: the excluded sections of the
*whole* prefix are computed first, each operation writes its cascade, locked
items are clamped at the end, repo-enabling packages whose definition is gone
are demoted.

Each handler holds the session mutex for its whole body, so each is one action.
`Mutate` is the tail all of them share: timeline and cursor, `generation + 1`,
recomputed view, autosave, response.  `Records` is what `apply` asks before it
records.  `ChangeUploads` stands for `set_uploaded`, `unmark_uploaded_rpm` and a
rescan: they bump the generation and recompute the view and do not autosave.
`view` is what `recompute_view` was given when it last ran, so that a mutator
that forgets it leaves a visible trace.  `StartFresh`, `DiscardAndStart` and
`ResumeSession` are the outcomes of `resolve_session`; `Crash` ends the process;
`RewriteTarball` is another scan.  `seen` and `exported` are what tabs hold;
`saved` and `died` are history variables the durability properties speak of.
The sidecar is replaced by writing a temporary file and renaming it, so a save
is one step that happens or does not.

`DurableHistory` knows no timeline, cursor, hash or file: only what counts, what
was undone, and a copy of both on disk.  Under the mapping in `RefineSession`
(`past` is the active prefix, `future` the redo tail, `stored` the sidecar read
the way `resume_from` reads it) every step of the session is a step of it or a
stutter, autosave faults, crashes and rewritten tarballs included.

### Variants

One entry per content of a path, as `FleetMerge` leaves them.  The state is the
timeline; user variants, discards, selections and include flags are replayed
from it as in `variant_ops.rs` and `project_snapshot`.  The replay is keyed by
path, and a drop-in's file also has an inventory row among the config files, so
the instance has a path in both sections.

### Uploads

`commit` and `unmark_uploaded_rpm` hold the mutex, but a crash may hit between
their disk operations and an export may look at the directory between them, so
they are split at those operations under the variable `lock`.  A body is the
number of the upload that placed it; a name may also lead to a link that
something other than the server put there (`LinkAppears`).  The export's step 4
sees a regular file, its step 5 opens the name again, follows a link and compares
device and inode: a link never passes, and a body placed in between passes only
if it was given the number of the inode that went.  File names, the match of a name to a package
and the NEVRA name of a package are constants constrained by
`UploadAssumption`.  Early rejections of a request have the effect of
`BeginUpload` followed by `AbortUpload`.  A removal whose unlink fails changes
nothing and is not an action.

### FleetMerge

Inputs are loaded in command-line order (some cannot be read), validated, merged
and written.  An item is a list name, an identity, a content hash (0 when the
host could not hash it) and a payload; all sections merged by `merge_items` are
lists of such items.  The sections with rules of their own (packages with leaf
data and source repos, fcontext rules, `/var` directories, tuned, users,
completeness, target image, baseline host, subscription) have operators of their
own.  Hosts are sorted by name first and stably (`Canonical`: the k-th host is the
one with k - 1 before it); the entries collected from them are the places
`<<host, position>>`, and "first seen" is the first place.  The properties speak of the loaded files, not of intermediate results.
Where a `HashMap` decides a tie the model chooses; where `unwrap` would panic
the command ends.

### RenderPlan and RenderExport

A finding is a record of kind, identity, path, flags, owner and references; a
view is what a renderer is given (included findings, those touched in the
session, uploads, proved uploads, packages an earlier export demoted, renderable
groups).  `RenderPlan` computes
which files each staging step writes and the Containerfile as a sequence of
sections, each a set of tagged lines (`copy`, `install`, `enable`, `mkdir`, ...):
order between sections matters and is kept, order inside one and the wording are
not.  `RenderExport` runs the stages of `render_all` and of
`render_refine_export` in their order, and a session that takes decisions and
uploads between exports and may be opened on its own export.  A session starts
from `normalize_defaults`: packages and config files get the defaults of their
triage, whatever the tarball says.  `StartExport` is `POST /api/tarball`, the one
route that exports, which drops the groups of the plan
(`without_render_context`); the preview keeps them.  The properties
look at the tarball an export leaves: `out.file`, `out.tree` and `out.warn`,
beside the view `out.v` it was taken from.

### Redaction

A text is a sequence of typed atoms (a key, a value, a URL scheme, a key block),
so that matches can nest, touch and overlap as those of the real patterns do.
The fields of a snapshot are visited in the order of `redact()`, each surface
with its own rule, then the hints are resolved and the label decided.

### Executor

One action per system-visible step: the child's writes into bounded pipes, the
drain threads' reads, the waits, the kill and the reap, and the watchdog of the
callback form.  The clock is one step that may come at any moment, or never.

### Scan

An inspector is a thread that ends in one of five ways.  The flag is read where
the code reads it: before wave 2, before each spawn, and once after `collect()`.
The main thread joins handles in list order.  `WriteReport` may fail: the write,
but also validation and rendering before it, which exit with an error in the
same way.

## 3. Runs

Every bound is a constant named `Max...` (or a capacity such as `PipeSize`) in
the module and given in the cfg.

| run | instance | shows |
|---|---|---|
| `durability` | 1 caller, a free and a locked package, a group; timeline 2, generation 4, 3 processes, 1 tarball rewrite, both autosave faults | `TypeOK`; the cached view is current; the sidecar matches what was saved; a generation names one state; a crash loses nothing saved; `DurableHistory` is implemented |
| `tabs` | 2 tabs (symmetric), every password choice, one upload change, timeline 3, generation 4, 1 process | an accepted export is what its tab last saw; a fresh hash leaves only acknowledged |
| `projection` | sections A and B sharing a file and a key, a distro section, a group over both, locked rows, services and four drop-ins, a repo-enabling package; timeline 3 | shared files leave with their last section; group rows agree with members; locked rows stay out; drop-ins follow services; a recorded operation changes something |
| `variants` | a drop-in with an inventory row, a universal config file, an unmanaged file, a compose file, a language environment; 4 contents, timeline 3 | one content in force; an edit takes effect; every offered option is accepted; the change summary is honest |
| `uploads` | 2 requests, 1 export, 3 packages, 4 file names, 3 placed bodies, 2 processes, every I/O fault, a link in place of a staged file; under fairness | records and directory agree; one writer per exported name; removal restores; exports carry only what the server staged under the planned name; requests and exports finish |
| `fleet` | every choice and order of up to 3 tarballs of a fleet with degraded, subscribed, disagreeing and empty hosts, unreadable inputs, every flag | the merge ignores the order; counts are exact and decide what is included; chosen packages survive the leaf filter |
| `render` | a host with 62 findings, some left out by the scan, 2 decisions about 13 of them and 1 upload over two sessions, the second on the export of the first, 1 vanished file | files and COPY lines match; excluded findings leave no trace; the file is in build order; one route per package; `/var` directories and units have what they need; the download is the preview without its groups |
| `redaction` | every config text of up to 4 atoms, every kernel command line of up to 4, up to 3 fields of all surfaces together | the matches replaced are disjoint, nothing else is lost, and a maximal match is replaced or gives way to one that overlaps it and is at least as long (what it does not share with that one stays); tokens and secrets correspond one to one; the label is honest |
| `executor` | all three forms, pipes of 1, a cap of 1, up to 3 units of stdout and 2 of stderr, commands that hang, close stderr or leave processes | results are what happened; calls end |
| `scan` | 5 inspectors: 2 in wave 1, 2 in wave 2, 1 not applicable; under fairness | a report only from a whole collection; an honest exit code and ledger; dependent inspectors see the RPM result; the scan ends |

The bounds are enough for the cases the properties are about: a timeline of 2
has a redo tail of one and two and a truncated one; 3 processes are a crash, a
resume, a crash and another start, with the tarball replaced in between; a
timeline of 3 excludes both sections that share a file and brings one back, or
edits, discards and edits a variant again; 3 bodies are an upload, its
replacement and a re-upload under the first name, while an export is between its
check and its open; 3 hosts are a majority against one, with a tie among two;
two decisions with an export and a new session between them reach a state no
single session does (a cached RPM left behind, a demoted package, a refused
upload); 4 atoms hold a key block inside a key with a value next to a
connection string; 3 units outgrow the pipe and the cap by one each; two wave-2
inspectors have a spawn on either side of a signal.

Deadlock checking is off wherever the program may stop (a server that is not
restarted, a command that has ended, a bound that is reached).

Two runs expect a violation.  Each states what a comment says and finds a
behaviour of the code that contradicts it:

| run | text | behaviour |
|---|---|---|
| `stale_baseline` | `session.rs:764` "tarball hash match guarantees identical snapshot baseline" | autosave hashes the tarball at save time; operations made over the old tarball are resumed over the new one |
| `variants_shipped` | `session.rs:3609` "Selected and Only variants are materialized in the normal config tree" | including a path toggles the entry the merge picked, and the config tree does not look at the selection: select B, include, and A is shipped |

Two disagreements of the exports with what the repository says of them are stated
inside passing properties, exactly and with nothing else excepted:

* *the preview is not the download.*  `session.rs:4353` says of the two renderings
  "guaranteeing byte-identical output"; `POST /api/tarball` calls
  `without_render_context` (`handlers.rs:402`), so a download never has a
  `dnf group install` and installs the members one by one.  `session.rs:4125-4135`
  and `4159-4170` know it ("This is a defect, not a design").  `PreviewButGroups`
  says that nothing else differs, and that the two files are equal exactly when
  no group is renderable: a run that asserted equality would fail whenever one is;
* *a COPY may lack its source.*  `crates/cli/tests/copy_source_exists_test.rs:4`
  says "There is no legitimate case for the other outcome".  A cached RPM whose
  package is excluded is left out of the refine export while the snapshot in it
  still calls it cached, so a session on that export may include it and render a
  COPY of a file its tarball does not hold (`session.rs:3684`); `package.json` of
  a confident npm project is copied unconditionally (`language_packages.rs:366`)
  and collected only "if present" (`nonrpm.rs:1038`), and so for Bundler
  (`language_packages.rs:501`); the quadlet directory is copied even if every
  included quadlet is empty (`containerfile.rs:1316`, `configtree.rs:356`).
  `TreeMatchesCopies` names these three (`LostRpm`, `LostManifest`,
  `EmptyQuadlets`) and refuses every other, a proved upload or a cached RPM that
  the tarball did hold included.  In the other direction it has that test's list
  of top-level directories that are no image content (`NotImageContent`) and, on
  top of it, env files and preserved entitlements (`KeptForOperator`), links that
  are recreated, `/srv` files, RPMs of excluded packages and what only a FIXME or
  a commented suggestion names.

### Observed while modelling

Smaller disagreements that the models contain and no run is spent on:

* a batch may include a drop-in under an explicitly excluded service
  (`session.rs:1453`; `session.rs:2067` forbids it for single operations);
* variants are selected by path alone.  A compose file under `/etc`
  (`containers.rs:39`) is also a config row or an unmanaged file, and its entries
  are told apart by their images, not their content (`variant_ops.rs:739`,
  `merge.rs:223`); selecting or editing in one section then leaves the other
  with no chosen entry.  So does a path whose two sections list different
  contents.  The proof of `OneChosen` needs `PathsAgree`, which excludes both;
* a fleet may have a drop-in included under a service row that is not, before
  any decision: a row is kept by the hosts that changed the unit's state, a
  drop-in by those that have the file (`RowsCoverDropIns`);
* a member override that was reversed still counts as one (`session.rs:3470`;
  `group_state.rs:23`);
* uploads of an earlier process are recorded again only at the next upload
  (`session.rs:809`), and after a failed unlink it may be the superseded file
  (`upload.rs:196`);
* SIGINT after `collect()` is not read (`scan.rs:618`; `scan.rs:600` says 130);
* `aggregate` panics when the first host could hash a file and a later one could
  not (`merge.rs:605`); `is_empty_snapshot` does not look at unmanaged files
  (`validate.rs:267`);
* opening an exported tarball runs the triage defaults again
  (`normalize.rs:117`, `:322`): a package or config file the operator included
  against its default is out again, and one excluded against it is back;
* a package whose install name the shell could not take is skipped without a word
  (`containerfile.rs:836`), and `/var` directories and units still count on it
  (`var_dirs.rs:205`); so they do on a cached RPM with a file name no COPY can
  name, which at least has a FIXME (`repoless.rs:166`).  `PackageOneRoute` and
  `BootNeedsMet` name both (`SkippedName`, `CountedAlthoughAbsent`);
* a version lock installs the versionlock plugin, and a port or fcontext rule
  `policycoreutils-python-utils`, although the operator excluded that package
  (`containerfile.rs:912`, `selinux.rs:45`; `SectionTools` in
  `ExcludedStaysOut`); a tuned profile enables `tuned.service` whatever was
  decided about the package that has it (`containerfile.rs:1583`; `OwnUnits` in
  `BootNeedsMet`);
* decisions about unmanaged files, language environments and timers are accepted
  and recorded, and `project_snapshot` does not apply them (`session.rs:2880`;
  `docs/how-to/non-rpm-software.md:299` says the files can be toggled);
* a refine export strips `subscription/` (`session.rs:4312`;
  `docs/how-to/build-bootc-image.md:90` says it carries it);
* a repo-less package whose repository is disabled is installed from its RPM and
  also named in the main transaction, where the build fails
  (`containerfile.rs:783`; `docs/how-to/repoless-rpms.md:299` documents it).
  `PackageOneRoute` names it as its exception;
* `redact_string` starts a registry of its own, so the same secret may carry
  different tokens in the fields it serves (`engine.rs:371`; `engine.rs:94`);
* a match that contains no other and gives way to a longer one that overlaps it
  in part leaves what lies outside the longer one in the text (`engine.rs:277`);
* a failed wait after a time-out is ignored and the child may stay unreaped
  (`real.rs:129`, `:215`);
* `run_with_line_callback` waits without a limit for a child that closed stderr
  and hangs (`real.rs:327`), and every form waits for a descendant that keeps
  the pipes open.

## 4. Fairness

* `Uploads`: weak fairness of each request's server steps and of each export's
  steps.  The lock is a `std::sync::Mutex` taken by short synchronous sections,
  and the export runs on a blocking thread; both are scheduled.  Weak fairness
  suffices for the steps that wait for the lock because its holder always
  releases it and the number of placed bodies is bounded; with unboundedly many
  competitors a mutex promises no more.  Nothing is assumed of clients, which
  may stall for ever in the middle of a body, nor of restarts.
* `Executor`: weak fairness of the calling thread, each drain thread, the
  watchdog, the command's own writes and exit, and of a descendant that ends.
  Nothing is assumed of the clock: `ExecEnds` says that a command that ends is
  reported without it, and one that hangs once the limit has passed.
* `Scan`: weak fairness of the main thread and of each inspector's end.  An
  inspector ends because its commands do (`ExecEnds`, a 30 second limit,
  `crates/collect/src/executor/real.rs:10`) and the files it reads are finite.
  The exceptions `ExecEnds` names are exceptions here too.

## 5. Proofs

The theorems hold for every value of the constants: any number of callers, tabs,
packages, inspectors, requests, any pipe size, every fault set, every bound.
They use the named ASSUMEs of the modules, which TLC evaluates in each run, and
two hypotheses that are written into the theorems that need them.

| module | theorem | states |
|---|---|---|
| `RefineSessionProofs` | `TypeCorrect` | `Spec => []TypeOK`, the cursor inside the timeline included |
| | `CachedViewCurrent` | `Spec => []ViewCurrent` |
| | `SidecarFaithful` | `Spec => [](SavedMatches /\ SidecarWellFormed)` |
| | `ExportsSeen` | `Spec => []ExportedWasSeen` |
| | `GenerationsNameStates` | `Spec => GenerationNamesState` |
| | `NothingSavedIsLost` | `Spec => CrashLosesNothingSaved` |
| | `SessionImplementsHistory` | `Spec => ImplementsHistory` |
| | `LocksHold`, `RenderStatesSound` | `Spec => []LockedStaysOut`, `Spec => []RenderStateSound` |
| | `FreshSecretsAcked` | `Spec => []FreshSecretAcked` |
| | `CarriedFollows` | `Spec => []CarriedFollowsSections` |
| | `OpsMatter` | `Spec => RecordedOpsMatter` |
| | `DropInsFollow` | `RowsCoverDropIns` implies `Spec => []DropInsFollowService` |
| `VariantsProofs` | `OneInForce`, `EditsTakeEffect`, `OptionsUsable` | `PathsAgree` implies `Spec => []OneChosen`, `[]EditTakesEffect`, `[]ShownIsUsable` |
| | `SummaryHonest` | `Spec => []ChangesHonest` |
| `UploadsProofs` | `DirectoryAgrees`, `OneWriter`, `RemovalsRestore`, `ExportsAreUploads` | `Spec => []` each of `DirectoryMatches`, `OnlyWriter`, `RemovalRestores`, `ExportsOnlyUploads` |
| `FleetMergeProofs` | `OrderNeverMatters`, `CountsAlwaysDecide`, `LeavesAlwaysSurvive` | `Spec => []` each of `OrderIndependent`, `CountsDecide`, `LeavesSurvive` |
| `RenderExportProofs` | `ExportFollowsPlan` | `Spec => []IInv`: tree, file and warnings are the plan's at every stage |
| | `StagingIsComplete` | `Spec => []Complete`: nothing a finished stage wrote is lost, payloads are exactly those included |
| | `DownloadIsPreviewButGroups`, `ExcludedAlwaysOut`, `PackageAlwaysOneRoute`, `AlwaysBuildOrder`, `BootAlwaysMet`, `TreeAlwaysMatches` | `Spec => []` each of `PreviewButGroups`, `ExcludedStaysOut`, `PackageOneRoute`, `BuildOrder`, `BootNeedsMet`, `TreeMatchesCopies` |
| `ScanProofs` | `ReportsAreWhole`, `DependentsSeeRpm`, `ExitsAreHonest` | `Spec => []` each of `ReportIsWhole`, `Wave2SeesRpm`, `ExitIsHonest` |
| `ExecutorProofs` | `ResultsHonest` | `Spec => []ResultHonest` |

### The arguments

**Session.**  `ClientStepMutates` reduces all recording operations to `Mutate`
with some timeline and a cursor inside it, so what an operation does stays
opaque: these theorems hold whatever `Project` computes.  The inductive
invariant `IInv` adds two parts to the properties.  `DeadStateSaved` says that
if the last process died with its state saved and no other has started, the
sidecar still holds that state; without it `CrashLosesNothingSaved` has nothing
to start from.  `SeenBounded` says that what a tab saw in this process has a
generation no larger than the session's, and equals the session's view when the
generations are equal; this is what turns the equality test of `export_plan`
into equality of contents.

**History.**  One lemma per operation shows which step of `DurableHistory` it is
(append after cutting the redo tail, move one entry across, reset), from lemmas
on prefixes and tails of sequences; `SavePersists` covers the autosave and its
two faults for all of them.  The starts of a process map to the abstract opens,
and a crash, an export or a changed tarball to a crash or a stutter.

**Projection.**  `Project` is a fold over the operations of the active prefix.
The proofs treat a fold as a trace, one snapshot per prefix, and argue by
induction along it.  `CarriedFollows` follows one file or key: it is out after a
prefix exactly if the operations so far left all its sections out.  `OpsMatter`
needs the fold of a timeline with one more entry in terms of the fold before it,
although the set of excluded sections that the replay starts from changes with
it.  `DropInsFollow` is not inductive for one timeline, because an undo or a
resume brings back a prefix: `AllChained` says that the timeline and the sidecar
consist of entries each of which was validated on the prefix before it, and
`ChainCovers` that such a timeline keeps every drop-in under its service.
`LocksHold` and `RenderStatesSound` hold of every timeline whatsoever.

**Variants.**  `IInv` keeps a trace of the whole timeline, the redo tail
included, all states of which are sound: discarded contents are apart from the
existing ones, user contents from the hosts', and a selection exists.  The tail
matters because a redo applies an operation that was validated earlier.

**Uploads.**  The properties speak of states with the lock free; the invariant
has to say what holds between the disk operations of a commit or a removal.
`Provenance` and `PriorRight` say where an entry and its `prior_cache` come
from, `PathsApart` and `FilesStaged` that nobody else claims a recorded file and
that it is there until its removal began, `CommitSafe` that the superseded file
is nobody's when it is unlinked, `PartsOwned` and `PlansHold` cover part files
and an export's plan while the directory changes under it: what an export has
still to prove, or is opening, was planned, under a name of the uploads directory.

**Fleet merge.**  The invariant is short: the files are snapshots, and a merge
that went through is `MergeSnapshots` of them, made without a panic from hosts
with distinct names, which is what validation leaves.  The work is about the
operators.  With names
apart, `Rank` is a bijection onto the positions and `Canonical` depends only on
the set of hosts, so any permutation of the files gives the same sequence to
everything behind it, folds and tie-breaks included: `OrderNeverMatters` never
opens the merge.  `CountsAlwaysDecide` follows one item through grouping,
variants or representative, the leaf filter, the leaf override and the repo
reconciliation, none of which changes a row's hosts; a row's count equals the
number of inputs only if every input carries it, by cardinality of the set of
host names.  `LeavesAlwaysSurvive` needs that a package on every host is judged
by the intersection and all others by the union of the leaf sets.

**Exports.**  `IInv` has four parts: `Typed`; `Running`, which gives for each
stage of each pipeline the tree, file and warnings built so far as a function of
the plan; `Finished`, the same of the tarball left; and `Previewed`, that the
cached view is what `recompute_view` computes from the session's state.
`DownloadIsPreviewButGroups` compares the two views field by field; that the
files differ as soon as a group is renderable follows from block 5, which holds
the group installs and nothing else.
`Running` is what makes the exports independent of a session that goes on
meanwhile.  The properties follow from `Finished` and from lemmas on the
rendered file: `Layout` gives its 31 blocks, `OpPlaces` which operation may
appear in which block, and `Origin` lemmas which finding a line or a staged file
comes from.

`IInv` bounds the tree from above: nothing is there that the plan does not name.
`TreeMatchesCopies` and `BootNeedsMet` also need that nothing is missing, which
is the second inductive invariant, `Complete`.  `StagedSoFar` says for each stage
which writers have run, that what they wrote is still there, and that the
unmanaged payloads are exactly the included ones; the tarball behind a session
holds the payloads of the files it includes, because a session cannot include
an unmanaged file it did not start with.  For `TreeMatchesCopies`, `CopyBlocks`
lists the sources of each block, `ConfigCopiesStaged` and `OtherCopiesStaged`
find a staged file under each, and `FilesCarried` finds for each staged file the
COPY above it.  For `BootNeedsMet`, `CountedOn` and `FragmentCarried` show that
whatever `classify` counts as a creator is carried by the same export, and
`UnitsBacked` the same of an enabled unit.  Aggregates are left out of the part
about units: their package lists hold leaves only, so `render_service_intent`
emits every unit there without judging its package (`service_intent.rs:347`).

**Scan and executor.**  `WavesInOrder` and `DeclinedByFlag` tie the phases to
the threads joined and declined, and `LedgerFollows` gives the ledger as a
function of them.  In the executor `BytesKept` accounts for every byte (still
to be written, in the pipe, read), `EndedMeansAll` and `SilentMeansDone` turn
the end of a drain thread into completeness, and `DiedWhy`, `ReapedWhen` and
`TimeoutsAreDue` say who may have killed and who reaped the child.

**Induction.**  `InductionLemmas` derives induction over `0 .. n`, the existence
of functions defined by recursion on it, and what a fold or a maximum is, from a
least-element argument over sets of naturals.

### Assumptions

* `SurvivorsAssumption` (filtering a batch yields a sequence of operations) is
  an assumption because the prover has `SelectSeq` built in and knows nothing
  about it; TLC evaluates it for the submitted batches.
* `UploadAssumption`: names and matches are what the parsers give; a package the
  scan neither cached nor claims uploaded has an empty record
  (`crates/collect/src/inspectors/rpm/repoless.rs:351`).
* `FleetAssumption`: lists of items and rules are sequences, and a host's leaf
  packages are among its added ones (`classify_leaf_auto`).
* `HostAssumption`: a path is a sequence of names, and the scan marks an RPM as
  cached only together with its repo-less annotation
  (`crates/collect/src/inspectors/rpm/repoless.rs:351`).  `RenderAssumption`
  types the bounds, the initial decisions and the findings decided about.
* `PathAssumption`: where the inspectors look.  Repository files come from a
  listing of `yum.repos.d` (`rpm/repos.rs:35`), drop-ins from
  `/etc/systemd/system` (`services.rs:738`), config files from under `/etc`
  (`config/mod.rs`); names from a listing hold no `..`.
* `RowAssumption`: what they record.  A converted cron entry has a timer and a
  reboot entry a service (`scheduled.rs:290`), a local timer has its file
  (`scheduled.rs:790`), an environment has manifests of its own ecosystem
  (`nonrpm.rs:616`, `:1022`, `:1441`), a `/var` directory has one row with one
  verdict (`storage.rs:451`).
* `ItemAssumption`: an item has finitely many host contents.
* `PathsAgree` (a hypothesis): a path in two sections has the same contents in
  both, and both can be edited or none.  A drop-in or a quadlet has it with its
  inventory row; section 3 names the paths that do not.  `MCVariants` assumes it
  of its instance.
* `RowsCoverDropIns` (a hypothesis): the scan includes no drop-in under an
  excluded service row, which scans satisfy (`services.rs:342`,
  `normalize.rs:221`) and fleets need not.  `MCRefineSession` assumes it of its
  instance.

### Only model-checked

Liveness (`RequestsFinish`, `ExecEnds`, `ScanEnds`), which needs fairness and
ENABLED; the properties of `Redaction`, whose passes are folds over the
characters of a text; and the two expected violations.

## 6. Not modelled

* What an inspector parses, classification tables, `.repo` syntax and filename
  parsing turn text into records and keep no state between calls; the models
  take their results as constants or as sets to choose from.
* The HTML and audit reports, kickstart and blueprint texts, the README of an
  export and the UI's components are output nothing reads back.  The browser's
  editor drafts are local to a tab.
* Baseline pulls and the build command are straight lines of checks around calls
  of podman; the call itself is in `Executor`.
* Reading a tarball is archive I/O; the models keep which tarball and which
  files.
* Two refine servers over one tarball, and tabs that outlive a server process,
  are outside the properties (the second is in the model: `ExportedWasSeen`
  speaks of answers from the same process).

About half of the repository's Rust lines are inline tests, and much of the rest
is the parsing and text output above.  `PROJECT.json` lists every part with its
status.

## 7. Plan

1. done: session, projection, autosave and its abstract history; variants;
   uploads; fleet merge; both export pipelines; redaction; executor; scan.
2. done: the proofs of section 5.
3. Proofs next: `Redaction` (`SecretsReplaced` and `SameStaysSame`, one field at
   a time).
4. Models still open: the rewriting of sections in `finalize_cross_inspector`
   and the progress renderer's phases.
