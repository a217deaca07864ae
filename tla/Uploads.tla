------------------------------- MODULE Uploads -------------------------------
(***************************************************************************)
(* Uploaded RPMs of a refine server: upload_rpm, commit and                *)
(* delete_uploaded_rpm (crates/web/src/upload.rs), the upload directory    *)
(* and the entries that point into it (ensure_upload_dir,                  *)
(* rescan_upload_dir, record_uploaded, unmark_uploaded_rpm in              *)
(* crates/refine/src/session.rs), and an export's staged-upload pass       *)
(* (prove_staged_uploads), which runs after the session lock is released.  *)
(*                                                                         *)
(* commit and delete hold the lock throughout, but a crash can hit between *)
(* their disk steps and an export can look at the directory between them,  *)
(* so those steps are separate actions under `lock`.                       *)
(***************************************************************************)
EXTENDS Naturals, FiniteSets

CONSTANTS
    Package,     \* entries of rpm.packages_added
    File,        \* staged names the allowlist admits
    Rank,        \* [File -> Nat]: filename order
    NoPackage,   \* a file no package matches
    MatchOf,     \* [File -> Package \cup {NoPackage}]: match_uploaded_rpm
    NevraOf,     \* [Package -> File]: the name-version-release.arch.rpm name
    OrigEntry,   \* [Package -> Entry]: what the scan recorded
    Request,     \* concurrent upload and delete requests
    Exporter,    \* concurrent export requests
    Nobody,      \* the lock is free
    Faults,      \* what may go wrong: the I/O errors "unlink", "rename" and
                 \* "rescan", and "link", a link put under a staged name
    Link,        \* what such a link leads to: no body of an upload
    MaxContent,  \* bound on placed uploads
    MaxEpoch     \* bound on server processes

\* A path is a staged file, or one of these three.
Unstaged == {"none", "host", "elsewhere"}

Entry == [uploaded : BOOLEAN, cached : BOOLEAN, path : File \cup Unstaged]

Empty == [uploaded |-> FALSE, cached |-> FALSE, path |-> "none"]

\* Only repo-less packages match, and an exact NEVRA match comes first: a name
\* that is a repo-less package's own NEVRA matches that package.  The scan sets
\* the cache flag and the path together.
ASSUME UploadAssumption ==
    /\ Rank \in [File -> Nat] /\ \A f, g \in File : Rank[f] = Rank[g] => f = g
    /\ IsFiniteSet(File)
    /\ NoPackage \notin Package /\ Nobody \notin Request
    /\ MatchOf \in [File -> Package \cup {NoPackage}]
    /\ NevraOf \in [Package -> File]
    /\ OrigEntry \in [Package -> Entry]
    /\ \A p \in Package : OrigEntry[p].uploaded \/ OrigEntry[p].cached \/ OrigEntry[p] = Empty
    /\ File \cap Unstaged = {}
    /\ \A p, q \in Package : NevraOf[p] = NevraOf[q] => p = q
    /\ \A f \in File : MatchOf[f] # NoPackage => MatchOf[NevraOf[MatchOf[f]]] = MatchOf[f]
    /\ Faults \subseteq {"unlink", "rename", "rescan", "link"}
    /\ Link \notin Nat
    /\ MaxContent \in Nat /\ MaxEpoch \in Nat

VARIABLES
    up,       \* a server process is running
    epoch,    \* processes started so far
    prepared, \* upload_dir_canon is Some
    entry,    \* (uploaded, repoless_cached, cache_path) per package
    prior,    \* prior_cache: the entry an upload displaced, or Empty
    lock,     \* holder of the session mutex, or Nobody
    req,      \* the step each upload or delete request is at
    dir,      \* [File -> body], 0 for an absent file, Link for a link
    parts,    \* part files in the directory, by process and request
    bodies,   \* number of files placed so far; a body is its number
    export    \* the step each export is at

memory == <<prepared, entry, prior>>
vars == <<up, epoch, memory, lock, req, dir, parts, bodies, export>>

Idle == [pc |-> "idle"]
Resting == [pc |-> "idle", plan |-> {}, todo |-> {}, got |-> {}]

Present == {f \in File : dir[f] # 0}

\* Names symlink_metadata reports as regular files.
Regular == {f \in Present : dir[f] # Link}

\* Requests whose body is on its way or waiting for the lock.
InFlight == {r \in Request : req[r].pc \in {"streaming", "staged"}}

\* Move request r to a state, everyone else staying where they are.
Becomes(r, state) == req' = [req EXCEPT ![r] = state]

-----------------------------------------------------------------------------
(* The upload directory.                                                   *)

\* packages_staged_in: files some package already claims.
SpokenFor == {entry[p].path : p \in {q \in Package : entry[q].uploaded}} \cap File

\* Staged files the rescan gives to p; in filename order the last one wins.
RescanFiles(p) == {f \in Regular \ SpokenFor : MatchOf[f] = p}
LastOf(files) == CHOOSE f \in files : \A g \in files : Rank[g] <= Rank[f]

\* record_uploaded, the entry and the displaced cache state.
Recorded(f) == [uploaded |-> TRUE, cached |-> TRUE, path |-> f]
\* Mutant: a second upload of the package forgets what the first displaced.
PriorAfterReset(p) == IF entry[p].cached /\ ~entry[p].uploaded THEN entry[p] ELSE Empty

PriorAfter(p) == IF entry[p].cached /\ ~entry[p].uploaded THEN entry[p] ELSE prior[p]

\* rescan_upload_dir: match and record every regular staged file, once.
Rescan ==
    /\ entry' = [p \in Package |-> IF RescanFiles(p) = {} THEN entry[p]
                                   ELSE Recorded(LastOf(RescanFiles(p)))]
    /\ prior' = [p \in Package |-> IF RescanFiles(p) = {} THEN prior[p] ELSE PriorAfter(p)]

\* ensure_upload_dir on its first call: sweep the part files, then rescan.
PrepareUploadDir ==
    /\ ~prepared
    /\ prepared' = TRUE
    /\ Rescan

-----------------------------------------------------------------------------
(* upload_rpm                                                              *)

\* Mutant: the session lock is kept while the body streams.
BeginUploadHoldingLock(r, f) ==
    /\ up /\ lock = Nobody /\ req[r] = Idle
    /\ bodies + Cardinality(InFlight) < MaxContent
    /\ lock' = r
    /\ \/ prepared /\ UNCHANGED memory /\ parts' = parts \cup {<<epoch, r>>}
       \/ PrepareUploadDir /\ parts' = {<<epoch, r>>}
    /\ Becomes(r, [pc |-> "streaming", file |-> f])
    /\ UNCHANGED <<up, epoch, dir, bodies, export>>

\* The handler's first lock hold, and the part file stage() opens.
BeginUpload(r, f) ==
    /\ up /\ lock = Nobody /\ req[r] = Idle
    /\ bodies + Cardinality(InFlight) < MaxContent
    /\ \/ prepared /\ UNCHANGED memory /\ parts' = parts \cup {<<epoch, r>>}
       \/ PrepareUploadDir /\ parts' = {<<epoch, r>>}
    /\ Becomes(r, [pc |-> "streaming", file |-> f])
    /\ UNCHANGED <<up, epoch, lock, dir, bodies, export>>

\* The sweep succeeds and the rescan cannot read the directory: the request
\* fails, and upload_dir_canon is already set.
RescanError(r) ==
    /\ up /\ lock = Nobody /\ req[r] = Idle
    /\ "rescan" \in Faults /\ ~prepared
    /\ prepared' = TRUE
    /\ parts' = {}
    /\ UNCHANGED <<up, epoch, entry, prior, lock, req, dir, bodies, export>>

\* The whole body has arrived and is synced.
StageDone(r) ==
    /\ up /\ req[r].pc = "streaming"
    /\ Becomes(r, [req[r] EXCEPT !.pc = "staged"])
    /\ UNCHANGED <<up, epoch, memory, lock, dir, parts, bodies, export>>

\* The client goes away, or a second field follows: the part file is dropped.
AbortUpload(r) ==
    /\ up /\ req[r].pc = "streaming"
    /\ Becomes(r, Idle)
    /\ parts' = parts \ {<<epoch, r>>}
    /\ UNCHANGED <<up, epoch, memory, lock, dir, bodies, export>>

\* Mutant: the name of another package's cached RPM is not looked at.
OccupiedNoNevra(f, p) == \E q \in Package \ {p} : entry[q].path = f

\* occupant_of: another package's staged file, or the name the export will
\* write for another package's cached RPM.
Occupied(f, p) ==
    \E q \in Package \ {p} :
      \/ entry[q].path = f
      \/ entry[q].cached /\ ~entry[q].uploaded /\ NevraOf[q] = f

\* Mutant: re-uploading under the same name supersedes the file just placed.
SupersededPathUnfiltered(f, p) ==
    IF p # NoPackage /\ entry[p].uploaded THEN entry[p].path ELSE "none"

\* superseded_upload: the other file p's upload is recorded at.
SupersededPath(f, p) ==
    IF p # NoPackage /\ entry[p].uploaded /\ entry[p].path \notin {f, "none"}
    THEN entry[p].path ELSE "none"

\* resolve_staged_file finds a regular file to remove, or nothing there; a path
\* outside the directory and a link are refused.
Removable(path) == path \in Regular \cup {"none"} \cup (File \ Present)

\* commit up to persist(): the 409 checks, then the rename.
CommitPlace(r) ==
    LET f   == req[r].file
        p   == MatchOf[f]
        old == SupersededPath(f, p)
    IN  /\ up /\ lock = Nobody /\ req[r].pc = "staged"
        /\ ~Occupied(f, p) /\ Removable(old)
        /\ lock' = r
        /\ bodies' = bodies + 1
        /\ dir' = [dir EXCEPT ![f] = bodies + 1]
        /\ parts' = parts \ {<<epoch, r>>}
        /\ Becomes(r, [pc |-> "placed", file |-> f,
                       old |-> IF old \in Present THEN old ELSE "none"])
        /\ UNCHANGED <<up, epoch, memory, export>>

\* A 409, or a rename that fails: nothing is staged and the part file is dropped.
CommitRefused(r) ==
    LET f == req[r].file
        p == MatchOf[f]
    IN  /\ up /\ lock = Nobody /\ req[r].pc = "staged"
        /\ \/ Occupied(f, p)
           \/ ~Removable(SupersededPath(f, p))
           \/ "rename" \in Faults
        /\ Becomes(r, Idle)
        /\ parts' = parts \ {<<epoch, r>>}
        /\ UNCHANGED <<up, epoch, memory, lock, dir, bodies, export>>

\* set_uploaded, for a file that matched.
CommitRecord(r) ==
    LET p == MatchOf[req[r].file]
    IN  /\ up /\ req[r].pc = "placed"
        /\ Becomes(r, [req[r] EXCEPT !.pc = "recorded"])
        /\ IF p = NoPackage THEN UNCHANGED <<entry, prior>>
           ELSE /\ entry' = [entry EXCEPT ![p] = Recorded(req[r].file)]
                /\ prior' = [prior EXCEPT ![p] = PriorAfter(p)]
        /\ UNCHANGED <<up, epoch, prepared, lock, dir, parts, bodies, export>>

\* The superseded file is unlinked, a failure ignored, and the lock released.
CommitUnlink(r) ==
    /\ up /\ req[r].pc = "recorded"
    /\ \/ dir' = [f \in File |-> IF f = req[r].old THEN 0 ELSE dir[f]]
       \/ "unlink" \in Faults /\ req[r].old # "none" /\ UNCHANGED dir
    /\ lock' = Nobody
    /\ Becomes(r, Idle)
    /\ UNCHANGED <<up, epoch, memory, parts, bodies, export>>

-----------------------------------------------------------------------------
(* delete_uploaded_rpm                                                     *)

\* unmark_uploaded_rpm up to remove_file: only an upload recorded inside the
\* prepared directory; a missing file is not an error, a failed unlink and a
\* name that is no regular file are.
DeleteUnlink(r, p) ==
    /\ up /\ lock = Nobody /\ req[r] = Idle
    /\ entry[p].uploaded
    /\ prepared => Removable(entry[p].path)
    /\ ~prepared => entry[p].path = "none"
    /\ lock' = r
    /\ dir' = [f \in File |-> IF f = entry[p].path THEN 0 ELSE dir[f]]
    /\ Becomes(r, [pc |-> "unlinked", package |-> p])
    /\ UNCHANGED <<up, epoch, memory, parts, bodies, export>>

\* The entry gets back what the upload displaced.
DeleteUnmark(r) ==
    LET p == req[r].package
    IN  /\ up /\ req[r].pc = "unlinked"
        /\ entry' = [entry EXCEPT ![p] = prior[p]]
        /\ prior' = [prior EXCEPT ![p] = Empty]
        /\ lock' = Nobody
        /\ Becomes(r, Idle)
        /\ UNCHANGED <<up, epoch, prepared, dir, parts, bodies, export>>

-----------------------------------------------------------------------------
(* POST /api/tarball                                                       *)

\* export_plan, under the lock: who claims an upload and where.
ExportPlan(x) ==
    /\ up /\ lock = Nobody /\ export[x].pc = "idle"
    /\ LET plan == {[package |-> p, file |-> entry[p].path]
                       : p \in {q \in Package : entry[q].uploaded}}
       IN  export' = [export EXCEPT ![x] = [pc |-> "proving", plan |-> plan,
             todo |-> IF prepared THEN {c \in plan : c.file \in File} ELSE {},
             got |-> {}]]
    /\ UNCHANGED <<up, epoch, memory, lock, req, dir, parts, bodies>>

\* verify_staged_upload, step 4: symlink_metadata finds a regular file, or the
\* claim is refused.
ExportStat(x) ==
    /\ up /\ export[x].pc = "proving"
    /\ \E c \in export[x].todo :
         export' = IF c.file \notin Regular
                   THEN [export EXCEPT ![x].todo = @ \ {c}]
                   ELSE [export EXCEPT ![x] = [pc |-> "opening", plan |-> @.plan,
                           todo |-> @.todo \ {c}, got |-> @.got,
                           claim |-> c, seen |-> dir[c.file]]]
    /\ UNCHANGED <<up, epoch, memory, lock, req, dir, parts, bodies>>

\* What export x does with the claim it was opening: copy a body, or refuse.
Carry(x, body) ==
    LET e == export[x]
    IN  export' = [export EXCEPT ![x] = [pc |-> "proving", plan |-> e.plan, todo |-> e.todo,
          got |-> e.got \cup {[package |-> e.claim.package, file |-> e.claim.file, body |-> body]}]]

Refuse(x) ==
    LET e == export[x]
    IN  export' = [export EXCEPT ![x] = [pc |-> "proving", plan |-> e.plan, todo |-> e.todo,
          got |-> e.got]]

\* Mutant: the handle is not compared with step 4, so whatever the name leads to
\* by now is copied.
ExportOpenUnchecked(x) ==
    /\ up /\ export[x].pc = "opening"
    /\ LET found == dir[export[x].claim.file]
       IN  IF found = 0 THEN Refuse(x) ELSE Carry(x, found)
    /\ UNCHANGED <<up, epoch, memory, lock, req, dir, parts, bodies>>

\* Step 5: open, following a link, and refuse unless the handle has the (dev,
\* ino) step 4 saw.  A name that is gone does not open, a link leads to another
\* inode, and a body placed since step 4 is refused unless it was given the
\* number of the one that went.  What was opened is what copy_proved_uploads
\* copies.
ExportOpen(x) ==
    /\ up /\ export[x].pc = "opening"
    /\ LET found == dir[export[x].claim.file]
       IN  \/ found \notin {0, Link} /\ Carry(x, found)
           \/ found # export[x].seen /\ Refuse(x)
    /\ UNCHANGED <<up, epoch, memory, lock, req, dir, parts, bodies>>

\* The archive is served and forgotten.
ExportDone(x) ==
    /\ up /\ export[x].pc = "proving" /\ export[x].todo = {}
    /\ export' = [export EXCEPT ![x] = Resting]
    /\ UNCHANGED <<up, epoch, memory, lock, req, dir, parts, bodies>>

-----------------------------------------------------------------------------
\* Something other than the server puts a link under the name of a staged file,
\* at any moment; at most one at a time.
LinkAppears(f) ==
    /\ "link" \in Faults
    /\ f \in Regular /\ Regular = Present
    /\ dir' = [dir EXCEPT ![f] = Link]
    /\ UNCHANGED <<up, epoch, memory, lock, req, parts, bodies, export>>

\* A new process over the same tarball: the snapshot as the scan left it.
\* Nothing calls ensure_upload_dir at start-up.
Restart ==
    /\ ~up /\ epoch < MaxEpoch
    /\ up' = TRUE
    /\ epoch' = epoch + 1
    /\ UNCHANGED <<memory, lock, req, dir, parts, bodies, export>>

\* The process dies: the directory survives, memory does not.
Crash ==
    /\ up
    /\ up' = FALSE
    /\ prepared' = FALSE
    /\ entry' = OrigEntry
    /\ prior' = [p \in Package |-> Empty]
    /\ lock' = Nobody
    /\ req' = [r \in Request |-> Idle]
    /\ export' = [x \in Exporter |-> Resting]
    /\ UNCHANGED <<epoch, dir, parts, bodies>>

Init ==
    /\ up = TRUE /\ epoch = 1
    /\ prepared = FALSE
    /\ entry = OrigEntry
    /\ prior = [p \in Package |-> Empty]
    /\ lock = Nobody
    /\ req = [r \in Request |-> Idle]
    /\ dir = [f \in File |-> 0]
    /\ parts = {}
    /\ bodies = 0
    /\ export = [x \in Exporter |-> Resting]

\* Steps of a request the server takes without waiting for the client.
ServerStep(r) ==
    \/ CommitPlace(r) \/ CommitRefused(r) \/ CommitRecord(r) \/ CommitUnlink(r)
    \/ DeleteUnmark(r)

ClientStep(r) ==
    \/ \E f \in File : BeginUpload(r, f)
    \/ RescanError(r)
    \/ StageDone(r) \/ AbortUpload(r)
    \/ \E p \in Package : DeleteUnlink(r, p)

ExportStep(x) == ExportStat(x) \/ ExportOpen(x) \/ ExportDone(x)

Next ==
    \/ \E r \in Request : ClientStep(r) \/ ServerStep(r)
    \/ \E x \in Exporter : ExportPlan(x) \/ ExportStep(x)
    \/ \E f \in File : LinkAppears(f)
    \/ Restart \/ Crash

\* Threads holding a request run; clients may stall and the process may stay
\* down for ever.
Fairness ==
    /\ \A r \in Request : WF_vars(ServerStep(r))
    /\ \A x \in Exporter : WF_vars(ExportStep(x))

Spec == Init /\ [][Next]_vars
FairSpec == Spec /\ Fairness

-----------------------------------------------------------------------------
(* Properties.                                                             *)

\* The upload directory and the records agree.  Whenever the lock is free, an
\* entry this process recorded names a file that is there: set_uploaded runs
\* after the rename, and no supersession or removal unlinks a file an entry
\* still points at.  Once the directory is prepared, every part file in it
\* belongs to a request of this process that has not finished: the sweep runs
\* once, before any of them.
DirectoryMatches ==
    /\ lock = Nobody =>
         \A p \in Package :
           entry[p].uploaded /\ entry[p] # OrigEntry[p] => entry[p].path \in Present
    /\ up /\ prepared =>
         \A part \in parts : part[1] = epoch /\ req[part[2]].pc \in {"streaming", "staged"}

\* The name the export writes for a package: its staged file, or the NEVRA of
\* the cached RPM it extracts; "none" when it writes nothing.
ExportName(p) ==
    IF entry[p].uploaded THEN entry[p].path
    ELSE IF entry[p].cached THEN NevraOf[p] ELSE "none"

\* A recorded upload never takes the name the export writes for another package,
\* so create_new in copy_proved_uploads cannot fail: the two 409 arms of
\* occupant_of are enough over every order of uploads and removals.
OnlyWriter ==
    \A p, q \in Package :
      p # q /\ entry[p].uploaded /\ entry[p] # OrigEntry[p] => ExportName(q) # entry[p].path

\* However many uploads replaced one another, removal gives the package back
\* exactly what the scan recorded, or nothing if the scan itself claimed an
\* upload (prior_cache).
RemovalRestores ==
    \A p \in Package :
      ~entry[p].uploaded =>
        entry[p] = IF OrigEntry[p].uploaded THEN Empty ELSE OrigEntry[p]

\* An export carries for a package only what an upload placed under the name it
\* planned for that package: whatever is replaced, removed, re-uploaded or
\* exchanged for a link between export_plan, symlink_metadata and open, nothing
\* the server did not stage itself gets into the archive.
ExportsOnlyUploads ==
    \A x \in Exporter : \A c \in export[x].got :
      /\ [package |-> c.package, file |-> c.file] \in export[x].plan
      /\ c.body \in 1..bodies

\* A received upload is committed or refused, a removal completes and a planned
\* export ends, whatever other requests and stalled clients do, unless the
\* process dies.
RequestsFinish ==
    /\ \A r \in Request : req[r].pc \in {"staged", "placed", "recorded", "unlinked"}
                             ~> req[r].pc = "idle"
    /\ \A x \in Exporter : export[x].pc # "idle" ~> export[x].pc = "idle"
=============================================================================
