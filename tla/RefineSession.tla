---------------------------- MODULE RefineSession ----------------------------
(***************************************************************************)
(* One refine server over one scan tarball: RefineSession's timeline,      *)
(* cursor, generation and cached view (crates/refine/src/session.rs), the  *)
(* autosave sidecar (autosave.rs), the start-up choices of `inspectah      *)
(* refine` (crates/cli/src/commands/refine.rs), and the browser tabs that  *)
(* call the web handlers (crates/web/src/handlers.rs).                     *)
(*                                                                         *)
(* Every handler runs under one hold of the session mutex, so each is one  *)
(* step.  The process may die between any two of them; the tarball may be  *)
(* rewritten by another scan at any time.                                  *)
(***************************************************************************)
EXTENDS RefineProjection

CONSTANTS
    Client,          \* callers of the web API
    Tab,             \* the callers that keep the view of a response: browser tabs
    SubmittedOps,    \* the ops tabs submit one at a time
    SubmittedBatches,\* the op sequences tabs submit as one batch
    SubmittedGroups, \* the groups tabs dissolve with a view directive
    SaveFaults,      \* how autosave may fail: "transient", "permanent"
    MaxTimeline,     \* bound on Len(timeline)
    MaxGeneration,   \* bound on generation
    MaxUploads,      \* bound on staged-upload changes per process
    MaxEpoch,        \* bound on server processes
    MaxTarball       \* bound on rewrites of the tarball

ASSUME SubmittedAssumption ==
    /\ Tab \subseteq Client
    /\ SubmittedOps \subseteq RefinementOp
    /\ \A b \in SubmittedBatches : b \in Seq(RefinementOp)
    /\ SubmittedGroups \subseteq Group
    /\ SaveFaults \subseteq {"transient", "permanent"}

\* What filtering a submitted batch leaves is again a sequence of ops.
ASSUME SurvivorsAssumption ==
    \A b \in SubmittedBatches : BatchSurvivors(b) \in Seq(RefinementOp)

ASSUME BoundAssumption ==
    {MaxTimeline, MaxGeneration, MaxUploads, MaxEpoch, MaxTarball} \subseteq Nat

VARIABLES
    up,         \* a server process is running
    epoch,      \* number of processes started so far
    base,       \* version of the tarball the running session was read from
    timeline,   \* RefineSession::timeline, redo tail included
    cursor,     \* RefineSession::cursor
    generation, \* RefineSession::generation
    uploads,    \* staged-upload changes seen by this process
    view,       \* RefineSession::cached_view: what recompute_view last saw
    degraded,   \* RefineSession::durability_degraded
    tarball,    \* version of the tarball on disk
    sidecar,    \* the autosave file, or NoFile
    seen,       \* the view each tab last received
    exported,   \* the archive downloaded last, with what its tab had seen
    saved,      \* history: the last mutation reached the sidecar
    died        \* history: what the last process held, if it was saved

session == <<up, epoch, base, timeline, cursor, generation, uploads, view, degraded>>
disk    == <<tarball, sidecar>>
tabs    == <<seen, exported>>
history == <<saved, died>>
vars    == <<session, disk, tabs, history>>

NoFile == [file |-> "none"]
NoView == [view |-> "none"]

Active == SubSeq(timeline, 1, cursor)

\* recompute_view: everything it derives is a function of these three.
ViewOf(gen, tl, cur, ups) ==
    [generation |-> gen, active |-> SubSeq(tl, 1, cur), uploads |-> ups]

\* A response body: the view, tagged with the process that sent it.
Response(v) == [epoch |-> epoch, view |-> v]

-----------------------------------------------------------------------------
\* Mutant of TryAutosave: the redo tail is not written.
TryAutosaveActiveOnly(tl, cur) ==
    /\ ~degraded
    /\ sidecar' = [file |-> "saved", hash |-> tarball, timeline |-> SubSeq(tl, 1, cur),
                   cursor |-> cur, validated |-> base]
    /\ saved' = TRUE
    /\ UNCHANGED degraded

\* Mutant of TryAutosave: the cursor is read before the mutation moves it.
TryAutosaveOldCursor(tl, cur) ==
    /\ ~degraded
    /\ sidecar' = [file |-> "saved", hash |-> tarball, timeline |-> tl,
                   cursor |-> cursor, validated |-> base]
    /\ saved' = TRUE
    /\ UNCHANGED degraded

\* try_autosave: hash the tarball as it is now, write to a temporary file and
\* rename.  PermissionDenied and ReadOnlyFilesystem stop it for good.
TryAutosave(tl, cur) ==
    \/ /\ ~degraded
       /\ sidecar' = [file |-> "saved", hash |-> tarball, timeline |-> tl,
                      cursor |-> cur, validated |-> base]
       /\ saved' = TRUE
       /\ UNCHANGED degraded
    \/ /\ \/ degraded /\ UNCHANGED degraded
          \/ ~degraded /\ "transient" \in SaveFaults /\ UNCHANGED degraded
          \/ ~degraded /\ "permanent" \in SaveFaults /\ degraded' = TRUE
       /\ saved' = FALSE
       /\ UNCHANGED sidecar

\* The tail every mutator of the timeline shares: new timeline and cursor,
\* generation + 1, caches dropped and recomputed, autosave, and the view as
\* the response.
Mutate(c, tl, cur) ==
    /\ generation < MaxGeneration
    /\ timeline' = tl
    /\ cursor' = cur
    /\ generation' = generation + 1
    /\ view' = ViewOf(generation + 1, tl, cur, uploads)
    /\ TryAutosave(tl, cur)
    /\ seen' = [t \in Tab |-> IF t = c THEN Response(view') ELSE seen[t]]
    /\ UNCHANGED <<up, epoch, base, uploads, tarball, exported, died>>

\* Mutant of Push: the new entry goes behind the redo tail.
PushKeepsTail(c, entry) ==
    /\ cursor < MaxTimeline
    /\ Mutate(c, Append(timeline, entry), cursor + 1)

\* A new entry drops the redo tail.
Push(c, entry) ==
    /\ cursor < MaxTimeline
    /\ Mutate(c, Append(Active, entry), cursor + 1)

\* apply()
Apply(c, op) ==
    /\ up
    /\ Records(op, Active)
    /\ Push(c, OpEntry(op))

\* apply_directive()
ApplyDirective(c, g) ==
    /\ up
    /\ RecordsDirective(g, Active)
    /\ Push(c, ViewEntry(g))

\* apply_batch(): no validation and no idempotency check.
ApplyBatch(c, ops) ==
    /\ up
    /\ BatchSurvivors(ops) # <<>>
    /\ Push(c, BatchEntry(BatchSurvivors(ops)))

\* Mutant of Undo: the NothingToUndo guard is missing.
UndoUnguarded(c) == up /\ Mutate(c, timeline, cursor - 1)

\* undo()
Undo(c) ==
    /\ up
    /\ cursor > 0
    /\ Mutate(c, timeline, cursor - 1)

\* redo()
Redo(c) ==
    /\ up
    /\ cursor < Len(timeline)
    /\ Mutate(c, timeline, cursor + 1)

\* reset()
Reset(c) ==
    /\ up
    /\ timeline # <<>>
    /\ Mutate(c, <<>>, 0)

\* Mutant of ChangeUploads: the caches are not recomputed.
ChangeUploadsStaleView ==
    /\ up
    /\ uploads < MaxUploads /\ generation < MaxGeneration
    /\ uploads' = uploads + 1
    /\ generation' = generation + 1
    /\ UNCHANGED <<up, epoch, base, timeline, cursor, view, degraded, disk, tabs, history>>

\* Mutant of ChangeUploads: the generation is not bumped.
ChangeUploadsSameGeneration ==
    /\ up
    /\ uploads < MaxUploads
    /\ uploads' = uploads + 1
    /\ view' = ViewOf(generation, timeline, cursor, uploads + 1)
    /\ UNCHANGED <<up, epoch, base, timeline, cursor, generation, degraded, disk, tabs, history>>

\* set_uploaded or unmark_uploaded_rpm: invalidate_caches bumps the
\* generation; nothing is autosaved and the reply carries no view.
ChangeUploads ==
    /\ up
    /\ uploads < MaxUploads /\ generation < MaxGeneration
    /\ uploads' = uploads + 1
    /\ generation' = generation + 1
    /\ view' = ViewOf(generation + 1, timeline, cursor, uploads + 1)
    /\ UNCHANGED <<up, epoch, base, timeline, cursor, degraded, disk, tabs, history>>

\* GET /api/view
GetView(c) ==
    /\ up
    /\ seen' = [seen EXCEPT ![c] = Response(view)]
    /\ UNCHANGED <<session, disk, exported, history>>

\* Mutant of Export: the StaleGeneration check is missing.
ExportUnchecked(c, ack) ==
    /\ up
    /\ seen[c] # NoView
    /\ Project(Active).sensitive => ack
    /\ exported' = [file |-> "archive", epoch |-> epoch, active |-> Active,
                    uploads |-> uploads, ack |-> ack, saw |-> seen[c]]
    /\ UNCHANGED <<session, disk, seen, history>>

\* POST /api/tarball with the generation the tab last saw: export_plan's
\* StaleGeneration check, then the 428 gate, both on one projection.
Export(c, ack) ==
    /\ up
    /\ seen[c] # NoView
    /\ seen[c].view.generation = generation
    /\ Project(Active).sensitive => ack
    /\ exported' = [file |-> "archive", epoch |-> epoch, active |-> Active,
                    uploads |-> uploads, ack |-> ack, saw |-> seen[c]]
    /\ UNCHANGED <<session, disk, seen, history>>

-----------------------------------------------------------------------------
\* A session just constructed: RefineSession::new plus a restored timeline.
Start(tl, cur) ==
    /\ ~up
    /\ epoch < MaxEpoch
    /\ up' = TRUE
    /\ epoch' = epoch + 1
    /\ base' = tarball
    /\ timeline' = tl
    /\ cursor' = cur
    /\ generation' = 0
    /\ uploads' = 0
    /\ view' = ViewOf(0, tl, cur, 0)
    /\ UNCHANGED <<tarball, tabs, died>>

\* resolve_session with no sidecar, or a sidecar whose hash no longer matches
\* (StaleTarball, a warning, and the sidecar left in place).
StartFresh ==
    /\ sidecar # NoFile => sidecar.hash # tarball
    /\ Start(<<>>, 0)
    /\ degraded' = FALSE
    /\ saved' = FALSE
    /\ UNCHANGED sidecar

\* resolve_session with `f` or --fresh: the sidecar is removed first, and a
\* failure to remove it is ignored.
DiscardAndStart ==
    /\ sidecar # NoFile
    /\ Start(<<>>, 0)
    /\ degraded' = FALSE
    /\ saved' = FALSE
    /\ \/ sidecar' = NoFile
       \/ SaveFaults # {} /\ UNCHANGED sidecar

\* Mutant of ClampedCursor: everything in the file is made active again.
CursorAtEnd(file) == Len(file.timeline)

\* The cursor resume_from restores.
ClampedCursor(file) ==
    IF file.cursor <= Len(file.timeline) THEN file.cursor ELSE Len(file.timeline)

\* resume_from: hash check, fresh load, timeline and cursor set directly,
\* one confirming autosave by the new, undegraded session.
ResumeSession ==
    /\ sidecar # NoFile
    /\ sidecar.hash = tarball
    /\ Start(sidecar.timeline, ClampedCursor(sidecar))
    /\ \/ /\ sidecar' = [sidecar EXCEPT !.cursor = ClampedCursor(sidecar),
                                        !.hash = tarball]
          /\ saved' = TRUE
          /\ degraded' = FALSE
       \/ /\ SaveFaults # {}
          /\ degraded' \in {f = "permanent" : f \in SaveFaults}
          /\ saved' = FALSE
          /\ UNCHANGED sidecar

\* Ctrl-C, a kill or a power loss: process memory is gone.
Crash ==
    /\ up
    /\ up' = FALSE
    /\ died' = IF saved THEN [timeline |-> timeline, cursor |-> cursor]
                        ELSE NoFile
    /\ timeline' = <<>> /\ cursor' = 0 /\ generation' = 0 /\ uploads' = 0
    /\ view' = ViewOf(0, <<>>, 0, 0)
    /\ degraded' = FALSE
    /\ saved' = FALSE
    /\ UNCHANGED <<epoch, base, disk, tabs>>

\* Another scan writes a new tarball under the same name.
RewriteTarball ==
    /\ tarball < MaxTarball
    /\ tarball' = tarball + 1
    /\ UNCHANGED <<session, sidecar, tabs, history>>

-----------------------------------------------------------------------------
Init ==
    /\ up = FALSE /\ epoch = 0 /\ base = 0
    /\ timeline = <<>> /\ cursor = 0 /\ generation = 0 /\ uploads = 0
    /\ view = ViewOf(0, <<>>, 0, 0)
    /\ degraded = FALSE
    /\ tarball = 0 /\ sidecar = NoFile
    /\ seen = [c \in Tab |-> NoView]
    /\ exported = NoFile
    /\ saved = FALSE /\ died = NoFile

ClientStep(c) ==
    \/ \E op \in SubmittedOps : Apply(c, op)
    \/ \E g \in SubmittedGroups : ApplyDirective(c, g)
    \/ \E ops \in SubmittedBatches : ApplyBatch(c, ops)
    \/ Undo(c) \/ Redo(c) \/ Reset(c)

TabStep(c) ==
    \/ GetView(c)
    \/ \E ack \in BOOLEAN : Export(c, ack)

Next ==
    \/ \E c \in Client : ClientStep(c)
    \/ \E c \in Tab : TabStep(c)
    \/ ChangeUploads
    \/ StartFresh \/ DiscardAndStart \/ ResumeSession
    \/ Crash
    \/ RewriteTarball

Spec == Init /\ [][Next]_vars

-----------------------------------------------------------------------------
(* Properties of the session.                                              *)

Entry == [kind : {"Op", "Batch"}, ops : Seq(RefinementOp)]
           \cup [kind : {"View"}, group : Group]

View == [generation : Nat, active : Seq(Entry), uploads : Nat]

SavedState == [file : {"saved"}, hash : Nat, timeline : Seq(Entry), cursor : Nat,
               validated : Nat]

Answer == [epoch : Nat, view : View]

Archive == [file : {"archive"}, epoch : Nat, active : Seq(Entry), uploads : Nat,
            ack : BOOLEAN, saw : Answer]

\* Type correctness of every variable, the cursor inside the timeline included
\* (RefineSession slices timeline[..cursor] on every call).
TypeOK ==
    /\ up \in BOOLEAN /\ degraded \in BOOLEAN /\ saved \in BOOLEAN
    /\ {epoch, base, generation, uploads, tarball} \subseteq Nat
    /\ timeline \in Seq(Entry) /\ cursor \in 0 .. Len(timeline)
    /\ view \in View
    /\ sidecar \in SavedState \cup {NoFile}
    /\ seen \in [Tab -> Answer \cup {NoView}]
    /\ exported \in Archive \cup {NoFile}
    /\ died \in [timeline : Seq(Entry), cursor : Nat] \cup {NoFile}

\* The cached view (session.rs: cached_view) is always the one recompute_view
\* would build now, at the generation the session reports.
ViewCurrent == view = ViewOf(generation, timeline, cursor, uploads)

\* When the last autosave succeeded the sidecar holds the whole timeline, redo
\* tail and cursor of the running session (try_autosave).
SavedMatches ==
    up /\ saved => /\ sidecar # NoFile
                   /\ sidecar.timeline = timeline /\ sidecar.cursor = cursor

\* No sidecar ever holds a cursor past its timeline: `inspectah refine` prints
\* timeline.len() - cursor in unsigned arithmetic before it resumes.
SidecarWellFormed == sidecar # NoFile => sidecar.cursor <= Len(sidecar.timeline)

\* An export accepted by export_plan's generation check carries exactly the
\* decisions and uploads the requesting tab last saw from this process,
\* whatever other tabs did in between.
ExportedWasSeen ==
    exported # NoFile /\ exported.saw.epoch = exported.epoch =>
      /\ exported.active = exported.saw.view.active
      /\ exported.uploads = exported.saw.view.uploads

\* A password hash entered in refine never leaves in an archive whose download
\* did not carry the acknowledgement header, whatever sequence of new, none and
\* preserve led there (is_sensitive, project_snapshot's Preserve arm).
FreshSecretAcked ==
    exported # NoFile /\ ~exported.ack =>
      \A u \in User : Project(exported.active).users[u].hash # "fresh"

\* Within one process the generation names one state: a step that changes what
\* a view shows makes it strictly larger, and no step makes it smaller.
GenerationNamesState ==
    [][up /\ up' =>
         /\ generation' >= generation
         /\ <<Active, uploads, timeline>>' # <<Active, uploads, timeline>>
              => generation' > generation]_vars

\* A crash loses nothing that was saved: if the dead process's last mutation
\* reached the sidecar, resuming restores its timeline, redo tail and cursor.
CrashLosesNothingSaved ==
    [][ResumeSession /\ died # NoFile =>
         timeline' = died.timeline /\ cursor' = died.cursor]_vars

\* What a client can add to the history.
Recordable ==
    {OpEntry(op) : op \in SubmittedOps} \cup {ViewEntry(g) : g \in SubmittedGroups}
      \cup {BatchEntry(BatchSurvivors(ops)) : ops \in SubmittedBatches}

\* The undone part of a timeline.
RedoTail(tl, cur) == SubSeq(tl, cur + 1, Len(tl))

History == INSTANCE DurableHistory WITH
    Entry   <- Recordable,
    running <- up,
    past    <- Active,
    future  <- RedoTail(timeline, cursor),
    stored  <- IF sidecar = NoFile THEN <<>>
               ELSE <<SubSeq(sidecar.timeline, 1, ClampedCursor(sidecar)),
                      RedoTail(sidecar.timeline, ClampedCursor(sidecar))>>

\* The session's timeline, cursor and sidecar implement a durable linear undo
\* history: a new op drops exactly the undone ones, the sidecar is always one
\* whole history the session had, failed saves and rewritten tarballs
\* included, and a new process continues exactly that or starts empty.
ImplementsHistory == History!Spec

\* resume_from's comment: the tarball hash match guarantees an identical
\* snapshot baseline for the restored ops.
ResumeKeepsBaseline == [][ResumeSession => base' = sidecar.validated]_vars

-----------------------------------------------------------------------------
(* Properties of what the session projects.                                *)

\* No cascade, batch or replay ever leaves a locked entry included.
LockedStaysOut == Project(Active).inc \cap Locked = {}

\* The files, or the keys, that some toggleable section uses.
Shared(uses) == UNION {uses[s] : s \in Section}

\* A .repo file or key leaves the export exactly when every section that uses
\* it is excluded, however the toggles were ordered, undone or batched.
CarriedFollowsSections ==
    LET inc == Project(Active).inc
        excluded == ExcludedSections(OpsIn(Active))
        follows(uses, x) == x \in inc <=> \E s \in Section : x \in uses[s] /\ s \notin excluded
    IN  /\ \A f \in (Shared(FilesOf) \cap OrigIncluded) \ Locked : follows(FilesOf, f)
        /\ \A k \in Shared(KeysOf) \cap OrigIncluded : follows(KeysOf, k)

\* A recorded package, config, group or repo op changes the projection: apply()
\* refuses or swallows the ones that would not (items 3.2 and 3.7).
RecordedOpsMatter ==
    [][\A c \in Client, op \in SubmittedOps :
         /\ Apply(c, op)
         /\ op.kind = "SetInclude"
         /\ op.item \in Package \cup Config \cup Group \cup Section
         => Project(Active)'.inc # Project(Active).inc]_vars

\* While no batch is active, no drop-in is included under a service row that is
\* excluded (validate_target's drop-in rule and the service cascade).
DropInsFollowService ==
    (\A i \in 1 .. cursor : timeline[i].kind # "Batch") =>
      \A d \in DropIn :
        UnitOf[d] \in Service /\ d \in Project(Active).inc => UnitOf[d] \in Project(Active).inc

\* A group renders as `dnf group install` only while every effective member is
\* included, and as excluded only while none is.
RenderStateSound ==
    \A g \in Group :
      LET inc == Project(Active).inc
      IN  /\ GroupState(Active, g) = "Renderable" =>
                GroupMembers(g) # {} /\ GroupMembers(g) \subseteq inc
          /\ GroupState(Active, g) = "Excluded" => GroupMembers(g) \cap inc = {}
=============================================================================
