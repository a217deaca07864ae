------------------------- MODULE RefineSessionProofs -------------------------
(***************************************************************************)
(* Theorems about RefineSession, for every snapshot, every set of tabs and *)
(* every bound.  First the session and its refinement of DurableHistory,   *)
(* where the projection (Project, Records) stays opaque: nothing depends   *)
(* on what an op does, only on when the session records it.  Then what a   *)
(* session projects: project_snapshot is a fold of the replay step over    *)
(* the active ops, and the properties follow by induction along the fold.  *)
(***************************************************************************)
EXTENDS RefineSession, InductionLemmas, TLAPS

-----------------------------------------------------------------------------
(* The entries and prefixes the actions build.                             *)

\* What apply(), apply_batch() and apply_directive() push is a timeline entry.
LEMMA EntriesTyped ==
    /\ \A op \in SubmittedOps : OpEntry(op) \in Entry
    /\ \A b \in SubmittedBatches : BatchEntry(BatchSurvivors(b)) \in Entry
    /\ \A g \in SubmittedGroups : ViewEntry(g) \in Entry
BY SubmittedAssumption, SurvivorsAssumption
   DEF Entry, OpEntry, BatchEntry, ViewEntry

\* recompute_view over timeline[..cursor] yields a well-typed view.
LEMMA ViewTyped ==
    ASSUME NEW tl \in Seq(Entry), NEW cur \in 0 .. Len(tl), NEW gen \in Nat, NEW ups \in Nat
    PROVE  /\ ViewOf(gen, tl, cur, ups) \in View
           /\ SubSeq(tl, 1, cur) \in Seq(Entry)
           /\ Len(SubSeq(tl, 1, cur)) = cur
<1>1. SubSeq(tl, 1, cur) \in Seq(Entry) /\ Len(SubSeq(tl, 1, cur)) = cur
  OBVIOUS
<1> QED BY <1>1 DEF ViewOf, View

\* Pushing an entry on the active prefix leaves the cursor at the end.
LEMMA PushTyped ==
    ASSUME NEW tl \in Seq(Entry), NEW cur \in 0 .. Len(tl), NEW e \in Entry
    PROVE  LET new == Append(SubSeq(tl, 1, cur), e)
           IN  new \in Seq(Entry) /\ cur + 1 \in 0 .. Len(new) /\ Len(new) = cur + 1
<1>1. SubSeq(tl, 1, cur) \in Seq(Entry) /\ Len(SubSeq(tl, 1, cur)) = cur
  OBVIOUS
<1> QED BY <1>1

\* Every step of a caller that is a mutation ends in Mutate with a timeline and
\* a cursor inside it.
LEMMA ClientStepMutates ==
    ASSUME TypeOK, NEW c \in Client, ClientStep(c)
    PROVE  up /\ \E tl \in Seq(Entry) : \E cur \in 0 .. Len(tl) : Mutate(c, tl, cur)
<1> USE DEF TypeOK
<1>1. ASSUME NEW e \in Entry, Push(c, e)
      PROVE  \E tl \in Seq(Entry) : \E cur \in 0 .. Len(tl) : Mutate(c, tl, cur)
  BY <1>1, PushTyped DEF Push, Active
<1>2. CASE \E op \in SubmittedOps : Apply(c, op)
  BY <1>1, <1>2, EntriesTyped DEF Apply
<1>3. CASE \E g \in SubmittedGroups : ApplyDirective(c, g)
  BY <1>1, <1>3, EntriesTyped DEF ApplyDirective
<1>4. CASE \E ops \in SubmittedBatches : ApplyBatch(c, ops)
  BY <1>1, <1>4, EntriesTyped DEF ApplyBatch
<1>5. CASE Undo(c)
  <2>1. cursor - 1 \in 0 .. Len(timeline)
    BY <1>5 DEF Undo
  <2> QED BY <1>5, <2>1 DEF Undo
<1>6. CASE Redo(c)
  <2>1. cursor + 1 \in 0 .. Len(timeline)
    BY <1>6 DEF Redo
  <2> QED BY <1>6, <2>1 DEF Redo
<1>7. CASE Reset(c)
  <2>1. <<>> \in Seq(Entry) /\ 0 \in 0 .. Len(<<>>)
    OBVIOUS
  <2> QED BY <1>7, <2>1 DEF Reset
<1> QED BY <1>2, <1>3, <1>4, <1>5, <1>6, <1>7 DEF ClientStep

-----------------------------------------------------------------------------
(* Type correctness.                                                       *)

\* A mutation keeps every variable in its type.
LEMMA MutateTypeOK ==
    ASSUME TypeOK, NEW c \in Client, NEW tl \in Seq(Entry), NEW cur \in 0 .. Len(tl),
           Mutate(c, tl, cur)
    PROVE  TypeOK'
<1> USE DEF TypeOK
<1>1. generation + 1 \in Nat /\ generation' \in Nat
  BY DEF Mutate
<1>2. view' \in View
  BY <1>1, ViewTyped DEF Mutate
<1>3. seen' \in [Tab -> Answer \cup {NoView}]
  BY <1>2 DEF Mutate, Response, Answer
<1>4. TryAutosave(tl, cur)
  BY DEF Mutate
<1>5. degraded' \in BOOLEAN /\ saved' \in BOOLEAN
  BY <1>4, Zenon DEF TryAutosave
<1>6. [file |-> "saved", hash |-> tarball, timeline |-> tl, cursor |-> cur,
       validated |-> base] \in SavedState
  BY DEF SavedState
<1>7. sidecar' \in SavedState \cup {NoFile}
  BY <1>4, <1>6, Zenon DEF TryAutosave
<1> QED BY <1>1, <1>2, <1>3, <1>5, <1>7 DEF Mutate

\* Starting a session over a well-typed timeline keeps what it writes typed.
LEMMA StartTypeOK ==
    ASSUME TypeOK, NEW tl \in Seq(Entry), NEW cur \in 0 .. Len(tl), Start(tl, cur)
    PROVE  /\ up' \in BOOLEAN
           /\ {epoch', base', generation', uploads', tarball'} \subseteq Nat
           /\ timeline' \in Seq(Entry) /\ cursor' \in 0 .. Len(timeline')
           /\ view' \in View
           /\ UNCHANGED <<seen, exported, died>>
<1>1. view' \in View
  BY ViewTyped DEF Start
<1> QED BY <1>1 DEF Start, TypeOK, tabs

\* The cursor resume_from restores lies inside the restored timeline.
LEMMA ClampedCursorTyped ==
    ASSUME NEW file \in SavedState
    PROVE  /\ file.timeline \in Seq(Entry)
           /\ ClampedCursor(file) \in 0 .. Len(file.timeline)
           /\ file.cursor <= Len(file.timeline) => ClampedCursor(file) = file.cursor
<1>1. file.timeline \in Seq(Entry) /\ file.cursor \in Nat
  BY DEF SavedState
<1>2. Len(file.timeline) \in Nat
  BY <1>1
<1> QED BY <1>1, <1>2 DEF ClampedCursor

\* TypeOK is inductive on its own.
LEMMA TypeOKStep == TypeOK /\ [Next]_vars => TypeOK'
<1> SUFFICES ASSUME TypeOK, [Next]_vars PROVE TypeOK'
  OBVIOUS
<1>0. <<>> \in Seq(Entry) /\ 0 \in 0 .. Len(<<>>) /\ 0 \in Nat
  OBVIOUS
<1>1. ASSUME NEW c \in Client, ClientStep(c) PROVE TypeOK'
  BY <1>1, ClientStepMutates, MutateTypeOK
<1>2. ASSUME NEW c \in Tab, GetView(c) PROVE TypeOK'
  BY <1>2 DEF GetView, TypeOK, Response, Answer, session, disk, history
<1>3. ASSUME NEW c \in Tab, NEW ack \in BOOLEAN, Export(c, ack) PROVE TypeOK'
  <2>1. Active \in Seq(Entry)
    BY ViewTyped DEF Active, TypeOK
  <2>2. seen[c] \in Answer
    BY <1>3 DEF Export, TypeOK
  <2>3. exported' \in Archive
    BY <1>3, <2>1, <2>2 DEF Export, Archive, TypeOK
  <2> QED BY <1>3, <2>3 DEF Export, TypeOK, session, disk, history
<1>4. CASE ChangeUploads
  <2>1. generation + 1 \in Nat /\ uploads + 1 \in Nat
    BY DEF TypeOK
  <2>2. view' \in View
    BY <1>4, <2>1, ViewTyped DEF ChangeUploads, TypeOK
  <2> QED BY <1>4, <2>1, <2>2 DEF ChangeUploads, TypeOK, disk, tabs, history
<1>5. CASE StartFresh
  BY <1>0, <1>5, StartTypeOK DEF StartFresh, TypeOK
<1>6. CASE DiscardAndStart
  BY <1>0, <1>6, StartTypeOK DEF DiscardAndStart, TypeOK
<1>7. CASE ResumeSession
  <2>1. sidecar \in SavedState
    BY <1>7 DEF ResumeSession, TypeOK
  <2>2. /\ sidecar.timeline \in Seq(Entry)
        /\ ClampedCursor(sidecar) \in 0 .. Len(sidecar.timeline)
        /\ ClampedCursor(sidecar) \in Nat
    BY <2>1, ClampedCursorTyped
  <2>3. /\ sidecar' \in SavedState
        /\ degraded' \in BOOLEAN /\ saved' \in BOOLEAN
    BY <1>7, <2>1, <2>2 DEF ResumeSession, SavedState, TypeOK
  <2>4. Start(sidecar.timeline, ClampedCursor(sidecar))
    BY <1>7 DEF ResumeSession
  <2> QED BY <2>2, <2>3, <2>4, StartTypeOK DEF TypeOK
<1>8. CASE Crash
  <2>1. view' \in View
    BY <1>0, <1>8, ViewTyped DEF Crash
  <2>2. died' \in [timeline : Seq(Entry), cursor : Nat] \cup {NoFile}
    BY <1>8 DEF Crash, TypeOK
  <2> QED BY <1>0, <1>8, <2>1, <2>2 DEF Crash, TypeOK, disk, tabs
<1>9. CASE RewriteTarball
  BY <1>9 DEF RewriteTarball, TypeOK, session, tabs, history
<1>10. CASE UNCHANGED vars
  BY <1>10 DEF TypeOK, vars, session, disk, tabs, history
<1> QED BY <1>1, <1>2, <1>3, <1>4, <1>5, <1>6, <1>7, <1>8, <1>9, <1>10 DEF Next, TabStep

\* The first start-up finds every variable in its type.
LEMMA TypeOKInit == Init => TypeOK
<1> SUFFICES ASSUME Init PROVE TypeOK
  OBVIOUS
<1>0. <<>> \in Seq(Entry) /\ 0 \in 0 .. Len(<<>>) /\ 0 \in Nat
  OBVIOUS
<1>1. view \in View
  BY <1>0, ViewTyped DEF Init
<1> QED BY <1>0, <1>1 DEF Init, TypeOK

\* Every variable of the session, the disk and the tabs keeps its type, and the
\* cursor stays inside the timeline that RefineSession slices on every call.
THEOREM TypeCorrect == Spec => []TypeOK
<1> QED BY TypeOKInit, TypeOKStep, PTL DEF Spec

-----------------------------------------------------------------------------
(* The safety invariants, together: DeadStateSaved needs SavedMatches at a *)
(* crash, ExportedWasSeen needs SeenBounded at an export, and SeenBounded  *)
(* needs ViewCurrent whenever a response is built from the cached view.    *)

\* Between processes the sidecar holds what the dead process had saved.
DeadStateSaved ==
    ~up /\ died # NoFile =>
      /\ sidecar # NoFile
      /\ sidecar.timeline = died.timeline /\ sidecar.cursor = died.cursor

\* No tab holds a generation this process has not reached, and a tab that holds
\* the current one holds the current view.
SeenBounded ==
    \A t \in Tab : seen[t] # NoView =>
      /\ seen[t].epoch <= epoch
      /\ up /\ seen[t].epoch = epoch =>
           /\ seen[t].view.generation <= generation
           /\ seen[t].view.generation = generation => seen[t].view = view

IInv ==
    /\ TypeOK
    /\ ViewCurrent
    /\ SavedMatches
    /\ SidecarWellFormed
    /\ DeadStateSaved
    /\ SeenBounded
    /\ ExportedWasSeen

\* Before the first process nothing is saved, seen or exported.
LEMMA IInvInit == Init => IInv
<1> SUFFICES ASSUME Init PROVE IInv
  OBVIOUS
<1> QED BY TypeOKInit DEF Init, IInv, ViewCurrent, SavedMatches, SidecarWellFormed,
        DeadStateSaved, SeenBounded, ExportedWasSeen, NoFile, NoView

\* A mutation: the new view replaces the cached one and the caller's, at a
\* generation no tab has seen from this process.
LEMMA MutateIInv ==
    ASSUME IInv, up, NEW c \in Client, NEW tl \in Seq(Entry), NEW cur \in 0 .. Len(tl),
           Mutate(c, tl, cur)
    PROVE  IInv'
<1> USE DEF IInv
<1>1. TypeOK'
  BY MutateTypeOK
<1>2. ViewCurrent'
  BY DEF ViewCurrent, Mutate
<1>3. TryAutosave(tl, cur) /\ timeline' = tl /\ cursor' = cur
  BY DEF Mutate
<1>4. SavedMatches' /\ SidecarWellFormed'
  <2>1. CASE saved'
    <3>1. sidecar' = [file |-> "saved", hash |-> tarball, timeline |-> tl,
                      cursor |-> cur, validated |-> base]
      BY <1>3, <2>1, Zenon DEF TryAutosave
    <3> QED BY <1>3, <3>1 DEF SavedMatches, SidecarWellFormed, NoFile
  <2>2. CASE ~saved'
    <3>1. sidecar' = sidecar
      BY <1>3, <2>2, Zenon DEF TryAutosave
    <3> QED BY <2>2, <3>1 DEF SavedMatches, SidecarWellFormed
  <2> QED BY <2>1, <2>2
<1>5. DeadStateSaved'
  BY DEF DeadStateSaved, Mutate
<1>6. SeenBounded'
  <2> SUFFICES ASSUME NEW t \in Tab, seen'[t] # NoView
               PROVE  /\ seen'[t].epoch <= epoch
                      /\ seen'[t].epoch = epoch =>
                           /\ seen'[t].view.generation <= generation'
                           /\ seen'[t].view.generation = generation' => seen'[t].view = view'
    BY DEF SeenBounded, Mutate
  <2>1. epoch \in Nat /\ generation \in Nat /\ generation' = generation + 1
    BY DEF TypeOK, Mutate
  <2>2. CASE t = c
    <3>1. seen'[t] = Response(view')
      BY <2>2 DEF Mutate
    <3>2. view'.generation = generation'
      BY <1>2 DEF ViewCurrent, ViewOf
    <3> QED BY <2>1, <3>1, <3>2 DEF Response
  <2>3. CASE t # c
    <3>1. seen'[t] = seen[t]
      BY <2>3 DEF Mutate
    <3>2. seen[t] \in Answer
      BY <3>1 DEF TypeOK
    <3>3. seen[t].view.generation \in Nat
      BY <3>2 DEF Answer, View
    <3> QED BY <2>1, <3>1, <3>3 DEF SeenBounded
  <2> QED BY <2>2, <2>3
<1>7. ExportedWasSeen'
  BY DEF ExportedWasSeen, Mutate
<1> QED BY <1>1, <1>2, <1>4, <1>5, <1>6, <1>7

\* A start: the new process has an epoch no tab has heard from.
LEMMA StartIInv ==
    ASSUME IInv, NEW tl \in Seq(Entry), NEW cur \in 0 .. Len(tl), Start(tl, cur)
    PROVE  ViewCurrent' /\ DeadStateSaved' /\ SeenBounded' /\ ExportedWasSeen'
<1> USE DEF IInv
<1>1. ViewCurrent'
  BY DEF ViewCurrent, Start
<1>2. DeadStateSaved'
  BY DEF DeadStateSaved, Start
<1>3. SeenBounded'
  <2> SUFFICES ASSUME NEW t \in Tab, seen[t] # NoView
               PROVE  seen[t].epoch <= epoch + 1 /\ seen[t].epoch # epoch + 1
    BY DEF SeenBounded, Start, tabs
  <2>1. seen[t] \in Answer /\ epoch \in Nat
    BY DEF TypeOK
  <2>2. seen[t].epoch \in Nat /\ seen[t].epoch <= epoch
    BY <2>1 DEF SeenBounded, Answer
  <2> QED BY <2>1, <2>2
<1>4. ExportedWasSeen'
  BY DEF ExportedWasSeen, Start, tabs
<1> QED BY <1>1, <1>2, <1>3, <1>4

\* Every handler, start-up, crash and rewrite of the tarball keeps IInv.
LEMMA IInvStep == IInv /\ [Next]_vars => IInv'
<1> SUFFICES ASSUME IInv, [Next]_vars PROVE IInv'
  OBVIOUS
<1> USE DEF IInv
<1>t. TypeOK'
  BY TypeOKStep
<1>0. <<>> \in Seq(Entry) /\ 0 \in 0 .. Len(<<>>)
  OBVIOUS
<1>1. ASSUME NEW c \in Client, ClientStep(c) PROVE IInv'
  BY <1>1, ClientStepMutates, MutateIInv
<1>2. ASSUME NEW c \in Tab, GetView(c) PROVE IInv'
  <2>1. /\ UNCHANGED <<session, disk, exported, history>>
        /\ seen' = [seen EXCEPT ![c] = Response(view)]
    BY <1>2 DEF GetView
  <2>2. SeenBounded'
    <3>1. view.generation = generation /\ epoch <= epoch
      BY DEF ViewCurrent, ViewOf, TypeOK
    <3>2. /\ seen'[c] = Response(view)
          /\ \A t \in Tab : t # c => seen'[t] = seen[t]
          /\ generation <= generation
      BY <2>1 DEF TypeOK
    <3> QED BY <2>1, <3>1, <3>2 DEF SeenBounded, Response, session
  <2> QED BY <1>t, <2>1, <2>2 DEF ViewCurrent, SavedMatches, SidecarWellFormed,
          DeadStateSaved, ExportedWasSeen, session, disk, history
<1>3. ASSUME NEW c \in Tab, NEW ack \in BOOLEAN, Export(c, ack) PROVE IInv'
  <2>1. UNCHANGED <<session, disk, seen, history>>
    BY <1>3 DEF Export
  <2>2. ExportedWasSeen'
    <3>1. /\ exported'.epoch = epoch /\ exported'.active = Active
          /\ exported'.uploads = uploads /\ exported'.saw = seen[c]
      BY <1>3 DEF Export
    <3>2. seen[c].epoch = epoch => seen[c].view = view
      BY <1>3 DEF Export, SeenBounded
    <3>3. view.active = Active /\ view.uploads = uploads
      BY DEF ViewCurrent, ViewOf, Active
    <3> QED BY <3>1, <3>2, <3>3 DEF ExportedWasSeen
  <2> QED BY <1>t, <2>1, <2>2 DEF ViewCurrent, SavedMatches, SidecarWellFormed,
          DeadStateSaved, SeenBounded, session, disk, history
<1>4. CASE ChangeUploads
  <2>1. ViewCurrent'
    BY <1>4 DEF ViewCurrent, ChangeUploads
  <2>2. SeenBounded'
    <3> SUFFICES ASSUME NEW t \in Tab, seen[t] # NoView, up, seen[t].epoch = epoch
                 PROVE  /\ seen[t].view.generation <= generation + 1
                        /\ seen[t].view.generation # generation + 1
      BY <1>4 DEF ChangeUploads, SeenBounded, tabs
    <3>1. seen[t] \in Answer /\ generation \in Nat
      BY DEF TypeOK
    <3>2. seen[t].view.generation \in Nat /\ seen[t].view.generation <= generation
      BY <3>1 DEF SeenBounded, Answer, View
    <3> QED BY <3>1, <3>2
  <2> QED BY <1>t, <1>4, <2>1, <2>2 DEF ChangeUploads, SavedMatches, SidecarWellFormed,
          DeadStateSaved, ExportedWasSeen, disk, tabs, history
<1>5. CASE StartFresh
  <2>1. Start(<<>>, 0) /\ saved' = FALSE /\ sidecar' = sidecar
    BY <1>5 DEF StartFresh
  <2> QED BY <1>t, <1>0, <2>1, StartIInv DEF SavedMatches, SidecarWellFormed
<1>6. CASE DiscardAndStart
  <2>1. Start(<<>>, 0) /\ saved' = FALSE /\ sidecar' \in {sidecar, NoFile}
    BY <1>6 DEF DiscardAndStart
  <2> QED BY <1>t, <1>0, <2>1, StartIInv DEF SavedMatches, SidecarWellFormed
<1>7. CASE ResumeSession
  <2>1. /\ sidecar \in SavedState /\ sidecar # NoFile
        /\ Start(sidecar.timeline, ClampedCursor(sidecar))
    BY <1>7 DEF ResumeSession, TypeOK
  <2>2. /\ sidecar.timeline \in Seq(Entry)
        /\ ClampedCursor(sidecar) \in 0 .. Len(sidecar.timeline)
        /\ ClampedCursor(sidecar) = sidecar.cursor
    BY <2>1, ClampedCursorTyped DEF SidecarWellFormed
  <2>3. SavedMatches' /\ SidecarWellFormed'
    <3>1. timeline' = sidecar.timeline /\ cursor' = sidecar.cursor
      BY <2>1, <2>2 DEF Start
    <3>2. CASE saved'
      <4>1. sidecar' = [sidecar EXCEPT !.cursor = ClampedCursor(sidecar), !.hash = tarball]
        BY <1>7, <3>2 DEF ResumeSession
      <4>2. /\ sidecar' \in SavedState
            /\ sidecar'.timeline = sidecar.timeline /\ sidecar'.cursor = sidecar.cursor
        BY <2>1, <2>2, <4>1 DEF SavedState, TypeOK
      <4>3. sidecar' # NoFile
        BY <4>2 DEF SavedState, NoFile
      <4> QED BY <3>1, <4>2, <4>3, <2>1 DEF SavedMatches, SidecarWellFormed
    <3>3. CASE ~saved'
      <4>1. sidecar' = sidecar
        BY <1>7, <3>3 DEF ResumeSession
      <4> QED BY <3>3, <4>1 DEF SavedMatches, SidecarWellFormed
    <3> QED BY <3>2, <3>3
  <2> QED BY <1>t, <2>1, <2>2, <2>3, StartIInv
<1>8. CASE Crash
  <2>1. ViewCurrent' /\ SeenBounded'
    <3>1. up' = FALSE /\ UNCHANGED <<epoch, disk, tabs>>
      BY <1>8 DEF Crash
    <3>2. SeenBounded'
      BY <3>1 DEF SeenBounded, tabs
    <3> QED BY <1>8, <3>2 DEF Crash, ViewCurrent
  <2>2. DeadStateSaved'
    BY <1>8 DEF Crash, DeadStateSaved, SavedMatches, NoFile, disk
  <2> QED BY <1>t, <1>8, <2>1, <2>2 DEF Crash, SavedMatches, SidecarWellFormed,
          ExportedWasSeen, disk, tabs
<1>9. CASE RewriteTarball
  BY <1>t, <1>9 DEF RewriteTarball, ViewCurrent, SavedMatches, SidecarWellFormed,
     DeadStateSaved, SeenBounded, ExportedWasSeen, session, tabs, history
<1>10. CASE UNCHANGED vars
  BY <1>t, <1>10 DEF vars, ViewCurrent, SavedMatches, SidecarWellFormed,
     DeadStateSaved, SeenBounded, ExportedWasSeen, session, disk, tabs, history
<1> QED BY <1>1, <1>2, <1>3, <1>4, <1>5, <1>6, <1>7, <1>8, <1>9, <1>10 DEF Next, TabStep

\* The conjunction holds in every reachable state of the session.
THEOREM Invariance == Spec => []IInv
<1> QED BY IInvInit, IInvStep, PTL DEF Spec

\* The cached view is the one recompute_view would build, after every handler,
\* crash and restart.
THEOREM CachedViewCurrent == Spec => []ViewCurrent
<1>1. IInv => ViewCurrent
  BY DEF IInv
<1> QED BY <1>1, Invariance, PTL

\* A successful autosave leaves timeline, redo tail and cursor on disk, and no
\* sidecar ever holds a cursor past its timeline.
THEOREM SidecarFaithful == Spec => [](SavedMatches /\ SidecarWellFormed)
<1>1. IInv => SavedMatches /\ SidecarWellFormed
  BY DEF IInv
<1> QED BY <1>1, Invariance, PTL

\* An accepted export is what its tab last saw, for any number of tabs.
THEOREM ExportsSeen == Spec => []ExportedWasSeen
<1>1. IInv => ExportedWasSeen
  BY DEF IInv
<1> QED BY <1>1, Invariance, PTL

\* Resuming restores timeline, redo tail and cursor of a process that died after
\* a successful save.
THEOREM NothingSavedIsLost == Spec => CrashLosesNothingSaved
<1>1. IInv => (ResumeSession /\ died # NoFile =>
                 timeline' = died.timeline /\ cursor' = died.cursor)
  <2> SUFFICES ASSUME IInv, ResumeSession, died # NoFile
               PROVE  timeline' = died.timeline /\ cursor' = died.cursor
    OBVIOUS
  <2>1. /\ sidecar \in SavedState /\ ~up /\ sidecar # NoFile
        /\ timeline' = sidecar.timeline /\ cursor' = ClampedCursor(sidecar)
    BY DEF IInv, TypeOK, ResumeSession, Start
  <2>2. sidecar.timeline = died.timeline /\ sidecar.cursor = died.cursor
    BY <2>1 DEF IInv, DeadStateSaved
  <2>3. ClampedCursor(sidecar) = sidecar.cursor
    BY <2>1, ClampedCursorTyped DEF IInv, SidecarWellFormed
  <2> QED BY <2>1, <2>2, <2>3
<1> QED BY <1>1, Invariance, PTL DEF CrashLosesNothingSaved

\* Within one process the generation never falls, and grows with every change
\* of what a view shows.
THEOREM GenerationsNameStates == Spec => GenerationNamesState
<1> DEFINE Shown == <<Active, uploads, timeline>>
           Grows == generation' >= generation /\ (Shown' # Shown => generation' > generation)
<1>1. TypeOK /\ [Next]_vars => [up /\ up' => Grows]_vars
  <2> SUFFICES ASSUME TypeOK, Next, up, up' PROVE Grows
    OBVIOUS
  <2>0. generation \in Nat
    BY DEF TypeOK
  <2>1. ASSUME NEW c \in Client, ClientStep(c) PROVE Grows
    <3>1. generation' = generation + 1
      BY <2>1, ClientStepMutates DEF Mutate
    <3> QED BY <2>0, <3>1
  <2>2. CASE ChangeUploads
    BY <2>0, <2>2 DEF ChangeUploads
  <2>3. ASSUME UNCHANGED session PROVE Grows
    BY <2>0, <2>3 DEF session, Active
  <2>4. ASSUME NEW c \in Tab, TabStep(c) PROVE Grows
    BY <2>3, <2>4 DEF TabStep, GetView, Export
  <2>5. CASE RewriteTarball
    BY <2>3, <2>5 DEF RewriteTarball
  <2>6. StartFresh \/ DiscardAndStart \/ ResumeSession \/ Crash => FALSE
    BY DEF StartFresh, DiscardAndStart, ResumeSession, Crash, Start
  <2> HIDE DEF Grows
  <2> QED BY <2>1, <2>2, <2>4, <2>5, <2>6 DEF Next
<1> QED BY <1>1, TypeCorrect, PTL DEF Spec, GenerationNamesState

-----------------------------------------------------------------------------
(* Prefixes and tails                                                      *)

\* What a slice of a timeline is.
LEMMA Slice ==
    ASSUME NEW S, NEW tl \in Seq(S), NEW m \in 1 .. Len(tl) + 1, NEW n \in m - 1 .. Len(tl)
    PROVE  /\ SubSeq(tl, m, n) \in Seq(S) /\ Len(SubSeq(tl, m, n)) = n - m + 1
           /\ \A i \in 1 .. n - m + 1 : SubSeq(tl, m, n)[i] = tl[m + i - 1]
OBVIOUS

\* Two sequences with the same elements in the same places are equal.
LEMMA SameSequence ==
    ASSUME NEW S, NEW s \in Seq(S), NEW t \in Seq(S), Len(s) = Len(t),
           \A i \in 1 .. Len(s) : s[i] = t[i]
    PROVE  s = t
OBVIOUS

\* What an entry in front of, or behind, a sequence gives.
LEMMA Prepended ==
    ASSUME NEW S, NEW e \in S, NEW s \in Seq(S)
    PROVE  /\ <<e>> \o s \in Seq(S) /\ Len(<<e>> \o s) = Len(s) + 1 /\ (<<e>> \o s)[1] = e
           /\ \A i \in 2 .. Len(s) + 1 : (<<e>> \o s)[i] = s[i - 1]
OBVIOUS

\* What Append does to the entries of a sequence.
LEMMA Appended ==
    ASSUME NEW S, NEW e \in S, NEW s \in Seq(S)
    PROVE  /\ Append(s, e) \in Seq(S) /\ Len(Append(s, e)) = Len(s) + 1
           /\ Append(s, e)[Len(s) + 1] = e
           /\ \A i \in 1 .. Len(s) : Append(s, e)[i] = s[i]
OBVIOUS

\* What is left behind the first entry.
LEMMA TailOf ==
    ASSUME NEW S, NEW s \in Seq(S), s # <<>>
    PROVE  /\ Tail(s) \in Seq(S) /\ Len(Tail(s)) = Len(s) - 1
           /\ \A i \in 1 .. Len(s) - 1 : Tail(s)[i] = s[i + 1]
OBVIOUS

\* A push leaves the new entry last and nothing to redo.
LEMMA PushSlices ==
    ASSUME NEW S, NEW tl \in Seq(S), NEW cur \in 0 .. Len(tl), NEW e \in S
    PROVE  LET new == Append(SubSeq(tl, 1, cur), e)
           IN  SubSeq(new, 1, cur + 1) = new /\ RedoTail(new, cur + 1) = <<>>
<1> DEFINE new == Append(SubSeq(tl, 1, cur), e)
<1>1. SubSeq(tl, 1, cur) \in Seq(S) /\ Len(SubSeq(tl, 1, cur)) = cur
  OBVIOUS
<1>2. new \in Seq(S) /\ Len(new) = cur + 1
  BY <1>1
<1> HIDE DEF new
<1>3. SubSeq(new, 1, cur + 1) = new
  BY <1>2
<1>4. RedoTail(new, cur + 1) = <<>>
  BY <1>2 DEF RedoTail
<1> QED BY <1>3, <1>4 DEF new

\* Moving the cursor back hands the last entry that counts to the redo tail.
LEMMA UndoSlices ==
    ASSUME NEW S, NEW tl \in Seq(S), NEW cur \in 1 .. Len(tl)
    PROVE  LET past == SubSeq(tl, 1, cur)
           IN  /\ past # <<>> /\ Len(past) = cur
               /\ SubSeq(tl, 1, cur - 1) = SubSeq(past, 1, Len(past) - 1)
               /\ RedoTail(tl, cur - 1) = <<past[Len(past)]>> \o RedoTail(tl, cur)
<1> DEFINE past == SubSeq(tl, 1, cur)
           tail == SubSeq(tl, cur + 1, Len(tl))
<1>1. past \in Seq(S) /\ Len(past) = cur /\ \A i \in 1 .. cur : past[i] = tl[i]
  BY Slice
<1>2. tail \in Seq(S) /\ Len(tail) = Len(tl) - cur /\ \A i \in 1 .. Len(tl) - cur : tail[i] = tl[cur + i]
  BY Slice
<1> HIDE DEF past, tail
<1>3. SubSeq(tl, 1, cur - 1) = SubSeq(past, 1, cur - 1)
  <2> DEFINE s == SubSeq(tl, 1, cur - 1)
             t == SubSeq(past, 1, cur - 1)
  <2>1. s \in Seq(S) /\ Len(s) = cur - 1 /\ \A i \in 1 .. cur - 1 : s[i] = tl[i]
    BY Slice
  <2>2. t \in Seq(S) /\ Len(t) = cur - 1 /\ \A i \in 1 .. cur - 1 : t[i] = past[i]
    BY <1>1, Slice
  <2> HIDE DEF s, t
  <2>3. s = t
    BY <1>1, <2>1, <2>2, SameSequence
  <2> QED BY <2>3 DEF s, t
<1>4. SubSeq(tl, cur, Len(tl)) = <<past[cur]>> \o tail
  <2> DEFINE s == SubSeq(tl, cur, Len(tl))
             t == <<past[cur]>> \o tail
  <2>1. s \in Seq(S) /\ Len(s) = Len(tl) - cur + 1 /\ \A i \in 1 .. Len(tl) - cur + 1 : s[i] = tl[cur + i - 1]
    <3>1. cur \in 1 .. Len(tl) + 1 /\ Len(tl) \in cur - 1 .. Len(tl)
      OBVIOUS
    <3> QED BY <3>1, Slice
  <2>2. /\ t \in Seq(S) /\ Len(t) = Len(tl) - cur + 1 /\ t[1] = past[cur]
        /\ \A i \in 2 .. Len(tl) - cur + 1 : t[i] = tail[i - 1]
    <3>1. past[cur] \in S
      BY <1>1
    <3> QED BY <1>2, <3>1, Prepended
  <2> HIDE DEF s, t
  <2>3. \A i \in 1 .. Len(s) : s[i] = t[i]
    <3> SUFFICES ASSUME NEW i \in 1 .. Len(s) PROVE s[i] = t[i]
      OBVIOUS
    <3>1. CASE i = 1
      BY <1>1, <2>1, <2>2, <3>1
    <3>2. CASE i # 1
      BY <1>2, <2>1, <2>2, <3>2
    <3> QED BY <3>1, <3>2
  <2>4. s = t
    BY <2>1, <2>2, <2>3, SameSequence
  <2> QED BY <2>4 DEF s, t
<1>5. RedoTail(tl, cur - 1) = SubSeq(tl, cur, Len(tl)) /\ RedoTail(tl, cur) = tail
  BY DEF RedoTail, tail
<1> QED BY <1>1, <1>3, <1>4, <1>5 DEF past

\* Moving the cursor on takes the first entry of the redo tail.
LEMMA RedoSlices ==
    ASSUME NEW S, NEW tl \in Seq(S), NEW cur \in 0 .. Len(tl) - 1
    PROVE  LET future == RedoTail(tl, cur)
           IN  /\ future # <<>>
               /\ SubSeq(tl, 1, cur + 1) = Append(SubSeq(tl, 1, cur), future[1])
               /\ RedoTail(tl, cur + 1) = Tail(future)
<1> DEFINE past == SubSeq(tl, 1, cur)
           tail == SubSeq(tl, cur + 1, Len(tl))
<1>1. past \in Seq(S) /\ Len(past) = cur /\ \A i \in 1 .. cur : past[i] = tl[i]
  BY Slice
<1>2. tail \in Seq(S) /\ Len(tail) = Len(tl) - cur /\ \A i \in 1 .. Len(tl) - cur : tail[i] = tl[cur + i]
  BY Slice
<1> HIDE DEF past, tail
<1>3. SubSeq(tl, 1, cur + 1) = Append(past, tail[1])
  <2> DEFINE s == SubSeq(tl, 1, cur + 1)
             t == Append(past, tail[1])
  <2>1. s \in Seq(S) /\ Len(s) = cur + 1 /\ \A i \in 1 .. cur + 1 : s[i] = tl[i]
    <3>1. 1 \in 1 .. Len(tl) + 1 /\ cur + 1 \in 1 - 1 .. Len(tl)
      OBVIOUS
    <3>2. /\ s \in Seq(S) /\ Len(s) = (cur + 1) - 1 + 1
          /\ \A i \in 1 .. (cur + 1) - 1 + 1 : s[i] = tl[1 + i - 1]
      BY <3>1, Slice
    <3> QED BY <3>2
  <2>2. /\ t \in Seq(S) /\ Len(t) = cur + 1 /\ t[cur + 1] = tail[1]
        /\ \A i \in 1 .. cur : t[i] = past[i]
    <3>1. tail[1] \in S
      BY <1>2
    <3> QED BY <1>1, <3>1, Appended
  <2> HIDE DEF s, t
  <2>3. \A i \in 1 .. Len(s) : s[i] = t[i]
    <3> SUFFICES ASSUME NEW i \in 1 .. Len(s) PROVE s[i] = t[i]
      OBVIOUS
    <3>1. CASE i = cur + 1
      BY <1>2, <2>1, <2>2, <3>1
    <3>2. CASE i # cur + 1
      BY <1>1, <2>1, <2>2, <3>2
    <3> QED BY <3>1, <3>2
  <2>4. s = t
    BY <2>1, <2>2, <2>3, SameSequence
  <2> QED BY <2>4 DEF s, t
<1>4. SubSeq(tl, cur + 2, Len(tl)) = Tail(tail)
  <2> DEFINE s == SubSeq(tl, cur + 2, Len(tl))
             t == Tail(tail)
  <2>1. s \in Seq(S) /\ Len(s) = Len(tl) - cur - 1 /\ \A i \in 1 .. Len(tl) - cur - 1 : s[i] = tl[cur + 1 + i]
    <3>1. cur + 2 \in 1 .. Len(tl) + 1 /\ Len(tl) \in (cur + 2) - 1 .. Len(tl)
      OBVIOUS
    <3>2. /\ s \in Seq(S) /\ Len(s) = Len(tl) - (cur + 2) + 1
          /\ \A i \in 1 .. Len(tl) - (cur + 2) + 1 : s[i] = tl[(cur + 2) + i - 1]
      BY <3>1, Slice
    <3> QED BY <3>2
  <2>2. /\ t \in Seq(S) /\ Len(t) = Len(tl) - cur - 1
        /\ \A i \in 1 .. Len(tl) - cur - 1 : t[i] = tail[i + 1]
    <3>1. tail # <<>>
      BY <1>2
    <3> QED BY <1>2, <3>1, TailOf
  <2> HIDE DEF s, t
  <2>3. \A i \in 1 .. Len(s) : s[i] = t[i]
    <3> SUFFICES ASSUME NEW i \in 1 .. Len(s) PROVE s[i] = t[i]
      OBVIOUS
    <3>1. i \in 1 .. Len(tl) - cur - 1 /\ i + 1 \in 1 .. Len(tl) - cur
      BY <2>1
    <3>2. tail[i + 1] = tl[cur + (i + 1)] /\ cur + (i + 1) = cur + 1 + i
      BY <1>2, <3>1
    <3> QED BY <2>1, <2>2, <3>1, <3>2
  <2>4. s = t
    BY <2>1, <2>2, <2>3, SameSequence
  <2> QED BY <2>4 DEF s, t
<1>5. RedoTail(tl, cur + 1) = SubSeq(tl, cur + 2, Len(tl)) /\ RedoTail(tl, cur) = tail
  BY DEF RedoTail, tail
<1>6. tail # <<>>
  BY <1>2
<1> QED BY <1>3, <1>4, <1>5, <1>6 DEF past

-----------------------------------------------------------------------------
(* The refinement mapping                                                  *)

\* The copy a sidecar stands for.
StoredIn(file) ==
    IF file = NoFile THEN <<>>
    ELSE <<SubSeq(file.timeline, 1, ClampedCursor(file)),
           RedoTail(file.timeline, ClampedCursor(file))>>

\* A save that succeeds leaves a copy of the new history, one that fails the old.
LEMMA SavePersists ==
    ASSUME NEW tl \in Seq(Entry), NEW cur \in 0 .. Len(tl), TryAutosave(tl, cur),
           timeline' = tl, cursor' = cur
    PROVE  History!Persist
<1>1. sidecar' = sidecar \/ (sidecar'.timeline = tl /\ sidecar'.cursor = cur /\ sidecar'.file = "saved")
  BY DEF TryAutosave
<1>2. CASE sidecar' = sidecar
  BY <1>2, Zenon DEF History!Persist, ClampedCursor
<1>3. CASE sidecar'.timeline = tl /\ sidecar'.cursor = cur /\ sidecar'.file = "saved"
  <2>1. sidecar' # NoFile /\ ClampedCursor(sidecar') = cur
    BY <1>3 DEF NoFile, ClampedCursor
  <2>2. StoredIn(sidecar') = <<SubSeq(tl, 1, cur), RedoTail(tl, cur)>>
    BY <1>3, <2>1 DEF StoredIn
  <2>3. StoredIn(sidecar') = <<Active', RedoTail(timeline, cursor)'>>
    BY <2>2 DEF Active, RedoTail
  <2> QED BY <2>3, Zenon DEF History!Persist, History!Copy, StoredIn, RedoTail, ClampedCursor
<1> QED BY <1>1, <1>2, <1>3

\* A push is the record of an entry, the undone ones dropped.
LEMMA PushRecords ==
    ASSUME TypeOK, up, NEW c \in Client, NEW e \in Recordable \cap Entry, Push(c, e)
    PROVE  History!Change
<1> DEFINE new == Append(Active, e)
<1>1. timeline \in Seq(Entry) /\ cursor \in 0 .. Len(timeline)
  BY DEF TypeOK
<1>2. timeline' = new /\ cursor' = cursor + 1 /\ up' = up /\ TryAutosave(new, cursor + 1)
  BY DEF Push, Mutate
<1>3. new \in Seq(Entry) /\ cursor + 1 \in 0 .. Len(new)
  BY <1>1, PushTyped DEF Active
<1>4. SubSeq(new, 1, cursor + 1) = new /\ RedoTail(new, cursor + 1) = <<>>
  BY <1>1, PushSlices DEF Active
<1>5. History!Persist
  BY <1>2, <1>3, SavePersists
<1>6. Active' = Append(Active, e) /\ RedoTail(timeline, cursor)' = <<>>
  BY <1>2, <1>4 DEF Active, RedoTail
<1> QED BY <1>2, <1>5, <1>6, Zenon DEF History!Change, History!Record, RedoTail

\* undo moves the last entry of the past to the front of the future.
LEMMA UndoUndoes ==
    ASSUME TypeOK, NEW c \in Client, Undo(c)
    PROVE  History!Change
<1>1. timeline \in Seq(Entry) /\ cursor \in 0 .. Len(timeline) /\ cursor - 1 \in 0 .. Len(timeline)
  BY DEF TypeOK, Undo
<1>2. up /\ timeline' = timeline /\ cursor' = cursor - 1 /\ up' = up /\ TryAutosave(timeline, cursor - 1)
  BY DEF Undo, Mutate
<1>3. History!Persist
  BY <1>1, <1>2, SavePersists
<1>4. /\ Active # <<>>
      /\ SubSeq(timeline, 1, cursor - 1) = SubSeq(Active, 1, Len(Active) - 1)
      /\ RedoTail(timeline, cursor - 1) = <<Active[Len(Active)]>> \o RedoTail(timeline, cursor)
  BY <1>1, UndoSlices DEF Active, Undo
<1>5. /\ Active' = SubSeq(Active, 1, Len(Active) - 1)
      /\ RedoTail(timeline, cursor)' = <<Active[Len(Active)]>> \o RedoTail(timeline, cursor)
  BY <1>2, <1>4 DEF Active, RedoTail
<1> QED BY <1>2, <1>3, <1>4, <1>5, Zenon DEF History!Change, History!Undo, RedoTail

\* redo moves the first entry of the future back to the past.
LEMMA RedoRedoes ==
    ASSUME TypeOK, NEW c \in Client, Redo(c)
    PROVE  History!Change
<1>1. timeline \in Seq(Entry) /\ cursor \in 0 .. Len(timeline) - 1 /\ cursor + 1 \in 0 .. Len(timeline)
  BY DEF TypeOK, Redo
<1>2. up /\ timeline' = timeline /\ cursor' = cursor + 1 /\ up' = up /\ TryAutosave(timeline, cursor + 1)
  BY DEF Redo, Mutate
<1>3. History!Persist
  BY <1>1, <1>2, SavePersists
<1>4. /\ RedoTail(timeline, cursor) # <<>>
      /\ SubSeq(timeline, 1, cursor + 1) = Append(Active, RedoTail(timeline, cursor)[1])
      /\ RedoTail(timeline, cursor + 1) = Tail(RedoTail(timeline, cursor))
  BY <1>1, RedoSlices DEF Active
<1>5. /\ Active' = Append(Active, RedoTail(timeline, cursor)[1])
      /\ RedoTail(timeline, cursor)' = Tail(RedoTail(timeline, cursor))
  BY <1>2, <1>4 DEF Active, RedoTail
<1> QED BY <1>2, <1>3, <1>4, <1>5, Zenon DEF History!Change, History!Redo, RedoTail

\* reset forgets past and future alike.
LEMMA ResetResets ==
    ASSUME TypeOK, NEW c \in Client, Reset(c)
    PROVE  History!Change
<1>1. <<>> \in Seq(Entry) /\ 0 \in 0 .. Len(<<>>) /\ SubSeq(<<>>, 1, 0) = <<>> /\ RedoTail(<<>>, 0) = <<>>
  BY DEF RedoTail
<1>2. up /\ timeline' = <<>> /\ cursor' = 0 /\ up' = up /\ TryAutosave(<<>>, 0)
  BY DEF Reset, Mutate
<1>3. History!Persist
  BY <1>1, <1>2, SavePersists
<1>4. Active \o RedoTail(timeline, cursor) # <<>>
  <2>1. timeline \in Seq(Entry) /\ cursor \in 0 .. Len(timeline) /\ Len(timeline) > 0
    BY DEF TypeOK, Reset
  <2>2. Active \in Seq(Entry) /\ Len(Active) = cursor
    BY <2>1 DEF Active
  <2>3. RedoTail(timeline, cursor) \in Seq(Entry) /\ Len(RedoTail(timeline, cursor)) = Len(timeline) - cursor
    BY <2>1, Slice DEF RedoTail
  <2>4. Len(Active \o RedoTail(timeline, cursor)) = Len(timeline)
    BY <2>1, <2>2, <2>3
  <2> QED BY <2>1, <2>4
<1>5. Active' = <<>> /\ RedoTail(timeline, cursor)' = <<>>
  BY <1>1, <1>2 DEF Active, RedoTail
<1> QED BY <1>2, <1>3, <1>4, <1>5, Zenon DEF History!Change, History!Reset, RedoTail

\* Every mutation of a caller is one change of the history.
LEMMA ClientStepChanges ==
    ASSUME TypeOK, NEW c \in Client, ClientStep(c)
    PROVE  History!Change
<1>1. ASSUME NEW op \in SubmittedOps, Apply(c, op) PROVE History!Change
  <2>1. OpEntry(op) \in Recordable \cap Entry
    BY EntriesTyped DEF Recordable
  <2> QED BY <1>1, <2>1, PushRecords DEF Apply
<1>2. ASSUME NEW g \in SubmittedGroups, ApplyDirective(c, g) PROVE History!Change
  <2>1. ViewEntry(g) \in Recordable \cap Entry
    BY EntriesTyped DEF Recordable
  <2> QED BY <1>2, <2>1, PushRecords DEF ApplyDirective
<1>3. ASSUME NEW ops \in SubmittedBatches, ApplyBatch(c, ops) PROVE History!Change
  <2>1. BatchEntry(BatchSurvivors(ops)) \in Recordable \cap Entry
    BY EntriesTyped DEF Recordable
  <2> QED BY <1>3, <2>1, PushRecords DEF ApplyBatch
<1> QED BY <1>1, <1>2, <1>3, UndoUndoes, RedoRedoes, ResetResets DEF ClientStep

\* A start without the sidecar's history is an empty one.
LEMMA EmptyStartOpens ==
    ASSUME Start(<<>>, 0), sidecar' \in {sidecar, NoFile}
    PROVE  History!OpenEmpty
<1>1. ~up /\ up' = TRUE /\ timeline' = <<>> /\ cursor' = 0
  BY DEF Start
<1>2. SubSeq(<<>>, 1, 0) = <<>> /\ RedoTail(<<>>, 0) = <<>>
  BY DEF RedoTail
<1>3. Active' = <<>> /\ RedoTail(timeline, cursor)' = <<>>
  BY <1>1, <1>2 DEF Active, RedoTail
<1> QED BY <1>1, <1>3, Zenon DEF History!OpenEmpty, History!NoCopy, RedoTail, ClampedCursor

\* Resuming continues exactly what the sidecar holds, and the confirming save
\* changes nothing in it.
LEMMA ResumeOpensCopy ==
    ASSUME TypeOK, ResumeSession
    PROVE  History!OpenCopy
<1> DEFINE tl == sidecar.timeline
           cur == ClampedCursor(sidecar)
<1>1. sidecar # NoFile /\ ~up /\ up' = TRUE /\ timeline' = tl /\ cursor' = cur
  BY DEF ResumeSession, Start
<1>2. sidecar \in SavedState /\ tl \in Seq(Entry) /\ cur \in 0 .. Len(tl)
  BY <1>1, ClampedCursorTyped DEF TypeOK
<1>3. sidecar' = sidecar \/ sidecar' = [sidecar EXCEPT !.cursor = cur, !.hash = tarball]
  BY DEF ResumeSession
<1> HIDE DEF cur
<1>4. sidecar' # NoFile /\ sidecar'.timeline = tl /\ ClampedCursor(sidecar') = cur
  <2>1. CASE sidecar' = sidecar
    BY <1>1, <2>1 DEF cur
  <2>2. CASE sidecar' = [sidecar EXCEPT !.cursor = cur, !.hash = tarball]
    <3>1. sidecar'.timeline = tl /\ sidecar'.cursor = cur /\ sidecar'.file = "saved"
      BY <1>2, <2>2 DEF SavedState
    <3> QED BY <1>2, <3>1 DEF NoFile, ClampedCursor
  <2> QED BY <1>3, <2>1, <2>2
<1>5. /\ StoredIn(sidecar) = <<SubSeq(tl, 1, cur), RedoTail(tl, cur)>>
      /\ StoredIn(sidecar') = <<SubSeq(tl, 1, cur), RedoTail(tl, cur)>>
  BY <1>1, <1>4, Zenon DEF StoredIn, cur
<1>6. <<Active', RedoTail(timeline, cursor)'>> = StoredIn(sidecar)
  BY <1>1, <1>5 DEF Active, RedoTail
<1>7. StoredIn(sidecar) # <<>>
  BY <1>5
<1>8. StoredIn(sidecar)' = StoredIn(sidecar)
  BY <1>5 DEF StoredIn, RedoTail, ClampedCursor
<1> QED BY <1>1, <1>6, <1>7, <1>8, Zenon
    DEF History!OpenCopy, History!Copy, History!NoCopy, StoredIn, RedoTail, ClampedCursor

\* A crash stops the history.
LEMMA CrashStops ==
    ASSUME Crash
    PROVE  History!Stop
<1>1. up /\ up' = FALSE /\ timeline' = <<>> /\ cursor' = 0 /\ sidecar' = sidecar
  BY DEF Crash, disk
<1>2. SubSeq(<<>>, 1, 0) = <<>> /\ RedoTail(<<>>, 0) = <<>>
  BY DEF RedoTail
<1>3. Active' = <<>> /\ RedoTail(timeline, cursor)' = <<>>
  BY <1>1, <1>2 DEF Active, RedoTail
<1> QED BY <1>1, <1>3, Zenon DEF History!Stop, RedoTail, ClampedCursor

\* What touches neither the history nor its copy is a stutter.
LEMMA OtherStutters ==
    ASSUME UNCHANGED <<up, timeline, cursor, sidecar>>
    PROVE  UNCHANGED History!vars
BY Zenon DEF History!vars, Active, RedoTail, ClampedCursor

\* The timeline, the cursor and the sidecar of a refine session implement the
\* durable undo history: every handler, failed save, start-up, crash and
\* rewrite of the tarball is one of its steps or changes nothing in it.
THEOREM SessionImplementsHistory == Spec => ImplementsHistory
<1>1. Init => History!Init
  <2> SUFFICES ASSUME Init PROVE History!Init
    OBVIOUS
  <2>1. up = FALSE /\ timeline = <<>> /\ cursor = 0 /\ sidecar = NoFile
    BY DEF Init
  <2>2. SubSeq(<<>>, 1, 0) = <<>> /\ RedoTail(<<>>, 0) = <<>>
    BY DEF RedoTail
  <2> QED BY <2>1, <2>2 DEF History!Init, History!NoCopy, Active
<1>2. TypeOK /\ [Next]_vars => [History!Next]_(History!vars)
  <2> SUFFICES ASSUME TypeOK, [Next]_vars PROVE [History!Next]_(History!vars)
    OBVIOUS
  <2>1. CASE \E c \in Client : ClientStep(c)
    BY <2>1, ClientStepChanges DEF History!Next
  <2>2. CASE \E c \in Tab : TabStep(c)
    BY <2>2, OtherStutters DEF TabStep, GetView, Export, session, disk
  <2>3. CASE ChangeUploads \/ RewriteTarball
    BY <2>3, OtherStutters DEF ChangeUploads, RewriteTarball, session, disk
  <2>4. CASE StartFresh \/ DiscardAndStart
    BY <2>4, EmptyStartOpens DEF StartFresh, DiscardAndStart, History!Next
  <2>5. CASE ResumeSession
    BY <2>5, ResumeOpensCopy DEF History!Next
  <2>6. CASE Crash
    BY <2>6, CrashStops DEF History!Next
  <2>7. CASE UNCHANGED vars
    BY <2>7, OtherStutters DEF vars, session, disk
  <2> QED BY <2>1, <2>2, <2>3, <2>4, <2>5, <2>6, <2>7 DEF Next
<1> QED BY <1>1, <1>2, TypeCorrect, PTL DEF Spec, ImplementsHistory, History!Spec

-----------------------------------------------------------------------------
(* Types of the replay                                                     *)

Everything == Item \cup Carried

Password == [choice : {"unset", "new", "none", "preserve"}, hash : {"none", "orig", "fresh"}]

Snapshot == [inc : SUBSET Everything, users : [User -> Password]]

\* The entries a toggle writes, kind by kind.
LEMMA CascadeKinds ==
    ASSUME NEW item \in Item, NEW include, NEW excluded
    PROVE  /\ item \in Section => CascadeOf(item, include, excluded) = RepoCascade(item, include, excluded)
           /\ item \in Group => CascadeOf(item, include, excluded) =
                {p \in Package : NameOf[p] \in Members[item] /\ ~(include /\ p \in Locked)}
           /\ item \in Service => CascadeOf(item, include, excluded) = {item} \cup {d \in DropIn : UnitOf[d] = item}
           /\ item \in Config => CascadeOf(item, include, excluded) = {item} \ FixedConfig
           /\ item \notin Section \cup Group \cup Service \cup Config =>
                CascadeOf(item, include, excluded) = {item}
<1>0. /\ item \in Section => item \notin Group \cup Service \cup Config
      /\ item \in Group => item \notin Section \cup Service \cup Config
      /\ item \in Service => item \notin Section \cup Group \cup Config
      /\ item \in Config => item \notin Section \cup Group \cup Service
  BY KindAssumption
<1>1. CASE item \in Section
  BY <1>0, <1>1, Zenon DEF CascadeOf
<1>2. CASE item \in Group
  BY <1>0, <1>2, Zenon DEF CascadeOf
<1>3. CASE item \in Service
  BY <1>0, <1>3, Zenon DEF CascadeOf
<1>4. CASE item \in Config
  BY <1>0, <1>4, Zenon DEF CascadeOf
<1>5. CASE item \notin Section \cup Group \cup Service \cup Config
  BY <1>5, Zenon DEF CascadeOf
<1> QED BY <1>1, <1>2, <1>3, <1>4, <1>5

\* A toggle writes entries of the snapshot only.
LEMMA CascadeTyped ==
    ASSUME NEW item \in Item, NEW include, NEW excluded
    PROVE  CascadeOf(item, include, excluded) \subseteq Everything
<1>1. CASE item \in Section
  BY <1>1, CascadeKinds, SnapshotAssumption DEF RepoCascade, Everything, Carried, Item
<1>2. CASE item \notin Section
  BY <1>2, CascadeKinds DEF Everything, Item
<1> QED BY <1>1, <1>2

\* One step of the replay, op by op.
LEMMA StepKinds ==
    ASSUME NEW snap \in Snapshot, NEW op \in RefinementOp, NEW excluded
    PROVE  \/ /\ op \in PasswordOp
              /\ ReplayStep(snap, op, excluded) =
                   [snap EXCEPT !.users[op.user] = PasswordAfter(@, op.choice, op.user)]
           \/ /\ op \in SetIncludeOp /\ op.include /\ IsItemLocked(op.item)
              /\ ReplayStep(snap, op, excluded) = snap
           \/ /\ op \in SetIncludeOp /\ ~(op.include /\ IsItemLocked(op.item))
              /\ ReplayStep(snap, op, excluded) =
                   [snap EXCEPT !.inc = ToggledTo(@, CascadeOf(op.item, op.include, excluded), op.include)]
<1>1. CASE op \in PasswordOp
  <2>1. op.kind = "UserPassword"
    BY <1>1 DEF PasswordOp
  <2>2. ReplayStep(snap, op, excluded) =
          [snap EXCEPT !.users[op.user] = PasswordAfter(@, op.choice, op.user)]
    BY <2>1, Zenon DEF ReplayStep
  <2> QED BY <1>1, <2>2
<1>2. CASE op \in SetIncludeOp
  <2>1. op.kind = "SetInclude"
    BY <1>2 DEF SetIncludeOp
  <2>2. CASE op.include /\ IsItemLocked(op.item)
    <3>1. ReplayStep(snap, op, excluded) = snap
      BY <2>1, <2>2, Zenon DEF ReplayStep
    <3> QED BY <1>2, <2>2, <3>1
  <2>3. CASE ~(op.include /\ IsItemLocked(op.item))
    <3>1. ReplayStep(snap, op, excluded) =
            [snap EXCEPT !.inc = ToggledTo(@, CascadeOf(op.item, op.include, excluded), op.include)]
      BY <2>1, <2>3, Zenon DEF ReplayStep
    <3> QED BY <1>2, <2>3, <3>1
  <2> QED BY <2>2, <2>3
<1> QED BY <1>1, <1>2 DEF RefinementOp

\* What a password choice leaves.
LEMMA PasswordTyped ==
    ASSUME NEW pw \in Password, NEW u \in User,
           NEW choice \in {"new_hash", "new_bare", "none", "preserve"}
    PROVE  /\ PasswordAfter(pw, choice, u) \in Password
           /\ (pw.hash = "fresh" => pw.choice = "new") =>
                (PasswordAfter(pw, choice, u).hash = "fresh" => PasswordAfter(pw, choice, u).choice = "new")
<1>0. OrigHash[u] \in {"none", "orig"}
  BY SnapshotAssumption
<1>1. CASE choice = "new_hash"
  <2>1. PasswordAfter(pw, choice, u) = [choice |-> "new", hash |-> "fresh"]
    BY <1>1, Zenon DEF PasswordAfter
  <2> QED BY <2>1 DEF Password
<1>2. CASE choice = "new_bare"
  <2>1. PasswordAfter(pw, choice, u) = [pw EXCEPT !.choice = "new"]
    BY <1>2, Zenon DEF PasswordAfter
  <2> QED BY <2>1 DEF Password
<1>3. CASE choice = "none"
  <2>1. PasswordAfter(pw, choice, u) = [choice |-> "none", hash |-> "none"]
    BY <1>3, Zenon DEF PasswordAfter
  <2> QED BY <2>1 DEF Password
<1>4. CASE choice = "preserve"
  <2>1. PasswordAfter(pw, choice, u) = [choice |-> "preserve", hash |-> OrigHash[u]]
    BY <1>4, Zenon DEF PasswordAfter
  <2> QED BY <1>0, <2>1 DEF Password
<1> QED BY <1>1, <1>2, <1>3, <1>4

\* The replay stays among snapshots.
LEMMA StepTyped ==
    ASSUME NEW snap \in Snapshot, NEW op \in RefinementOp, NEW excluded
    PROVE  ReplayStep(snap, op, excluded) \in Snapshot
<1>1. CASE /\ op \in PasswordOp
           /\ ReplayStep(snap, op, excluded) =
                [snap EXCEPT !.users[op.user] = PasswordAfter(@, op.choice, op.user)]
  <2>1. op.user \in User /\ op.choice \in {"new_hash", "new_bare", "none", "preserve"}
    BY <1>1 DEF PasswordOp
  <2>2. snap.users[op.user] \in Password
    BY <2>1 DEF Snapshot
  <2>3. PasswordAfter(snap.users[op.user], op.choice, op.user) \in Password
    BY <2>1, <2>2, PasswordTyped
  <2> QED BY <1>1, <2>1, <2>3 DEF Snapshot
<1>2. CASE ReplayStep(snap, op, excluded) = snap
  BY <1>2
<1>3. CASE /\ op \in SetIncludeOp
           /\ ReplayStep(snap, op, excluded) =
                [snap EXCEPT !.inc = ToggledTo(@, CascadeOf(op.item, op.include, excluded), op.include)]
  <2>1. op.item \in Item
    BY <1>3 DEF SetIncludeOp
  <2>2. CascadeOf(op.item, op.include, excluded) \subseteq Everything
    BY <2>1, CascadeTyped
  <2>3. ToggledTo(snap.inc, CascadeOf(op.item, op.include, excluded), op.include) \in SUBSET Everything
    BY <2>2 DEF ToggledTo, Snapshot
  <2> QED BY <1>3, <2>3 DEF Snapshot
<1> QED BY <1>1, <1>2, <1>3, StepKinds

\* The scan baseline is a snapshot.
LEMMA OriginalTyped == Original \in Snapshot
BY SnapshotAssumption DEF Original, Snapshot, Password, Everything

-----------------------------------------------------------------------------
(* The two folds, as traces over the prefixes of the ops                   *)

\* The snapshots a replay goes through.
ReplayTrace(ops, excluded, h) ==
    /\ h \in [0 .. Len(ops) -> Snapshot] /\ h[0] = Original
    /\ \A k \in 0 .. Len(ops) - 1 : h[k + 1] = ReplayStep(h[k], ops[k + 1], excluded)

\* The excluded sections after each op.
ExcludedStep(excluded, op) ==
    IF op.kind = "SetInclude" /\ op.item \in Section
    THEN ToggledTo(excluded, {op.item}, ~op.include)
    ELSE excluded

ExcludedTrace(ops, x) ==
    /\ x \in [0 .. Len(ops) -> SUBSET Section] /\ x[0] = {}
    /\ \A k \in 0 .. Len(ops) - 1 : x[k + 1] = ExcludedStep(x[k], ops[k + 1])

\* project_snapshot's loop goes through such a trace.
LEMMA ReplayIsFold ==
    ASSUME NEW ops \in Seq(RefinementOp)
    PROVE  \E h : ReplayTrace(ops, ExcludedSections(ops), h) /\ Replay(ops) = h[Len(ops)]
<1> DEFINE n == Len(ops)
           excluded == ExcludedSections(ops)
           F == [i \in 1 .. n |-> [a \in Snapshot |-> ReplayStep(a, ops[i], excluded)]]
           Solves(it) == it = [s \in SUBSET DOMAIN ops |->
             IF s = {} THEN Original ELSE ReplayStep(it[s \ {Max(s)}], ops[Max(s)], excluded)]
           iter == CHOOSE it : Solves(it)
<1>1. n \in Nat /\ DOMAIN ops = 1 .. n /\ \A i \in 1 .. n : ops[i] \in RefinementOp
  OBVIOUS
<1> HIDE DEF n, excluded
<1>2. F \in [1 .. n -> [Snapshot -> Snapshot]]
  BY <1>1, StepTyped
<1>3. PICK g : FoldSolution(n, Snapshot, Original, F, g)
  <2> HIDE DEF F
  <2>1. n \in Nat
    BY <1>1
  <2> QED BY <1>2, <2>1, OriginalTyped, FoldExists, Zenon
<1>4. \A s \in SUBSET (1 .. n) :
        g[s] = IF s = {} THEN Original ELSE ReplayStep(g[s \ {Max(s)}], ops[Max(s)], excluded)
  <2> SUFFICES ASSUME NEW s \in SUBSET (1 .. n), s # {}
               PROVE  g[s] = ReplayStep(g[s \ {Max(s)}], ops[Max(s)], excluded)
    BY <1>3 DEF FoldSolution
  <2>1. Max(s) \in 1 .. n /\ g[s \ {Max(s)}] \in Snapshot
    BY <1>1, <1>3, MaxOfIndices DEF FoldSolution
  <2> QED BY <1>3, <2>1 DEF FoldSolution
<1>5. Solves(g)
  <2> HIDE DEF F
  <2> QED BY <1>1, <1>3, <1>4 DEF FoldSolution
<1>6. Solves(iter)
  <2> HIDE DEF Solves
  <2> QED BY <1>5, Zenon
<1>7. Replay(ops) = iter[1 .. n]
  <2>1. Replay(ops) = iter[DOMAIN ops]
    BY Zenon DEF Replay, FoldLeft, MapThenFoldSet, excluded
  <2> QED BY <1>1, <2>1
<1> HIDE DEF F, iter
<1>8. /\ iter[{}] = Original
      /\ \A s \in SUBSET (1 .. n) : s # {} => iter[s] = ReplayStep(iter[s \ {Max(s)}], ops[Max(s)], excluded)
  BY <1>1, <1>6
<1> DEFINE h == [k \in 0 .. n |-> iter[1 .. k]]
<1>9. ASSUME NEW k \in 0 .. n - 1
      PROVE  h[k + 1] = ReplayStep(h[k], ops[k + 1], excluded)
  <2>1. k \in Nat /\ k + 1 \in 1 .. n /\ 1 .. k + 1 \in SUBSET (1 .. n) /\ k + 1 \in 1 .. k + 1
    BY <1>1
  <2>2. Max(1 .. k + 1) = k + 1 /\ (1 .. k + 1) \ {k + 1} = 1 .. k
    BY <2>1, MaxOfPrefix
  <2>3. h[k + 1] = iter[1 .. k + 1] /\ h[k] = iter[1 .. k]
    BY <1>1, <2>1
  <2>4. 1 .. k + 1 # {}
    BY <2>1
  <2> QED BY <1>8, <2>1, <2>2, <2>3, <2>4
<1>10. h[0] = Original
  <2>1. 1 .. 0 = {} /\ 0 \in 0 .. n
    BY <1>1
  <2> QED BY <1>8, <2>1
<1>11. h[n] = Replay(ops)
  BY <1>1, <1>7
<1>12. h = [k \in 0 .. n |-> h[k]]
  OBVIOUS
<1> HIDE DEF h
<1>13. \A k \in 0 .. n : h[k] \in Snapshot
  <2> DEFINE T == {k \in 0 .. n : h[k] \in Snapshot}
  <2>1. T \in SUBSET (0 .. n) /\ 0 \in T
    BY <1>1, <1>10, OriginalTyped
  <2>2. \A k \in 0 .. n - 1 : k \in T => k + 1 \in T
    BY <1>1, <1>9, StepTyped
  <2>3. T = 0 .. n
    <3> HIDE DEF T
    <3> QED BY <1>1, <2>1, <2>2, BoundedInduction
  <2> QED BY <2>3
<1>14. h \in [0 .. n -> Snapshot]
  BY <1>12, <1>13
<1> QED BY <1>9, <1>10, <1>11, <1>14 DEF ReplayTrace, n, excluded

\* excluded_sections_at goes through such a trace too.
LEMMA ExcludedIsFold ==
    ASSUME NEW ops \in Seq(RefinementOp)
    PROVE  \E x : ExcludedTrace(ops, x) /\ ExcludedSections(ops) = x[Len(ops)]
<1> DEFINE n == Len(ops)
           A == SUBSET Section
           F == [i \in 1 .. n |-> [a \in A |-> ExcludedStep(a, ops[i])]]
           Solves(it) == it = [s \in SUBSET DOMAIN ops |->
             IF s = {} THEN {} ELSE ExcludedStep(it[s \ {Max(s)}], ops[Max(s)])]
           iter == CHOOSE it : Solves(it)
<1>1. n \in Nat /\ DOMAIN ops = 1 .. n /\ \A i \in 1 .. n : ops[i] \in RefinementOp
  OBVIOUS
<1> HIDE DEF n
<1>s. \A a \in A, op \in RefinementOp : ExcludedStep(a, op) \in A
  BY DEF ExcludedStep, ToggledTo
<1>b. {} \in A
  OBVIOUS
<1>2. F \in [1 .. n -> [A -> A]]
  <2> HIDE DEF A
  <2> QED BY <1>1, <1>s
<1> HIDE DEF A
<1>3. PICK g : FoldSolution(n, A, {}, F, g)
  <2> HIDE DEF F
  <2>1. n \in Nat
    BY <1>1
  <2> QED BY <1>2, <1>b, <2>1, FoldExists, Zenon
<1>4. \A s \in SUBSET (1 .. n) :
        g[s] = IF s = {} THEN {} ELSE ExcludedStep(g[s \ {Max(s)}], ops[Max(s)])
  <2> SUFFICES ASSUME NEW s \in SUBSET (1 .. n), s # {}
               PROVE  g[s] = ExcludedStep(g[s \ {Max(s)}], ops[Max(s)])
    BY <1>3 DEF FoldSolution
  <2>1. Max(s) \in 1 .. n /\ g[s \ {Max(s)}] \in A
    BY <1>1, <1>3, MaxOfIndices DEF FoldSolution
  <2> QED BY <1>3, <2>1 DEF FoldSolution
<1>5. Solves(g)
  <2> HIDE DEF F
  <2> QED BY <1>1, <1>3, <1>4 DEF FoldSolution
<1>6. Solves(iter)
  <2> HIDE DEF Solves
  <2> QED BY <1>5, Zenon
<1>7. ExcludedSections(ops) = iter[1 .. n]
  <2>1. ExcludedSections(ops) = iter[DOMAIN ops]
    BY Zenon DEF ExcludedSections, FoldLeft, MapThenFoldSet, ExcludedStep
  <2> QED BY <1>1, <2>1
<1> HIDE DEF F, iter
<1>8. /\ iter[{}] = {}
      /\ \A s \in SUBSET (1 .. n) : s # {} => iter[s] = ExcludedStep(iter[s \ {Max(s)}], ops[Max(s)])
  BY <1>1, <1>6
<1> DEFINE x == [k \in 0 .. n |-> iter[1 .. k]]
<1>9. ASSUME NEW k \in 0 .. n - 1
      PROVE  x[k + 1] = ExcludedStep(x[k], ops[k + 1])
  <2>1. k \in Nat /\ k + 1 \in 1 .. n /\ 1 .. k + 1 \in SUBSET (1 .. n) /\ k + 1 \in 1 .. k + 1
    BY <1>1
  <2>2. Max(1 .. k + 1) = k + 1 /\ (1 .. k + 1) \ {k + 1} = 1 .. k
    BY <2>1, MaxOfPrefix
  <2>3. x[k + 1] = iter[1 .. k + 1] /\ x[k] = iter[1 .. k]
    BY <1>1, <2>1
  <2>4. 1 .. k + 1 # {}
    BY <2>1
  <2> QED BY <1>8, <2>1, <2>2, <2>3, <2>4
<1>10. x[0] = {}
  <2>1. 1 .. 0 = {} /\ 0 \in 0 .. n
    BY <1>1
  <2> QED BY <1>8, <2>1
<1>11. x[n] = ExcludedSections(ops)
  BY <1>1, <1>7
<1>12. x = [k \in 0 .. n |-> x[k]]
  OBVIOUS
<1> HIDE DEF x
<1>13. \A k \in 0 .. n : x[k] \in A
  <2> DEFINE T == {k \in 0 .. n : x[k] \in A}
  <2>1. T \in SUBSET (0 .. n) /\ 0 \in T
    <3>1. 0 \in 0 .. n
      BY <1>1
    <3> QED BY <1>10, <1>b, <3>1
  <2>2. \A k \in 0 .. n - 1 : k \in T => k + 1 \in T
    BY <1>1, <1>9, <1>s
  <2>3. T = 0 .. n
    <3> HIDE DEF T
    <3> QED BY <1>1, <2>1, <2>2, BoundedInduction
  <2> QED BY <2>3
<1>14. x \in [0 .. n -> A]
  BY <1>12, <1>13
<1> QED BY <1>9, <1>10, <1>11, <1>14 DEF ExcludedTrace, n, A

-----------------------------------------------------------------------------
(* The ops of a timeline                                                   *)

\* The ops of the prefixes of a timeline.
OpsTrace(tl, f) ==
    /\ f \in [0 .. Len(tl) -> Seq(RefinementOp)] /\ f[0] = <<>>
    /\ \A k \in 0 .. Len(tl) - 1 : f[k + 1] = f[k] \o OpsOf(tl[k + 1])

\* An entry contributes ops.
LEMMA OpsOfTyped ==
    ASSUME NEW e \in Entry
    PROVE  OpsOf(e) \in Seq(RefinementOp)
<1>1. CASE e \in [kind : {"Op", "Batch"}, ops : Seq(RefinementOp)]
  BY <1>1 DEF OpsOf
<1>2. CASE e \in [kind : {"View"}, group : Group]
  BY <1>2 DEF OpsOf
<1> QED BY <1>1, <1>2 DEF Entry

\* Flattening a timeline goes through the ops of its prefixes.
LEMMA OpsInIsFold ==
    ASSUME NEW tl \in Seq(Entry)
    PROVE  \E f : OpsTrace(tl, f) /\ OpsIn(tl) = f[Len(tl)]
<1> DEFINE n == Len(tl)
           A == Seq(RefinementOp)
           seqs == [i \in DOMAIN tl |-> OpsOf(tl[i])]
           F == [i \in 1 .. n |-> [a \in A |-> a \o seqs[i]]]
           Solves(it) == it = [i \in 1 .. Len(seqs) |->
             IF i = 1 THEN seqs[i] ELSE it[i - 1] \o seqs[i]]
           flatten == CHOOSE it : Solves(it)
<1>1. n \in Nat /\ DOMAIN tl = 1 .. n /\ \A i \in 1 .. n : seqs[i] = OpsOf(tl[i]) /\ seqs[i] \in A
  BY OpsOfTyped
<1>2. seqs \in Seq(A) /\ Len(seqs) = n
  BY <1>1
<1>e. <<>> \in A /\ \A a \in A : <<>> \o a = a
  OBVIOUS
<1>a. \A a, b \in A : a \o b \in A
  OBVIOUS
<1> HIDE DEF n, A, seqs
<1>3. F \in [1 .. n -> [A -> A]]
  BY <1>1, <1>a
<1>4. PICK f : PrefixSolution(n, A, <<>>, F, f)
  <2> HIDE DEF F
  <2>1. n \in Nat /\ <<>> \in A
    BY <1>1, <1>e
  <2> QED BY <1>3, <2>1, PrefixExists, Zenon
<1>5. /\ f \in [0 .. n -> A] /\ f[0] = <<>>
      /\ \A k \in 0 .. n - 1 : f[k + 1] = f[k] \o seqs[k + 1]
  BY <1>1, <1>4 DEF PrefixSolution
<1>6. OpsTrace(tl, f)
  <2>1. \A k \in 0 .. n - 1 : seqs[k + 1] = OpsOf(tl[k + 1])
    BY <1>1
  <2> QED BY <1>5, <2>1 DEF OpsTrace, n, A
<1> HIDE DEF F
<1>7. CASE n = 0
  <2>1. OpsIn(tl) = seqs
    BY <1>2, <1>7, Zenon DEF OpsIn, FlattenSeq, seqs
  <2>2. seqs = <<>>
    BY <1>2, <1>7
  <2>3. OpsIn(tl) = f[Len(tl)]
    BY <1>5, <1>7, <2>1, <2>2 DEF n
  <2> QED BY <1>6, <2>3
<1>8. CASE n # 0
  <2> DEFINE g == [i \in 1 .. n |-> f[i]]
  <2>1. ASSUME NEW i \in 1 .. n PROVE g[i] = IF i = 1 THEN seqs[i] ELSE g[i - 1] \o seqs[i]
    <3>1. i - 1 \in 0 .. n - 1 /\ (i - 1) + 1 = i
      BY <1>1
    <3>2. f[i] = f[i - 1] \o seqs[i]
      BY <1>5, <3>1
    <3>3. CASE i = 1
      <4>0. i - 1 = 0 /\ 1 \in 1 .. n
        BY <3>3
      <4>1. f[1] = <<>> \o seqs[1] /\ seqs[1] \in A
        BY <1>1, <1>5, <3>2, <3>3, <4>0, Zenon
      <4>2. f[1] = seqs[1]
        BY <1>e, <4>1
      <4> QED BY <3>3, <4>2
    <3>4. CASE i # 1
      <4>1. g[i - 1] = f[i - 1]
        BY <1>1, <3>4
      <4> QED BY <3>2, <3>4, <4>1
    <3> QED BY <3>3, <3>4
  <2>2. Solves(g)
    BY <1>2, <2>1
  <2>3. Solves(flatten)
    <3> HIDE DEF Solves
    <3> QED BY <2>2, Zenon
  <2>4. OpsIn(tl) = flatten[Len(seqs)]
    BY <1>2, <1>8, Zenon DEF OpsIn, FlattenSeq, seqs
  <2> HIDE DEF flatten, g
  <2> DEFINE T == {k \in 0 .. n : k = 0 \/ flatten[k] = f[k]}
  <2>5. T \in SUBSET (0 .. n) /\ 0 \in T
    BY <1>1
  <2>6. ASSUME NEW k \in 0 .. n - 1, k \in T PROVE k + 1 \in T
    <3>1. k + 1 \in 1 .. n /\ (k + 1) - 1 = k
      BY <1>1
    <3>2. f[k + 1] = f[k] \o seqs[k + 1]
      BY <1>5
    <3>3. flatten[k + 1] = IF k + 1 = 1 THEN seqs[k + 1] ELSE flatten[(k + 1) - 1] \o seqs[k + 1]
      BY <1>2, <2>3, <3>1
    <3>4. CASE k = 0
      <4>0. k + 1 = 1 /\ 1 \in 1 .. n
        BY <3>1, <3>4
      <4>1. f[1] = <<>> \o seqs[1] /\ seqs[1] \in A
        BY <1>1, <1>5, <3>2, <3>4, <4>0, Zenon
      <4>2. f[1] = seqs[1] /\ flatten[1] = seqs[1]
        BY <1>e, <3>3, <3>4, <4>1
      <4>3. flatten[k + 1] = f[k + 1] /\ k + 1 \in 0 .. n
        BY <3>1, <3>4, <4>2
      <4> QED BY <4>3
    <3>5. CASE k # 0
      <4>1. k \in Nat /\ flatten[k] = f[k]
        BY <2>6, <3>5
      <4>2. flatten[k + 1] = flatten[k] \o seqs[k + 1]
        <5>1. k + 1 # 1
          BY <3>5, <4>1
        <5> QED BY <3>1, <3>3, <5>1, Zenon
      <4>3. flatten[k + 1] = f[k + 1]
        BY <3>2, <4>1, <4>2, Zenon
      <4>4. k + 1 \in 0 .. n
        BY <3>1
      <4> QED BY <4>3, <4>4
    <3> QED BY <3>4, <3>5
  <2>7. T = 0 .. n
    <3> HIDE DEF T
    <3> QED BY <1>1, <2>5, <2>6, BoundedInduction
  <2>8. flatten[n] = f[n]
    <3>1. n \in T
      BY <1>1, <2>7
    <3> QED BY <1>8, <3>1
  <2>9. OpsIn(tl) = f[Len(tl)]
    BY <1>2, <2>4, <2>8 DEF n
  <2> QED BY <1>6, <2>9
<1> QED BY <1>7, <1>8

\* The ops of a timeline are ops.
LEMMA OpsInTyped ==
    ASSUME NEW tl \in Seq(Entry)
    PROVE  OpsIn(tl) \in Seq(RefinementOp)
<1>1. PICK f : OpsTrace(tl, f) /\ OpsIn(tl) = f[Len(tl)]
  BY OpsInIsFold
<1> QED BY <1>1 DEF OpsTrace

-----------------------------------------------------------------------------
(* Locks and groups                                                        *)

\* clamp_locked_items has the last word: whatever a cascade, a batch or a
\* replay of any timeline included, no locked entry is.
THEOREM LocksHold == Spec => []LockedStaysOut
<1>1. LockedStaysOut
  BY DEF LockedStaysOut, Project, ProjectOps, ClampLocked
<1> QED BY <1>1, PTL

\* derive_group_state never renders a group with a member missing, nor calls
\* one excluded that has a member in, whatever ops the timeline holds.
THEOREM RenderStatesSound == Spec => []RenderStateSound
<1>1. ASSUME NEW tl, NEW g
      PROVE  LET inc == Project(tl).inc
             IN  /\ GroupState(tl, g) = "Renderable" => GroupMembers(g) # {} /\ GroupMembers(g) \subseteq inc
                 /\ GroupState(tl, g) = "Excluded" => GroupMembers(g) \cap inc = {}
  BY Zenon DEF GroupState
<1>2. RenderStateSound
  BY <1>1, Zenon DEF RenderStateSound
<1> QED BY <1>2, PTL

-----------------------------------------------------------------------------
(* Password hashes                                                         *)

\* A hash entered in refine is in the projection only as a new password.
LEMMA FreshIsNew ==
    ASSUME NEW ops \in Seq(RefinementOp)
    PROVE  /\ Replay(ops) \in Snapshot
           /\ \A u \in User : Replay(ops).users[u].hash = "fresh" => Replay(ops).users[u].choice = "new"
<1> DEFINE excluded == ExcludedSections(ops)
           New(snap) == \A u \in User : snap.users[u].hash = "fresh" => snap.users[u].choice = "new"
<1>1. PICK h : ReplayTrace(ops, excluded, h) /\ Replay(ops) = h[Len(ops)]
  BY ReplayIsFold
<1> HIDE DEF excluded
<1> DEFINE n == Len(ops)
           T == {k \in 0 .. n : New(h[k])}
<1>2. n \in Nat /\ \A i \in 1 .. n : ops[i] \in RefinementOp
  OBVIOUS
<1>3. T \in SUBSET (0 .. n) /\ 0 \in T
  <2>1. New(Original)
    BY SnapshotAssumption DEF Original
  <2>2. h[0] = Original /\ 0 \in 0 .. n
    BY <1>1, <1>2 DEF ReplayTrace
  <2> QED BY <2>1, <2>2, Zenon
<1>4. ASSUME NEW k \in 0 .. n - 1, k \in T PROVE k + 1 \in T
  <2> DEFINE snap == h[k]
             op == ops[k + 1]
  <2>1. /\ h[k + 1] = ReplayStep(snap, op, excluded) /\ snap \in Snapshot /\ op \in RefinementOp
        /\ k + 1 \in 0 .. n
    BY <1>1, <1>2 DEF ReplayTrace
  <2>2. New(snap)
    BY <1>4
  <2> HIDE DEF snap, op
  <2>3. CASE /\ op \in PasswordOp
             /\ ReplayStep(snap, op, excluded) =
                  [snap EXCEPT !.users[op.user] = PasswordAfter(@, op.choice, op.user)]
    <3>1. op.user \in User /\ op.choice \in {"new_hash", "new_bare", "none", "preserve"}
      BY <2>3 DEF PasswordOp
    <3> DEFINE pw == PasswordAfter(snap.users[op.user], op.choice, op.user)
    <3>2. pw.hash = "fresh" => pw.choice = "new"
      <4> DEFINE old == snap.users[op.user]
      <4>1. old \in Password /\ (old.hash = "fresh" => old.choice = "new")
        BY <2>1, <2>2, <3>1 DEF Snapshot
      <4> HIDE DEF old
      <4>2. LET new == PasswordAfter(old, op.choice, op.user) IN new.hash = "fresh" => new.choice = "new"
        BY <3>1, <4>1, PasswordTyped
      <4> QED BY <4>2, Zenon DEF old
    <3> HIDE DEF pw
    <3>3. h[k + 1] = [snap EXCEPT !.users = [snap.users EXCEPT ![op.user] = pw]]
      BY <2>1, <2>3 DEF pw
    <3>4. h[k + 1].users = [snap.users EXCEPT ![op.user] = pw] /\ snap.users \in [User -> Password]
      BY <2>1, <3>3 DEF Snapshot
    <3>5. New(h[k + 1])
      BY <2>2, <3>1, <3>2, <3>4
    <3> QED BY <2>1, <3>5
  <2>4. CASE ReplayStep(snap, op, excluded) = snap
    BY <2>1, <2>2, <2>4
  <2>5. CASE ReplayStep(snap, op, excluded) =
               [snap EXCEPT !.inc = ToggledTo(@, CascadeOf(op.item, op.include, excluded), op.include)]
    <3> DEFINE new == ToggledTo(snap.inc, CascadeOf(op.item, op.include, excluded), op.include)
    <3>1. h[k + 1] = [snap EXCEPT !.inc = new]
      BY <2>1, <2>5
    <3> HIDE DEF new
    <3>2. h[k + 1].users = snap.users
      BY <2>1, <3>1 DEF Snapshot
    <3> QED BY <2>1, <2>2, <3>2
  <2> QED BY <2>1, <2>3, <2>4, <2>5, StepKinds
<1>5. T = 0 .. n
  <2> HIDE DEF T
  <2> QED BY <1>2, <1>3, <1>4, BoundedInduction
<1>6. n \in 0 .. n
  BY <1>2
<1>7. New(h[n])
  BY <1>5, <1>6
<1> QED BY <1>1, <1>6, <1>7 DEF ReplayTrace

\* So an archive that carries one is sensitive.
LEMMA FreshIsSensitive ==
    ASSUME NEW tl \in Seq(Entry), NEW u \in User, Project(tl).users[u].hash = "fresh"
    PROVE  Project(tl).sensitive
<1> DEFINE ops == OpsIn(tl)
           users == Replay(ops).users
<1>1. ops \in Seq(RefinementOp)
  BY OpsInTyped
<1>2. /\ Project(tl).users = users
      /\ Project(tl).sensitive = (OrigSensitive \/ HasNewPassword(users))
  BY Zenon DEF Project, ProjectOps
<1> HIDE DEF ops
<1>3. DOMAIN users = User /\ users[u].hash = "fresh" /\ users[u].choice = "new"
  BY <1>1, <1>2, FreshIsNew DEF Snapshot
<1>4. HasNewPassword(users)
  BY <1>3 DEF HasNewPassword
<1> QED BY <1>2, <1>4

\* The 428 gate ran on what was exported.
Gated == exported # NoFile /\ Project(exported.active).sensitive => exported.ack

\* A password hash entered in refine never leaves without the acknowledgement,
\* for every sequence of password ops, undos and exports.
THEOREM FreshSecretsAcked == Spec => []FreshSecretAcked
<1>1. Init => Gated
  BY DEF Init, Gated
<1>2. Gated /\ [Next]_vars => Gated'
  <2> SUFFICES ASSUME Gated, [Next]_vars PROVE Gated'
    OBVIOUS
  <2>1. CASE UNCHANGED exported
    BY <2>1, Zenon DEF Gated, NoFile, Project
  <2>2. ASSUME NEW c \in Tab, NEW ack \in BOOLEAN, Export(c, ack) PROVE Gated'
    <3>1. exported'.active = Active /\ exported'.ack = ack /\ (Project(Active).sensitive => ack)
      BY <2>2 DEF Export
    <3>2. Project(exported'.active).sensitive => exported'.ack
      BY <3>1, Zenon
    <3> QED BY <3>2, Zenon DEF Gated, NoFile
  <2>3. UNCHANGED exported \/ \E c \in Tab, ack \in BOOLEAN : Export(c, ack)
    BY DEF Next, vars, tabs, ClientStep, TabStep, GetView, Apply, ApplyDirective, ApplyBatch, Undo,
           Redo, Reset, Push, Mutate, ChangeUploads, StartFresh, DiscardAndStart, ResumeSession,
           Start, Crash, RewriteTarball
  <2> QED BY <2>1, <2>2, <2>3
<1>3. TypeOK /\ Gated => FreshSecretAcked
  <2> SUFFICES ASSUME TypeOK, Gated, exported # NoFile, ~exported.ack, NEW u \in User
               PROVE  Project(exported.active).users[u].hash # "fresh"
    BY DEF FreshSecretAcked
  <2>1. exported.active \in Seq(Entry)
    BY DEF TypeOK, Archive
  <2>2. ~Project(exported.active).sensitive
    BY Zenon DEF Gated
  <2> QED BY <2>1, <2>2, FreshIsSensitive
<1> QED BY <1>1, <1>2, <1>3, TypeCorrect, PTL DEF Spec

-----------------------------------------------------------------------------
(* Repo files and keys                                                     *)

Touches(op, uses, x) == op \in SetIncludeOp /\ op.item \in Section /\ x \in uses[op.item]

Orphaned(uses, x, excluded) == \A t \in Section : x \in uses[t] => t \in excluded

\* Only a toggle of a section that uses a file or key writes it, and an exclusion
\* only when every section that uses it is excluded.
LEMMA CarriedStep ==
    ASSUME NEW uses \in {FilesOf, KeysOf}, NEW x \in Shared(uses),
           NEW snap \in Snapshot, NEW op \in RefinementOp, NEW excluded
    PROVE  LET new == ReplayStep(snap, op, excluded).inc
           IN  /\ Touches(op, uses, x) =>
                    (x \in new <=> op.include \/ (x \in snap.inc /\ ~Orphaned(uses, x, excluded)))
               /\ ~Touches(op, uses, x) => (x \in new <=> x \in snap.inc)
<1> DEFINE new == ReplayStep(snap, op, excluded).inc
<1>1. /\ \A s \in Section : /\ FilesOf[s] \in SUBSET RepoFile /\ KeysOf[s] \in SUBSET GpgKey
                            /\ s \notin Locked
      /\ RepoFile \cap GpgKey = {} /\ (RepoFile \cup GpgKey) \cap Item = {}
  BY SnapshotAssumption, KindAssumption DEF Carried, Item
<1>2. x \in RepoFile \cup GpgKey /\ x \notin Item
  BY <1>1 DEF Shared
<1>3. \A s \in Section : \A b : x \in RepoCascade(s, b, excluded) <=>
        x \in uses[s] /\ (b \/ Orphaned(uses, x, excluded))
  <2> SUFFICES ASSUME NEW s \in Section, NEW b
               PROVE  x \in RepoCascade(s, b, excluded) <=>
                        x \in uses[s] /\ (b \/ Orphaned(uses, x, excluded))
    OBVIOUS
  <2>1. x \notin Package
    BY <1>2 DEF Item
  <2>2. CASE uses = FilesOf
    <3>1. x \in RepoFile /\ x \notin KeysOf[s]
      BY <1>1, <2>2 DEF Shared
    <3> QED BY <2>1, <2>2, <3>1 DEF RepoCascade, Orphaned
  <2>3. CASE uses = KeysOf
    <3>1. x \in GpgKey /\ x \notin FilesOf[s]
      BY <1>1, <2>3 DEF Shared
    <3> QED BY <2>1, <2>3, <3>1 DEF RepoCascade, Orphaned
  <2> QED BY <2>2, <2>3
<1>4. CASE op \in PasswordOp /\ ReplayStep(snap, op, excluded) =
             [snap EXCEPT !.users[op.user] = PasswordAfter(@, op.choice, op.user)]
  <2> DEFINE pw == PasswordAfter(snap.users[op.user], op.choice, op.user)
  <2>1. ReplayStep(snap, op, excluded) = [snap EXCEPT !.users = [snap.users EXCEPT ![op.user] = pw]]
    BY <1>4
  <2> HIDE DEF pw
  <2>2. new = snap.inc
    BY <2>1 DEF Snapshot
  <2>3. ~Touches(op, uses, x)
    BY <1>4 DEF Touches, SetIncludeOp, PasswordOp
  <2> QED BY <2>2, <2>3
<1>5. CASE /\ op \in SetIncludeOp /\ op.include /\ IsItemLocked(op.item)
           /\ ReplayStep(snap, op, excluded) = snap
  <2>1. ~Touches(op, uses, x)
    BY <1>1, <1>5 DEF Touches, IsItemLocked
  <2> QED BY <1>5, <2>1
<1>6. CASE /\ op \in SetIncludeOp
           /\ ReplayStep(snap, op, excluded) =
                [snap EXCEPT !.inc = ToggledTo(@, CascadeOf(op.item, op.include, excluded), op.include)]
  <2> DEFINE writes == CascadeOf(op.item, op.include, excluded)
  <2>0. op.item \in Item /\ op.include \in BOOLEAN
    BY <1>6 DEF SetIncludeOp
  <2>1. new = ToggledTo(snap.inc, writes, op.include)
    <3> DEFINE to == ToggledTo(snap.inc, writes, op.include)
    <3>1. ReplayStep(snap, op, excluded) = [snap EXCEPT !.inc = to]
      BY <1>6
    <3> HIDE DEF to
    <3>2. new = to
      BY <3>1 DEF Snapshot
    <3> QED BY <3>2 DEF to
  <2>2. CASE op.item \in Section
    <3>1. x \in writes <=> x \in uses[op.item] /\ (op.include \/ Orphaned(uses, x, excluded))
      BY <1>3, <2>0, <2>2, CascadeKinds
    <3> HIDE DEF writes, new
    <3>2. Touches(op, uses, x) <=> x \in uses[op.item]
      BY <1>6, <2>2 DEF Touches
    <3> QED BY <2>0, <2>1, <3>1, <3>2 DEF ToggledTo, new
  <2>3. CASE op.item \notin Section
    <3>1. x \notin writes
      <4>1. writes \subseteq Item
        BY <2>0, <2>3, CascadeKinds DEF Item
      <4> QED BY <1>2, <4>1
    <3>2. ~Touches(op, uses, x)
      BY <2>3 DEF Touches
    <3> HIDE DEF writes, new
    <3> QED BY <2>0, <2>1, <3>1, <3>2 DEF ToggledTo, new
  <2> QED BY <2>2, <2>3
<1> QED BY <1>4, <1>5, <1>6, StepKinds

\* Along a replay with the final exclusions, a file or key that no section keeps
\* is gone or was last included by one of them, and one that some section keeps
\* is never removed.
LEMMA CarriedReplay ==
    ASSUME NEW ops \in Seq(RefinementOp), NEW uses \in {FilesOf, KeysOf},
           NEW x \in Shared(uses) \cap OrigIncluded
    PROVE  x \in Replay(ops).inc <=> ~Orphaned(uses, x, ExcludedSections(ops))
<1> DEFINE excluded == ExcludedSections(ops)
           n == Len(ops)
           users == {s \in Section : x \in uses[s]}
<1>1. PICK h : ReplayTrace(ops, excluded, h) /\ Replay(ops) = h[n]
  BY ReplayIsFold
<1>2. PICK e : ExcludedTrace(ops, e) /\ excluded = e[n]
  BY ExcludedIsFold
<1>3. n \in Nat /\ \A i \in 1 .. n : ops[i] \in RefinementOp
  OBVIOUS
<1> HIDE DEF excluded
<1>4. ASSUME NEW k \in 0 .. n - 1
      PROVE  /\ h[k] \in Snapshot /\ ops[k + 1] \in RefinementOp /\ k \in 0 .. n /\ k + 1 \in 0 .. n
             /\ h[k + 1] = ReplayStep(h[k], ops[k + 1], excluded)
             /\ e[k + 1] = ExcludedStep(e[k], ops[k + 1])
  BY <1>1, <1>2, <1>3 DEF ReplayTrace, ExcludedTrace
<1>5. h[0] = Original /\ e[0] = {} /\ 0 \in 0 .. n /\ n \in 0 .. n
  BY <1>1, <1>2, <1>3 DEF ReplayTrace, ExcludedTrace
<1> HIDE DEF n
<1>6. CASE ~Orphaned(uses, x, excluded)
  <2> DEFINE T == {k \in 0 .. n : x \in h[k].inc}
  <2>1. T \in SUBSET (0 .. n) /\ 0 \in T
    BY <1>5 DEF Original
  <2>2. ASSUME NEW k \in 0 .. n - 1, k \in T PROVE k + 1 \in T
    <3>1. x \in h[k].inc
      BY <2>2
    <3>2. x \in h[k + 1].inc
      BY <1>4, <1>6, <3>1, CarriedStep
    <3> QED BY <1>4, <3>2
  <2>3. T = 0 .. n
    <3> HIDE DEF T
    <3> QED BY <1>3, <2>1, <2>2, BoundedInduction
  <2>4. x \in h[n].inc
    BY <1>5, <2>3
  <2> QED BY <1>1, <1>6, <2>4 DEF excluded
<1>7. CASE Orphaned(uses, x, excluded)
  <2> DEFINE T == {k \in 0 .. n : x \notin h[k].inc \/ \E s \in users : s \notin e[k]}
  <2>0. users # {}
    BY DEF Shared
  <2>1. T \in SUBSET (0 .. n) /\ 0 \in T
    BY <1>5, <2>0
  <2>2. ASSUME NEW k \in 0 .. n - 1, k \in T PROVE k + 1 \in T
    <3> DEFINE op == ops[k + 1]
    <3>0. x \notin h[k].inc \/ \E s \in users : s \notin e[k]
      BY <2>2
    <3> HIDE DEF op
    <3>1. CASE Touches(op, uses, x) /\ op.include
      <4>1. op.item \in users /\ op.kind = "SetInclude"
        BY <3>1 DEF Touches, SetIncludeOp
      <4>2. e[k + 1] = e[k] \ {op.item}
        BY <1>4, <3>1, <4>1 DEF ExcludedStep, ToggledTo, op
      <4> QED BY <1>4, <4>1, <4>2
    <3>2. CASE Touches(op, uses, x) /\ ~op.include
      <4>1. x \notin h[k + 1].inc
        BY <1>4, <1>7, <3>2, CarriedStep DEF op
      <4> QED BY <1>4, <4>1
    <3>3. CASE ~Touches(op, uses, x)
      <4>1. x \in h[k + 1].inc <=> x \in h[k].inc
        BY <1>4, <3>3, CarriedStep DEF op
      <4>2. \A s \in users : s \in e[k + 1] <=> s \in e[k]
        <5>1. CASE op.kind = "SetInclude" /\ op.item \in Section
          <6>1. op \in SetIncludeOp
            BY <1>4, <5>1 DEF op, RefinementOp, PasswordOp
          <6>2. op.item \notin users
            BY <3>3, <6>1 DEF Touches
          <6>3. e[k + 1] = ToggledTo(e[k], {op.item}, ~op.include)
            BY <1>4, <5>1 DEF ExcludedStep, op
          <6> HIDE DEF users
          <6> QED BY <6>2, <6>3 DEF ToggledTo
        <5>2. CASE ~(op.kind = "SetInclude" /\ op.item \in Section)
          <6>1. e[k + 1] = e[k]
            BY <1>4, <5>2 DEF ExcludedStep, op
          <6> QED BY <6>1
        <5> QED BY <5>1, <5>2
      <4> QED BY <1>4, <3>0, <4>1, <4>2
    <3> QED BY <3>1, <3>2, <3>3
  <2>3. T = 0 .. n
    <3> HIDE DEF T
    <3> QED BY <1>3, <2>1, <2>2, BoundedInduction
  <2>4. x \notin h[n].inc \/ \E s \in users : s \notin e[n]
    BY <1>5, <2>3
  <2>5. x \notin h[n].inc
    BY <1>2, <1>7, <2>4 DEF Orphaned
  <2> QED BY <1>1, <1>7, <2>5 DEF excluded
<1> QED BY <1>6, <1>7

\* A .repo file or key leaves the export exactly when every section that uses it
\* is excluded, for every order, undo and batch of toggles.
THEOREM CarriedFollows == Spec => []CarriedFollowsSections
<1>1. TypeOK => CarriedFollowsSections
  <2> SUFFICES ASSUME TypeOK PROVE CarriedFollowsSections
    OBVIOUS
  <2> DEFINE ops == OpsIn(Active)
  <2>1. ops \in Seq(RefinementOp)
    <3>1. Active \in Seq(Entry)
      BY ViewTyped DEF Active, TypeOK
    <3> QED BY <3>1, OpsInTyped
  <2>2. Project(Active).inc = Replay(ops).inc \ Locked
    BY DEF Project, ProjectOps, ClampLocked
  <2> HIDE DEF ops
  <2>3. ASSUME NEW f \in (Shared(FilesOf) \cap OrigIncluded) \ Locked
        PROVE  f \in Project(Active).inc <=> \E s \in Section : f \in FilesOf[s] /\ s \notin ExcludedSections(ops)
    <3>1. f \in Replay(ops).inc <=> ~Orphaned(FilesOf, f, ExcludedSections(ops))
      BY <2>1, CarriedReplay
    <3> QED BY <2>2, <3>1 DEF Orphaned
  <2>4. ASSUME NEW k \in Shared(KeysOf) \cap OrigIncluded
        PROVE  k \in Project(Active).inc <=> \E s \in Section : k \in KeysOf[s] /\ s \notin ExcludedSections(ops)
    <3>1. k \in Replay(ops).inc <=> ~Orphaned(KeysOf, k, ExcludedSections(ops))
      BY <2>1, CarriedReplay
    <3>2. k \notin Locked
      <4>1. k \in GpgKey
        BY SnapshotAssumption DEF Shared
      <4> QED BY <4>1, SnapshotAssumption, KindAssumption DEF Carried
    <3> QED BY <2>2, <3>1, <3>2 DEF Orphaned
  <2> QED BY <2>3, <2>4, Zenon DEF CarriedFollowsSections, ops
<1> QED BY <1>1, TypeCorrect, PTL

-----------------------------------------------------------------------------
(* Recorded operations                                                     *)

\* Pushing an entry puts its ops behind those of the timeline.
LEMMA OpsInAppend ==
    ASSUME NEW tl \in Seq(Entry), NEW e \in Entry
    PROVE  OpsIn(Append(tl, e)) = OpsIn(tl) \o OpsOf(e)
<1> DEFINE n == Len(tl)
           new == Append(tl, e)
<1>2. /\ n \in Nat /\ new \in Seq(Entry) /\ Len(new) = n + 1 /\ new[n + 1] = e
      /\ \A k \in 1 .. n : new[k] = tl[k]
  OBVIOUS
<1>3. PICK f : OpsTrace(tl, f) /\ OpsIn(tl) = f[n]
  BY OpsInIsFold
<1>4. PICK g : OpsTrace(new, g) /\ OpsIn(new) = g[n + 1]
  <2> HIDE DEF new
  <2>1. PICK g : OpsTrace(new, g) /\ OpsIn(new) = g[Len(new)]
    BY <1>2, OpsInIsFold
  <2> QED BY <1>2, <2>1
<1> HIDE DEF n, new
<1>5. ASSUME NEW k \in 0 .. n - 1
      PROVE  /\ k \in 0 .. n /\ k + 1 \in 0 .. n /\ new[k + 1] = tl[k + 1]
             /\ f[k + 1] = f[k] \o OpsOf(tl[k + 1]) /\ g[k + 1] = g[k] \o OpsOf(new[k + 1])
  <2>1. k \in 0 .. n /\ k + 1 \in 0 .. n /\ k + 1 \in 1 .. n /\ k \in 0 .. Len(new) - 1
    BY <1>2
  <2> QED BY <1>2, <1>3, <1>4, <2>1 DEF OpsTrace, n
<1> DEFINE T == {k \in 0 .. n : f[k] = g[k]}
<1>6. T \in SUBSET (0 .. n) /\ 0 \in T
  <2>1. 0 \in 0 .. n
    BY <1>2
  <2> QED BY <1>3, <1>4, <2>1 DEF OpsTrace
<1>7. ASSUME NEW k \in 0 .. n - 1, k \in T PROVE k + 1 \in T
  <2>1. f[k] = g[k]
    BY <1>7
  <2>2. f[k + 1] = g[k + 1]
    BY <1>5, <2>1, Zenon
  <2> QED BY <1>5, <2>2
<1>8. T = 0 .. n
  <2> HIDE DEF T
  <2> QED BY <1>2, <1>6, <1>7, BoundedInduction
<1>9. f[n] = g[n] /\ f[n] \in Seq(RefinementOp)
  <2>1. n \in 0 .. n
    BY <1>2
  <2> QED BY <1>3, <1>8, <2>1 DEF OpsTrace, n
<1>10. g[n + 1] = g[n] \o OpsOf(e)
  <2>1. n \in 0 .. Len(new) - 1
    BY <1>2
  <2>2. g[n + 1] = g[n] \o OpsOf(new[n + 1])
    BY <1>4, <2>1 DEF OpsTrace
  <2> QED BY <1>2, <2>2
<1> QED BY <1>3, <1>4, <1>9, <1>10, Zenon DEF new, n

\* An op entry adds its op, a view directive nothing.
LEMMA OpsInPush ==
    ASSUME NEW tl \in Seq(Entry)
    PROVE  /\ \A op \in RefinementOp : OpsIn(Append(tl, OpEntry(op))) = Append(OpsIn(tl), op)
           /\ \A e \in Entry : e.kind = "View" => OpsIn(Append(tl, e)) = OpsIn(tl)
<1> DEFINE ops == OpsIn(tl)
<1>0. ops \in Seq(RefinementOp)
  BY OpsInTyped
<1>1. ASSUME NEW op \in RefinementOp PROVE OpsIn(Append(tl, OpEntry(op))) = Append(ops, op)
  <2>1. OpEntry(op) \in Entry /\ OpsOf(OpEntry(op)) = <<op>>
    BY DEF OpEntry, Entry, OpsOf
  <2>2. OpsIn(Append(tl, OpEntry(op))) = ops \o <<op>>
    BY <2>1, OpsInAppend, Zenon
  <2> HIDE DEF ops
  <2>3. ops \o <<op>> = Append(ops, op)
    BY <1>0
  <2> QED BY <2>2, <2>3
<1>2. ASSUME NEW e \in Entry, e.kind = "View" PROVE OpsIn(Append(tl, e)) = ops
  <2>1. OpsOf(e) = <<>>
    BY <1>2 DEF OpsOf
  <2>2. OpsIn(Append(tl, e)) = ops \o <<>>
    BY <2>1, OpsInAppend, Zenon
  <2> HIDE DEF ops
  <2>3. ops \o <<>> = ops
    BY <1>0
  <2> QED BY <2>2, <2>3
<1> QED BY <1>1, <1>2

\* What one step of the replay does to the included entries.
LEMMA StepIncluded ==
    ASSUME NEW snap \in Snapshot, NEW op \in RefinementOp, NEW excluded
    PROVE  /\ op \in PasswordOp \/ (op.include /\ IsItemLocked(op.item)) =>
                ReplayStep(snap, op, excluded).inc = snap.inc
           /\ op \notin PasswordOp /\ ~(op.include /\ IsItemLocked(op.item)) =>
                ReplayStep(snap, op, excluded).inc =
                  ToggledTo(snap.inc, CascadeOf(op.item, op.include, excluded), op.include)
<1>0. op \in PasswordOp <=> op \notin SetIncludeOp
  BY DEF RefinementOp, PasswordOp, SetIncludeOp
<1>1. CASE /\ op \in PasswordOp
           /\ ReplayStep(snap, op, excluded) =
                [snap EXCEPT !.users[op.user] = PasswordAfter(@, op.choice, op.user)]
  <2> DEFINE pw == PasswordAfter(snap.users[op.user], op.choice, op.user)
  <2>1. ReplayStep(snap, op, excluded) = [snap EXCEPT !.users = [snap.users EXCEPT ![op.user] = pw]]
    BY <1>1
  <2> HIDE DEF pw
  <2>2. ReplayStep(snap, op, excluded).inc = snap.inc
    BY <2>1 DEF Snapshot
  <2> QED BY <1>1, <2>2
<1>2. CASE /\ op \in SetIncludeOp /\ op.include /\ IsItemLocked(op.item)
           /\ ReplayStep(snap, op, excluded) = snap
  BY <1>0, <1>2
<1>3. CASE /\ op \in SetIncludeOp /\ ~(op.include /\ IsItemLocked(op.item))
           /\ ReplayStep(snap, op, excluded) =
                [snap EXCEPT !.inc = ToggledTo(@, CascadeOf(op.item, op.include, excluded), op.include)]
  <2> DEFINE to == ToggledTo(snap.inc, CascadeOf(op.item, op.include, excluded), op.include)
  <2>1. ReplayStep(snap, op, excluded) = [snap EXCEPT !.inc = to]
    BY <1>3
  <2> HIDE DEF to
  <2>2. ReplayStep(snap, op, excluded).inc = to
    BY <2>1 DEF Snapshot
  <2> QED BY <1>0, <1>3, <2>2 DEF to
<1> QED BY <1>1, <1>2, <1>3, StepKinds

\* Which packages and other items a toggle writes does not depend on the
\* excluded sections: only files and keys are kept for the others.
LEMMA CascadeItems ==
    ASSUME NEW item \in Item, NEW include, NEW x, NEW y
    PROVE  CascadeOf(item, include, x) \cap Item = CascadeOf(item, include, y) \cap Item
<1>1. CASE item \in Section
  <2>1. /\ FilesOf[item] \cap Item = {} /\ KeysOf[item] \cap Item = {}
        /\ CascadeOf(item, include, x) = RepoCascade(item, include, x)
        /\ CascadeOf(item, include, y) = RepoCascade(item, include, y)
    BY <1>1, CascadeKinds, SnapshotAssumption, KindAssumption DEF Carried
  <2> DEFINE pkgs == {p \in Package : SourceRepo[p] = item /\ p \notin Locked}
  <2>2. \A z : RepoCascade(item, include, z) \cap Item = pkgs
    <3>1. pkgs \subseteq Item
      BY DEF Item
    <3> QED BY <2>1, <3>1 DEF RepoCascade
  <2> QED BY <2>1, <2>2
<1>2. CASE item \notin Section
  BY <1>2, CascadeKinds
<1> QED BY <1>1, <1>2

\* So the replay of the items does not depend on them either.
LEMMA StepItems ==
    ASSUME NEW s \in Snapshot, NEW t \in Snapshot, NEW op \in RefinementOp, NEW x, NEW y,
           s.inc \cap Item = t.inc \cap Item
    PROVE  ReplayStep(s, op, x).inc \cap Item = ReplayStep(t, op, y).inc \cap Item
<1>1. CASE op \in PasswordOp \/ (op.include /\ IsItemLocked(op.item))
  BY <1>1, StepIncluded
<1>2. CASE op \notin PasswordOp /\ ~(op.include /\ IsItemLocked(op.item))
  <2> DEFINE cs == CascadeOf(op.item, op.include, x)
             ct == CascadeOf(op.item, op.include, y)
  <2>1. ReplayStep(s, op, x).inc = ToggledTo(s.inc, cs, op.include)
    BY <1>2, StepIncluded
  <2>2. ReplayStep(t, op, y).inc = ToggledTo(t.inc, ct, op.include)
    BY <1>2, StepIncluded
  <2>3. cs \cap Item = ct \cap Item
    <3>1. op.item \in Item
      BY <1>2 DEF RefinementOp, SetIncludeOp
    <3> QED BY <3>1, CascadeItems
  <2> HIDE DEF cs, ct
  <2> QED BY <2>1, <2>2, <2>3 DEF ToggledTo
<1> QED BY <1>1, <1>2

\* Replaying one op more: the sections excluded by it change what happens to
\* files and keys from the start, and the items only at the end.
LEMMA ReplayAppend ==
    ASSUME NEW ops \in Seq(RefinementOp), NEW op \in RefinementOp, NEW y
    PROVE  Replay(Append(ops, op)).inc \cap Item = ReplayStep(Replay(ops), op, y).inc \cap Item
<1> DEFINE n == Len(ops)
           new == Append(ops, op)
           x == ExcludedSections(ops)
           z == ExcludedSections(new)
<1>1. /\ n \in Nat /\ new \in Seq(RefinementOp) /\ Len(new) = n + 1 /\ new[n + 1] = op
      /\ \A k \in 1 .. n : new[k] = ops[k] /\ ops[k] \in RefinementOp
  OBVIOUS
<1>2. PICK h : ReplayTrace(ops, x, h) /\ Replay(ops) = h[n]
  BY ReplayIsFold
<1> HIDE DEF new
<1>3. PICK g : ReplayTrace(new, z, g) /\ Replay(new) = g[n + 1]
  <2>1. PICK g : ReplayTrace(new, z, g) /\ Replay(new) = g[Len(new)]
    BY <1>1, ReplayIsFold
  <2> QED BY <1>1, <2>1
<1> HIDE DEF x, z, n
<1>4. ASSUME NEW k \in 0 .. n - 1
      PROVE  /\ k \in 0 .. n /\ k + 1 \in 0 .. n /\ ops[k + 1] \in RefinementOp
             /\ h[k] \in Snapshot /\ g[k] \in Snapshot
             /\ h[k + 1] = ReplayStep(h[k], ops[k + 1], x)
             /\ g[k + 1] = ReplayStep(g[k], ops[k + 1], z)
  <2>1. /\ k \in 0 .. n /\ k + 1 \in 0 .. n /\ k + 1 \in 1 .. n /\ k \in 0 .. Len(new) - 1
        /\ k \in 0 .. Len(new) /\ new[k + 1] = ops[k + 1] /\ ops[k + 1] \in RefinementOp
    BY <1>1
  <2>2. h[k] \in Snapshot /\ h[k + 1] = ReplayStep(h[k], ops[k + 1], x)
    BY <1>2, <2>1 DEF ReplayTrace, n
  <2>3. g[k] \in Snapshot /\ g[k + 1] = ReplayStep(g[k], ops[k + 1], z)
    BY <1>3, <2>1 DEF ReplayTrace
  <2> QED BY <2>1, <2>2, <2>3
<1> DEFINE T == {k \in 0 .. n : h[k].inc \cap Item = g[k].inc \cap Item}
<1>5. T \in SUBSET (0 .. n) /\ 0 \in T
  <2>1. 0 \in 0 .. n
    BY <1>1
  <2> QED BY <1>2, <1>3, <2>1 DEF ReplayTrace
<1>6. ASSUME NEW k \in 0 .. n - 1, k \in T PROVE k + 1 \in T
  <2>1. h[k].inc \cap Item = g[k].inc \cap Item
    BY <1>6
  <2>2. h[k + 1].inc \cap Item = g[k + 1].inc \cap Item
    BY <1>4, <2>1, StepItems
  <2> QED BY <1>4, <2>2
<1>7. T = 0 .. n
  <2> HIDE DEF T
  <2> QED BY <1>1, <1>5, <1>6, BoundedInduction
<1>8. h[n].inc \cap Item = g[n].inc \cap Item /\ h[n] \in Snapshot /\ g[n] \in Snapshot
  <2>1. n \in 0 .. n /\ n \in 0 .. Len(new)
    BY <1>1
  <2> QED BY <1>2, <1>3, <1>7, <2>1 DEF ReplayTrace, n
<1>9. g[n + 1] = ReplayStep(g[n], op, z)
  <2>1. n \in 0 .. Len(new) - 1
    BY <1>1
  <2> QED BY <1>1, <1>3, <2>1 DEF ReplayTrace
<1> QED BY <1>2, <1>3, <1>8, <1>9, StepItems DEF new

\* An op that apply() records on a timeline changes what is included.
LEMMA RecordedChanges ==
    ASSUME NEW tl \in Seq(Entry), NEW op \in RefinementOp, Records(op, tl),
           op.kind = "SetInclude", op.item \in Package \cup Config \cup Group \cup Section
    PROVE  Project(Append(tl, OpEntry(op))).inc # Project(tl).inc
<1> DEFINE ops == OpsIn(tl)
           inc == Project(tl).inc
           after == Project(Append(tl, OpEntry(op))).inc
           writes == CascadeOf(op.item, op.include, {})
           old == Replay(ops).inc
           to == ToggledTo(old, writes, op.include)
<1>1. ops \in Seq(RefinementOp) /\ Replay(ops) \in Snapshot
  BY OpsInTyped, FreshIsNew
<1>2. inc = old \ Locked
  BY DEF Project, ProjectOps, ClampLocked
<1>3. op \in SetIncludeOp /\ op \notin PasswordOp /\ op.item \in Item /\ op.include \in BOOLEAN
  BY DEF RefinementOp, SetIncludeOp, PasswordOp
<1>4. ~(op.include /\ IsItemLocked(op.item))
  BY Zenon DEF Records, IsLockedInclude
<1>5. after = Replay(Append(ops, op)).inc \ Locked
  BY OpsInPush DEF Project, ProjectOps, ClampLocked
<1>6. Replay(Append(ops, op)).inc \cap Item = to \cap Item
  <2>1. ReplayStep(Replay(ops), op, {}).inc = to
    BY <1>1, <1>3, <1>4, StepIncluded
  <2>2. Replay(Append(ops, op)).inc \cap Item = ReplayStep(Replay(ops), op, {}).inc \cap Item
    BY <1>1, ReplayAppend
  <2> QED BY <2>1, <2>2
<1>7. /\ ValidTarget(op, Project(tl)) /\ ~RefusedAsNoop(op, Project(tl))
      /\ ~IsOpNoop(op, Project(tl))
  BY Zenon DEF Records
<1>8. PICK m \in Item \ Locked : m \in writes /\ (m \in inc <=> ~op.include)
  <2>1. CASE op.item \in Package \cup Config
    <3>1. op.item \in inc <=> ~op.include
      BY <1>3, <1>7, <2>1 DEF IsOpNoop
    <3>2. op.item \notin Locked
      BY <1>2, <1>3, <1>4, <3>1, KindAssumption DEF IsItemLocked, Carried
    <3>3. op.item \in writes
      <4>1. CASE op.item \in Package
        <5>1. op.item \notin Section \cup Group \cup Service \cup Config
          BY <4>1, KindAssumption
        <5> QED BY <1>3, <5>1, CascadeKinds
      <4>2. CASE op.item \in Config
        <5>1. op.item \notin FixedConfig
          BY <1>7 DEF ValidTarget
        <5> QED BY <1>3, <4>2, <5>1, CascadeKinds
      <4> QED BY <2>1, <4>1, <4>2
    <3> QED BY <1>3, <3>1, <3>2, <3>3
  <2>2. CASE op.item \in Group
    <3>1. \E m \in GroupMembers(op.item) : m \in inc <=> ~op.include
      <4>1. ~(IF op.include THEN GroupMembers(op.item) \subseteq inc
              ELSE GroupMembers(op.item) \cap inc = {})
        BY <1>7, <2>2, Zenon DEF RefusedAsNoop
      <4> QED BY <1>3, <4>1
    <3>2. PICK m \in GroupMembers(op.item) : m \in inc <=> ~op.include
      BY <3>1
    <3>3. m \in Item \ Locked /\ m \in writes
      BY <1>3, <2>2, CascadeKinds DEF GroupMembers, Item
    <3> QED BY <3>2, <3>3
  <2>3. CASE op.item \in Section
    <3>1. \E m \in RepoMembers(op.item) : m \in inc <=> ~op.include
      <4>0. op.item \notin Group
        BY <2>3, KindAssumption
      <4>1. ~(IF op.include THEN RepoMembers(op.item) \subseteq inc
              ELSE RepoMembers(op.item) \cap inc = {})
        BY <1>7, <2>3, <4>0, Zenon DEF RefusedAsNoop
      <4> QED BY <1>3, <4>1
    <3>2. PICK m \in RepoMembers(op.item) : m \in inc <=> ~op.include
      BY <3>1
    <3>3. m \in Item \ Locked /\ m \in writes
      BY <1>3, <2>3, CascadeKinds DEF RepoMembers, RepoCascade, Item
    <3> QED BY <3>2, <3>3
  <2> QED BY <2>1, <2>2, <2>3
<1>9. m \in after <=> op.include
  <2> HIDE DEF inc, after, writes
  <2> QED BY <1>3, <1>5, <1>6, <1>8 DEF ToggledTo
<1>10. after # inc
  BY <1>3, <1>8, <1>9
<1> QED BY <1>10

\* A recorded package, config, group or repo op changes the projection, on top
\* of every timeline a session can reach.
THEOREM OpsMatter == Spec => RecordedOpsMatter
<1> DEFINE Matters == \A c \in Client, op \in SubmittedOps :
                        /\ Apply(c, op)
                        /\ op.kind = "SetInclude"
                        /\ op.item \in Package \cup Config \cup Group \cup Section
                        => Project(Active)'.inc # Project(Active).inc
<1>1. TypeOK => Matters
  <2> SUFFICES ASSUME TypeOK, NEW c \in Client, NEW op \in SubmittedOps, Apply(c, op),
                      op.kind = "SetInclude", op.item \in Package \cup Config \cup Group \cup Section
               PROVE  Project(Active)'.inc # Project(Active).inc
    BY Zenon
  <2>1. op \in RefinementOp /\ OpEntry(op) \in Entry
    BY SubmittedAssumption, EntriesTyped
  <2>2. Active \in Seq(Entry) /\ Len(Active) = cursor
    BY ViewTyped DEF Active, TypeOK
  <2>3. timeline' = Append(Active, OpEntry(op)) /\ cursor' = cursor + 1 /\ Records(op, Active)
    BY DEF Apply, Push, Mutate
  <2>4. Active' = Append(Active, OpEntry(op))
    <3> DEFINE new == Append(Active, OpEntry(op))
    <3>1. new \in Seq(Entry) /\ Len(new) = cursor + 1
      BY <2>1, <2>2
    <3>2. Active' = SubSeq(new, 1, cursor + 1)
      BY <2>3 DEF Active
    <3> HIDE DEF new
    <3>3. SubSeq(new, 1, cursor + 1) = new
      BY <3>1
    <3> QED BY <3>2, <3>3 DEF new
  <2>5. Project(Append(Active, OpEntry(op))).inc # Project(Active).inc
    BY <2>1, <2>2, <2>3, RecordedChanges
  <2>6. Project(Active)' = Project(Active')
    BY Zenon DEF Project
  <2> QED BY <2>4, <2>5, <2>6
<1> QED BY <1>1, TypeCorrect, PTL DEF RecordedOpsMatter

-----------------------------------------------------------------------------
(* Services and their drop-ins                                             *)

\* No drop-in without the row of its unit.
Covered(inc) == \A d \in DropIn : UnitOf[d] \in Service /\ d \in inc => UnitOf[d] \in inc

\* Every single op was recorded by apply() on the entries before it.
Chained(tl) ==
    \A k \in 1 .. Len(tl) : tl[k].kind = "Op" =>
        \E op \in RefinementOp : tl[k] = OpEntry(op) /\ Records(op, SubSeq(tl, 1, k - 1))

\* So it is in the session, redo tail included, and in the sidecar.
AllChained == Chained(timeline) /\ (sidecar # NoFile => Chained(sidecar.timeline))

\* What one more op does to the items.
LEMMA ProjectPush ==
    ASSUME NEW tl \in Seq(Entry), NEW op \in RefinementOp
    PROVE  /\ Replay(OpsIn(tl)) \in Snapshot /\ Project(tl).inc = Replay(OpsIn(tl)).inc \ Locked
           /\ Project(Append(tl, OpEntry(op))).inc \cap Item =
                (ReplayStep(Replay(OpsIn(tl)), op, {}).inc \ Locked) \cap Item
<1> DEFINE ops == OpsIn(tl)
<1>1. ops \in Seq(RefinementOp) /\ Replay(ops) \in Snapshot
  BY OpsInTyped, FreshIsNew
<1>2. Project(tl).inc = Replay(ops).inc \ Locked
  BY DEF Project, ProjectOps, ClampLocked
<1>3. Project(Append(tl, OpEntry(op))).inc = Replay(Append(ops, op)).inc \ Locked
  BY OpsInPush DEF Project, ProjectOps, ClampLocked
<1>4. Replay(Append(ops, op)).inc \cap Item = ReplayStep(Replay(ops), op, {}).inc \cap Item
  BY <1>1, ReplayAppend
<1> HIDE DEF ops
<1>5. Project(Append(tl, OpEntry(op))).inc \cap Item = (ReplayStep(Replay(ops), op, {}).inc \ Locked) \cap Item
  BY <1>3, <1>4
<1> QED BY <1>1, <1>2, <1>5 DEF ops

\* validate_target's drop-in rule and the service cascade keep the rows.
LEMMA PushCovers ==
    ASSUME NEW tl \in Seq(Entry), NEW op \in RefinementOp, Records(op, tl), Covered(Project(tl).inc)
    PROVE  Covered(Project(Append(tl, OpEntry(op))).inc)
<1> DEFINE inc == Project(tl).inc
           snap == Replay(OpsIn(tl))
           after == Project(Append(tl, OpEntry(op))).inc
           writes == CascadeOf(op.item, op.include, {})
<1>1. snap \in Snapshot /\ inc = snap.inc \ Locked
  BY ProjectPush
<1>2. after \cap Item = (ReplayStep(snap, op, {}).inc \ Locked) \cap Item
  BY ProjectPush
<1>3. ValidTarget(op, Project(tl)) /\ ~IsLockedInclude(op)
  BY Zenon DEF Records
<1>4. \A d \in DropIn : d \in Item /\ (UnitOf[d] \in Service => UnitOf[d] \in Item /\ UnitOf[d] \notin DropIn)
  BY KindAssumption DEF Item
<1> HIDE DEF snap, after, inc
<1>5. CASE op \in PasswordOp
  <2>1. ReplayStep(snap, op, {}).inc = snap.inc
    BY <1>1, <1>5, StepIncluded
  <2>2. after \cap Item = inc \cap Item
    BY <1>1, <1>2, <2>1
  <2>3. Covered(inc)
    BY DEF inc
  <2> QED BY <1>4, <2>2, <2>3 DEF Covered, after
<1>6. CASE op \notin PasswordOp
  <2>1. op \in SetIncludeOp /\ op.kind = "SetInclude" /\ op.item \in Item /\ op.include \in BOOLEAN
    BY <1>6 DEF RefinementOp, SetIncludeOp
  <2>2. ~(op.include /\ IsItemLocked(op.item))
    BY <1>3, <2>1, Zenon DEF IsLockedInclude
  <2>3. ReplayStep(snap, op, {}).inc = ToggledTo(snap.inc, writes, op.include)
    BY <1>1, <1>6, <2>2, StepIncluded
  <2>4. after \cap Item = (ToggledTo(snap.inc, writes, op.include) \ Locked) \cap Item
    BY <1>2, <2>3
  <2> SUFFICES ASSUME NEW d \in DropIn, UnitOf[d] \in Service, d \in after
               PROVE  UnitOf[d] \in after
    BY DEF Covered, after
  <2> DEFINE u == UnitOf[d]
  <2>5. u \in Service /\ u \in Item /\ d \in Item /\ (d \in inc => u \in inc)
    BY <1>4 DEF Covered, inc
  <2>6. d \in ToggledTo(snap.inc, writes, op.include) /\ d \notin Locked
    BY <2>4, <2>5
  <2> HIDE DEF writes
  <2>7. CASE op.item \in Service
    <3>1. writes = {op.item} \cup {x \in DropIn : UnitOf[x] = op.item}
      BY <2>1, <2>7, CascadeKinds DEF writes
    <3>2. CASE op.item = u
      <4>1. op.include
        BY <2>1, <2>6, <3>1, <3>2 DEF ToggledTo
      <4>2. u \notin Locked
        BY <2>2, <2>5, <3>2, <4>1, KindAssumption DEF IsItemLocked, Carried
      <4> QED BY <2>4, <2>5, <3>1, <3>2, <4>1, <4>2 DEF ToggledTo
    <3>3. CASE op.item # u
      <4>1. d \notin writes /\ u \notin writes
        BY <1>4, <2>5, <2>7, <3>1, <3>3, KindAssumption
      <4>2. d \in inc
        BY <1>1, <2>1, <2>6, <4>1 DEF ToggledTo
      <4> QED BY <1>1, <2>1, <2>4, <2>5, <4>1, <4>2 DEF ToggledTo
    <3> QED BY <3>2, <3>3
  <2>8. CASE op.item \in DropIn
    <3>1. writes = {op.item}
      <4>1. op.item \notin Section \cup Group \cup Service \cup Config
        BY <2>8, KindAssumption
      <4> QED BY <2>1, <4>1, CascadeKinds DEF writes
    <3>2. u \notin writes
      BY <1>4, <2>5, <2>8, <3>1
    <3>3. u \in inc
      <4>1. CASE d = op.item
        <5>1. op.include
          BY <2>1, <2>6, <3>1, <4>1 DEF ToggledTo
        <5> QED BY <1>3, <2>1, <2>5, <2>8, <4>1, <5>1 DEF ValidTarget, inc
      <4>2. CASE d # op.item
        <5>1. d \in inc
          BY <1>1, <2>1, <2>6, <3>1, <4>2 DEF ToggledTo
        <5> QED BY <2>5, <5>1
      <4> QED BY <4>1, <4>2
    <3> QED BY <1>1, <2>1, <2>4, <2>5, <3>2, <3>3 DEF ToggledTo
  <2>9. CASE op.item \notin Service \cup DropIn
    <3>1. d \notin writes /\ u \notin writes
      <4>1. CASE op.item \in Section
        <5>1. writes \subseteq Package \cup Carried
          BY <2>1, <4>1, CascadeKinds, SnapshotAssumption DEF writes, RepoCascade, Carried
        <5> QED BY <2>5, <5>1, KindAssumption
      <4>2. CASE op.item \notin Section
        <5>1. writes \subseteq Package \cup {op.item}
          BY <2>1, <2>9, <4>2, CascadeKinds DEF writes
        <5> QED BY <2>5, <2>9, <5>1, KindAssumption
      <4> QED BY <4>1, <4>2
    <3>2. d \in inc
      BY <1>1, <2>1, <2>6, <3>1 DEF ToggledTo
    <3> QED BY <1>1, <2>1, <2>4, <2>5, <3>1, <3>2 DEF ToggledTo
  <2> QED BY <2>7, <2>8, <2>9
<1> QED BY <1>5, <1>6

\* The projection of no entries is the original snapshot.
LEMMA ProjectNothing == Project(<<>>).inc = OrigIncluded \ Locked
<1>1. <<>> \in Seq(Entry) /\ Len(<<>>) = 0 /\ <<>> \in Seq(RefinementOp)
  OBVIOUS
<1>2. OpsIn(<<>>) = <<>>
  BY <1>1, OpsInIsFold DEF OpsTrace
<1>3. Replay(<<>>) = Original
  BY <1>1, ReplayIsFold DEF ReplayTrace
<1> QED BY <1>2, <1>3 DEF Project, ProjectOps, ClampLocked, Original

\* The prefixes of a prefix are prefixes.
LEMMA PrefixOfPrefix ==
    ASSUME NEW tl \in Seq(Entry), NEW c \in 0 .. Len(tl)
    PROVE  /\ SubSeq(tl, 1, c) \in Seq(Entry) /\ Len(SubSeq(tl, 1, c)) = c
           /\ \A k \in 1 .. c : SubSeq(tl, 1, c)[k] = tl[k]
           /\ \A k \in 0 .. c : SubSeq(SubSeq(tl, 1, c), 1, k) = SubSeq(tl, 1, k)
           /\ \A k \in 0 .. Len(tl) - 1 : SubSeq(tl, 1, k + 1) = Append(SubSeq(tl, 1, k), tl[k + 1])
OBVIOUS

\* While no batch counts, every prefix keeps the rows of its drop-ins.
LEMMA ChainCovers ==
    ASSUME RowsCoverDropIns, NEW tl \in Seq(Entry), Chained(tl), NEW c \in 0 .. Len(tl),
           \A i \in 1 .. c : tl[i].kind # "Batch"
    PROVE  Covered(Project(SubSeq(tl, 1, c)).inc)
<1> DEFINE T == {k \in 0 .. c : Covered(Project(SubSeq(tl, 1, k)).inc)}
<1>0. c \in Nat /\ Len(tl) \in Nat /\ c <= Len(tl)
  OBVIOUS
<1>1. T \in SUBSET (0 .. c) /\ 0 \in T
  <2>1. SubSeq(tl, 1, 0) = <<>> /\ 0 \in 0 .. c
    BY <1>0
  <2>2. Covered(OrigIncluded \ Locked)
    BY DEF RowsCoverDropIns, Covered
  <2>3. Covered(Project(SubSeq(tl, 1, 0)).inc)
    BY <2>1, <2>2, ProjectNothing, Zenon
  <2> QED BY <2>1, <2>3
<1>2. ASSUME NEW k \in 0 .. c - 1, k \in T PROVE k + 1 \in T
  <2> DEFINE pre == SubSeq(tl, 1, k)
             e == tl[k + 1]
  <2>1. /\ k + 1 \in 0 .. c /\ k \in 0 .. Len(tl) /\ k \in 0 .. Len(tl) - 1 /\ k + 1 \in 1 .. c
        /\ k + 1 \in 1 .. Len(tl) /\ (k + 1) - 1 = k
    BY <1>0
  <2>2. pre \in Seq(Entry) /\ SubSeq(tl, 1, k + 1) = Append(pre, e) /\ e \in Entry /\ e.kind # "Batch"
    <3>1. pre \in Seq(Entry) /\ SubSeq(tl, 1, k + 1) = Append(pre, e)
      BY <2>1, PrefixOfPrefix, Zenon
    <3>2. e \in Entry /\ e.kind # "Batch"
      BY <2>1
    <3> QED BY <3>1, <3>2
  <2>3. Covered(Project(pre).inc)
    BY <1>2
  <2>4. Covered(Project(Append(pre, e)).inc)
    <3>1. CASE e.kind = "Op"
      <4>1. PICK op \in RefinementOp : e = OpEntry(op) /\ Records(op, pre)
        BY <2>1, <3>1 DEF Chained
      <4> HIDE DEF pre, e
      <4> QED BY <2>2, <2>3, <4>1, PushCovers
    <3>2. CASE e.kind = "View"
      <4> HIDE DEF pre, e
      <4>1. OpsIn(Append(pre, e)) = OpsIn(pre)
        BY <2>2, <3>2, OpsInPush
      <4>2. Project(Append(pre, e)) = Project(pre)
        BY <4>1, Zenon DEF Project
      <4> QED BY <2>3, <4>2
    <3>3. e.kind \in {"Op", "Batch", "View"}
      BY <2>2 DEF Entry
    <3> QED BY <2>2, <3>1, <3>2, <3>3
  <2>5. Covered(Project(SubSeq(tl, 1, k + 1)).inc)
    BY <2>2, <2>4, Zenon
  <2> QED BY <2>1, <2>5
<1>3. T = 0 .. c
  <2> HIDE DEF T
  <2> QED BY <1>0, <1>1, <1>2, BoundedInduction
<1>4. c \in T
  BY <1>0, <1>3
<1> QED BY <1>4

\* Cutting the redo tail and pushing an entry keep the chain.
LEMMA PushChains ==
    ASSUME NEW tl \in Seq(Entry), Chained(tl), NEW c \in 0 .. Len(tl), NEW e \in Entry,
           e.kind = "Op" => \E op \in RefinementOp : e = OpEntry(op) /\ Records(op, SubSeq(tl, 1, c))
    PROVE  Chained(Append(SubSeq(tl, 1, c), e))
<1> DEFINE pre == SubSeq(tl, 1, c)
           new == Append(pre, e)
<1>0. c \in Nat /\ Len(tl) \in Nat /\ c <= Len(tl)
  OBVIOUS
<1>1. /\ pre \in Seq(Entry) /\ Len(pre) = c /\ \A k \in 1 .. c : pre[k] = tl[k]
      /\ \A k \in 0 .. c : SubSeq(pre, 1, k) = SubSeq(tl, 1, k)
  BY PrefixOfPrefix, Zenon
<1> HIDE DEF pre
<1>2. /\ new \in Seq(Entry) /\ Len(new) = c + 1 /\ new[c + 1] = e
      /\ \A k \in 1 .. c : new[k] = pre[k]
  BY <1>1
<1>3. ASSUME NEW k \in 0 .. c PROVE SubSeq(new, 1, k) = SubSeq(pre, 1, k)
  <2>1. k \in Nat /\ k <= c
    BY <1>0
  <2> HIDE DEF new
  <2>2. /\ SubSeq(new, 1, k) \in Seq(Entry) /\ Len(SubSeq(new, 1, k)) = k
        /\ \A i \in 1 .. k : SubSeq(new, 1, k)[i] = new[i]
    BY <1>0, <1>2, <2>1
  <2>3. /\ SubSeq(pre, 1, k) \in Seq(Entry) /\ Len(SubSeq(pre, 1, k)) = k
        /\ \A i \in 1 .. k : SubSeq(pre, 1, k)[i] = pre[i]
    BY <1>0, <1>1, <2>1
  <2>4. \A i \in 1 .. k : SubSeq(new, 1, k)[i] = SubSeq(pre, 1, k)[i]
    BY <1>0, <1>2, <2>1, <2>2, <2>3
  <2> QED BY <2>2, <2>3, <2>4
<1>4. SubSeq(pre, 1, c) = pre
  BY <1>0, <1>1
<1> HIDE DEF new
<1>5. ASSUME NEW k \in 1 .. c + 1, new[k].kind = "Op"
      PROVE  \E op \in RefinementOp : new[k] = OpEntry(op) /\ Records(op, SubSeq(new, 1, k - 1))
  <2>1. CASE k = c + 1
    <3>1. k - 1 = c /\ SubSeq(new, 1, c) = pre
      BY <1>0, <1>3, <1>4, <2>1
    <3> QED BY <1>2, <1>5, <2>1, <3>1 DEF pre
  <2>2. CASE k # c + 1
    <3>1. k \in 1 .. c /\ k \in 1 .. Len(tl) /\ k - 1 \in 0 .. c
      BY <1>0, <2>2
    <3>2. new[k] = tl[k] /\ SubSeq(new, 1, k - 1) = SubSeq(tl, 1, k - 1)
      BY <1>1, <1>2, <1>3, <3>1
    <3> QED BY <1>5, <3>1, <3>2 DEF Chained
  <2> QED BY <2>1, <2>2
<1>6. Chained(new)
  BY <1>2, <1>5 DEF Chained
<1> QED BY <1>6 DEF new, pre

\* Every step keeps the chain in memory and on disk.
LEMMA ChainStep == TypeOK /\ AllChained /\ [Next]_vars => AllChained'
<1> SUFFICES ASSUME TypeOK, AllChained, [Next]_vars PROVE AllChained'
  OBVIOUS
<1>0. timeline \in Seq(Entry) /\ cursor \in 0 .. Len(timeline) /\ Chained(timeline) /\ Chained(<<>>)
  BY DEF TypeOK, AllChained, Chained
<1>1. ASSUME NEW c \in Client, NEW tl, NEW cur, Mutate(c, tl, cur), Chained(tl) PROVE AllChained'
  <2>1. timeline' = tl /\ TryAutosave(tl, cur)
    BY <1>1 DEF Mutate
  <2>2. sidecar' = sidecar \/ sidecar'.timeline = tl
    BY <2>1 DEF TryAutosave
  <2>3. Chained(timeline')
    BY <1>1, <2>1
  <2>4. sidecar' # NoFile => Chained(sidecar'.timeline)
    BY <1>1, <2>2 DEF AllChained
  <2> QED BY <2>3, <2>4, Zenon DEF AllChained, NoFile, Chained
<1>2. ASSUME NEW c \in Client, NEW e \in Entry, Push(c, e),
             e.kind = "Op" => \E op \in RefinementOp : e = OpEntry(op) /\ Records(op, Active)
      PROVE  AllChained'
  <2>1. Chained(Append(Active, e))
    BY <1>0, <1>2, PushChains DEF Active
  <2> QED BY <1>1, <1>2, <2>1 DEF Push
<1>3. ASSUME NEW c \in Client, ClientStep(c) PROVE AllChained'
  <2>1. ASSUME NEW op \in SubmittedOps, Apply(c, op) PROVE AllChained'
    <3>1. OpEntry(op) \in Entry /\ op \in RefinementOp /\ Records(op, Active) /\ Push(c, OpEntry(op))
      BY <2>1, EntriesTyped, SubmittedAssumption DEF Apply
    <3> QED BY <1>2, <3>1
  <2>2. ASSUME NEW g \in SubmittedGroups, ApplyDirective(c, g) PROVE AllChained'
    <3>1. ViewEntry(g) \in Entry /\ ViewEntry(g).kind = "View" /\ Push(c, ViewEntry(g))
      BY <2>2, EntriesTyped DEF ApplyDirective, ViewEntry
    <3> QED BY <1>2, <3>1
  <2>3. ASSUME NEW b \in SubmittedBatches, ApplyBatch(c, b) PROVE AllChained'
    <3> DEFINE e == BatchEntry(BatchSurvivors(b))
    <3>1. e \in Entry /\ e.kind = "Batch" /\ Push(c, e)
      BY <2>3, EntriesTyped DEF ApplyBatch, BatchEntry
    <3> HIDE DEF e
    <3> QED BY <1>2, <3>1
  <2>4. CASE Undo(c)
    BY <1>0, <1>1, <2>4 DEF Undo
  <2>5. CASE Redo(c)
    BY <1>0, <1>1, <2>5 DEF Redo
  <2>6. CASE Reset(c)
    BY <1>0, <1>1, <2>6 DEF Reset
  <2> QED BY <1>3, <2>1, <2>2, <2>3, <2>4, <2>5, <2>6 DEF ClientStep
<1>4. CASE UNCHANGED <<timeline, sidecar>>
  BY <1>4 DEF AllChained, NoFile
<1>5. CASE StartFresh \/ DiscardAndStart
  <2>1. timeline' = <<>> /\ (sidecar' = sidecar \/ sidecar' = NoFile)
    BY <1>5 DEF StartFresh, DiscardAndStart, Start
  <2>2. Chained(timeline')
    BY <1>0, <2>1
  <2>3. sidecar' # NoFile => Chained(sidecar'.timeline)
    BY <2>1 DEF AllChained
  <2> QED BY <2>2, <2>3, Zenon DEF AllChained, NoFile, Chained
<1>6. CASE ResumeSession
  <2>1. sidecar # NoFile /\ sidecar \in SavedState /\ timeline' = sidecar.timeline
    BY <1>6 DEF ResumeSession, Start, TypeOK
  <2>2. sidecar'.timeline = sidecar.timeline
    BY <1>6, <2>1 DEF ResumeSession, SavedState
  <2> QED BY <2>1, <2>2 DEF AllChained, NoFile
<1>7. CASE Crash
  <2>1. timeline' = <<>> /\ sidecar' = sidecar
    BY <1>7 DEF Crash, disk
  <2> QED BY <1>0, <2>1 DEF AllChained, NoFile
<1>8. (\E c \in Tab : TabStep(c)) \/ ChangeUploads \/ RewriteTarball \/ UNCHANGED vars
        => UNCHANGED <<timeline, sidecar>>
  BY DEF TabStep, GetView, Export, ChangeUploads, RewriteTarball, vars, session, disk
<1> QED BY <1>3, <1>4, <1>5, <1>6, <1>7, <1>8 DEF Next

\* While no batch is active no drop-in is included under an excluded service
\* row, for every snapshot of a scan and every history, resumed ones included.
THEOREM DropInsFollow == ASSUME RowsCoverDropIns PROVE Spec => []DropInsFollowService
<1>1. Init => AllChained
  BY DEF Init, AllChained, Chained
<1>2. TypeOK /\ AllChained => DropInsFollowService
  <2> SUFFICES ASSUME TypeOK, AllChained, \A i \in 1 .. cursor : timeline[i].kind # "Batch"
               PROVE  Covered(Project(Active).inc)
    BY Zenon DEF DropInsFollowService, Covered
  <2> QED BY ChainCovers DEF Active, TypeOK, AllChained
<1> QED BY <1>1, <1>2, ChainStep, TypeCorrect, PTL DEF Spec
=============================================================================
