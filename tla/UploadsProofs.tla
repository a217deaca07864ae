---------------------------- MODULE UploadsProofs ----------------------------
(***************************************************************************)
(* Theorems about Uploads, for every set of packages, file names, requests *)
(* and exports, every name match and every fault set: the directory and    *)
(* the records agree, one package writes each exported name, removal       *)
(* restores what the scan recorded, and exports carry uploads only.        *)
(***************************************************************************)
EXTENDS Uploads, InductionLemmas

-----------------------------------------------------------------------------
(* The inductive invariant                                                 *)

ReqState ==
    {Idle}
      \cup [pc : {"streaming", "staged"}, file : File]
      \cup [pc : {"placed", "recorded"}, file : File, old : File \cup {"none"}]
      \cup [pc : {"unlinked"}, package : Package]

Claim == [package : Package, file : File \cup Unstaged]
Copy == [package : Package, file : File \cup Unstaged, body : Nat]

ExportState ==
    [pc : {"idle", "proving"}, plan : SUBSET Claim, todo : SUBSET Claim, got : SUBSET Copy]
      \cup [pc : {"opening"}, plan : SUBSET Claim, todo : SUBSET Claim, got : SUBSET Copy,
            claim : Claim, seen : Nat]

\* What a staged name may lead to.
Body == Nat \cup {Link}

TypeOK ==
    /\ up \in BOOLEAN /\ prepared \in BOOLEAN
    /\ epoch \in Nat /\ bodies \in Nat
    /\ entry \in [Package -> Entry] /\ prior \in [Package -> Entry]
    /\ lock \in Request \cup {Nobody}
    /\ req \in [Request -> ReqState]
    /\ dir \in [File -> Body] /\ \A f \in File : dir[f] # Link => dir[f] <= bodies
    /\ parts \subseteq Nat \X Request
    /\ export \in [Exporter -> ExportState]

\* The lock is held by exactly the request between the two ends of a commit or
\* a removal; a process that is down has prepared nothing.
LockHeld ==
    /\ \A r \in Request : req[r].pc \in {"placed", "recorded", "unlinked"} <=> lock = r
    /\ ~up => ~prepared

\* An upload this process recorded.
Ours(p) == entry[p].uploaded /\ entry[p] # OrigEntry[p]

\* The name is not the one the export writes for another package's cached RPM.
Unclaimed(f) ==
    \A q \in Package :
      q # MatchOf[f] /\ NevraOf[q] = f => OrigEntry[q].uploaded \/ ~OrigEntry[q].cached

\* Where an entry comes from: the scan, a removal, or the upload of a file that
\* matches the package.
Provenance ==
    \A p \in Package :
      \/ entry[p] = OrigEntry[p]
      \/ entry[p] = Empty /\ OrigEntry[p].uploaded
      \/ \E f \in File : entry[p] = Recorded(f) /\ MatchOf[f] = p /\ Unclaimed(f)

\* prior_cache holds what the scan recorded while an upload displaces it.
PriorRight ==
    \A p \in Package :
      prior[p] = IF entry[p].uploaded /\ ~OrigEntry[p].uploaded /\ OrigEntry[p].cached
                 THEN OrigEntry[p] ELSE Empty

\* Nobody else claims the file of a recorded upload.
PathsApart ==
    \A p, q \in Package :
      p # q /\ Ours(p) /\ entry[q].uploaded => entry[q].path # entry[p].path

\* Every staged file went through the 409 checks, and the file of a recorded
\* upload is there until its removal has begun.
FilesStaged ==
    /\ \A f \in Present : Unclaimed(f)
    /\ \A p \in Package : Ours(p) =>
         \/ entry[p].path \in Present
         \/ \E r \in Request : req[r].pc = "unlinked" /\ req[r].package = p

\* Between the rename and the unlink: nobody claims the new name, and nobody
\* but the package itself the superseded one.  A removal in progress is of an
\* upload.
CommitSafe ==
    \A r \in Request :
      /\ req[r].pc = "placed" =>
           /\ req[r].file \in Present
           /\ \A q \in Package : q # MatchOf[req[r].file] => entry[q].path # req[r].file
      /\ req[r].pc \in {"placed", "recorded"} =>
           /\ req[r].old # req[r].file
           /\ \A q \in Package :
                q # MatchOf[req[r].file] /\ Ours(q) => entry[q].path # req[r].old
      /\ req[r].pc = "recorded" =>
           \A q \in Package : q = MatchOf[req[r].file] => entry[q] = Recorded(req[r].file)
      /\ req[r].pc = "unlinked" => entry[req[r].package].uploaded

\* Part files of a prepared directory belong to requests in flight.
PartsOwned ==
    up /\ prepared =>
      \A part \in parts : part[1] = epoch /\ req[part[2]].pc \in {"streaming", "staged"}

\* What an export still has to prove, or is opening, was planned.
PlansHold ==
    \A x \in Exporter :
      /\ export[x].todo \subseteq {c \in export[x].plan : c.file \in File}
      /\ export[x].pc = "opening" =>
           export[x].claim \in export[x].plan /\ export[x].claim.file \in File

IInv ==
    /\ TypeOK
    /\ LockHeld
    /\ Provenance
    /\ PriorRight
    /\ PathsApart
    /\ FilesStaged
    /\ CommitSafe
    /\ PartsOwned
    /\ PlansHold
    /\ ExportsOnlyUploads

-----------------------------------------------------------------------------
(* Facts about the entries                                                 *)

\* The kinds of path do not overlap, and an upload's entry is none of the
\* entries a package has without one.
LEMMA EntryFacts ==
    /\ \A f \in File : /\ Recorded(f) \in Entry /\ Recorded(f).uploaded /\ Recorded(f).path = f
                       /\ f \notin Unstaged
    /\ Empty \in Entry /\ ~Empty.uploaded /\ ~Empty.cached /\ Empty.path = "none"
BY UploadAssumption DEF Recorded, Empty, Entry, Unstaged

\* An upload of this process is the record of a file that matches the package.
LEMMA OursRecorded ==
    ASSUME Provenance, NEW p \in Package, Ours(p)
    PROVE  /\ entry[p].path \in File /\ entry[p] = Recorded(entry[p].path)
           /\ MatchOf[entry[p].path] = p /\ Unclaimed(entry[p].path)
<1>1. PICK f \in File : entry[p] = Recorded(f) /\ MatchOf[f] = p /\ Unclaimed(f)
  BY EntryFacts DEF Provenance, Ours
<1> QED BY <1>1, EntryFacts

\* The rescan gives a package one of the files it found for it.
LEMMA LastOfFiles ==
    ASSUME NEW p \in Package, RescanFiles(p) # {}
    PROVE  LastOf(RescanFiles(p)) \in RescanFiles(p)
<1> DEFINE S == RescanFiles(p)
           rank == [f \in S |-> Rank[f]]
<1>1. S \in SUBSET File /\ IsFiniteSet(File) /\ Rank \in [File -> Nat]
  BY UploadAssumption DEF RescanFiles, Regular, Present
<1>2. IsFiniteSet(S)
  BY <1>1, FS_Subset
<1>3. rank \in [S -> Nat]
  BY <1>1
<1>4. \E f \in S : \A g \in S : rank[g] <= rank[f]
  <2> HIDE DEF S, rank
  <2> QED BY <1>2, <1>3, HighestRank DEF S
<1>5. \E f \in S : \A g \in S : Rank[g] <= Rank[f]
  BY <1>4
<1> QED BY <1>5, Zenon DEF LastOf

\* record_uploaded for the packages a function gives a file to, one in a commit
\* and any number in a rescan.
Recording(file) ==
    /\ entry' = [p \in Package |-> IF file[p] = "none" THEN entry[p] ELSE Recorded(file[p])]
    /\ prior' = [p \in Package |-> IF file[p] = "none" THEN prior[p] ELSE PriorAfter(p)]

\* Recording files that match, that nobody claims and that passed the checks
\* keeps the entries in order.
LEMMA RecordingKeeps ==
    ASSUME entry \in [Package -> Entry], prior \in [Package -> Entry],
           Provenance, PriorRight, PathsApart,
           NEW file \in [Package -> File \cup {"none"}], Recording(file),
           \A p \in Package : file[p] # "none" =>
             /\ MatchOf[file[p]] = p /\ Unclaimed(file[p])
             /\ \A q \in Package \ {p} : entry[q].uploaded => entry[q].path # file[p]
    PROVE  /\ entry' \in [Package -> Entry] /\ prior' \in [Package -> Entry]
           /\ Provenance' /\ PriorRight' /\ PathsApart'
<1> USE EntryFacts
<1>0. \A p \in Package : /\ file[p] = "none" => entry'[p] = entry[p] /\ prior'[p] = prior[p]
                         /\ file[p] # "none" => /\ file[p] \in File /\ entry'[p] = Recorded(file[p])
                                                /\ prior'[p] = PriorAfter(p)
  BY DEF Recording
<1>1. entry' \in [Package -> Entry]
  BY DEF Recording
<1>2. prior' \in [Package -> Entry]
  BY DEF Recording, PriorAfter
<1>3. Provenance'
  <2> SUFFICES ASSUME NEW p \in Package
               PROVE  \/ entry'[p] = OrigEntry[p]
                      \/ entry'[p] = Empty /\ OrigEntry[p].uploaded
                      \/ \E f \in File : entry'[p] = Recorded(f) /\ MatchOf[f] = p /\ Unclaimed(f)
    BY DEF Provenance, Unclaimed, Recorded
  <2>1. CASE file[p] = "none"
    BY <1>0, <2>1 DEF Provenance
  <2>2. CASE file[p] # "none"
    BY <1>0, <2>2
  <2> QED BY <2>1, <2>2
<1>4. PriorRight'
  <2> SUFFICES ASSUME NEW p \in Package
               PROVE  prior'[p] = IF entry'[p].uploaded /\ ~OrigEntry[p].uploaded /\ OrigEntry[p].cached
                                  THEN OrigEntry[p] ELSE Empty
    BY DEF PriorRight
  <2>1. CASE file[p] = "none"
    BY <1>0, <2>1 DEF PriorRight
  <2>2. CASE file[p] # "none"
    <3>1. entry'[p].uploaded /\ prior'[p] = PriorAfter(p)
      BY <1>0, <2>2
    <3>2. CASE entry[p] = OrigEntry[p]
      BY <3>1, <3>2 DEF PriorAfter, PriorRight
    <3>3. CASE entry[p] = Empty /\ OrigEntry[p].uploaded
      BY <3>1, <3>3 DEF PriorAfter, PriorRight
    <3>4. CASE \E f \in File : entry[p] = Recorded(f)
      BY <3>1, <3>4 DEF PriorAfter, PriorRight
    <3> QED BY <3>2, <3>3, <3>4 DEF Provenance
  <2> QED BY <2>1, <2>2
<1>5. PathsApart'
  <2> SUFFICES ASSUME NEW p \in Package, NEW q \in Package, p # q,
                      entry'[p].uploaded, entry'[p] # OrigEntry[p], entry'[q].uploaded
               PROVE  entry'[q].path # entry'[p].path
    BY DEF PathsApart, Ours
  <2>1. CASE file[p] # "none" /\ file[q] # "none"
    BY <1>0, <2>1
  <2>2. CASE file[p] # "none" /\ file[q] = "none"
    BY <1>0, <2>2
  <2>3. CASE file[p] = "none" /\ file[q] # "none"
    <3>1. Ours(p) /\ entry'[p] = entry[p] /\ entry'[q].path = file[q]
      BY <1>0, <2>3 DEF Ours
    <3>2. MatchOf[entry[p].path] = p /\ MatchOf[file[q]] = q
      BY <2>3, <3>1, OursRecorded
    <3> QED BY <3>1, <3>2
  <2>4. CASE file[p] = "none" /\ file[q] = "none"
    BY <1>0, <2>4 DEF PathsApart, Ours
  <2> QED BY <2>1, <2>2, <2>3, <2>4
<1> QED BY <1>1, <1>2, <1>3, <1>4, <1>5

-----------------------------------------------------------------------------
(* Facts about requests, parts and plans                                   *)

\* What the step of a request says about the rest of its record.
LEMMA ReqFacts ==
    ASSUME TypeOK, NEW r \in Request
    PROVE  /\ req[r] \in ReqState /\ Idle \in ReqState /\ Idle.pc = "idle"
           /\ req[r].pc \in {"streaming", "staged"} =>
                /\ req[r].file \in File
                /\ [req[r] EXCEPT !.pc = "staged"] = [pc |-> "staged", file |-> req[r].file]
           /\ req[r].pc \in {"placed", "recorded"} =>
                /\ req[r].file \in File /\ req[r].old \in File \cup {"none"}
                /\ [req[r] EXCEPT !.pc = "recorded"] =
                     [pc |-> "recorded", file |-> req[r].file, old |-> req[r].old]
           /\ req[r].pc = "unlinked" => req[r].package \in Package
BY DEF TypeOK, ReqState, Idle

\* While the lock is free no commit and no removal is between its two ends.
LEMMA FreeLock ==
    ASSUME LockHeld, lock = Nobody
    PROVE  \A r \in Request : req[r].pc \notin {"placed", "recorded", "unlinked"}
BY UploadAssumption DEF LockHeld

\* Nothing about the entries changes in a step that leaves them alone.
LEMMA EntriesKept ==
    ASSUME Provenance, PriorRight, PathsApart, UNCHANGED <<entry, prior>>
    PROVE  Provenance' /\ PriorRight' /\ PathsApart'
BY DEF Provenance, PriorRight, PathsApart, Ours, Unclaimed, Recorded

\* Plans, and what was copied, stay good while uploads go on.
LEMMA PlansKept ==
    ASSUME TypeOK, PlansHold, ExportsOnlyUploads, UNCHANGED export,
           bodies' \in Nat, bodies' >= bodies
    PROVE  PlansHold' /\ ExportsOnlyUploads'
<1>1. bodies \in Nat
  BY DEF TypeOK
<1> QED BY <1>1 DEF PlansHold, ExportsOnlyUploads

-----------------------------------------------------------------------------
(* Initial states                                                          *)

\* The first process starts with the scan's records and an empty directory.
LEMMA IInvInit == Init => IInv
<1> SUFFICES ASSUME Init PROVE IInv
  OBVIOUS
<1>1. TypeOK
  <2>1. Resting \in ExportState /\ Idle \in ReqState
    BY DEF Resting, ExportState, ReqState, Idle
  <2>2. OrigEntry \in [Package -> Entry] /\ Empty \in Entry
    BY UploadAssumption, EntryFacts
  <2>3. /\ entry \in [Package -> Entry] /\ prior \in [Package -> Entry]
        /\ req \in [Request -> ReqState] /\ export \in [Exporter -> ExportState]
    BY <2>1, <2>2, Zenon DEF Init
  <2>4. dir \in [File -> Body] /\ \A f \in File : dir[f] # Link => dir[f] <= bodies
    BY DEF Init, Body
  <2>5. /\ up \in BOOLEAN /\ prepared \in BOOLEAN /\ epoch \in Nat /\ bodies \in Nat
        /\ lock \in Request \cup {Nobody} /\ parts \subseteq Nat \X Request
    BY DEF Init
  <2> QED BY <2>3, <2>4, <2>5 DEF TypeOK
<1>2. LockHeld /\ CommitSafe /\ PartsOwned
  BY UploadAssumption DEF Init, LockHeld, CommitSafe, PartsOwned, Idle
<1>3. Provenance /\ PathsApart /\ FilesStaged
  BY UploadAssumption DEF Init, Provenance, PathsApart, FilesStaged, Ours, Present
<1>4. PriorRight
  BY UploadAssumption DEF Init, PriorRight
<1>5. PlansHold /\ ExportsOnlyUploads
  BY DEF Init, PlansHold, ExportsOnlyUploads, Resting
<1> QED BY <1>1, <1>2, <1>3, <1>4, <1>5 DEF IInv

-----------------------------------------------------------------------------
(* The steps of an upload                                                  *)

\* The rescan records files nobody claims, and leaves everything in order.
LEMMA RescanKeeps ==
    ASSUME TypeOK, Provenance, PriorRight, PathsApart, FilesStaged, Rescan,
           UNCHANGED dir, lock = Nobody, LockHeld
    PROVE  /\ entry' \in [Package -> Entry] /\ prior' \in [Package -> Entry]
           /\ Provenance' /\ PriorRight' /\ PathsApart'
           /\ \A p \in Package : entry'[p].uploaded /\ entry'[p] # OrigEntry[p] =>
                entry'[p].path \in Present
<1> DEFINE file == [p \in Package |-> IF RescanFiles(p) = {} THEN "none" ELSE LastOf(RescanFiles(p))]
<1>1. \A p \in Package : RescanFiles(p) # {} => file[p] \in RescanFiles(p)
  BY LastOfFiles
<1>2. \A p \in Package : /\ RescanFiles(p) = {} <=> file[p] = "none"
                         /\ RescanFiles(p) # {} =>
                              /\ file[p] = LastOf(RescanFiles(p)) /\ file[p] \in Present \ SpokenFor
                              /\ MatchOf[file[p]] = p
  BY <1>1, EntryFacts DEF RescanFiles, Regular, Present, Unstaged
<1>3. file \in [Package -> File \cup {"none"}]
  BY <1>1 DEF RescanFiles, Regular, Present
<1> HIDE DEF file
<1>4. Recording(file)
  BY <1>2 DEF Rescan, Recording
<1>5. ASSUME NEW p \in Package, file[p] # "none"
      PROVE  /\ MatchOf[file[p]] = p /\ Unclaimed(file[p])
             /\ \A q \in Package \ {p} : entry[q].uploaded => entry[q].path # file[p]
  BY <1>2, <1>3, <1>5 DEF FilesStaged, SpokenFor, Present
<1>6. /\ entry' \in [Package -> Entry] /\ prior' \in [Package -> Entry]
      /\ Provenance' /\ PriorRight' /\ PathsApart'
  BY <1>3, <1>4, <1>5, RecordingKeeps DEF TypeOK
<1>7. ASSUME NEW p \in Package, entry'[p].uploaded, entry'[p] # OrigEntry[p]
      PROVE  entry'[p].path \in Present
  <2>1. CASE file[p] = "none"
    <3>1. entry'[p] = entry[p]
      BY <1>4, <2>1 DEF Recording
    <3> QED BY <1>7, <3>1, FreeLock DEF FilesStaged, Ours
  <2>2. CASE file[p] # "none"
    BY <1>2, <1>3, <1>4, <2>2, EntryFacts DEF Recording
  <2> QED BY <2>1, <2>2
<1> QED BY <1>6, <1>7

\* A request that starts to stream owns its part file and nothing else.
LEMMA BeginUploadKeeps ==
    ASSUME IInv, NEW r \in Request, NEW f \in File, BeginUpload(r, f)
    PROVE  IInv'
<1> USE DEF BeginUpload, Becomes
<1>0. req' = [req EXCEPT ![r] = [pc |-> "streaming", file |-> f]] /\ req \in [Request -> ReqState]
  BY DEF IInv, TypeOK
<1>1. [pc |-> "streaming", file |-> f] \in ReqState
  BY DEF ReqState
<1>2. \A s \in Request : req'[s].pc \notin {"placed", "recorded", "unlinked"}
  BY <1>0, FreeLock DEF IInv
<1>3. /\ entry' \in [Package -> Entry] /\ prior' \in [Package -> Entry]
      /\ Provenance' /\ PriorRight' /\ PathsApart'
      /\ \A p \in Package : entry'[p].uploaded /\ entry'[p] # OrigEntry[p] =>
           entry'[p].path \in Present
  <2>1. CASE prepared /\ UNCHANGED memory
    BY <2>1, EntriesKept, FreeLock DEF IInv, TypeOK, memory, FilesStaged, Ours
  <2>2. CASE PrepareUploadDir
    BY <2>2, RescanKeeps DEF IInv, PrepareUploadDir
  <2> QED BY <2>1, <2>2
<1>4. parts' \subseteq Nat \X Request /\ prepared' = TRUE
  BY DEF IInv, TypeOK, PrepareUploadDir, memory
<1>5. TypeOK'
  BY <1>0, <1>1, <1>3, <1>4 DEF IInv, TypeOK
<1>6. LockHeld'
  BY <1>2, <1>4, UploadAssumption DEF IInv, LockHeld
<1>7. FilesStaged'
  BY <1>3 DEF IInv, FilesStaged, Ours, Present, Unclaimed
<1>8. CommitSafe'
  BY <1>2 DEF CommitSafe
<1>9. PartsOwned'
  <2> SUFFICES ASSUME NEW part \in parts'
               PROVE  part[1] = epoch /\ req'[part[2]].pc \in {"streaming", "staged"}
    BY DEF PartsOwned
  <2>1. CASE part = <<epoch, r>>
    BY <1>0, <2>1
  <2>2. CASE part # <<epoch, r>>
    <3>1. prepared /\ part \in parts
      BY <2>2 DEF PrepareUploadDir
    <3> QED BY <1>0, <3>1 DEF IInv, TypeOK, PartsOwned
  <2> QED BY <2>1, <2>2
<1>10. PlansHold' /\ ExportsOnlyUploads'
  BY PlansKept DEF IInv, TypeOK
<1> QED BY <1>3, <1>5, <1>6, <1>7, <1>8, <1>9, <1>10 DEF IInv

\* A step of a request that is not at a commit or a removal and that touches
\* neither the directory nor the entries.
LEMMA QuietStep ==
    ASSUME IInv, NEW r \in Request, NEW state \in ReqState,
           Becomes(r, state), req[r].pc \notin {"placed", "recorded", "unlinked"},
           state.pc \notin {"placed", "recorded", "unlinked"},
           prepared' \in BOOLEAN, up, UNCHANGED <<up, epoch, entry, prior, lock, dir, bodies, export>>,
           parts' \subseteq parts,
           prepared' => \A part \in parts' :
             /\ part[1] = epoch
             /\ req[part[2]].pc \in {"streaming", "staged"}
             /\ part[2] = r => state.pc \in {"streaming", "staged"}
    PROVE  IInv'
<1>0. \A s \in Request : req'[s] = IF s = r THEN state ELSE req[s]
  BY DEF Becomes, IInv, TypeOK
<1>1. TypeOK'
  BY DEF IInv, TypeOK, Becomes
<1>2. LockHeld'
  BY <1>0 DEF IInv, LockHeld
<1>3. Provenance' /\ PriorRight' /\ PathsApart'
  BY EntriesKept DEF IInv
<1>4. FilesStaged'
  <2>1. \A f \in Present' : Unclaimed(f)'
    BY DEF IInv, FilesStaged, Present, Unclaimed
  <2>2. ASSUME NEW p \in Package, Ours(p)'
        PROVE  entry'[p].path \in Present' \/ \E s \in Request : req'[s].pc = "unlinked" /\ req'[s].package = p
    <3>1. \/ entry[p].path \in Present
          \/ \E s \in Request : req[s].pc = "unlinked" /\ req[s].package = p
      BY <2>2 DEF IInv, FilesStaged, Ours
    <3> QED BY <1>0, <3>1 DEF Present
  <2> QED BY <2>1, <2>2 DEF FilesStaged
<1>5. CommitSafe'
  BY <1>0 DEF IInv, CommitSafe, Present, Ours, Recorded
<1>6. PartsOwned'
  BY <1>0 DEF IInv, TypeOK, PartsOwned
<1>7. PlansHold' /\ ExportsOnlyUploads'
  BY PlansKept DEF IInv, TypeOK
<1> QED BY <1>1, <1>2, <1>3, <1>4, <1>5, <1>6, <1>7 DEF IInv

\* The failed rescan, the end of a body, an abandoned or a refused upload.
LEMMA QuietSteps ==
    ASSUME IInv, NEW r \in Request,
           RescanError(r) \/ StageDone(r) \/ AbortUpload(r) \/ CommitRefused(r)
    PROVE  IInv'
<1>0. TypeOK /\ PartsOwned /\ up
  BY DEF IInv, RescanError, StageDone, AbortUpload, CommitRefused
<1>1. CASE RescanError(r)
  <2>1. Becomes(r, Idle)
    BY <1>0, <1>1 DEF RescanError, Becomes, TypeOK
  <2> QED BY <1>0, <1>1, <2>1, ReqFacts, QuietStep DEF RescanError, Idle
<1>2. CASE StageDone(r)
  <2>1. [req[r] EXCEPT !.pc = "staged"] \in ReqState /\ [req[r] EXCEPT !.pc = "staged"].pc = "staged"
    BY <1>0, <1>2, ReqFacts DEF StageDone, ReqState
  <2> QED BY <1>0, <1>2, <2>1, QuietStep DEF StageDone, PartsOwned, TypeOK, memory
<1>3. CASE AbortUpload(r) \/ CommitRefused(r)
  <2>1. \A part \in parts : part[2] = r /\ part[1] = epoch => part = <<epoch, r>>
    BY <1>0 DEF TypeOK
  <2>2. /\ Becomes(r, Idle) /\ parts' = parts \ {<<epoch, r>>}
        /\ req[r].pc \in {"streaming", "staged"}
        /\ UNCHANGED <<up, epoch, memory, lock, dir, bodies, export>>
    BY <1>3 DEF AbortUpload, CommitRefused
  <2> QED BY <1>0, <2>1, <2>2, ReqFacts, QuietStep DEF PartsOwned, TypeOK, memory
<1> QED BY <1>1, <1>2, <1>3

\* The rename: the name passed the 409 checks, so nobody else claims it, and the
\* superseded file is the package's own.
LEMMA CommitPlaceKeeps ==
    ASSUME IInv, NEW r \in Request, CommitPlace(r)
    PROVE  IInv'
<1> DEFINE f == req[r].file
           p == MatchOf[f]
           old == SupersededPath(f, p)
           kept == IF old \in Present THEN old ELSE "none"
<1>0. /\ up /\ lock = Nobody /\ req[r].pc = "staged"
      /\ ~Occupied(f, p) /\ Removable(old)
      /\ lock' = r
      /\ bodies' = bodies + 1
      /\ dir' = [dir EXCEPT ![f] = bodies + 1]
      /\ parts' = parts \ {<<epoch, r>>}
      /\ Becomes(r, [pc |-> "placed", file |-> f, old |-> kept])
      /\ UNCHANGED <<up, epoch, memory, export>>
  BY DEF CommitPlace
<1>1. f \in File /\ kept \in File \cup {"none"} /\ p \in Package \cup {NoPackage}
  BY <1>0, ReqFacts, UploadAssumption DEF IInv, Present
<1> HIDE DEF f, p, old, kept
<1>2. req' = [req EXCEPT ![r] = [pc |-> "placed", file |-> f, old |-> kept]] /\ req \in [Request -> ReqState]
  BY <1>0 DEF IInv, TypeOK, Becomes
<1>3. req'[r] = [pc |-> "placed", file |-> f, old |-> kept]
  BY <1>2
<1>4. \A s \in Request : s # r => req'[s] = req[s] /\ req[s].pc \notin {"placed", "recorded", "unlinked"}
  BY <1>0, <1>2, FreeLock DEF IInv
<1>5. Unclaimed(f)
  <2> SUFFICES ASSUME NEW q \in Package, q # p, NevraOf[q] = f
               PROVE  OrigEntry[q].uploaded \/ ~OrigEntry[q].cached
    BY DEF Unclaimed, p
  <2>1. ~(entry[q].cached /\ ~entry[q].uploaded)
    BY <1>0 DEF Occupied
  <2>2. ~\E g \in File : entry[q] = Recorded(g) /\ MatchOf[g] = q /\ Unclaimed(g)
    BY <1>1, UploadAssumption DEF p
  <2> QED BY <2>1, <2>2 DEF IInv, Provenance
<1>6. /\ \A q \in Package : q # p => entry[q].path # f
      /\ kept # f
      /\ \A q \in Package : q # p /\ Ours(q) => entry[q].path # kept
  <2>1. \A q \in Package : q # p => entry[q].path # f
    BY <1>0 DEF Occupied
  <2>2. kept = "none" \/ (kept = old /\ p # NoPackage /\ entry[p].uploaded /\ entry[p].path = old /\ old # f)
    BY DEF kept, old, SupersededPath
  <2>3. kept # f
    BY <1>1, <2>2, EntryFacts DEF Unstaged
  <2>4. ASSUME NEW q \in Package, q # p, Ours(q) PROVE entry[q].path # kept
    <3>1. entry[q].path \in File
      BY <2>4, OursRecorded DEF IInv
    <3>2. CASE kept = "none"
      BY <3>1, <3>2, EntryFacts DEF Unstaged
    <3>3. CASE kept = old /\ p # NoPackage /\ entry[p].uploaded /\ entry[p].path = old
      BY <1>1, <2>4, <3>3 DEF IInv, PathsApart
    <3> QED BY <2>2, <3>2, <3>3
  <2> QED BY <2>1, <2>3, <2>4
<1>7. bodies \in Nat /\ dir \in [File -> Body] /\ \A g \in File : dir[g] # Link => dir[g] <= bodies
  BY DEF IInv, TypeOK
<1>8. TypeOK'
  <2>1. req' \in [Request -> ReqState]
    BY <1>1, <1>2 DEF ReqState
  <2>2. dir' \in [File -> Body] /\ bodies' \in Nat
    BY <1>0, <1>1, <1>7 DEF Body
  <2>3. ASSUME NEW g \in File, dir'[g] # Link PROVE dir'[g] <= bodies'
    <3>1. CASE g = f
      BY <1>0, <1>7, <3>1
    <3>2. CASE g # f
      BY <1>0, <1>7, <2>3, <3>2 DEF Body
    <3> QED BY <3>1, <3>2
  <2> QED BY <1>0, <2>1, <2>2, <2>3 DEF IInv, TypeOK, memory
<1>9. LockHeld'
  BY <1>0, <1>3, <1>4 DEF IInv, LockHeld, memory
<1>10. Provenance' /\ PriorRight' /\ PathsApart'
  BY <1>0, EntriesKept DEF IInv, memory
<1>11. Present' = Present \cup {f}
  BY <1>0, <1>1, <1>7 DEF Present
<1>12. FilesStaged'
  BY <1>0, <1>5, <1>11, FreeLock DEF IInv, FilesStaged, Ours, Unclaimed, memory
<1>13. CommitSafe'
  <2>1. \A q \in Package : Ours(q)' <=> Ours(q)
    BY <1>0 DEF Ours, memory
  <2> SUFFICES ASSUME NEW s \in Request PROVE
      /\ req'[s].pc = "placed" =>
           /\ req'[s].file \in Present'
           /\ \A q \in Package : q # MatchOf[req'[s].file] => entry'[q].path # req'[s].file
      /\ req'[s].pc \in {"placed", "recorded"} =>
           /\ req'[s].old # req'[s].file
           /\ \A q \in Package :
                q # MatchOf[req'[s].file] /\ Ours(q)' => entry'[q].path # req'[s].old
      /\ req'[s].pc = "recorded" =>
           \A q \in Package : q = MatchOf[req'[s].file] => entry'[q] = Recorded(req'[s].file)
      /\ req'[s].pc = "unlinked" => entry'[req'[s].package].uploaded
    BY DEF CommitSafe, Recorded
  <2>2. CASE s = r
    <3>1. entry' = entry
      BY <1>0 DEF memory
    <3> QED BY <1>3, <1>6, <1>11, <2>1, <2>2, <3>1 DEF p
  <2>3. CASE s # r
    BY <1>4, <2>3
  <2> QED BY <2>2, <2>3
<1>14. PartsOwned'
  <2>1. \A part \in parts : part \in Nat \X Request
    BY DEF IInv, TypeOK
  <2>2. \A part \in parts : part[2] = r /\ part[1] = epoch => part = <<epoch, r>>
    BY <2>1
  <2> QED BY <1>0, <1>4, <2>1, <2>2 DEF IInv, PartsOwned, memory
<1>15. PlansHold' /\ ExportsOnlyUploads'
  BY <1>0, <1>7, <1>8, PlansKept DEF IInv, TypeOK
<1> QED BY <1>8, <1>9, <1>10, <1>12, <1>13, <1>14, <1>15 DEF IInv

\* commit records the placed file on the package it matches and keeps what that
\* package had before its first upload.
LEMMA CommitRecordKeeps ==
    ASSUME IInv, NEW r \in Request, CommitRecord(r)
    PROVE  IInv'
<1> DEFINE f == req[r].file
           p == MatchOf[f]
           file == [q \in Package |-> IF q = p THEN f ELSE "none"]
<1>0. /\ up /\ req[r].pc = "placed"
      /\ Becomes(r, [req[r] EXCEPT !.pc = "recorded"])
      /\ IF p = NoPackage THEN UNCHANGED <<entry, prior>>
         ELSE /\ entry' = [entry EXCEPT ![p] = Recorded(f)]
              /\ prior' = [prior EXCEPT ![p] = PriorAfter(p)]
      /\ UNCHANGED <<up, epoch, prepared, lock, dir, parts, bodies, export>>
  BY DEF CommitRecord
<1>1. /\ f \in File /\ p \in Package \cup {NoPackage} /\ req[r].old \in File \cup {"none"}
      /\ [req[r] EXCEPT !.pc = "recorded"] = [pc |-> "recorded", file |-> f, old |-> req[r].old]
  BY <1>0, ReqFacts, UploadAssumption DEF IInv
<1>2. /\ req' = [req EXCEPT ![r] = [pc |-> "recorded", file |-> f, old |-> req[r].old]]
      /\ req \in [Request -> ReqState]
      /\ entry \in [Package -> Entry] /\ prior \in [Package -> Entry]
  BY <1>0, <1>1 DEF IInv, TypeOK, Becomes
<1>3. /\ f \in Present /\ f \notin Unstaged
      /\ \A q \in Package : q # p => entry[q].path # f
      /\ req[r].old # f
      /\ \A q \in Package : q # p /\ Ours(q) => entry[q].path # req[r].old
  BY <1>0, <1>1, EntryFacts DEF IInv, CommitSafe
<1>4. lock = r /\ \A s \in Request : s # r => req'[s] = req[s] /\ req[s].pc \notin {"placed", "recorded", "unlinked"}
  BY <1>0, <1>2 DEF IInv, LockHeld
<1>5. \A q \in Package : /\ q # p => entry'[q] = entry[q]
                         /\ q = p => entry'[q] = Recorded(f)
  BY <1>0, <1>2, UploadAssumption
<1>6. Recording(file)
  <2>1. CASE p = NoPackage
    <3>1. \A q \in Package : file[q] = "none"
      BY <2>1, UploadAssumption
    <3> QED BY <1>0, <1>2, <2>1, <3>1 DEF Recording
  <2>2. CASE p # NoPackage
    <3>1. \A q \in Package : file[q] = IF q = p THEN f ELSE "none"
      OBVIOUS
    <3>2. f # "none"
      BY <1>3 DEF Unstaged
    <3> HIDE DEF file
    <3> QED BY <1>0, <1>1, <1>2, <2>2, <3>1, <3>2 DEF Recording
  <2> QED BY <2>1, <2>2
<1>7. /\ entry' \in [Package -> Entry] /\ prior' \in [Package -> Entry]
      /\ Provenance' /\ PriorRight' /\ PathsApart'
  <2>1. file \in [Package -> File \cup {"none"}]
    BY <1>1
  <2>2. \A q \in Package : file[q] # "none" =>
          /\ MatchOf[file[q]] = q /\ Unclaimed(file[q])
          /\ \A o \in Package \ {q} : entry[o].uploaded => entry[o].path # file[q]
    BY <1>3 DEF IInv, FilesStaged
  <2> HIDE DEF file
  <2> QED BY <1>2, <1>6, <2>1, <2>2, RecordingKeeps DEF IInv
<1> HIDE DEF file, f, p
<1>8. TypeOK'
  <2>1. req' \in [Request -> ReqState]
    BY <1>1, <1>2 DEF ReqState
  <2> QED BY <1>0, <1>7, <2>1 DEF IInv, TypeOK
<1>9. LockHeld'
  BY <1>0, <1>2, <1>4 DEF IInv, LockHeld
<1>10. Present' = Present
  BY <1>0 DEF Present
<1>11. FilesStaged'
  <2>1. \A g \in Present' : Unclaimed(g)'
    BY <1>10 DEF IInv, FilesStaged, Unclaimed
  <2>2. ASSUME NEW q \in Package, Ours(q)' PROVE entry'[q].path \in Present
    <3>1. CASE q = p
      BY <1>1, <1>3, <1>5, <3>1, EntryFacts
    <3>2. CASE q # p
      <4>1. Ours(q) /\ entry'[q] = entry[q]
        BY <1>5, <2>2, <3>2 DEF Ours
      <4>2. ~\E s \in Request : req[s].pc = "unlinked" /\ req[s].package = q
        BY <1>0, <1>4
      <4> QED BY <4>1, <4>2 DEF IInv, FilesStaged
    <3> QED BY <3>1, <3>2
  <2> QED BY <1>10, <2>1, <2>2 DEF FilesStaged
<1>12. CommitSafe'
  <2>1. \A q \in Package : q # p => (Ours(q)' <=> Ours(q)) /\ entry'[q] = entry[q]
    BY <1>5 DEF Ours
  <2>2. req'[r] = [pc |-> "recorded", file |-> f, old |-> req[r].old]
    BY <1>2
  <2> SUFFICES ASSUME NEW s \in Request PROVE
      /\ req'[s].pc = "placed" =>
           /\ req'[s].file \in Present'
           /\ \A q \in Package : q # MatchOf[req'[s].file] => entry'[q].path # req'[s].file
      /\ req'[s].pc \in {"placed", "recorded"} =>
           /\ req'[s].old # req'[s].file
           /\ \A q \in Package :
                q # MatchOf[req'[s].file] /\ Ours(q)' => entry'[q].path # req'[s].old
      /\ req'[s].pc = "recorded" =>
           \A q \in Package : q = MatchOf[req'[s].file] => entry'[q] = Recorded(req'[s].file)
      /\ req'[s].pc = "unlinked" => entry'[req'[s].package].uploaded
    BY DEF CommitSafe, Recorded
  <2>3. CASE s = r
    BY <1>3, <1>5, <2>1, <2>2, <2>3 DEF p
  <2>4. CASE s # r
    BY <1>4, <2>4
  <2> QED BY <2>3, <2>4
<1>13. PartsOwned'
  <2>1. \A part \in parts : part[2] \in Request
    BY DEF IInv, TypeOK
  <2> QED BY <1>0, <1>4, <2>1 DEF IInv, PartsOwned
<1>14. PlansHold' /\ ExportsOnlyUploads'
  BY <1>0, PlansKept DEF IInv, TypeOK
<1> QED BY <1>7, <1>8, <1>9, <1>11, <1>12, <1>13, <1>14 DEF IInv

\* The unlink: the superseded file is nobody's any more.
LEMMA CommitUnlinkKeeps ==
    ASSUME IInv, NEW r \in Request, CommitUnlink(r)
    PROVE  IInv'
<1>0. /\ up /\ req[r].pc = "recorded" /\ lock' = Nobody /\ Becomes(r, Idle)
      /\ UNCHANGED <<up, epoch, prepared, entry, prior, parts, bodies, export>>
      /\ dir \in [File -> Body] /\ req \in [Request -> ReqState]
  BY DEF CommitUnlink, memory, IInv, TypeOK
<1>1. /\ dir' \in [File -> Body]
      /\ \A f \in File : dir'[f] \in {0, dir[f]} /\ (f # req[r].old => dir'[f] = dir[f])
  BY <1>0 DEF CommitUnlink, Body
<1>2. lock = r /\ \A s \in Request : req'[s] = IF s = r THEN Idle ELSE req[s]
  BY <1>0 DEF IInv, LockHeld, Becomes
<1>3. \A s \in Request : req'[s].pc \notin {"placed", "recorded", "unlinked"}
  BY <1>2 DEF IInv, LockHeld, Idle
<1>4. TypeOK'
  <2>1. \A f \in File : dir'[f] # Link => dir'[f] <= bodies
    BY <1>1 DEF IInv, TypeOK
  <2>2. req' \in [Request -> ReqState]
    BY <1>0, ReqFacts DEF IInv, Becomes
  <2> QED BY <1>0, <1>1, <2>1, <2>2 DEF IInv, TypeOK
<1>5. LockHeld'
  BY <1>0, <1>3, UploadAssumption DEF IInv, LockHeld
<1>6. Provenance' /\ PriorRight' /\ PathsApart'
  BY <1>0, EntriesKept DEF IInv
<1>7. FilesStaged'
  <2>1. Present' \subseteq Present /\ \A f \in Present : f # req[r].old => f \in Present'
    BY <1>1 DEF Present
  <2>2. ASSUME NEW p \in Package, Ours(p) PROVE entry[p].path \in Present'
    <3>1. entry[p].path \in Present
      <4>1. ~\E s \in Request : req[s].pc = "unlinked" /\ req[s].package = p
        BY <1>0, <1>2 DEF IInv, LockHeld
      <4> QED BY <2>2, <4>1 DEF IInv, FilesStaged
    <3>2. entry[p].path # req[r].old
      <4>1. CASE p = MatchOf[req[r].file]
        <5>1. entry[p] = Recorded(req[r].file) /\ req[r].old # req[r].file
          BY <1>0, <4>1 DEF IInv, CommitSafe
        <5> QED BY <5>1 DEF Recorded
      <4>2. CASE p # MatchOf[req[r].file]
        BY <1>0, <2>2, <4>2 DEF IInv, CommitSafe
      <4> QED BY <4>1, <4>2
    <3> QED BY <2>1, <3>1, <3>2
  <2> QED BY <1>0, <2>1, <2>2 DEF IInv, FilesStaged, Ours, Unclaimed
<1>8. CommitSafe'
  BY <1>3 DEF CommitSafe
<1>9. PartsOwned'
  <2>1. \A part \in parts : part[2] \in Request
    BY DEF IInv, TypeOK
  <2> QED BY <1>0, <1>2, <2>1 DEF IInv, PartsOwned
<1>10. PlansHold' /\ ExportsOnlyUploads'
  BY <1>0, <1>1, PlansKept DEF IInv, TypeOK
<1> QED BY <1>4, <1>5, <1>6, <1>7, <1>8, <1>9, <1>10 DEF IInv

-----------------------------------------------------------------------------
(* The steps of a removal                                                  *)

\* The unlink of a removal takes nobody else's file.
LEMMA DeleteUnlinkKeeps ==
    ASSUME IInv, NEW r \in Request, NEW p \in Package, DeleteUnlink(r, p)
    PROVE  IInv'
<1>0. /\ up /\ lock = Nobody /\ req[r] = Idle /\ entry[p].uploaded /\ lock' = r
      /\ UNCHANGED <<up, epoch, prepared, entry, prior, parts, bodies, export>>
      /\ dir \in [File -> Body] /\ req \in [Request -> ReqState]
      /\ req' = [req EXCEPT ![r] = [pc |-> "unlinked", package |-> p]]
  BY DEF DeleteUnlink, Becomes, memory, IInv, TypeOK
<1>1. /\ dir' \in [File -> Body]
      /\ \A f \in File : dir'[f] \in {0, dir[f]} /\ (f # entry[p].path => dir'[f] = dir[f])
  BY <1>0 DEF DeleteUnlink, Body
<1>2. req'[r] = [pc |-> "unlinked", package |-> p]
  BY <1>0
<1>3. \A s \in Request : s # r => req'[s] = req[s] /\ req[s].pc \notin {"placed", "recorded", "unlinked"}
  BY <1>0, FreeLock DEF IInv
<1>4. TypeOK'
  <2>1. \A f \in File : dir'[f] # Link => dir'[f] <= bodies
    BY <1>1 DEF IInv, TypeOK
  <2>2. req' \in [Request -> ReqState]
    BY <1>0 DEF ReqState
  <2> QED BY <1>0, <1>1, <2>1, <2>2 DEF IInv, TypeOK
<1>5. LockHeld'
  BY <1>0, <1>2, <1>3 DEF IInv, LockHeld
<1>6. Provenance' /\ PriorRight' /\ PathsApart'
  BY <1>0, EntriesKept DEF IInv
<1>7. FilesStaged'
  <2>1. Present' \subseteq Present /\ \A f \in Present : f # entry[p].path => f \in Present'
    BY <1>1 DEF Present
  <2>2. ASSUME NEW q \in Package, Ours(q), q # p PROVE entry[q].path \in Present'
    <3>1. entry[q].path \in Present
      BY <1>0, <2>2, FreeLock DEF IInv, FilesStaged
    <3>2. entry[q].path # entry[p].path
      BY <1>0, <2>2 DEF IInv, PathsApart
    <3> QED BY <2>1, <3>1, <3>2
  <2> QED BY <1>0, <1>2, <2>1, <2>2 DEF IInv, FilesStaged, Ours, Unclaimed
<1>8. CommitSafe'
  BY <1>0, <1>2, <1>3 DEF CommitSafe
<1>9. PartsOwned'
  <2>1. \A part \in parts : part[2] \in Request
    BY DEF IInv, TypeOK
  <2> QED BY <1>0, <1>3, <2>1 DEF IInv, PartsOwned, Idle
<1>10. PlansHold' /\ ExportsOnlyUploads'
  BY <1>0, <1>1, PlansKept DEF IInv, TypeOK
<1> QED BY <1>4, <1>5, <1>6, <1>7, <1>8, <1>9, <1>10 DEF IInv

\* The package gets back what the scan recorded for it, or nothing.
LEMMA DeleteUnmarkKeeps ==
    ASSUME IInv, NEW r \in Request, DeleteUnmark(r)
    PROVE  IInv'
<1> DEFINE p == req[r].package
<1>0. /\ up /\ req[r].pc = "unlinked" /\ lock' = Nobody
      /\ entry' = [entry EXCEPT ![p] = prior[p]]
      /\ prior' = [prior EXCEPT ![p] = Empty]
      /\ Becomes(r, Idle)
      /\ UNCHANGED <<up, epoch, prepared, dir, parts, bodies, export>>
  BY DEF DeleteUnmark
<1>1. /\ p \in Package /\ entry[p].uploaded
      /\ entry \in [Package -> Entry] /\ prior \in [Package -> Entry] /\ req \in [Request -> ReqState]
  BY <1>0, ReqFacts DEF IInv, CommitSafe, TypeOK
<1>2. lock = r /\ \A s \in Request : req'[s] = IF s = r THEN Idle ELSE req[s]
  BY <1>0, <1>1 DEF IInv, LockHeld, Becomes
<1>3. \A s \in Request : req'[s].pc \notin {"placed", "recorded", "unlinked"}
  BY <1>2 DEF IInv, LockHeld, Idle
<1>4. \A q \in Package : q # p => entry'[q] = entry[q] /\ prior'[q] = prior[q]
  BY <1>0, <1>1
<1>5. entry'[p] = prior[p] /\ prior'[p] = Empty
  BY <1>0, <1>1
<1>6. /\ ~entry'[p].uploaded
      /\ entry'[p] = OrigEntry[p] \/ (entry'[p] = Empty /\ OrigEntry[p].uploaded)
  BY <1>1, <1>5, EntryFacts, UploadAssumption DEF IInv, PriorRight
<1> HIDE DEF p
<1>7. TypeOK'
  <2>1. entry' \in [Package -> Entry] /\ prior' \in [Package -> Entry] /\ req' \in [Request -> ReqState]
    BY <1>0, <1>1, EntryFacts, ReqFacts DEF IInv, Becomes
  <2> QED BY <1>0, <2>1 DEF IInv, TypeOK
<1>8. LockHeld'
  BY <1>0, <1>3, UploadAssumption DEF IInv, LockHeld
<1>9. Provenance'
  <2> SUFFICES ASSUME NEW q \in Package
               PROVE  \/ entry'[q] = OrigEntry[q]
                      \/ entry'[q] = Empty /\ OrigEntry[q].uploaded
                      \/ \E f \in File : entry'[q] = Recorded(f) /\ MatchOf[f] = q /\ Unclaimed(f)
    BY DEF Provenance, Unclaimed, Recorded
  <2> QED BY <1>4, <1>6 DEF IInv, Provenance
<1>10. PriorRight'
  BY <1>4, <1>5, <1>6 DEF IInv, PriorRight
<1>11. PathsApart'
  BY <1>4, <1>6 DEF IInv, PathsApart, Ours
<1>12. FilesStaged'
  <2>1. Present' = Present
    BY <1>0 DEF Present
  <2>2. ASSUME NEW q \in Package, Ours(q)' PROVE entry'[q].path \in Present
    <3>1. q # p /\ entry'[q] = entry[q] /\ Ours(q)
      BY <1>4, <1>6, <2>2 DEF Ours
    <3>2. ~\E s \in Request : req[s].pc = "unlinked" /\ req[s].package = q
      BY <1>2, <3>1 DEF IInv, LockHeld, p
    <3> QED BY <3>1, <3>2 DEF IInv, FilesStaged
  <2> QED BY <2>1, <2>2 DEF IInv, FilesStaged, Unclaimed
<1>13. CommitSafe'
  BY <1>3 DEF CommitSafe
<1>14. PartsOwned'
  <2>1. \A part \in parts : part[2] \in Request
    BY DEF IInv, TypeOK
  <2> QED BY <1>0, <1>2, <2>1 DEF IInv, PartsOwned
<1>15. PlansHold' /\ ExportsOnlyUploads'
  BY <1>0, PlansKept DEF IInv, TypeOK
<1> QED BY <1>7, <1>8, <1>9, <1>10, <1>11, <1>12, <1>13, <1>14, <1>15 DEF IInv

-----------------------------------------------------------------------------
(* The steps of an export, and of the process                              *)

\* The parts of the invariant that look at one export.
PlanHolds(e) ==
    /\ e.todo \subseteq {c \in e.plan : c.file \in File}
    /\ e.pc = "opening" => e.claim \in e.plan /\ e.claim.file \in File

OnlyUploads(e) ==
    \A c \in e.got :
      [package |-> c.package, file |-> c.file] \in e.plan /\ c.body \in 1..bodies

\* An export's step changes only that export.
LEMMA ExportStepKeeps ==
    ASSUME IInv, NEW x \in Exporter, NEW e \in ExportState,
           export' = [export EXCEPT ![x] = e], PlanHolds(e), OnlyUploads(e),
           UNCHANGED <<up, epoch, memory, lock, req, dir, parts, bodies>>
    PROVE  IInv'
<1> USE DEF memory
<1>1. TypeOK'
  BY DEF IInv, TypeOK
<1>2. LockHeld' /\ PartsOwned'
  BY DEF IInv, LockHeld, PartsOwned
<1>3. Provenance' /\ PriorRight' /\ PathsApart'
  BY EntriesKept DEF IInv
<1>4. FilesStaged' /\ CommitSafe'
  BY DEF IInv, FilesStaged, CommitSafe, Present, Ours, Unclaimed, Recorded
<1>5. \A y \in Exporter : export'[y] = IF y = x THEN e ELSE export[y]
  BY DEF IInv, TypeOK
<1>6. PlansHold'
  BY <1>5 DEF IInv, PlansHold, PlanHolds
<1>7. ExportsOnlyUploads'
  BY <1>5 DEF IInv, ExportsOnlyUploads, OnlyUploads
<1> QED BY <1>1, <1>2, <1>3, <1>4, <1>6, <1>7 DEF IInv

\* An export plans one copy for each uploaded package.
LEMMA ExportPlanKeeps ==
    ASSUME IInv, NEW x \in Exporter, ExportPlan(x)
    PROVE  IInv'
<1> DEFINE plan == {[package |-> p, file |-> entry[p].path] : p \in {q \in Package : entry[q].uploaded}}
           todo == IF prepared THEN {c \in plan : c.file \in File} ELSE {}
           e == [pc |-> "proving", plan |-> plan, todo |-> todo, got |-> {}]
<1>1. /\ export' = [export EXCEPT ![x] = e]
      /\ UNCHANGED <<up, epoch, memory, lock, req, dir, parts, bodies>>
  BY DEF ExportPlan
<1>2. \A p \in Package : entry[p].path \in File \cup Unstaged
  BY DEF IInv, TypeOK, Entry
<1>3. plan \in SUBSET Claim
  BY <1>2 DEF Claim
<1> HIDE DEF plan
<1>4. todo \subseteq {c \in plan : c.file \in File} /\ todo \in SUBSET Claim
  BY <1>3
<1> HIDE DEF todo
<1>5. e \in ExportState
  BY <1>3, <1>4 DEF ExportState
<1>6. PlanHolds(e) /\ OnlyUploads(e)
  BY <1>4 DEF PlanHolds, OnlyUploads
<1> QED BY <1>1, <1>5, <1>6, ExportStepKeeps

\* What the step of an export says about its record.
LEMMA ExportFacts ==
    ASSUME IInv, NEW x \in Exporter
    PROVE  /\ export[x] \in ExportState /\ PlanHolds(export[x]) /\ OnlyUploads(export[x])
           /\ {export[x].plan, export[x].todo} \subseteq SUBSET Claim /\ export[x].got \in SUBSET Copy
           /\ export[x].pc = "opening" => export[x].claim \in Claim /\ export[x].seen \in Nat
BY DEF IInv, TypeOK, ExportState, PlansHold, PlanHolds, ExportsOnlyUploads, OnlyUploads

\* Looking at a planned name, or dropping it because it is no regular file,
\* changes nothing but the export.
LEMMA ExportStatKeeps ==
    ASSUME IInv, NEW x \in Exporter, ExportStat(x)
    PROVE  IInv'
<1> DEFINE e == export[x]
<1>1. PICK c \in e.todo :
        export' = IF c.file \notin Regular
                  THEN [export EXCEPT ![x].todo = @ \ {c}]
                  ELSE [export EXCEPT ![x] = [pc |-> "opening", plan |-> @.plan,
                          todo |-> @.todo \ {c}, got |-> @.got,
                          claim |-> c, seen |-> dir[c.file]]]
  BY DEF ExportStat
<1>2. /\ e.pc = "proving"
      /\ UNCHANGED <<up, epoch, memory, lock, req, dir, parts, bodies>>
  BY DEF ExportStat
<1>3. c \in e.plan /\ c.file \in File /\ c \in Claim
  BY ExportFacts DEF PlanHolds
<1>4. CASE c.file \notin Regular
  <2> DEFINE g == [e EXCEPT !.todo = @ \ {c}]
  <2>1. export' = [export EXCEPT ![x] = g]
    BY <1>1, <1>4
  <2>2. g = [pc |-> "proving", plan |-> e.plan, todo |-> e.todo \ {c}, got |-> e.got]
    <3>1. e \in [pc : {"idle", "proving"}, plan : SUBSET Claim, todo : SUBSET Claim, got : SUBSET Copy]
      BY <1>2, ExportFacts DEF ExportState
    <3> QED BY <1>2, <3>1
  <2>3. g \in ExportState
    BY <2>2, ExportFacts DEF ExportState
  <2>4. PlanHolds(g) /\ OnlyUploads(g)
    BY <2>2, ExportFacts DEF PlanHolds, OnlyUploads
  <2> HIDE DEF g
  <2> QED BY <1>2, <2>1, <2>3, <2>4, ExportStepKeeps
<1>5. CASE c.file \in Regular
  <2> DEFINE g == [pc |-> "opening", plan |-> e.plan, todo |-> e.todo \ {c}, got |-> e.got,
                   claim |-> c, seen |-> dir[c.file]]
  <2>1. export' = [export EXCEPT ![x] = g]
    BY <1>1, <1>5
  <2>2. dir[c.file] \in Nat
    BY <1>3, <1>5 DEF IInv, TypeOK, Regular, Body
  <2>3. g \in ExportState
    BY <1>3, <2>2, ExportFacts DEF ExportState
  <2>4. PlanHolds(g) /\ OnlyUploads(g)
    BY <1>3, ExportFacts DEF PlanHolds, OnlyUploads
  <2> HIDE DEF g
  <2> QED BY <1>2, <2>1, <2>3, <2>4, ExportStepKeeps
<1> QED BY <1>4, <1>5

\* What is opened and copied is a body some upload placed, under the planned
\* name: an absent name does not open and a link does not have the inode.
LEMMA ExportOpenKeeps ==
    ASSUME IInv, NEW x \in Exporter, ExportOpen(x)
    PROVE  IInv'
<1> DEFINE e == export[x]
           found == dir[e.claim.file]
           copy == [package |-> e.claim.package, file |-> e.claim.file, body |-> found]
           Back(got) == [pc |-> "proving", plan |-> e.plan, todo |-> e.todo, got |-> got]
<1>1. /\ e.pc = "opening"
      /\ UNCHANGED <<up, epoch, memory, lock, req, dir, parts, bodies>>
      /\ \/ found \notin {0, Link} /\ export' = [export EXCEPT ![x] = Back(e.got \cup {copy})]
         \/ export' = [export EXCEPT ![x] = Back(e.got)]
  BY DEF ExportOpen, Carry, Refuse
<1>2. e.claim \in Claim /\ e.claim \in e.plan /\ e.claim.file \in File
  BY <1>1, ExportFacts DEF PlanHolds
<1>3. ASSUME NEW got \in SUBSET Copy, OnlyUploads(Back(got)),
             export' = [export EXCEPT ![x] = Back(got)]
      PROVE  IInv'
  <2>1. Back(got) \in ExportState
    BY ExportFacts DEF ExportState
  <2>2. PlanHolds(Back(got))
    BY ExportFacts DEF PlanHolds
  <2> HIDE DEF Back
  <2> QED BY <1>1, <1>3, <2>1, <2>2, ExportStepKeeps
<1>4. e.got \in SUBSET Copy /\ OnlyUploads(Back(e.got))
  BY ExportFacts DEF OnlyUploads
<1>5. CASE found \notin {0, Link} /\ export' = [export EXCEPT ![x] = Back(e.got \cup {copy})]
  <2>1. found \in 1..bodies
    BY <1>2, <1>5 DEF IInv, TypeOK, Body
  <2>2. [package |-> e.claim.package, file |-> e.claim.file] = e.claim
    BY <1>2 DEF Claim
  <2>3. copy \in Copy
    BY <1>2, <2>1 DEF Claim, Copy
  <2>4. OnlyUploads(Back(e.got \cup {copy}))
    <3> SUFFICES ASSUME NEW c \in e.got \cup {copy}
                 PROVE  [package |-> c.package, file |-> c.file] \in e.plan /\ c.body \in 1..bodies
      BY DEF OnlyUploads
    <3>1. CASE c = copy
      BY <1>2, <2>1, <2>2, <3>1
    <3>2. CASE c \in e.got
      BY <1>4, <3>2 DEF OnlyUploads
    <3> QED BY <3>1, <3>2
  <2> QED BY <1>3, <1>4, <1>5, <2>3, <2>4
<1> QED BY <1>1, <1>3, <1>4, <1>5

\* An export that has ended leaves nothing behind.
LEMMA ExportDoneKeeps ==
    ASSUME IInv, NEW x \in Exporter, ExportDone(x)
    PROVE  IInv'
<1>1. Resting \in ExportState /\ PlanHolds(Resting) /\ OnlyUploads(Resting)
  BY DEF Resting, ExportState, PlanHolds, OnlyUploads
<1> QED BY <1>1, ExportStepKeeps DEF ExportDone

\* A link under a staged name takes no name away and touches no record.
LEMMA LinkAppearsKeeps ==
    ASSUME IInv, NEW f \in File, LinkAppears(f)
    PROVE  IInv'
<1>0. /\ f \in Present /\ dir' = [dir EXCEPT ![f] = Link] /\ dir \in [File -> Body]
      /\ UNCHANGED <<up, epoch, prepared, entry, prior, lock, req, parts, bodies, export>>
  BY DEF LinkAppears, memory, IInv, TypeOK, Regular
<1>1. /\ dir' \in [File -> Body] /\ dir'[f] = Link
      /\ \A g \in File : g # f => dir'[g] = dir[g]
  BY <1>0 DEF Body
<1>2. TypeOK'
  BY <1>0, <1>1 DEF IInv, TypeOK
<1>3. Present' = Present
  BY <1>0, <1>1, UploadAssumption DEF Present
<1>4. LockHeld' /\ PartsOwned'
  BY <1>0 DEF IInv, LockHeld, PartsOwned
<1>5. Provenance' /\ PriorRight' /\ PathsApart'
  BY <1>0, EntriesKept DEF IInv
<1>6. FilesStaged' /\ CommitSafe'
  BY <1>0, <1>3 DEF IInv, FilesStaged, CommitSafe, Ours, Unclaimed, Recorded
<1>7. PlansHold' /\ ExportsOnlyUploads'
  BY <1>0, PlansKept DEF IInv, TypeOK
<1> QED BY <1>2, <1>4, <1>5, <1>6, <1>7 DEF IInv

\* A new process starts from the scan's records and the directory as it was left.
LEMMA RestartKeeps ==
    ASSUME IInv, Restart
    PROVE  IInv'
<1> USE DEF Restart, memory
<1>1. TypeOK'
  BY DEF IInv, TypeOK
<1>2. LockHeld' /\ PartsOwned'
  BY DEF IInv, LockHeld, PartsOwned
<1>3. Provenance' /\ PriorRight' /\ PathsApart'
  BY EntriesKept DEF IInv
<1>4. FilesStaged' /\ CommitSafe'
  BY DEF IInv, FilesStaged, CommitSafe, Present, Ours, Unclaimed, Recorded
<1>5. PlansHold' /\ ExportsOnlyUploads'
  BY DEF IInv, PlansHold, ExportsOnlyUploads
<1> QED BY <1>1, <1>2, <1>3, <1>4, <1>5 DEF IInv

\* A crash loses the requests, the records and the exports, and keeps the files.
LEMMA CrashKeeps ==
    ASSUME IInv, Crash
    PROVE  IInv'
<1> USE DEF Crash
<1>1. TypeOK'
  <2>1. Resting \in ExportState /\ Idle \in ReqState
    BY DEF Resting, ExportState, ReqState, Idle
  <2>2. OrigEntry \in [Package -> Entry] /\ Empty \in Entry
    BY UploadAssumption, EntryFacts
  <2>3. /\ entry' \in [Package -> Entry] /\ prior' \in [Package -> Entry]
        /\ req' \in [Request -> ReqState] /\ export' \in [Exporter -> ExportState]
    BY <2>1, <2>2, Zenon
  <2> QED BY <2>3 DEF IInv, TypeOK
<1>2. LockHeld' /\ CommitSafe' /\ PartsOwned'
  BY UploadAssumption DEF LockHeld, CommitSafe, PartsOwned, Idle
<1>3. Provenance' /\ PathsApart'
  BY DEF Provenance, PathsApart, Ours
<1>4. PriorRight'
  BY UploadAssumption DEF PriorRight
<1>5. FilesStaged'
  BY DEF IInv, FilesStaged, Ours, Present, Unclaimed
<1>6. PlansHold' /\ ExportsOnlyUploads'
  BY DEF PlansHold, ExportsOnlyUploads, Resting
<1> QED BY <1>1, <1>2, <1>3, <1>4, <1>5, <1>6 DEF IInv

-----------------------------------------------------------------------------
(* The theorems                                                            *)

\* Every step of every actor keeps the invariant.
LEMMA IInvNext == IInv /\ [Next]_vars => IInv'
<1> SUFFICES ASSUME IInv, [Next]_vars PROVE IInv'
  OBVIOUS
<1>1. CASE \E r \in Request : ClientStep(r) \/ ServerStep(r)
  <2>1. PICK r \in Request : ClientStep(r) \/ ServerStep(r)
    BY <1>1
  <2>2. CASE \E f \in File : BeginUpload(r, f)
    BY <2>2, BeginUploadKeeps
  <2>3. CASE RescanError(r) \/ StageDone(r) \/ AbortUpload(r) \/ CommitRefused(r)
    BY <2>3, QuietSteps
  <2>4. CASE \E p \in Package : DeleteUnlink(r, p)
    BY <2>4, DeleteUnlinkKeeps
  <2>5. CASE CommitPlace(r)
    BY <2>5, CommitPlaceKeeps
  <2>6. CASE CommitRecord(r)
    BY <2>6, CommitRecordKeeps
  <2>7. CASE CommitUnlink(r)
    BY <2>7, CommitUnlinkKeeps
  <2>8. CASE DeleteUnmark(r)
    BY <2>8, DeleteUnmarkKeeps
  <2> QED BY <2>1, <2>2, <2>3, <2>4, <2>5, <2>6, <2>7, <2>8 DEF ClientStep, ServerStep
<1>2. CASE \E x \in Exporter : ExportPlan(x) \/ ExportStep(x)
  BY <1>2, ExportPlanKeeps, ExportStatKeeps, ExportOpenKeeps, ExportDoneKeeps DEF ExportStep
<1>3. CASE Restart
  BY <1>3, RestartKeeps
<1>4. CASE Crash
  BY <1>4, CrashKeeps
<1>6. CASE \E f \in File : LinkAppears(f)
  BY <1>6, LinkAppearsKeeps
<1>5. CASE UNCHANGED vars
  <2>0. UNCHANGED <<up, epoch, prepared, entry, prior, lock, req, dir, parts, bodies, export>>
    BY <1>5 DEF vars, memory
  <2> USE <2>0
  <2>1. TypeOK' /\ LockHeld' /\ PartsOwned'
    BY DEF IInv, TypeOK, LockHeld, PartsOwned
  <2>2. Provenance' /\ PriorRight' /\ PathsApart'
    BY EntriesKept DEF IInv
  <2>3. FilesStaged' /\ CommitSafe'
    BY DEF IInv, FilesStaged, CommitSafe, Present, Ours, Unclaimed, Recorded
  <2>4. PlansHold' /\ ExportsOnlyUploads'
    BY DEF IInv, PlansHold, ExportsOnlyUploads
  <2> QED BY <2>1, <2>2, <2>3, <2>4 DEF IInv
<1> QED BY <1>1, <1>2, <1>3, <1>4, <1>5, <1>6 DEF Next

\* The inductive invariant holds of every behaviour of the upload handlers.
THEOREM Invariance == Spec => []IInv
<1>1. Init => IInv
  BY IInvInit
<1>2. IInv /\ [Next]_vars => IInv'
  BY IInvNext
<1> QED BY <1>1, <1>2, PTL DEF Spec

\* Whenever the session lock is free, every upload this process recorded is in
\* the directory, and every part file of a prepared directory is some unfinished
\* request's: commit renames before it records and unlinks only what no entry
\* names any more, whatever crashes, rescans and removals happen between.
THEOREM DirectoryAgrees == Spec => []DirectoryMatches
<1>1. IInv => DirectoryMatches
  <2> SUFFICES ASSUME IInv PROVE DirectoryMatches
    OBVIOUS
  <2>1. ASSUME lock = Nobody, NEW p \in Package, Ours(p) PROVE entry[p].path \in Present
    BY <2>1, FreeLock DEF IInv, FilesStaged
  <2> QED BY <2>1 DEF IInv, DirectoryMatches, PartsOwned, Ours
<1> QED BY <1>1, Invariance, PTL

\* No upload takes the name the export writes for another package: the two 409
\* arms of occupant_of are enough, for every match and every set of entries.
THEOREM OneWriter == Spec => []OnlyWriter
<1>1. IInv => OnlyWriter
  <2> SUFFICES ASSUME IInv, NEW p \in Package, NEW q \in Package, p # q, Ours(p)
               PROVE  ExportName(q) # entry[p].path
    BY DEF OnlyWriter, Ours
  <2>1. /\ entry[p].path \in File /\ MatchOf[entry[p].path] = p /\ Unclaimed(entry[p].path)
    BY OursRecorded DEF IInv
  <2>2. CASE entry[q].uploaded
    BY <2>2 DEF IInv, PathsApart, ExportName
  <2>3. CASE ~entry[q].uploaded /\ entry[q].cached
    <3>1. entry[q] = OrigEntry[q]
      BY <2>3, EntryFacts DEF IInv, Provenance
    <3> QED BY <2>1, <2>3, <3>1 DEF ExportName, Unclaimed
  <2>4. CASE ~entry[q].uploaded /\ ~entry[q].cached
    BY <2>1, <2>4, EntryFacts DEF ExportName, Unstaged
  <2> QED BY <2>2, <2>3, <2>4
<1> QED BY <1>1, Invariance, PTL

\* A package without an upload has exactly what the scan recorded for it, or
\* nothing if the scan itself claimed an upload: prior_cache loses nothing over
\* any number of uploads, rescans and removals.
THEOREM RemovalsRestore == Spec => []RemovalRestores
<1>1. IInv => RemovalRestores
  <2> SUFFICES ASSUME IInv, NEW p \in Package, ~entry[p].uploaded
               PROVE  entry[p] = IF OrigEntry[p].uploaded THEN Empty ELSE OrigEntry[p]
    BY DEF RemovalRestores
  <2>1. entry[p] = OrigEntry[p] \/ (entry[p] = Empty /\ OrigEntry[p].uploaded)
    BY EntryFacts DEF IInv, Provenance
  <2> QED BY <2>1
<1> QED BY <1>1, Invariance, PTL

\* Nothing but a body some upload placed under the planned name leaves in an
\* export, for every interleaving of uploads, removals, rescans, crashes and
\* links put under staged names with the plan, the metadata check and the open:
\* the comparison of (dev, ino) in verify_staged_upload closes the last window.
THEOREM ExportsAreUploads == Spec => []ExportsOnlyUploads
<1>1. IInv => ExportsOnlyUploads
  BY DEF IInv
<1> QED BY <1>1, Invariance, PTL
=============================================================================
