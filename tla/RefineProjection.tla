-------------------------- MODULE RefineProjection --------------------------
(***************************************************************************)
(* The data plane of a refine session (crates/refine/src/session.rs):      *)
(* RefineSession::project_snapshot replays the active prefix of the        *)
(* timeline over the original snapshot.  This module is that replay as     *)
(* pure operators, together with what apply() consults before it records   *)
(* an op (validate_target, check_group_noop, check_repo_noop, is_op_noop)  *)
(* and the group render states recompute_view derives from the timeline.   *)
(*                                                                         *)
(* A snapshot is reduced to who is included: every toggleable thing is an  *)
(* element of Item, repo files and GPG keys are elements of Carried, and   *)
(* the projection keeps the set of included ones plus each user's          *)
(* password state.  Names, contents and versions are left out.             *)
(***************************************************************************)
EXTENDS Naturals, Sequences, FiniteSets, SequencesExt

CONSTANTS
    Package,        \* canonical name.arch entries of rpm.packages_added
    NameOf,         \* [Package -> name]: two arches of one package share it
    Section,        \* repo section ids (folded to one case by RepoId)
    SourceRepo,     \* [Package -> Section \cup {NoRepo}]
    NoRepo,         \* a package no section is attributed to
    Toggleable,     \* sections with Verified/Incomplete provenance, not distro
    RepoFile,       \* .repo files captured by the scan
    GpgKey,         \* GPG key files captured by the scan
    FilesOf,        \* [Section -> SUBSET RepoFile], files defining a section
    KeysOf,         \* [Section -> SUBSET GpgKey], keys a section references
    Enabled,        \* sections whose .repo content says enabled=1
    EnablingFrom,   \* [Package -> SUBSET Section], repo_enabling_from
    OwnedPaths,     \* [Package -> SUBSET (RepoFile \cup GpgKey)]
    Group,          \* installed DNF groups
    Members,        \* [Group -> SUBSET names]
    Service,        \* units with a state_changes row
    DropIn,         \* systemd drop-ins
    UnitOf,         \* [DropIn -> Service \cup {NoRow}]
    NoRow,          \* a unit at its preset state, which has no row
    Config,         \* config files
    FixedConfig,    \* advisory or inventory config entries
    PlainItem,      \* items toggled alone: quadlets, flatpaks, sysctls
    Locked,         \* entries whose locked flag is set
    OrigIncluded,   \* entries included in the normalized original snapshot
    User,           \* users of users_groups
    OrigHash,       \* [User -> {"none", "orig"}]: the hash the scan captured
    OrigSensitive   \* sensitive_snapshot of the original

Carried == RepoFile \cup GpgKey
Item == Package \cup Section \cup Group \cup Service \cup DropIn
          \cup Config \cup PlainItem

ASSUME SnapshotAssumption ==
    /\ SourceRepo \in [Package -> Section \cup {NoRepo}]
    /\ NoRepo \notin Section
    /\ Enabled \subseteq Section /\ Toggleable \subseteq Enabled
    /\ FilesOf \in [Section -> SUBSET RepoFile]
    /\ KeysOf \in [Section -> SUBSET GpgKey]
    /\ EnablingFrom \in [Package -> SUBSET Section]
    /\ OwnedPaths \in [Package -> SUBSET Carried]
    /\ DOMAIN NameOf = Package /\ DOMAIN Members = Group
    /\ UnitOf \in [DropIn -> Service \cup {NoRow}]
    /\ NoRow \notin Service
    /\ FixedConfig \subseteq Config
    /\ Locked \subseteq (Item \ (Section \cup Group)) \cup RepoFile
    /\ OrigIncluded \subseteq (Item \ (Section \cup Group)) \cup Carried
    /\ OrigHash \in [User -> {"none", "orig"}]
    /\ OrigSensitive \in BOOLEAN

\* No included drop-in is under an excluded row: a scan includes every row and
\* drop-in it finds, and normalize_incompatible_services locks a unit's drop-ins
\* with it.  A fleet's snapshot need not have it: a row is kept by the hosts
\* that changed the unit's state, a drop-in by those that have the file.
RowsCoverDropIns ==
    \A d \in DropIn : UnitOf[d] \in Service /\ d \in OrigIncluded \ Locked
                        => UnitOf[d] \in OrigIncluded \ Locked

\* The kinds of item are told apart by membership, so they do not overlap.
ASSUME KindAssumption ==
    /\ Package \cap (Section \cup Group \cup Service \cup DropIn \cup Config \cup PlainItem) = {}
    /\ Section \cap (Group \cup Service \cup DropIn \cup Config \cup PlainItem) = {}
    /\ Group \cap (Service \cup DropIn \cup Config \cup PlainItem) = {}
    /\ Service \cap (DropIn \cup Config \cup PlainItem) = {}
    /\ DropIn \cap (Config \cup PlainItem) = {}
    /\ Config \cap PlainItem = {}
    /\ Carried \cap Item = {} /\ RepoFile \cap GpgKey = {}

-----------------------------------------------------------------------------
(* Operations and timeline entries.                                        *)

SetIncludeOp == [kind : {"SetInclude"}, item : Item, include : BOOLEAN]

\* UserPasswordOp; New carries an optional hash, None clears it, Preserve
\* restores the one the scan captured.
PasswordOp == [kind : {"UserPassword"}, user : User,
               choice : {"new_hash", "new_bare", "none", "preserve"}]

RefinementOp == SetIncludeOp \cup PasswordOp

SetInclude(i, b) == [kind |-> "SetInclude", item |-> i, include |-> b]
UserPassword(u, c) == [kind |-> "UserPassword", user |-> u, choice |-> c]

OpEntry(op) == [kind |-> "Op", ops |-> <<op>>]
BatchEntry(ops) == [kind |-> "Batch", ops |-> ops]
ViewEntry(g) == [kind |-> "View", group |-> g]

\* The ops an entry contributes to a replay: a view directive has none.
OpsOf(entry) == IF entry.kind = "View" THEN <<>> ELSE entry.ops

\* All ops of a timeline prefix, in replay order.
OpsIn(tl) == FlattenSeq([i \in DOMAIN tl |-> OpsOf(tl[i])])

-----------------------------------------------------------------------------
(* The replay.                                                             *)

IsItemLocked(i) == i \in Locked \ RepoFile

ToggledTo(inc, items, b) == IF b THEN inc \cup items ELSE inc \ items

\* excluded_sections_at: the sections whose last repo op excludes them.
ExcludedSections(ops) ==
    LET step(excluded, op) ==
          IF op.kind = "SetInclude" /\ op.item \in Section
          THEN ToggledTo(excluded, {op.item}, ~op.include)
          ELSE excluded
    IN  FoldLeft(step, {}, ops)

\* Mutant of RepoCascade: sharing with other sections is not looked at.
RepoCascadeUnshared(section, include, excluded) ==
    {p \in Package : SourceRepo[p] = section /\ p \notin Locked}
      \cup FilesOf[section] \cup KeysOf[section]

\* The Repo arm: packages always, and files and keys on exclusion only when
\* every section that shares them is excluded in the whole active stack.
RepoCascade(section, include, excluded) ==
    LET pkgs == {p \in Package : SourceRepo[p] = section /\ p \notin Locked}
        orphaned(uses, x) == \A t \in Section : x \in uses[t] => t \in excluded
    IN  pkgs \cup {f \in FilesOf[section] : include \/ orphaned(FilesOf, f)}
             \cup {k \in KeysOf[section]  : include \/ orphaned(KeysOf, k)}

\* The entries one SetInclude writes.
CascadeOf(item, include, excluded) ==
    CASE item \in Section -> RepoCascade(item, include, excluded)
      [] item \in Group   -> {p \in Package : /\ NameOf[p] \in Members[item]
                                              /\ ~(include /\ p \in Locked)}
      [] item \in Service -> {item} \cup {d \in DropIn : UnitOf[d] = item}
      [] item \in Config  -> {item} \ FixedConfig
      [] OTHER            -> {item}

\* Mutant of PasswordAfter: Preserve keeps whatever hash the projection holds.
PasswordAfterKept(pw, choice, u) ==
    CASE choice = "new_hash" -> [choice |-> "new", hash |-> "fresh"]
      [] choice = "new_bare" -> [pw EXCEPT !.choice = "new"]
      [] choice = "none"     -> [choice |-> "none", hash |-> "none"]
      [] choice = "preserve" -> [pw EXCEPT !.choice = "preserve"]

\* snap.users[u] after a password op; Preserve reads the original hash.
PasswordAfter(pw, choice, u) ==
    CASE choice = "new_hash" -> [choice |-> "new", hash |-> "fresh"]
      [] choice = "new_bare" -> [pw EXCEPT !.choice = "new"]
      [] choice = "none"     -> [choice |-> "none", hash |-> "none"]
      [] choice = "preserve" -> [choice |-> "preserve", hash |-> OrigHash[u]]

\* One op of the replay loop; locked items are never switched on.
ReplayStep(snap, op, excluded) ==
    CASE op.kind = "UserPassword" ->
           [snap EXCEPT !.users[op.user] = PasswordAfter(@, op.choice, op.user)]
      [] op.kind = "SetInclude" /\ op.include /\ IsItemLocked(op.item) -> snap
      [] OTHER ->
           [snap EXCEPT !.inc = ToggledTo(@, CascadeOf(op.item, op.include, excluded),
                                          op.include)]

Original == [inc   |-> OrigIncluded,
             users |-> [u \in User |-> [choice |-> "unset", hash |-> OrigHash[u]]]]

Replay(ops) ==
    LET excluded == ExcludedSections(ops)
        step(snap, op) == ReplayStep(snap, op, excluded)
    IN  FoldLeft(step, Original, ops)

\* Mutant of ClampLocked: no clamp after the replay.
NoClamp(inc) == inc

\* clamp_locked_items.
ClampLocked(inc) == inc \ Locked

\* A user whose projected password is new and carries a hash.
HasNewPassword(users) ==
    \E u \in DOMAIN users : users[u].choice = "new" /\ users[u].hash # "none"

\* section_survives: an included file defines it enabled, all its keys are in.
SectionSurvives(s, inc) ==
    s \in Enabled /\ FilesOf[s] \cap inc # {} /\ KeysOf[s] \subseteq inc

\* demote_unserved_repo_enabling: the included repo-enabling packages whose
\* serving definition the export no longer carries.
Demoted(inc) ==
    {p \in Package \cap inc :
        /\ EnablingFrom[p] # {}
        /\ \/ ~(OwnedPaths[p] \subseteq inc)
           \/ \A s \in EnablingFrom[p] : ~SectionSurvives(s, inc)}

\* project_snapshot.
ProjectOps(ops) ==
    LET snap == Replay(ops)
        inc  == ClampLocked(snap.inc)
    IN  [inc       |-> inc,
         users     |-> snap.users,
         sensitive |-> OrigSensitive \/ HasNewPassword(snap.users),
         demoted   |-> Demoted(inc)]

Project(tl) == ProjectOps(OpsIn(tl))

-----------------------------------------------------------------------------
(* What apply() asks before it records an op.                              *)

\* group_state::effective_members: present, actionable and not locked.
GroupMembers(g) == {p \in Package : NameOf[p] \in Members[g]} \ Locked

\* Mutant of RepoMembers: locked packages count as members.
RepoMembersAll(s) == {p \in Package : SourceRepo[p] = s}

\* The packages a repo toggle can move: attributed to it and not locked.
RepoMembers(s) == {p \in Package : SourceRepo[p] = s} \ Locked

\* Mutant of ValidTarget: the drop-in rule is missing.
ValidTargetNoDropInRule(op, proj) ==
    op.kind = "SetInclude" =>
      /\ op.item \in Section => op.item \in Toggleable
      /\ op.item \notin FixedConfig

\* validate_target, for targets that exist: distro and unproven repos,
\* advisory or inventory configs, and a drop-in under an excluded row.
ValidTarget(op, proj) ==
    op.kind = "SetInclude" =>
      /\ op.item \in Section => op.item \in Toggleable
      /\ op.item \notin FixedConfig
      /\ op.item \in DropIn /\ op.include =>
           ~(UnitOf[op.item] \in Service /\ UnitOf[op.item] \notin proj.inc)

\* check_group_noop and check_repo_noop: NoopTarget errors.
RefusedAsNoop(op, proj) ==
    /\ op.kind = "SetInclude" /\ op.item \in Group \cup Section
    /\ LET members == IF op.item \in Group THEN GroupMembers(op.item)
                                            ELSE RepoMembers(op.item)
       IN  IF op.include THEN members \subseteq proj.inc
                         ELSE members \cap proj.inc = {}

\* is_op_noop: accepted silently and never recorded.
IsOpNoop(op, proj) ==
    /\ op.kind = "SetInclude" /\ op.item \in Package \cup Config
    /\ (op.item \in proj.inc) = op.include

IsLockedInclude(op) ==
    op.kind = "SetInclude" /\ op.include /\ IsItemLocked(op.item)

\* apply() records op on top of the active prefix tl.
Records(op, tl) ==
    LET proj == Project(tl)
    IN  /\ ValidTarget(op, proj)
        /\ ~IsLockedInclude(op)
        /\ ~RefusedAsNoop(op, proj)
        /\ ~IsOpNoop(op, proj)

\* apply_directive() records it: is_directive_noop is false.
RecordsDirective(g, tl) == \A i \in DOMAIN tl : tl[i] # ViewEntry(g)

\* apply_batch drops locked includes and nothing else.
BatchSurvivors(ops) ==
    LET keep(op) == ~IsLockedInclude(op) IN SelectSeq(ops, keep)

-----------------------------------------------------------------------------
(* Group render states (recompute_view and group_state::derive_group_state) *)

IsGroupOp(op, g) == op.kind = "SetInclude" /\ op.item = g

\* Entries of tl that carry a group-level op for g.
GroupOpEntries(tl, g) ==
    {i \in DOMAIN tl : \E j \in DOMAIN OpsOf(tl[i]) : IsGroupOp(OpsOf(tl[i])[j], g)}

\* The op the backward scan stops at: the first one of the latest entry.
LastGroupOp(tl, g) ==
    LET ops == OpsOf(tl[Max(GroupOpEntries(tl, g))])
        test(op) == IsGroupOp(op, g)
    IN  ops[SelectInSeq(ops, test)]

\* divergent_overrides: members named by a later package op whose include
\* value differs from the group op's.
DivergentOverrides(tl, g) ==
    IF GroupOpEntries(tl, g) = {} THEN {}
    ELSE {p \in GroupMembers(g) :
            \E i \in Max(GroupOpEntries(tl, g)) + 1 .. Len(tl) :
              \E j \in DOMAIN OpsOf(tl[i]) :
                LET op == OpsOf(tl[i])[j]
                IN  /\ op.kind = "SetInclude" /\ op.item \in Package
                    /\ NameOf[op.item] = NameOf[p]
                    /\ op.include # LastGroupOp(tl, g).include}

GroupExcluded(tl, g) ==
    GroupOpEntries(tl, g) # {} /\ ~LastGroupOp(tl, g).include

\* Mutant of GroupState: an excluded group is not checked against its members.
GroupStateByOpOnly(tl, g) ==
    IF ~RecordsDirective(g, tl) THEN "Ungrouped"
    ELSE IF GroupExcluded(tl, g) THEN "Excluded"
    ELSE IF GroupMembers(g) \subseteq Project(tl).inc THEN "Renderable" ELSE "Degraded"

\* derive_group_state; the reasons for a degradation are kept apart only by
\* the operators above.
GroupState(tl, g) ==
    LET members  == GroupMembers(g)
        inc      == Project(tl).inc
        multilib == \E p, q \in members : p # q /\ NameOf[p] = NameOf[q]
    IN  IF ~RecordsDirective(g, tl) THEN "Ungrouped"
        ELSE IF multilib \/ DivergentOverrides(tl, g) # {} THEN "Degraded"
        ELSE IF members = {} THEN "Inert"
        ELSE IF GroupExcluded(tl, g) /\ members \cap inc = {} THEN "Excluded"
        ELSE IF members \subseteq inc THEN "Renderable" ELSE "Degraded"
=============================================================================
