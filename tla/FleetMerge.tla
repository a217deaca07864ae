----------------------------- MODULE FleetMerge -----------------------------
(***************************************************************************)
(* `inspectah aggregate`: host tarballs are loaded in argument order,      *)
(* gated on sensitive data, validated, merged into one snapshot and        *)
(* written.  The merge (crates/core/src/aggregate) groups the items of     *)
(* every list by identity, counts the hosts that carry each, picks a       *)
(* representative or ranks the content variants, and includes only what    *)
(* every host agrees on.                                                   *)
(*                                                                         *)
(* A host name is a number, compared as the code compares strings.  An     *)
(* item is its list, its identity, its content hash (0: none, the list has *)
(* no variants or the hash could not be taken) and the fields that are     *)
(* neither, of which only the source repo is read again.                   *)
(***************************************************************************)
EXTENDS Naturals, Sequences, FiniteSets, SequencesExt

CONSTANTS
    Snapshot,     \* the snapshots a tarball can hold
    Selectable,   \* lists whose entries have a variant_selection field
    Image,        \* target images, numbered in string order
    Tier,         \* repo -> tier (types/repo.rs)
    MaxFiles      \* bound on the number of inputs

NoSection == "no section"

\* A list has an order.  Leaf packages are chosen among the added ones
\* (classify_leaf_auto).
ASSUME FleetAssumption ==
    /\ MaxFiles \in Nat
    /\ \A s \in Snapshot :
         /\ s.host \in Nat /\ s.image \in Image \cup {0}
         /\ s.items \in Seq(Range(s.items)) /\ s.fcontext \in Seq(Range(s.fcontext))
         /\ s.rpm # NoSection /\ s.leafKnown =>
              s.leaves \subseteq {i.id : i \in {x \in Range(s.items) : x.list = "packages_added"}}

VARIABLES
    files,     \* snapshots parsed so far, in argument order
    skipped,   \* inputs that could not be parsed
    args,      \* [ack, strict : BOOLEAN, image : Image or 0]
    phase,     \* "loading", "merged", "written", "refused", "panicked"
    merged     \* the merged snapshot, or NoSnapshot

vars == <<files, skipped, args, phase, merged>>

NoSnapshot == [made |-> FALSE]

-----------------------------------------------------------------------------
(* Inputs of the merge: sequences of snapshots, S[k] of the k-th host.     *)

\* Mutant of Canonical: the order of the command line.
ArgumentOrder(S) == S

\* Snapshots by hostname: the single source of host ordering.  The sort is
\* stable; the k-th snapshot of the result has k - 1 others before it.
Precedes(S, j, i) == S[j].host < S[i].host \/ (S[j].host = S[i].host /\ j < i)
Rank(S, i) == Cardinality({j \in DOMAIN S : Precedes(S, j, i)})
Canonical(S) == [k \in DOMAIN S |-> S[CHOOSE i \in DOMAIN S : Rank(S, i) = k - 1]]

\* The collected items and rules keep the order of the hosts and, for one
\* host, of its list: <<k, n>> is the place of the n-th entry of the k-th host.
Item(S, e) == S[e[1]].items[e[2]]
Rule(S, e) == S[e[1]].fcontext[e[2]]
Earlier(a, b) == a[1] < b[1] \/ (a[1] = b[1] /\ a[2] < b[2])
First(places) == CHOOSE a \in places : \A b \in places \ {a} : Earlier(a, b)

\* collect_items: the items of one list, tagged with their host.
CollectItems(S, list) ==
    {e \in UNION {{k} \X DOMAIN S[k].items : k \in DOMAIN S} : Item(S, e).list = list}

Lists(S) == UNION {{i.list : i \in Range(S[k].items)} : k \in DOMAIN S}
Identities(S, items) == {Item(S, e).id : e \in items}
Group(S, items, id) == {e \in items : Item(S, e).id = id}
HostsOf(S, group) == {S[e[1]].host : e \in group}
VariantsOf(S, group) == {Item(S, e).var : e \in group}
OfVariant(S, group, v) == {e \in group : Item(S, e).var = v}

\* The member of a set with the largest count, the first on a tie.
Foremost(set, times(_), before(_, _)) ==
    CHOOSE x \in set : \A y \in set \ {x} : times(x) > times(y) \/ (times(x) = times(y) /\ before(x, y))
Smaller(x, y) == x < y

-----------------------------------------------------------------------------
(* merge_items and merge_with_variants                                     *)

\* A merged entry: included only when all hosts carry it.
Row(S, list, id, var, body, hosts, any, sel) ==
    [list |-> list, id |-> id, var |-> var, body |-> body, hosts |-> hosts,
     any |-> any, sel |-> sel, include |-> Cardinality(hosts) = Len(S)]

\* The place of the most frequent payload, the first seen on a tie.
Representative(S, group) ==
    LET times(e) == Cardinality({o \in group : Item(S, o).body = Item(S, e).body})
    IN Foremost(group, times, Earlier)

\* The variant on most hosts, the smaller hash on a tie.
SelectedVariant(S, group) ==
    LET on(v) == Cardinality(HostsOf(S, OfVariant(S, group, v)))
    IN Foremost(VariantsOf(S, group), on, Smaller)

Selection(S, list, group, v) ==
    IF list \notin Selectable \/ Cardinality(VariantsOf(S, group)) = 1 THEN "Only"
    ELSE IF v = SelectedVariant(S, group) THEN "Selected" ELSE "Alternative"

\* merge_with_variants: one row per content.
VariantRows(S, list, id, group) ==
    {LET own == OfVariant(S, group, v)
     IN Row(S, list, id, v, Item(S, First(own)).body, HostsOf(S, own), HostsOf(S, group),
            Selection(S, list, group, v)) : v \in VariantsOf(S, group)}

\* merge_items without content variants: one row per identity.
PlainRows(S, list, id, group) ==
    {Row(S, list, id, 0, Item(S, Representative(S, group)).body, HostsOf(S, group),
         HostsOf(S, group), "Only")}

\* Which of the two a group takes is decided by its first item.
HasVariants(S, group) == Item(S, First(group)).var # 0

MergeItems(S, list) ==
    LET items == CollectItems(S, list)
    IN UNION {LET g == Group(S, items, id)
              IN IF HasVariants(S, g) THEN VariantRows(S, list, id, g)
                                      ELSE PlainRows(S, list, id, g) : id \in Identities(S, items)}

\* content_variant_key().unwrap() on an item without a hash.
UnwrapFails(S) ==
    \E list \in Lists(S) : LET items == CollectItems(S, list) IN
        \E id \in Identities(S, items) : LET g == Group(S, items, id) IN
            HasVariants(S, g) /\ 0 \in VariantsOf(S, g)

-----------------------------------------------------------------------------
(* The RPM section                                                         *)

Authoritative(S) == {k \in DOMAIN S : S[k].rpm # NoSection /\ S[k].leafKnown}

LeafEverywhere(S) ==
    {p \in UNION {S[k].leaves : k \in Authoritative(S)} :
        \A k \in Authoritative(S) : p \in S[k].leaves}

LeafAnywhere(S) == UNION {S[k].leaves : k \in Authoritative(S)}

\* Mutant of KeptPackages: one tier, the intersection.
KeptIfLeafEverywhere(S, rows) ==
    IF Authoritative(S) = {} THEN rows ELSE {r \in rows : r.id \in LeafEverywhere(S)}

\* The two-tier filter: universal packages by the intersection of the leaf
\* sets, the others by their union.
KeptPackages(S, rows) ==
    IF Authoritative(S) = {} THEN rows
    ELSE {r \in rows : r.id \in IF Cardinality(r.hosts) >= Len(S) THEN LeafEverywhere(S)
                                                                 ELSE LeafAnywhere(S)}

\* Leaf on every authoritative host: included whatever the narrowing said.
ForceLeaves(S, rows) ==
    {IF Authoritative(S) # {} /\ r.id \in LeafEverywhere(S)
     THEN [r EXCEPT !.include = TRUE] ELSE r : r \in rows}

\* Repos a package came from, one count per host entry.
Sightings(S, id) == Group(S, CollectItems(S, "packages_added"), id)
RepoCount(S, id, repo) == Cardinality({e \in Sightings(S, id) : Item(S, e).body.repo = repo})
ReposOf(S, id) == {Item(S, e).body.repo : e \in Sightings(S, id)} \ {0}

\* Two repos of different tiers: a conflict worth showing.
InConflict(S, id) == Cardinality({Tier[r] : r \in ReposOf(S, id)}) >= 2

MajorityRepo(S, id) ==
    LET times(r) == RepoCount(S, id, r) IN Foremost(ReposOf(S, id), times, Smaller)

\* source_repo follows the majority where repos conflict.
Reconciled(S, rows) ==
    {IF InConflict(S, r.id) THEN [r EXCEPT !.body.repo = MajorityRepo(S, r.id)] ELSE r
        : r \in rows}

MergeRpm(S) == Reconciled(S, ForceLeaves(S, KeptPackages(S, MergeItems(S, "packages_added"))))

-----------------------------------------------------------------------------
(* Sections with rules of their own                                        *)

\* The fcontext rules of all hosts, in hostname order.
CollectRules(S) == UNION {{k} \X DOMAIN S[k].fcontext : k \in DOMAIN S}

\* The keys first seen before a place: their rows come first in the result.
KeysBefore(S, place) == {Rule(S, e).key : e \in {o \in CollectRules(S) : Earlier(o, place)}}

\* Mutant of FcontextRow: a rule is included when its key is on every host.
FcontextRowByKey(S, key) ==
    LET own == {e \in CollectRules(S) : Rule(S, e).key = key}
        body == Rule(S, First(own)).body
    IN [key |-> key, body |-> body, at |-> Cardinality(KeysBefore(S, First(own))),
        hosts |-> HostsOf(S, {e \in own : Rule(S, e).body = body}),
        include |-> Cardinality(HostsOf(S, own)) = Len(S)]

\* The first content in hostname order survives; hosts that share it count.
FcontextRow(S, key) ==
    LET own == {e \in CollectRules(S) : Rule(S, e).key = key}
        body == Rule(S, First(own)).body
        agree == HostsOf(S, {e \in own : Rule(S, e).body = body})
    IN [key |-> key, body |-> body, at |-> Cardinality(KeysBefore(S, First(own))),
        hosts |-> agree, include |-> Cardinality(agree) = Len(S)]

MergeFcontext(S) == {FcontextRow(S, key) : key \in {Rule(S, e).key : e \in CollectRules(S)}}

\* The first host wins, except that a creator the export can carry beats an
\* entry without one.
VarDirStep(acc, dir) ==
    IF \E d \in acc : d.path = dir.path /\ (d.carried \/ ~dir.carried) THEN acc
    ELSE {d \in acc : d.path # dir.path} \cup {dir}

MergeVarDirs(S) ==
    FoldLeft(VarDirStep, {}, FlattenSeq([k \in DOMAIN S |-> S[k].vardirs]))

\* most_prevalent_scalar, then include only a custom profile that every host
\* with the section runs.
MergeTuned(S) ==
    LET named == {k \in DOMAIN S : S[k].tuned \notin {"", NoSection}}
        times(k) == Cardinality({j \in named : S[j].tuned = S[k].tuned})
        winner == S[Foremost(named, times, Smaller)].tuned
    IN IF named = {} THEN [profile |-> "", include |-> FALSE]
       ELSE [profile |-> winner,
             include |-> winner # "stock" /\ \A k \in DOMAIN S : S[k].tuned \in {winner, NoSection}]

\* merge_json_by_name: group lists are united under the first host's entry.
MergeUsers(S) ==
    LET add(acc, u) ==
          IF \E v \in acc : v.name = u.name
          THEN {IF v.name = u.name THEN [v EXCEPT !.groups = @ \cup u.groups] ELSE v : v \in acc}
          ELSE acc \cup {u}
    IN FoldLeft(add, {}, FlattenSeq([k \in DOMAIN S |-> S[k].users]))

-----------------------------------------------------------------------------
(* Snapshot-level fields                                                   *)

\* Completeness is ordered Complete (0), Partial (1), Incomplete (2).
MergeCompleteness(S) ==
    [level |-> IF \E k \in DOMAIN S : S[k].level = 2 THEN 2
               ELSE IF \E k \in DOMAIN S : S[k].level = 1 THEN 1 ELSE 0,
     unsure |-> UNION {S[k].unsure : k \in DOMAIN S}]

ImageCount(S, i) == Cardinality({k \in DOMAIN S : S[k].image = i})
ImagesOf(S) == {S[k].image : k \in DOMAIN S} \ {0}

\* The override, or the most common image, ties to the smaller name.
SelectTargetImage(S, override) ==
    IF override # 0 THEN override
    ELSE IF ImagesOf(S) = {} THEN 0
    ELSE LET times(i) == ImageCount(S, i) IN Foremost(ImagesOf(S), times, Smaller)

Provisional(S, override) == override = 0 /\ Cardinality(ImagesOf(S)) > 1

\* The first host that was compared with the selected image.
BaselineHost(S, image) ==
    LET fits(k) == image # 0 /\ S[k].image = image /\ S[k].baseline
    IN IF \E k \in DOMAIN S : fits(k)
       THEN CHOOSE k \in DOMAIN S : fits(k) /\ \A j \in 1..(k - 1) : ~fits(j)
       ELSE 0

\* The subscription that expires last (0: none or incomplete, 1: no date) and
\* ties go to the smaller hostname.
MergeSubscription(S) ==
    LET cand == {k \in DOMAIN S : S[k].expiry > 0}
    IN IF cand = {} THEN 0
       ELSE LET expiry(k) == S[k].expiry IN S[Foremost(cand, expiry, Smaller)].host

-----------------------------------------------------------------------------
(* Validation                                                              *)

\* is_empty_snapshot
EmptySnapshot(s) == s.sections \ {"unmanaged_files"} = {} /\ s.os = <<>>

\* A host's architecture is the most frequent one of its packages; of several
\* that are equally frequent the hash map's order picks one.
ArchChoices(S) == [DOMAIN S -> UNION {s.archs : s \in ToSet(S)} \cup {"none"}]
ArchPossible(S, arch) ==
    \A k \in DOMAIN S : IF S[k].archs = {} THEN arch[k] = "none" ELSE arch[k] \in S[k].archs

AllEqual(values) == Cardinality(values) <= 1

ValidationErrors(S, arch) ==
    \/ Len(S) < 2
    \/ ~AllEqual({S[k].schema : k \in DOMAIN S})
    \/ Cardinality({S[k].host : k \in DOMAIN S}) < Len(S)
    \/ ~AllEqual({arch[k] : k \in DOMAIN S} \ {"none"})
    \/ ~AllEqual({S[k].os[1] : k \in {j \in DOMAIN S : S[j].os # <<>>}})
    \/ \E k \in DOMAIN S : EmptySnapshot(S[k])

\* Minor versions, system types, target images or scan dates that differ.
Warned(S) ==
    \/ ~AllEqual({S[k].os : k \in DOMAIN S} \ {<<>>})
    \/ ~AllEqual({S[k].system : k \in DOMAIN S})
    \/ ~AllEqual(ImagesOf(S))
    \/ ~AllEqual({S[k].date : k \in DOMAIN S})

-----------------------------------------------------------------------------
(* The command                                                             *)

\* A loaded snapshot counts as sensitive when it says so or is unredacted.
Sensitive(s) == s.sensitive \/ s.raw

\* merge_snapshots after validation.
MergeSnapshots(loaded, override) ==
    LET S == Canonical(loaded)
        image == SelectTargetImage(S, override)
        base == BaselineHost(S, image)
    IN [made |-> TRUE,
        hosts |-> {S[k].host : k \in DOMAIN S},
        rows |-> MergeRpm(S) \cup
                 UNION {MergeItems(S, l) : l \in Lists(S) \ {"packages_added"}},
        leafKnown |-> Authoritative(S) # {},
        leaves |-> LeafEverywhere(S),
        fcontext |-> MergeFcontext(S),
        vardirs |-> MergeVarDirs(S),
        tuned |-> MergeTuned(S),
        users |-> MergeUsers(S),
        complete |-> MergeCompleteness(S),
        image |-> image,
        provisional |-> Provisional(S, override),
        baseline |-> IF base = 0 THEN 0 ELSE S[base].host,
        rpmBaseline |-> IF base = 0 THEN 0
                        ELSE IF S[base].rpm = NoSection THEN 0 ELSE S[base].host,
        subscription |-> MergeSubscription(S),
        sensitive |-> \E k \in DOMAIN S : Sensitive(S[k]),
        unredacted |-> \E k \in DOMAIN S : S[k].raw]

\* load_snapshot_from_tarball succeeds.
LoadFile(s) ==
    /\ phase = "loading"
    /\ Len(files) + skipped < MaxFiles
    /\ files' = Append(files, s)
    /\ UNCHANGED <<skipped, args, phase, merged>>

\* ... or fails: a warning, and the file is left out.
SkipFile ==
    /\ phase = "loading"
    /\ Len(files) + skipped < MaxFiles
    /\ skipped' = skipped + 1
    /\ UNCHANGED <<files, args, phase, merged>>

Gated == ~args.ack /\ \E k \in DOMAIN files : Sensitive(files[k])

\* No input, sensitive data without --ack-sensitive, or a validation error.
Refuse ==
    /\ phase = "loading"
    /\ \/ files = <<>>
       \/ Gated
       \/ \E arch \in ArchChoices(files) : ArchPossible(files, arch) /\ ValidationErrors(files, arch)
    /\ phase' = "refused"
    /\ UNCHANGED <<files, skipped, args, merged>>

Merge ==
    /\ phase = "loading"
    /\ files # <<>>
    /\ ~Gated
    /\ \E arch \in ArchChoices(files) : ArchPossible(files, arch) /\ ~ValidationErrors(files, arch)
    /\ IF UnwrapFails(Canonical(files))
       THEN phase' = "panicked" /\ UNCHANGED merged
       ELSE phase' = "merged" /\ merged' = MergeSnapshots(files, args.image)
    /\ UNCHANGED <<files, skipped, args>>

\* Warnings end the command under --strict.
RefuseStrict ==
    /\ phase = "merged"
    /\ args.strict
    /\ Warned(files) \/ skipped > 0
    /\ phase' = "refused"
    /\ UNCHANGED <<files, skipped, args, merged>>

\* JSON, or artifacts rendered and packed into the aggregate tarball.
Write ==
    /\ phase = "merged"
    /\ ~(args.strict /\ (Warned(files) \/ skipped > 0))
    /\ phase' = "written"
    /\ UNCHANGED <<files, skipped, args, merged>>

Init ==
    /\ files = <<>> /\ skipped = 0
    /\ args \in [ack : BOOLEAN, strict : BOOLEAN, image : Image \cup {0}]
    /\ phase = "loading"
    /\ merged = NoSnapshot

Next ==
    \/ \E s \in Snapshot : LoadFile(s)
    \/ SkipFile \/ Refuse \/ Merge \/ RefuseStrict \/ Write

Spec == Init /\ [][Next]_vars

-----------------------------------------------------------------------------
(* Properties.  They speak of the loaded files, not of the merge's own     *)
(* intermediate results.                                                   *)

Done == phase \in {"merged", "written"}
Loaded == {files[k] : k \in DOMAIN files}

Carries(s, r) == \E n \in DOMAIN s.items :
    s.items[n].list = r.list /\ s.items[n].id = r.id /\ (r.var # 0 => s.items[n].var = r.var)

\* The merged snapshot is the same whatever the order of the tarballs on the
\* command line or in the directory (merge_snapshots sorts by hostname before
\* any first-seen rule applies).
OrderIndependent ==
    Done => \A p \in Bijection(DOMAIN files, DOMAIN files) :
        MergeSnapshots([k \in DOMAIN files |-> files[p[k]]], args.image) = merged

\* A row names exactly the hosts that carry its item in its content, and
\* outside the filtered package list every host's item is counted in some
\* row.  A row with var 0 stands for its path: its first host could not hash
\* the file, so the group was merged without variants.
PrevalenceExact ==
    /\ \A r \in merged.rows : r.hosts = {s.host : s \in {x \in Loaded : Carries(x, r)}}
    /\ \A s \in Loaded : \A n \in DOMAIN s.items :
          s.items[n].list # "packages_added" =>
            \E r \in merged.rows : Carries(s, r) /\ r.list = s.items[n].list
                                    /\ r.id = s.items[n].id /\ r.var \in {0, s.items[n].var}

\* An included row is on every host with one content, an included fcontext
\* rule has one body everywhere, and only a package that is a leaf on every
\* authoritative host may be missing from a degraded one.
IncludedIsAgreed ==
    /\ \A r \in merged.rows : r.include =>
          \/ \A s \in Loaded : Carries(s, r)
          \/ /\ r.list = "packages_added"
             /\ \A s \in Loaded : s.rpm = NoSection \/ ~s.leafKnown \/ r.id \in s.leaves
    /\ \A r \in merged.fcontext : r.include =>
          \A s \in Loaded : \E rule \in Range(s.fcontext) : rule.key = r.key /\ rule.body = r.body

\* The counts shown are the hosts' own, and they decide what the image will
\* contain: prevalence is exact, and an item is included only when the hosts
\* agree on it (merge_with_variants, narrow_non_universal, the leaf override,
\* merge_fcontext_rules).
CountsDecide == Done => PrevalenceExact /\ IncludedIsAgreed

\* A package the operator chose on some host (a leaf there, a dependency on no
\* authoritative host) is never filtered out, however few hosts have it
\* (the two-tier leaf filter of merge_rpm_sections).
LeavesSurvive ==
    Done => \A s \in Loaded : s.rpm # NoSection /\ s.leafKnown =>
        \A p \in s.leaves :
            \/ \E r \in merged.rows : r.list = "packages_added" /\ r.id = p
            \/ \E x \in Loaded : /\ x.rpm # NoSection /\ x.leafKnown
                                 /\ p \notin x.leaves
                                 /\ \E n \in DOMAIN x.items : x.items[n].id = p
=============================================================================
