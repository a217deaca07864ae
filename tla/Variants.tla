------------------------------ MODULE Variants ------------------------------
(***************************************************************************)
(* Variants of one item in an aggregate refine session: a path whose       *)
(* content differs between the hosts keeps one entry per content, and the  *)
(* operator selects one, edits a new one or discards an edit.  The state   *)
(* is the timeline; what is shown is replayed from it over the entries     *)
(* the merge left (FleetMerge).  The replay is keyed by path alone, and a  *)
(* path may belong to two sections: a drop-in's file also has an           *)
(* inventory row among the config files (collect.rs,                       *)
(* shadow_service_owned_paths).                                            *)
(***************************************************************************)
EXTENDS Integers, FiniteSets, Sequences

CONSTANTS Item,         \* items with variants: [kind, path]
          Hash,         \* content hashes
          NoHash,       \* no hash given
          Host,         \* Host[i]: contents the hosts have for item i
          HostPick,     \* HostPick[i]: the one the merge selected and listed first
          Universal,    \* items whose only content is on every host
          MaxTimeline   \* bound on recorded operations

Kinds == {"Config", "DropIn", "Quadlet", "Compose", "UnmanagedFile", "LanguageEnv"}

\* Sections whose entries carry raw content; the others are select-only.
Editable == {"Config", "DropIn", "Quadlet"}

\* Sections with a variant_selection flag.
Flagged == Kinds \ {"LanguageEnv"}

Path == {i.path : i \in Item}

ASSUME ItemAssumption ==
    /\ \A i \in Item : i.kind \in Kinds /\ Host[i] # {} /\ Host[i] \subseteq Hash
    /\ \A i \in Item : HostPick[i] \in Host[i] /\ IsFiniteSet(Host[i])
    /\ \A i \in Universal : i \in Item /\ Cardinality(Host[i]) = 1
    /\ NoHash \notin Hash
    /\ MaxTimeline \in Nat

\* A path that is in two sections has the same contents in both, and both can
\* be edited or none.  A drop-in and a quadlet have it with their inventory
\* row: a host lists the one file twice.  A compose file does not (its entries
\* are told apart by their images), so a path that is a compose file and in
\* another section is outside the theorems that use this.
PathsAgree ==
    \A i, j \in Item : i.path = j.path =>
        Host[i] = Host[j] /\ (i.kind \in Editable <=> j.kind \in Editable)

VARIABLES timeline, cursor

vars == <<timeline, cursor>>

Op == [op : {"Select", "Edit", "Discard"}, item : Item, hash : Hash]
      \cup [op : {"Include", "Exclude"}, item : {i \in Item : i.kind \in Editable},
            hash : {NoHash}]

\* A config row whose content travels as a drop-in is inventory.
Shadowed(i) == /\ i.kind = "Config"
               /\ \E j \in Item : j.kind = "DropIn" /\ j.path = i.path

-----------------------------------------------------------------------------
(* Replay.                                                                 *)

NoVariantState == [user      |-> [p \in Path |-> {}],
                   discarded |-> [p \in Path |-> {}],
                   selected  |-> [p \in Path |-> NoHash],
                   included  |-> [i \in Item |-> i \in Universal /\ ~Shadowed(i)]]

ApplySelect(s, o) == [s EXCEPT !.selected[o.item.path] = o.hash]

\* An edit repeated after its discard only moves the selection.
ApplyEditKeepsDiscarded(s, o) ==
    IF o.hash \in Host[o.item] \cup s.user[o.item.path]
    THEN [s EXCEPT !.selected[o.item.path] = o.hash]
    ELSE [s EXCEPT !.user[o.item.path] = @ \cup {o.hash},
                   !.selected[o.item.path] = o.hash]

\* Content that an entry already has converges on it; only new content
\* becomes a user variant and leaves the discarded set.
ApplyEdit(s, o) ==
    LET p == o.item.path IN
    IF o.hash \in Host[o.item] \cup s.user[p]
    THEN [s EXCEPT !.selected[p] = o.hash]
    ELSE [s EXCEPT !.user[p] = @ \cup {o.hash},
                   !.discarded[p] = @ \ {o.hash},
                   !.selected[p] = o.hash]

\* A discard that leaves the selection where it was.
ApplyDiscardKeepsSelection(s, o) ==
    [s EXCEPT !.user[o.item.path] = @ \ {o.hash},
              !.discarded[o.item.path] = @ \cup {o.hash}]

ApplyDiscard(s, o) ==
    LET p == o.item.path IN
    [s EXCEPT !.user[p] = @ \ {o.hash},
              !.discarded[p] = @ \cup {o.hash},
              !.selected[p] = IF @ = o.hash THEN NoHash ELSE @]

\* SetInclude reaches the first entry with the path, which is the merge's pick.
SetInclude(s, o) ==
    [s EXCEPT !.included[o.item] = o.op = "Include" /\ ~Shadowed(o.item)]

ApplyOp(s, o) == CASE o.op = "Select"  -> ApplySelect(s, o)
                   [] o.op = "Edit"    -> ApplyEdit(s, o)
                   [] o.op = "Discard" -> ApplyDiscard(s, o)
                   [] OTHER            -> SetInclude(s, o)

BuildVariantState ==
    LET after[n \in 0..cursor] ==
            IF n = 0 THEN NoVariantState ELSE ApplyOp(after[n - 1], timeline[n])
    IN after[cursor]

-----------------------------------------------------------------------------
(* materialize_variants: the entries of an item and their flags.           *)

Rows(s, i) ==
    LET p == i.path IN
    IF i.kind \in Editable THEN (Host[i] \cup s.user[p]) \ s.discarded[p] ELSE Host[i]

HostFlag(i, h) == IF Cardinality(Host[i]) = 1 THEN "Only"
                  ELSE IF h = HostPick[i] THEN "Selected" ELSE "Alternative"

Affected(s, p) == s.user[p] # {} \/ s.discarded[p] # {} \/ s.selected[p] # NoHash

Flag(s, i, h) ==
    LET p == i.path IN
    IF Affected(s, p) /\ Cardinality(Rows(s, i)) = 1 THEN "Only"
    ELSE IF s.selected[p] # NoHash
         THEN IF h = s.selected[p] THEN "Selected" ELSE "Alternative"
    ELSE IF h \in Host[i] THEN HostFlag(i, h)
    ELSE "Alternative"

\* A language environment has no flag: selecting one of several includes it.
Included(s, i, h) == Cardinality(Host[i]) > 1 /\ s.selected[i.path] = h

Chosen(s, i) ==
    IF i.kind \in Flagged THEN {h \in Rows(s, i) : Flag(s, i, h) \in {"Selected", "Only"}}
    ELSE {h \in Host[i] : Included(s, i, h)}

-----------------------------------------------------------------------------
(* Validation of one operation against the state so far.                   *)

\* Looks for the hash among the hosts' entries only.
ValidateSelectHostOnly(s, o) ==
    /\ o.hash \in Host[o.item]
    /\ o.hash \notin s.discarded[o.item.path]

ValidateSelect(s, o) ==
    /\ o.hash \in Host[o.item] \cup s.user[o.item.path]
    /\ o.hash \notin s.discarded[o.item.path]

ValidateEdit(s, o, based) ==
    /\ o.item.kind \in Editable
    /\ based # NoHash => based \in Host[o.item] \cup s.user[o.item.path]

ValidateDiscard(s, o) ==
    /\ o.item.kind # "Compose"
    /\ o.hash \in s.user[o.item.path]

ValidateTarget(s, o) == CASE o.op = "Select"  -> ValidateSelect(s, o)
                          [] o.op = "Edit"    -> \E b \in Hash \cup {NoHash} : ValidateEdit(s, o, b)
                          [] o.op = "Discard" -> ValidateDiscard(s, o)
                          [] OTHER            -> ~Shadowed(o.item)

\* A config row already in the requested state records nothing.
IsOpNoop(s, o) == /\ o.op \in {"Include", "Exclude"}
                  /\ o.item.kind = "Config"
                  /\ s.included[o.item] = (o.op = "Include")

-----------------------------------------------------------------------------
(* What clients see.                                                       *)

\* Options of an item: none unless it has several entries.
BuildVariants(s, i) ==
    IF Cardinality(Rows(s, i)) < 2 THEN {}
    ELSE [hash : Rows(s, i)]

\* The content an export writes at the item's path, over every order in which
\* user entries can follow the hosts' in the list: each included entry
\* overwrites the one before.  User entries are clones of the first entry.
WriteConfigTree(s, i) ==
    IF ~s.included[i] THEN {}
    ELSE IF Rows(s, i) \ Host[i] = {} THEN {HostPick[i]}
    ELSE Rows(s, i) \ Host[i]

IsDecisionSection(i) == i.kind # "Compose"

\* aggregate_diff compares two projected entries of a config path.
CanDiff(s, i, base, target) == i.kind = "Config" /\ {base, target} \subseteq Rows(s, i)

\* Counts only the rows the hosts brought.
VariantsChangedHostRows(s) ==
    {r \in [item : Item, hash : Hash] :
        /\ r.item.kind \in Editable \cup {"Compose"}
        /\ r.hash \in Host[r.item] \cap Rows(s, r.item)
        /\ Flag(s, r.item, r.hash) # HostFlag(r.item, r.hash)}

\* Rows of the changes summary whose variant state differs from the scan's.
VariantsChanged(s) ==
    {r \in [item : Item, hash : Hash] :
        LET i == r.item  h == r.hash IN
        \/ /\ i.kind \in Editable \cup {"Compose"} /\ h \in Host[i]
           /\ h \in Rows(s, i) => Flag(s, i, h) # HostFlag(i, h)
        \/ /\ i.kind \in Editable /\ h \in Rows(s, i) \ Host[i]
           /\ Flag(s, i, h) # "Only"}

-----------------------------------------------------------------------------
Init == timeline = <<>> /\ cursor = 0

Apply(o) ==
    /\ cursor < MaxTimeline
    /\ ValidateTarget(BuildVariantState, o)
    /\ ~IsOpNoop(BuildVariantState, o)
    /\ timeline' = Append(SubSeq(timeline, 1, cursor), o)
    /\ cursor' = cursor + 1

Undo == cursor > 0 /\ cursor' = cursor - 1 /\ UNCHANGED timeline

Redo == cursor < Len(timeline) /\ cursor' = cursor + 1 /\ UNCHANGED timeline

Reset == timeline # <<>> /\ timeline' = <<>> /\ cursor' = 0

Next == (\E o \in Op : Apply(o)) \/ Undo \/ Redo \/ Reset

Spec == Init /\ [][Next]_vars

-----------------------------------------------------------------------------
(* Properties.                                                             *)

\* Whatever was selected, edited, discarded and undone, exactly one entry of
\* an item with a variant_selection flag is the one to ship: a discard of the
\* selected edit falls back to a real entry, never to none or to two.
OneChosen ==
    \A i \in Item : i.kind \in Flagged => Cardinality(Chosen(BuildVariantState, i)) = 1

\* An EditVariant that was just accepted or redone is in force: its content is
\* an entry of the item and the chosen one, also when the same content was
\* discarded before.
EditTakesEffect ==
    cursor > 0 /\ timeline[cursor].op = "Edit" =>
        Chosen(BuildVariantState, timeline[cursor].item) = {timeline[cursor].hash}

\* Every option a decision section offers can be acted on: selecting it is
\* accepted, and for a config path it can be compared with any other.
ShownIsUsable ==
    LET s == BuildVariantState IN
    \A i \in Item : IsDecisionSection(i) =>
        \A v \in BuildVariants(s, i) :
            /\ ValidateSelect(s, [op |-> "Select", item |-> i, hash |-> v.hash])
            /\ i.kind = "Config" =>
                 \A w \in BuildVariants(s, i) : CanDiff(s, i, v.hash, w.hash)

\* The changes summary counts no variant change exactly when the entries and
\* flags of the sections it looks at are those of the scan.
ChangesHonest ==
    LET s == BuildVariantState IN
    VariantsChanged(s) = {} <=>
        \A i \in Item : i.kind \in Editable \cup {"Compose"} =>
            /\ Rows(s, i) = Host[i]
            /\ \A h \in Host[i] : Flag(s, i, h) = HostFlag(i, h)

\* What the export writes for a path is the variant shown as selected.
ChosenIsShipped ==
    LET s == BuildVariantState IN
    \A i \in Item : i.kind \in Editable => WriteConfigTree(s, i) \subseteq Chosen(s, i)
=============================================================================
