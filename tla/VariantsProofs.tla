--------------------------- MODULE VariantsProofs ---------------------------
(***************************************************************************)
(* What the replay of variant operations guarantees for every fleet, every *)
(* set of contents and every bound on the timeline.                        *)
(***************************************************************************)
EXTENDS Variants, InductionLemmas

VariantStates == [user : [Path -> SUBSET Hash],
                  discarded : [Path -> SUBSET Hash],
                  selected : [Path -> Hash \cup {NoHash}],
                  included : [Item -> BOOLEAN]]

TypeOK == timeline \in Seq(Op) /\ cursor \in 0 .. Len(timeline)

\* Only user variants are discarded, they are apart from the hosts' contents,
\* and the selection is an entry that exists.
SoundAt(s, i) ==
    LET p == i.path IN
    /\ s.discarded[p] \cap (Host[i] \cup s.user[p]) = {}
    /\ s.user[p] \cap Host[i] = {}
    /\ i.kind \notin Editable => s.user[p] = {}
    /\ s.selected[p] # NoHash => s.selected[p] \in (Host[i] \cup s.user[p]) \ s.discarded[p]

\* What holds of a replayed state.
Sound(s) == /\ s \in VariantStates /\ \A p \in Path : IsFiniteSet(s.user[p])
            /\ PathsAgree => \A i \in Item : SoundAt(s, i)

\* h goes through the states of the timeline tl.
Trace(tl, h) ==
    /\ h \in [0 .. Len(tl) -> VariantStates] /\ h[0] = NoVariantState
    /\ \A k \in 0 .. Len(tl) - 1 : h[k + 1] = ApplyOp(h[k], tl[k + 1])

\* Every prefix of the timeline, the redo tail's included, replays to a sound
\* state, and only sections with content were edited.
TimelineSound ==
    /\ \E h : Trace(timeline, h) /\ \A k \in 0 .. Len(timeline) : Sound(h[k])
    /\ \A k \in 1 .. Len(timeline) :
         timeline[k].op = "Edit" => timeline[k].item.kind \in Editable

IInv == TypeOK /\ TimelineSound

-----------------------------------------------------------------------------
(* The replay.                                                             *)

\* What the recursion of build_variant_state returns is the state a trace of
\* the whole timeline has at the cursor.
LEMMA ReplayIsTrace ==
    ASSUME TypeOK, NEW h, Trace(timeline, h)
    PROVE  BuildVariantState = h[cursor]
<1> DEFINE Solves(f) == f = [n \in 0 .. cursor |->
               IF n = 0 THEN NoVariantState ELSE ApplyOp(f[n - 1], timeline[n])]
           f == CHOOSE g : Solves(g)
           r == [n \in 0 .. cursor |-> h[n]]
<1>0. cursor \in Nat /\ Len(timeline) \in Nat /\ cursor <= Len(timeline)
  BY DEF TypeOK
<1>1. BuildVariantState = f[cursor]
  BY Zenon DEF BuildVariantState
<1>2. Solves(r)
  <2>1. ASSUME NEW n \in 0 .. cursor
        PROVE  r[n] = IF n = 0 THEN NoVariantState ELSE ApplyOp(r[n - 1], timeline[n])
    <3>1. CASE n = 0
      BY <3>1 DEF Trace
    <3>2. CASE n # 0
      <4>1. n - 1 \in 0 .. cursor /\ n - 1 \in 0 .. Len(timeline) - 1 /\ (n - 1) + 1 = n
        BY <1>0, <3>2
      <4>2. r[n - 1] = h[n - 1] /\ r[n] = h[n]
        BY <4>1
      <4>3. h[n] = ApplyOp(h[n - 1], timeline[n])
        BY <4>1 DEF Trace
      <4> QED BY <3>2, <4>2, <4>3
    <3> QED BY <3>1, <3>2
  <2> DEFINE q == [n \in 0 .. cursor |-> IF n = 0 THEN NoVariantState
                                         ELSE ApplyOp(r[n - 1], timeline[n])]
  <2>2. \A n \in 0 .. cursor : q[n] = r[n]
    BY <2>1, Zenon
  <2>3. DOMAIN q = DOMAIN r
    OBVIOUS
  <2>4. q = r
    BY <2>2, <2>3, Zenon
  <2> QED BY <2>4, Zenon
<1>3. Solves(f)
  <2> HIDE DEF r
  <2> QED BY <1>2, Zenon
<1> HIDE DEF f
<1> DEFINE T == {k \in 0 .. cursor : f[k] = h[k]}
<1>4. 0 \in T
  <2>1. f[0] = NoVariantState
    <3>1. 0 \in 0 .. cursor
      BY <1>0
    <3> QED BY <1>3, <3>1, Zenon
  <2> QED BY <1>0, <2>1 DEF Trace
<1>5. ASSUME NEW k \in 0 .. cursor - 1, k \in T PROVE k + 1 \in T
  <2>1. k + 1 \in 0 .. cursor /\ k \in 0 .. Len(timeline) - 1 /\ (k + 1) - 1 = k /\ k + 1 # 0
    BY <1>0
  <2>2. f[k + 1] = ApplyOp(f[(k + 1) - 1], timeline[k + 1])
    BY <1>3, <2>1, Zenon
  <2>3. f[k] = h[k]
    BY <1>5
  <2>4. h[k + 1] = ApplyOp(h[k], timeline[k + 1])
    BY <2>1 DEF Trace
  <2>5. f[k + 1] = h[k + 1]
    BY <2>1, <2>2, <2>3, <2>4
  <2> QED BY <2>1, <2>5
<1>6. T = 0 .. cursor
  <2>1. T \in SUBSET (0 .. cursor)
    OBVIOUS
  <2> HIDE DEF T
  <2> QED BY <1>0, <1>4, <1>5, <2>1, BoundedInduction
<1>7. f[cursor] = h[cursor]
  BY <1>0, <1>6
<1> QED BY <1>1, <1>7

-----------------------------------------------------------------------------
(* Operations that were accepted keep the state sound.                     *)

\* An operation names an item of the fleet and its path.
LEMMA OpTyped ==
    ASSUME NEW o \in Op
    PROVE  /\ o.item \in Item /\ o.item.path \in Path
           /\ o.op \in {"Select", "Edit", "Discard"} => o.hash \in Hash
           /\ o.op \in {"Select", "Edit", "Discard", "Include", "Exclude"}
BY DEF Op, Path

\* A selection that was validated names an entry of every section of its path.
LEMMA SelectKeeps ==
    ASSUME NEW s, Sound(s), NEW o \in Op, o.op = "Select", ValidateSelect(s, o)
    PROVE  Sound(ApplySelect(s, o))
<1> DEFINE t == ApplySelect(s, o)
           p == o.item.path
<1>1. o.item \in Item /\ p \in Path /\ o.hash \in Hash
  BY OpTyped
<1>2. /\ t \in VariantStates /\ t.user = s.user /\ t.discarded = s.discarded
      /\ t.selected = [s.selected EXCEPT ![p] = o.hash]
  BY <1>1 DEF ApplySelect, VariantStates, Sound
<1> HIDE DEF t
<1>3. ASSUME PathsAgree, NEW i \in Item PROVE SoundAt(t, i)
  <2>1. SoundAt(s, i) /\ i.path \in Path
    BY <1>3 DEF Sound, Path
  <2>2. CASE i.path = p
    <3>1. Host[i] = Host[o.item]
      BY <1>1, <1>3, <2>2 DEF PathsAgree
    <3>2. t.selected[i.path] = o.hash
      BY <1>1, <1>2, <2>2 DEF Sound, VariantStates
    <3> QED BY <1>2, <2>1, <2>2, <3>1, <3>2 DEF SoundAt, ValidateSelect
  <2>3. CASE i.path # p
    <3>1. t.selected[i.path] = s.selected[i.path]
      BY <1>1, <1>2, <2>1, <2>3 DEF Sound, VariantStates
    <3> QED BY <1>2, <2>1, <3>1 DEF SoundAt
  <2> QED BY <2>2, <2>3
<1> QED BY <1>2, <1>3 DEF Sound, t

\* An edit converges on an entry that exists, or adds content no host has.
LEMMA EditKeeps ==
    ASSUME NEW s, Sound(s), NEW o \in Op, o.op = "Edit", o.item.kind \in Editable
    PROVE  Sound(ApplyEdit(s, o))
<1> DEFINE t == ApplyEdit(s, o)
           p == o.item.path
<1>1. o.item \in Item /\ p \in Path /\ o.hash \in Hash
  BY OpTyped
<1>2. PathsAgree => SoundAt(s, o.item)
  BY <1>1 DEF Sound
<1>3. CASE o.hash \in Host[o.item] \cup s.user[p]
  <2>1. /\ t \in VariantStates /\ t.user = s.user /\ t.discarded = s.discarded
        /\ t.selected = [s.selected EXCEPT ![p] = o.hash]
    BY <1>1, <1>3 DEF ApplyEdit, VariantStates, Sound
  <2> HIDE DEF t
  <2>2. ASSUME PathsAgree, NEW i \in Item PROVE SoundAt(t, i)
    <3>1. SoundAt(s, i) /\ i.path \in Path
      BY <2>2 DEF Sound, Path
    <3>2. CASE i.path = p
      <4>1. Host[i] = Host[o.item]
        BY <1>1, <2>2, <3>2 DEF PathsAgree
      <4>2. t.selected[i.path] = o.hash
        BY <1>1, <2>1, <3>2 DEF Sound, VariantStates
      <4> QED BY <1>2, <1>3, <2>1, <2>2, <3>1, <3>2, <4>1, <4>2 DEF SoundAt
    <3>3. CASE i.path # p
      <4>1. t.selected[i.path] = s.selected[i.path]
        BY <1>1, <2>1, <3>1, <3>3 DEF Sound, VariantStates
      <4> QED BY <2>1, <3>1, <4>1 DEF SoundAt
    <3> QED BY <3>2, <3>3
  <2> QED BY <2>1, <2>2 DEF Sound, t
<1>4. CASE o.hash \notin Host[o.item] \cup s.user[p]
  <2>1. /\ t \in VariantStates
        /\ t.user = [s.user EXCEPT ![p] = s.user[p] \cup {o.hash}]
        /\ t.discarded = [s.discarded EXCEPT ![p] = s.discarded[p] \ {o.hash}]
        /\ t.selected = [s.selected EXCEPT ![p] = o.hash]
    BY <1>1, <1>4 DEF ApplyEdit, VariantStates, Sound
  <2> HIDE DEF t
  <2>2. ASSUME PathsAgree, NEW i \in Item PROVE SoundAt(t, i)
    <3>1. SoundAt(s, i) /\ i.path \in Path
      BY <2>2 DEF Sound, Path
    <3>2. CASE i.path = p
      <4>1. Host[i] = Host[o.item] /\ i.kind \in Editable
        BY <1>1, <2>2, <3>2 DEF PathsAgree
      <4>2. /\ t.selected[p] = o.hash
            /\ t.user[p] = s.user[p] \cup {o.hash}
            /\ t.discarded[p] = s.discarded[p] \ {o.hash}
        BY <1>1, <2>1, <3>2 DEF Sound, VariantStates
      <4> QED BY <1>2, <1>4, <2>2, <3>1, <3>2, <4>1, <4>2 DEF SoundAt
    <3>3. CASE i.path # p
      <4>1. /\ t.selected[i.path] = s.selected[i.path] /\ t.user[i.path] = s.user[i.path]
            /\ t.discarded[i.path] = s.discarded[i.path]
        BY <1>1, <2>1, <3>1, <3>3 DEF Sound, VariantStates
      <4> QED BY <3>1, <4>1 DEF SoundAt
    <3> QED BY <3>2, <3>3
  <2>3. ASSUME NEW q \in Path PROVE IsFiniteSet(t.user[q])
    <3>1. t.user[q] = s.user[q] \/ t.user[q] = s.user[q] \cup {o.hash}
      BY <1>1, <2>1 DEF Sound, VariantStates
    <3>2. IsFiniteSet(s.user[q])
      BY DEF Sound
    <3>3. IsFiniteSet(s.user[q] \cup {o.hash})
      BY <3>2, FS_AddElement, Zenon
    <3> QED BY <3>1, <3>2, <3>3, Zenon
  <2> QED BY <2>1, <2>2, <2>3 DEF Sound, t
<1> QED BY <1>3, <1>4

\* Only a user variant is discarded, and a selection of it is cleared.
LEMMA DiscardKeeps ==
    ASSUME NEW s, Sound(s), NEW o \in Op, o.op = "Discard", ValidateDiscard(s, o)
    PROVE  Sound(ApplyDiscard(s, o))
<1> DEFINE t == ApplyDiscard(s, o)
           p == o.item.path
           sel == IF s.selected[p] = o.hash THEN NoHash ELSE s.selected[p]
<1>1. o.item \in Item /\ p \in Path /\ o.hash \in Hash
  BY OpTyped
<1>2. (PathsAgree => SoundAt(s, o.item)) /\ o.hash \in s.user[p]
  BY <1>1 DEF Sound, ValidateDiscard
<1>3. sel \in Hash \cup {NoHash}
  BY <1>1 DEF Sound, VariantStates
<1>4. /\ t \in VariantStates
      /\ t.user = [s.user EXCEPT ![p] = s.user[p] \ {o.hash}]
      /\ t.discarded = [s.discarded EXCEPT ![p] = s.discarded[p] \cup {o.hash}]
      /\ t.selected = [s.selected EXCEPT ![p] = sel]
  BY <1>1, <1>3 DEF ApplyDiscard, VariantStates, Sound
<1> HIDE DEF t
<1>5. ASSUME PathsAgree, NEW i \in Item PROVE SoundAt(t, i)
  <2>1. SoundAt(s, i) /\ i.path \in Path
    BY <1>5 DEF Sound, Path
  <2>2. CASE i.path = p
    <3>1. Host[i] = Host[o.item]
      BY <1>1, <1>5, <2>2 DEF PathsAgree
    <3>2. /\ t.selected[p] = sel
          /\ t.user[p] = s.user[p] \ {o.hash}
          /\ t.discarded[p] = s.discarded[p] \cup {o.hash}
      BY <1>1, <1>4 DEF Sound, VariantStates
    <3> QED BY <1>2, <1>5, <2>1, <2>2, <3>1, <3>2 DEF SoundAt
  <2>3. CASE i.path # p
    <3>1. /\ t.selected[i.path] = s.selected[i.path] /\ t.user[i.path] = s.user[i.path]
          /\ t.discarded[i.path] = s.discarded[i.path]
      BY <1>1, <1>4, <2>1, <2>3 DEF Sound, VariantStates
    <3> QED BY <2>1, <3>1 DEF SoundAt
  <2> QED BY <2>2, <2>3
<1>6. ASSUME NEW q \in Path PROVE IsFiniteSet(t.user[q])
  <2>1. t.user[q] = s.user[q] \/ t.user[q] = s.user[q] \ {o.hash}
    BY <1>1, <1>4 DEF Sound, VariantStates
  <2> QED BY <2>1, FS_RemoveElement DEF Sound
<1> QED BY <1>4, <1>5, <1>6 DEF Sound, t

\* Including an entry does not touch the variants of any path.
LEMMA IncludeKeeps ==
    ASSUME NEW s, Sound(s), NEW o \in Op
    PROVE  Sound(SetInclude(s, o))
<1> DEFINE t == SetInclude(s, o)
           inc == (o.op = "Include") /\ ~Shadowed(o.item)
<1>1. inc \in BOOLEAN
  OBVIOUS
<1>2. t = [s EXCEPT !.included[o.item] = inc]
  BY Zenon DEF SetInclude
<1> HIDE DEF inc, t
<1>3. o.item \in Item
  BY OpTyped
<1>4. /\ t \in VariantStates /\ t.user = s.user /\ t.discarded = s.discarded
      /\ t.selected = s.selected
  BY <1>1, <1>2, <1>3 DEF VariantStates, Sound
<1>5. PathsAgree => \A i \in Item : SoundAt(t, i)
  BY <1>4 DEF Sound, SoundAt
<1> USE DEF t
<1> QED BY <1>4, <1>5 DEF Sound

\* Which clause of the replay an operation is given to.
LEMMA ApplyOpCases ==
    ASSUME NEW s, NEW o
    PROVE  /\ o.op = "Select" => ApplyOp(s, o) = ApplySelect(s, o)
           /\ o.op = "Edit" => ApplyOp(s, o) = ApplyEdit(s, o)
           /\ o.op = "Discard" => ApplyOp(s, o) = ApplyDiscard(s, o)
           /\ o.op \notin {"Select", "Edit", "Discard"} => ApplyOp(s, o) = SetInclude(s, o)
<1>1. "Select" # "Edit" /\ "Select" # "Discard" /\ "Edit" # "Discard"
  OBVIOUS
<1> QED BY <1>1, Zenon DEF ApplyOp

\* Which check an operation has to pass.
LEMMA ValidateCases ==
    ASSUME NEW s, NEW o, ValidateTarget(s, o)
    PROVE  /\ o.op = "Select" => ValidateSelect(s, o)
           /\ o.op = "Edit" => o.item.kind \in Editable
           /\ o.op = "Discard" => ValidateDiscard(s, o)
<1>1. "Select" # "Edit" /\ "Select" # "Discard" /\ "Edit" # "Discard"
  OBVIOUS
<1> QED BY <1>1, Zenon DEF ValidateTarget, ValidateEdit

\* An accepted operation takes a sound state to a sound state.
LEMMA ApplyKeepsSound ==
    ASSUME NEW s, Sound(s), NEW o \in Op, ValidateTarget(s, o)
    PROVE  Sound(ApplyOp(s, o))
<1>1. CASE o.op = "Select"
  BY <1>1, ApplyOpCases, ValidateCases, SelectKeeps
<1>2. CASE o.op = "Edit"
  BY <1>2, ApplyOpCases, ValidateCases, EditKeeps
<1>3. CASE o.op = "Discard"
  BY <1>3, ApplyOpCases, ValidateCases, DiscardKeeps
<1>4. CASE o.op \notin {"Select", "Edit", "Discard"}
  BY <1>4, ApplyOpCases, IncludeKeeps
<1> QED BY <1>1, <1>2, <1>3, <1>4

-----------------------------------------------------------------------------
(* The invariant.                                                          *)

\* Before any operation the variants are those of the merge.
LEMMA StartSound == NoVariantState \in VariantStates /\ Sound(NoVariantState)
<1> DEFINE inc == [i \in Item |-> i \in Universal /\ ~Shadowed(i)]
<1>1. inc \in [Item -> BOOLEAN]
  BY Zenon
<1>2. /\ NoVariantState.included = inc /\ NoVariantState.user = [p \in Path |-> {}]
      /\ NoVariantState.discarded = [p \in Path |-> {}]
      /\ NoVariantState.selected = [p \in Path |-> NoHash]
      /\ NoVariantState = [user |-> [p \in Path |-> {}], discarded |-> [p \in Path |-> {}],
                           selected |-> [p \in Path |-> NoHash], included |-> inc]
  BY DEF NoVariantState
<1> HIDE DEF inc
<1>3. NoVariantState \in VariantStates
  BY <1>1, <1>2 DEF VariantStates
<1>4. ASSUME NEW i \in Item PROVE SoundAt(NoVariantState, i)
  <2>1. i.path \in Path
    BY DEF Path
  <2> QED BY <1>2, <2>1 DEF SoundAt
<1>5. \A p \in Path : IsFiniteSet(NoVariantState.user[p])
  BY <1>2, FS_EmptySet
<1> QED BY <1>3, <1>4, <1>5 DEF Sound

\* The empty timeline has one state.
LEMMA EmptyTimelineSound ==
    /\ \E h : Trace(<<>>, h) /\ \A k \in 0 .. Len(<<>>) : Sound(h[k])
    /\ \A k \in 1 .. Len(<<>>) : <<>>[k].op = "Edit" => <<>>[k].item.kind \in Editable
<1> DEFINE h == [k \in 0 .. 0 |-> NoVariantState]
<1>1. Len(<<>>) = 0
  OBVIOUS
<1>2. h[0] = NoVariantState /\ h \in [0 .. 0 -> VariantStates]
  BY StartSound
<1>3. Trace(<<>>, h)
  BY <1>1, <1>2 DEF Trace
<1>4. \A k \in 0 .. 0 : Sound(h[k])
  BY <1>2, StartSound
<1> HIDE DEF h
<1> QED BY <1>1, <1>3, <1>4

\* Recording an operation cuts the redo tail off and adds one sound state.
LEMMA ApplyKeeps ==
    ASSUME IInv, NEW o \in Op, Apply(o)
    PROVE  IInv'
<1>0. /\ timeline \in Seq(Op) /\ cursor \in Nat /\ Len(timeline) \in Nat /\ cursor <= Len(timeline)
      /\ ValidateTarget(BuildVariantState, o)
  BY DEF IInv, TypeOK, Apply
<1> DEFINE tl == Append(SubSeq(timeline, 1, cursor), o)
<1>1. timeline' = tl /\ cursor' = cursor + 1
  BY DEF Apply
<1>2. /\ tl \in Seq(Op) /\ Len(tl) = cursor + 1 /\ tl[cursor + 1] = o
      /\ \A k \in 1 .. cursor : tl[k] = timeline[k]
  BY <1>0
<1> HIDE DEF tl
<1>3. TypeOK'
  BY <1>0, <1>1, <1>2 DEF TypeOK
<1>4. PICK h : Trace(timeline, h) /\ \A k \in 0 .. Len(timeline) : Sound(h[k])
  BY DEF IInv, TimelineSound
<1>5. BuildVariantState = h[cursor]
  BY <1>4, ReplayIsTrace DEF IInv
<1> DEFINE next == ApplyOp(h[cursor], o)
           g == [k \in 0 .. cursor + 1 |-> IF k <= cursor THEN h[k] ELSE next]
<1>6. Sound(next)
  <2>1. Sound(h[cursor])
    BY <1>0, <1>4
  <2> QED BY <1>0, <1>5, <2>1, ApplyKeepsSound
<1>7. next \in VariantStates
  BY <1>6 DEF Sound
<1>8. /\ \A k \in 0 .. cursor : g[k] = h[k]
      /\ g[cursor + 1] = next
      /\ g \in [0 .. cursor + 1 -> VariantStates]
  <2> HIDE DEF next
  <2>1. \A k \in 0 .. cursor : h[k] \in VariantStates
    BY <1>0, <1>4 DEF Trace
  <2> QED BY <1>0, <1>7, <2>1
<1> HIDE DEF g
<1>9. Trace(tl, g)
  <2>1. g[0] = NoVariantState
    BY <1>0, <1>4, <1>8 DEF Trace
  <2>2. ASSUME NEW k \in 0 .. cursor PROVE g[k + 1] = ApplyOp(g[k], tl[k + 1])
    <3>1. CASE k = cursor
      BY <1>0, <1>2, <1>8, <3>1
    <3>2. CASE k # cursor
      <4>1. k + 1 \in 0 .. cursor /\ k + 1 \in 1 .. cursor /\ k \in 0 .. Len(timeline) - 1
        BY <1>0, <3>2
      <4>2. h[k + 1] = ApplyOp(h[k], timeline[k + 1])
        BY <1>4, <4>1 DEF Trace
      <4> QED BY <1>2, <1>8, <4>1, <4>2
    <3> QED BY <3>1, <3>2
  <2> QED BY <1>0, <1>2, <1>8, <2>1, <2>2 DEF Trace
<1>10. ASSUME NEW k \in 0 .. Len(tl) PROVE Sound(g[k])
  <2>1. CASE k = cursor + 1
    BY <1>6, <1>8, <2>1
  <2>2. CASE k # cursor + 1
    <3>1. k \in 0 .. cursor /\ k \in 0 .. Len(timeline)
      BY <1>0, <1>2, <2>2
    <3> QED BY <1>4, <1>8, <3>1
  <2> QED BY <2>1, <2>2
<1>11. ASSUME NEW k \in 1 .. Len(tl), tl[k].op = "Edit" PROVE tl[k].item.kind \in Editable
  <2>1. CASE k = cursor + 1
    BY <1>0, <1>2, <1>11, <2>1, ValidateCases
  <2>2. CASE k # cursor + 1
    <3>1. k \in 1 .. cursor /\ k \in 1 .. Len(timeline)
      BY <1>0, <1>2, <2>2
    <3> QED BY <1>2, <1>11, <3>1 DEF IInv, TimelineSound
  <2> QED BY <2>1, <2>2
<1> QED BY <1>1, <1>3, <1>9, <1>10, <1>11 DEF IInv, TimelineSound

\* Every prefix of the timeline, the part to redo included, replays to a sound
\* state, whose variants are apart if the sections of a path agree.
THEOREM Invariance == Spec => []IInv
<1>1. Init => IInv
  <2> SUFFICES ASSUME Init PROVE IInv
    OBVIOUS
  <2>1. timeline = <<>> /\ cursor = 0
    BY DEF Init
  <2>2. TypeOK
    BY <2>1 DEF TypeOK
  <2>3. TimelineSound
    BY <2>1, EmptyTimelineSound DEF TimelineSound
  <2> QED BY <2>2, <2>3 DEF IInv
<1>2. IInv /\ [Next]_vars => IInv'
  <2> SUFFICES ASSUME IInv, [Next]_vars PROVE IInv'
    OBVIOUS
  <2>1. CASE \E o \in Op : Apply(o)
    BY <2>1, ApplyKeeps
  <2>2. CASE Undo \/ Redo
    <3>1. timeline' = timeline /\ TypeOK'
      BY <2>2 DEF IInv, TypeOK, Undo, Redo
    <3> QED BY <3>1 DEF IInv, TimelineSound
  <2>3. CASE Reset
    <3>1. timeline' = <<>> /\ cursor' = 0
      BY <2>3 DEF Reset
    <3>2. TypeOK'
      BY <3>1 DEF TypeOK
    <3>3. TimelineSound'
      BY <3>1, EmptyTimelineSound DEF TimelineSound
    <3> QED BY <3>2, <3>3 DEF IInv
  <2>4. CASE UNCHANGED vars
    BY <2>4 DEF IInv, TypeOK, TimelineSound, vars
  <2> QED BY <2>1, <2>2, <2>3, <2>4 DEF Next
<1> QED BY <1>1, <1>2, PTL DEF Spec

\* The state shown is sound, and so is what the last operation made of it.
LEMMA ShownStateSound ==
    ASSUME IInv
    PROVE  Sound(BuildVariantState)
<1>1. PICK h : Trace(timeline, h) /\ \A k \in 0 .. Len(timeline) : Sound(h[k])
  BY DEF IInv, TimelineSound
<1>2. BuildVariantState = h[cursor]
  BY <1>1, ReplayIsTrace DEF IInv
<1> QED BY <1>1, <1>2 DEF IInv, TypeOK

-----------------------------------------------------------------------------
(* What is shown, chosen and counted.                                      *)

\* The entries of an item are finite and, if only user variants were
\* discarded, keep everything the hosts have.
LEMMA RowsKeepHosts ==
    ASSUME NEW s, Sound(s), NEW i \in Item
    PROVE  /\ IsFiniteSet(Rows(s, i)) /\ IsFiniteSet(Host[i])
           /\ PathsAgree => Host[i] \subseteq Rows(s, i)
<1>1. IsFiniteSet(Host[i]) /\ i.path \in Path /\ IsFiniteSet(s.user[i.path])
  BY ItemAssumption DEF Sound, Path
<1>2. IsFiniteSet(Host[i] \cup s.user[i.path])
  BY <1>1, FS_Union
<1>3. IsFiniteSet((Host[i] \cup s.user[i.path]) \ s.discarded[i.path])
  BY <1>2, FS_Difference
<1>4. IsFiniteSet(Rows(s, i))
  BY <1>1, <1>3 DEF Rows
<1>5. ASSUME PathsAgree PROVE Host[i] \subseteq Rows(s, i)
  <2>1. SoundAt(s, i)
    BY <1>5 DEF Sound
  <2> QED BY <2>1 DEF Rows, SoundAt
<1> QED BY <1>1, <1>4, <1>5

\* A selection decides: it alone is the chosen entry.
LEMMA SelectionIsChosen ==
    ASSUME PathsAgree, NEW s, Sound(s), NEW i \in Item, i.kind \in Flagged,
           s.selected[i.path] # NoHash
    PROVE  Chosen(s, i) = {s.selected[i.path]}
<1> DEFINE p == i.path
           x == s.selected[p]
<1>1. SoundAt(s, i) /\ IsFiniteSet(Rows(s, i))
  BY RowsKeepHosts DEF Sound
<1>2. x \in Rows(s, i)
  BY <1>1 DEF SoundAt, Rows
<1>3. Affected(s, p)
  BY DEF Affected
<1>4. ASSUME NEW h \in Rows(s, i) PROVE Flag(s, i, h) \in {"Selected", "Only"} <=> h = x
  <2>1. CASE Cardinality(Rows(s, i)) = 1
    <3>1. PICK y : Rows(s, i) = {y}
      BY <1>1, <2>1, FS_Singleton
    <3>2. h = x
      BY <1>2, <3>1
    <3> QED BY <1>3, <2>1, <3>2 DEF Flag
  <2>2. CASE Cardinality(Rows(s, i)) # 1
    BY <2>2 DEF Flag
  <2> QED BY <2>1, <2>2
<1> QED BY <1>2, <1>4 DEF Chosen

\* Without a selection the merge's pick is in force.
LEMMA FallbackIsChosen ==
    ASSUME PathsAgree, NEW s, Sound(s), NEW i \in Item, i.kind \in Flagged,
           s.selected[i.path] = NoHash
    PROVE  \E x : Chosen(s, i) = {x}
<1>1. /\ IsFiniteSet(Rows(s, i)) /\ IsFiniteSet(Host[i]) /\ Host[i] \subseteq Rows(s, i)
      /\ HostPick[i] \in Host[i]
  BY RowsKeepHosts, ItemAssumption
<1>2. CASE Affected(s, i.path) /\ Cardinality(Rows(s, i)) = 1
  <2>1. PICK y : Rows(s, i) = {y}
    BY <1>1, <1>2, FS_Singleton
  <2>2. Chosen(s, i) = {y}
    BY <1>2, <2>1 DEF Chosen, Flag
  <2> QED BY <2>2
<1>3. CASE ~(Affected(s, i.path) /\ Cardinality(Rows(s, i)) = 1)
  <2>1. \A h \in Rows(s, i) : Flag(s, i, h) = IF h \in Host[i] THEN HostFlag(i, h) ELSE "Alternative"
    BY <1>3 DEF Flag
  <2>2. Chosen(s, i) = {h \in Host[i] : HostFlag(i, h) \in {"Selected", "Only"}}
    BY <1>1, <2>1 DEF Chosen
  <2>3. CASE Cardinality(Host[i]) = 1
    <3>1. PICK y : Host[i] = {y}
      BY <1>1, <2>3, FS_Singleton
    <3>2. Chosen(s, i) = {y}
      BY <2>2, <2>3, <3>1 DEF HostFlag
    <3> QED BY <3>2
  <2>4. CASE Cardinality(Host[i]) # 1
    <3>1. Chosen(s, i) = {HostPick[i]}
      BY <1>1, <2>2, <2>4 DEF HostFlag
    <3> QED BY <3>1
  <2> QED BY <2>3, <2>4
<1> QED BY <1>2, <1>3

\* After any sequence of selections, edits, discards, undos and redos exactly
\* one entry of each item with a selection flag is the one to ship.
THEOREM OneInForce == ASSUME PathsAgree PROVE Spec => []OneChosen
<1>1. IInv => OneChosen
  <2> SUFFICES ASSUME IInv, NEW i \in Item, i.kind \in Flagged
               PROVE  Cardinality(Chosen(BuildVariantState, i)) = 1
    BY DEF OneChosen
  <2>1. \E x : Chosen(BuildVariantState, i) = {x}
    BY ShownStateSound, SelectionIsChosen, FallbackIsChosen
  <2> QED BY <2>1, FS_Singleton
<1> QED BY <1>1, Invariance, PTL

\* An edit that was just accepted or redone is an entry of its item and the
\* chosen one, also when the same content was discarded before.
THEOREM EditsTakeEffect == ASSUME PathsAgree PROVE Spec => []EditTakesEffect
<1>1. IInv => EditTakesEffect
  <2> SUFFICES ASSUME IInv, cursor > 0, timeline[cursor].op = "Edit"
               PROVE  Chosen(BuildVariantState, timeline[cursor].item) = {timeline[cursor].hash}
    BY DEF EditTakesEffect
  <2> DEFINE o == timeline[cursor]
             s == BuildVariantState
             p == o.item.path
  <2>1. cursor \in 1 .. Len(timeline) /\ cursor - 1 \in 0 .. Len(timeline) - 1
        /\ (cursor - 1) + 1 = cursor /\ o \in Op
    BY DEF IInv, TypeOK
  <2>2. o.item.kind \in Flagged /\ o.item \in Item /\ p \in Path /\ o.hash \in Hash
    <3>1. o.item.kind \in Editable
      BY <2>1 DEF IInv, TimelineSound
    <3>2. o.item \in Item /\ p \in Path /\ o.hash \in Hash
      BY <2>1, OpTyped
    <3> QED BY <3>1, <3>2 DEF Editable, Flagged, Kinds
  <2>3. PICK h : Trace(timeline, h) /\ \A k \in 0 .. Len(timeline) : Sound(h[k])
    BY DEF IInv, TimelineSound
  <2>4. s = h[cursor] /\ Sound(s)
    BY <2>3, ReplayIsTrace, ShownStateSound DEF IInv
  <2>5. h[cursor] = ApplyOp(h[cursor - 1], o) /\ h[cursor - 1] \in VariantStates
    BY <2>1, <2>3 DEF Trace
  <2>6. s = ApplyEdit(h[cursor - 1], o)
    BY <2>4, <2>5, ApplyOpCases
  <2>7. s.selected[p] = o.hash
    <3> DEFINE r == h[cursor - 1]
    <3> HIDE DEF r, s, o
    <3>1. r \in VariantStates
      BY <2>5 DEF r
    <3>2. s = ApplyEdit(r, o)
      BY <2>6 DEF r
    <3> QED BY <2>2, <3>1, <3>2 DEF ApplyEdit, VariantStates
  <2>8. o.hash # NoHash
    BY <2>2, ItemAssumption
  <2> HIDE DEF s, o
  <2>9. Chosen(s, o.item) = {s.selected[p]}
    BY <2>2, <2>4, <2>7, <2>8, SelectionIsChosen
  <2> QED BY <2>7, <2>9 DEF s, o
<1> QED BY <1>1, Invariance, PTL

\* Every option a decision section offers is accepted when it is selected, and
\* two options of a config path can be compared.
THEOREM OptionsUsable == ASSUME PathsAgree PROVE Spec => []ShownIsUsable
<1>1. IInv => ShownIsUsable
  <2> SUFFICES ASSUME IInv, NEW i \in Item, NEW v \in BuildVariants(BuildVariantState, i)
               PROVE  /\ ValidateSelect(BuildVariantState,
                                        [op |-> "Select", item |-> i, hash |-> v.hash])
                      /\ i.kind = "Config" =>
                           \A w \in BuildVariants(BuildVariantState, i) :
                               CanDiff(BuildVariantState, i, v.hash, w.hash)
    BY Zenon DEF ShownIsUsable
  <2> DEFINE s == BuildVariantState
  <2>1. SoundAt(s, i)
    BY ShownStateSound DEF Sound
  <2> HIDE DEF s
  <2>2. \A w \in BuildVariants(s, i) : w.hash \in Rows(s, i)
    BY DEF BuildVariants
  <2>3. v.hash \in (Host[i] \cup s.user[i.path]) \ s.discarded[i.path]
    <3>1. v.hash \in Rows(s, i)
      BY <2>2 DEF s
    <3> QED BY <2>1, <3>1 DEF Rows, SoundAt
  <2>4. ValidateSelect(s, [op |-> "Select", item |-> i, hash |-> v.hash])
    BY <2>3 DEF ValidateSelect
  <2>5. i.kind = "Config" => \A w \in BuildVariants(s, i) : CanDiff(s, i, v.hash, w.hash)
    BY <2>2 DEF CanDiff, s
  <2> QED BY <2>4, <2>5 DEF s
<1> QED BY <1>1, Invariance, PTL

\* The changes summary is empty exactly when the entries and flags it looks at
\* are those of the scan, whether or not the sections of a path agree.
THEOREM SummaryHonest == Spec => []ChangesHonest
<1>1. IInv => ChangesHonest
  <2> SUFFICES ASSUME IInv PROVE ChangesHonest
    OBVIOUS
  <2> DEFINE s == BuildVariantState
             Counted == Editable \cup {"Compose"}
             Same(i) == Rows(s, i) = Host[i] /\ \A h \in Host[i] : Flag(s, i, h) = HostFlag(i, h)
  <2>1. Sound(s)
    BY ShownStateSound
  <2>2. ChangesHonest <=> (VariantsChanged(s) = {} <=> \A i \in Item : i.kind \in Counted => Same(i))
    BY Zenon DEF ChangesHonest
  <2> HIDE DEF s
  <2>3. ASSUME VariantsChanged(s) = {}, NEW i \in Item, i.kind \in Counted
        PROVE  Same(i)
    <3>0. Host[i] \subseteq Hash /\ Host[i] # {} /\ IsFiniteSet(Rows(s, i))
      BY <2>1, ItemAssumption, RowsKeepHosts
    <3>1. Rows(s, i) \subseteq Hash
      <4>1. i.path \in Path
        BY DEF Path
      <4> QED BY <2>1, <3>0, <4>1 DEF Rows, Sound, VariantStates
    <3>2. ASSUME NEW h \in Hash
          PROVE  /\ h \in Host[i] => h \in Rows(s, i) /\ Flag(s, i, h) = HostFlag(i, h)
                 /\ i.kind \in Editable /\ h \in Rows(s, i) \ Host[i] => Flag(s, i, h) = "Only"
      <4> DEFINE r == [item |-> i, hash |-> h]
      <4>1. r \in [item : Item, hash : Hash] /\ r.item = i /\ r.hash = h
        OBVIOUS
      <4> HIDE DEF r
      <4> QED BY <2>3, <4>1 DEF VariantsChanged
    <3>3. ASSUME NEW h \in Rows(s, i) \ Host[i] PROVE FALSE
      <4>1. i.kind \in Editable
        BY <3>3 DEF Rows
      <4>2. Flag(s, i, h) = "Only"
        BY <3>1, <3>2, <4>1
      <4>3. Cardinality(Rows(s, i)) = 1
        BY <4>2 DEF Flag
      <4>4. PICK y : Rows(s, i) = {y}
        BY <3>0, <4>3, FS_Singleton
      <4>5. PICK x : x \in Host[i]
        BY <3>0
      <4>6. x \in Rows(s, i)
        BY <3>0, <3>2, <4>5
      <4> QED BY <4>4, <4>5, <4>6
    <3> QED BY <3>0, <3>2, <3>3
  <2>4. ASSUME \A i \in Item : i.kind \in Counted => Same(i), NEW r \in VariantsChanged(s)
        PROVE  FALSE
    <3>1. r.item \in Item /\ r.hash \in Hash /\ r.item.kind \in Counted
      BY DEF VariantsChanged
    <3>2. Same(r.item)
      BY <2>4, <3>1
    <3> QED BY <3>2 DEF VariantsChanged
  <2> QED BY <2>2, <2>3, <2>4
<1> QED BY <1>1, Invariance, PTL
=============================================================================
