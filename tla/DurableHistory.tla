--------------------------- MODULE DurableHistory ---------------------------
(***************************************************************************)
(* What a refine session promises about its history, without timelines,    *)
(* cursors, hashes or files: the operator's decisions form a linear undo   *)
(* history of entries that count and entries that were undone, a new       *)
(* entry discards the undone ones, and a copy on disk is always a whole    *)
(* history the session really had.  A new process either continues that    *)
(* copy or starts empty.                                                   *)
(***************************************************************************)
EXTENDS Sequences, Integers

CONSTANT Entry        \* what the operator can record

VARIABLES running,    \* a process serves the session
          past,       \* the entries that count
          future,     \* the undone entries, the next to redo first
          stored      \* the copy on disk, or NoCopy

vars == <<running, past, future, stored>>

NoCopy == <<>>
Copy(p, f) == <<p, f>>

\* The copy follows the change at once, or the save failed and it stays.
Persist == stored' \in {stored, Copy(past', future')}

Record(e) ==
    /\ past' = Append(past, e)
    /\ future' = <<>>

Undo ==
    /\ past # <<>>
    /\ past' = SubSeq(past, 1, Len(past) - 1)
    /\ future' = <<past[Len(past)]>> \o future

Redo ==
    /\ future # <<>>
    /\ past' = Append(past, future[1])
    /\ future' = Tail(future)

Reset ==
    /\ past \o future # <<>>
    /\ past' = <<>>
    /\ future' = <<>>

Change ==
    /\ running
    /\ \/ \E e \in Entry : Record(e)
       \/ Undo
       \/ Redo
       \/ Reset
    /\ Persist
    /\ UNCHANGED running

\* Empty, with the old copy kept or removed.
OpenEmpty ==
    /\ ~running
    /\ running' = TRUE
    /\ past' = <<>> /\ future' = <<>>
    /\ stored' \in {stored, NoCopy}

\* Continues exactly the copy.
OpenCopy ==
    /\ ~running
    /\ stored # NoCopy
    /\ running' = TRUE
    /\ Copy(past', future') = stored
    /\ UNCHANGED stored

\* The process ends and takes what was not stored with it.
Stop ==
    /\ running
    /\ running' = FALSE
    /\ past' = <<>> /\ future' = <<>>
    /\ UNCHANGED stored

Init ==
    /\ running = FALSE
    /\ past = <<>> /\ future = <<>>
    /\ stored = NoCopy

Next == Change \/ OpenEmpty \/ OpenCopy \/ Stop

Spec == Init /\ [][Next]_vars

=============================================================================
