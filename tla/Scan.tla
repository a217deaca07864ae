-------------------------------- MODULE Scan --------------------------------
(***************************************************************************)
(* `inspectah scan` from the first inspector to the exit code: the two     *)
(* waves of inspector threads that collect() runs                          *)
(* (crates/pipeline/src/collect.rs), the SIGINT flag they share with the   *)
(* command, the progress ledger, and what the command does with the        *)
(* snapshot (crates/cli/src/commands/scan.rs).                             *)
(*                                                                         *)
(* What an inspector finds is left out; how its thread ends is kept, a     *)
(* panic included.  A signal may arrive between any two steps.             *)
(***************************************************************************)
EXTENDS Naturals, FiniteSets, Sequences

CONSTANTS
    Inspector,   \* the inspectors of the command line, in display order
    Rank,        \* [Inspector -> Nat]: position in the list
    Rpm,         \* the inspector the second wave depends on
    Wave1,       \* is_wave2 is false: Rpm and Subscription
    Applicable   \* inspectors applicable to the source system's kind

ASSUME ScanAssumption ==
    /\ IsFiniteSet(Inspector)
    /\ Rank \in [Inspector -> Nat]
    /\ \A i, j \in Inspector : Rank[i] = Rank[j] => i = j
    /\ Rpm \in Wave1 /\ Wave1 \subseteq Inspector
    /\ Applicable \subseteq Inspector

\* How inspect() can end: Ok, the three InspectorErrors, or a panic.
Ending == {"ok", "degraded", "skipped", "failed", "panicked"}

VARIABLES
    phase,     \* where collect() and then the command are
    cancelled, \* the AtomicBool the SIGINT handler sets
    thread,    \* "idle", "running", or how the inspector's thread ended
    declined,  \* wave-2 inspectors not spawned because of the flag
    context,   \* rpm_state handed to a wave-2 inspector: "none" or "some"
    joined,    \* inspectors handle_result has processed
    sections,  \* inspectors whose section is in the snapshot
    failed,    \* collect()'s failed list
    degraded,  \* collect()'s degraded list
    ledger,    \* finished events per inspector, in order
    report,    \* a tarball or JSON report was written
    exit       \* "running", a ScanOutcome, or "error"

outcomes == <<joined, sections, failed, degraded>>
vars == <<phase, cancelled, thread, declined, context, outcomes, ledger, report, exit>>

First == Wave1 \cap Applicable
Second == Applicable \ Wave1

\* progress.emit(InspectorFinished) for the inspectors of a set.
Emitted(ids, verdict) ==
    [i \in Inspector |-> IF i \in ids THEN Append(ledger[i], verdict) ELSE ledger[i]]

-----------------------------------------------------------------------------
\* The applicability gate, and every wave-1 thread spawned.
StartWave1 ==
    /\ phase = "gate"
    /\ phase' = "wave1"
    /\ ledger' = Emitted(Inspector \ Applicable, "skipped")
    /\ thread' = [i \in Inspector |-> IF i \in First THEN "running" ELSE thread[i]]
    /\ UNCHANGED <<cancelled, declined, context, outcomes, report, exit>>

\* An inspector's thread ends.
ThreadEnds(i) ==
    /\ thread[i] = "running"
    /\ \E e \in Ending : thread' = [thread EXCEPT ![i] = e]
    /\ UNCHANGED <<phase, cancelled, declined, context, outcomes, ledger, report, exit>>

\* The verdict handle_result reports for a thread that ended.
Verdict(ending) ==
    CASE ending = "ok" -> "complete"
      [] ending = "panicked" -> "failed"
      [] OTHER -> ending

\* The main thread joins the handles of a wave in list order.
IsNext(i, wave) ==
    /\ i \in wave \ joined
    /\ \A j \in wave \ joined : Rank[i] <= Rank[j]

\* Mutant: a panicked thread is joined and reported, and not listed as failed.
JoinForgetsPanic(i) ==
    /\ \/ phase = "wave1" /\ IsNext(i, First)
       \/ phase = "wave2" /\ IsNext(i, Second \ declined)
    /\ thread[i] \in Ending
    /\ joined' = joined \cup {i}
    /\ sections' = IF thread[i] \in {"ok", "degraded"} THEN sections \cup {i} ELSE sections
    /\ failed' = IF thread[i] = "failed" THEN failed \cup {i} ELSE failed
    /\ degraded' = IF thread[i] = "degraded" THEN degraded \cup {i} ELSE degraded
    /\ ledger' = Emitted({i}, Verdict(thread[i]))
    /\ UNCHANGED <<phase, cancelled, thread, declined, context, report, exit>>

\* handle_result
Join(i) ==
    /\ \/ phase = "wave1" /\ IsNext(i, First)
       \/ phase = "wave2" /\ IsNext(i, Second \ declined)
    /\ thread[i] \in Ending
    /\ joined' = joined \cup {i}
    /\ sections' = IF thread[i] \in {"ok", "degraded"} THEN sections \cup {i} ELSE sections
    /\ failed' = IF thread[i] \in {"failed", "panicked"} THEN failed \cup {i} ELSE failed
    /\ degraded' = IF thread[i] = "degraded" THEN degraded \cup {i} ELSE degraded
    /\ ledger' = Emitted({i}, Verdict(thread[i]))
    /\ UNCHANGED <<phase, cancelled, thread, declined, context, report, exit>>

\* Wave 1 is over: the flag decides whether wave 2 is entered at all.
EndWave1 ==
    /\ phase = "wave1" /\ First \subseteq joined
    /\ \/ Second # {} /\ ~cancelled /\ phase' = "spawning" /\ UNCHANGED declined
       \/ (Second = {} \/ cancelled) /\ phase' = "collected" /\ declined' = Second
    /\ UNCHANGED <<cancelled, thread, context, outcomes, ledger, report, exit>>

\* Mutant: rpm_state is handed over whenever the RPM inspector was joined.
SpawnWave2AnyRpm(i) ==
    /\ phase = "spawning"
    /\ i \in Second \ declined /\ thread[i] = "idle"
    /\ \A j \in Second \ declined : thread[j] = "idle" => Rank[i] <= Rank[j]
    /\ \/ /\ cancelled
          /\ declined' = declined \cup {i}
          /\ UNCHANGED <<thread, context>>
       \/ /\ ~cancelled
          /\ thread' = [thread EXCEPT ![i] = "running"]
          /\ context' = [context EXCEPT ![i] = IF Rpm \in joined THEN "some" ELSE "none"]
          /\ UNCHANGED declined
    /\ UNCHANGED <<phase, cancelled, outcomes, ledger, report, exit>>

\* One pass of the spawn loop: the flag is read again before every spawn.
SpawnWave2(i) ==
    /\ phase = "spawning"
    /\ i \in Second \ declined /\ thread[i] = "idle"
    /\ \A j \in Second \ declined : thread[j] = "idle" => Rank[i] <= Rank[j]
    /\ \/ /\ cancelled
          /\ declined' = declined \cup {i}
          /\ UNCHANGED <<thread, context>>
       \/ /\ ~cancelled
          /\ thread' = [thread EXCEPT ![i] = "running"]
          /\ context' = [context EXCEPT ![i] = IF Rpm \in sections THEN "some" ELSE "none"]
          /\ UNCHANGED declined
    /\ UNCHANGED <<phase, cancelled, outcomes, ledger, report, exit>>

EndSpawning ==
    /\ phase = "spawning"
    /\ \A i \in Second \ declined : thread[i] # "idle"
    /\ phase' = "wave2"
    /\ UNCHANGED <<cancelled, thread, declined, context, outcomes, ledger, report, exit>>

\* Mutant: the main thread waits for inspectors it never spawned.
EndWave2All ==
    /\ phase = "wave2" /\ Second \subseteq joined
    /\ phase' = "collected"
    /\ UNCHANGED <<cancelled, thread, declined, context, outcomes, ledger, report, exit>>

EndWave2 ==
    /\ phase = "wave2" /\ Second \ declined \subseteq joined
    /\ phase' = "collected"
    /\ UNCHANGED <<cancelled, thread, declined, context, outcomes, ledger, report, exit>>

-----------------------------------------------------------------------------
\* The command's only look at the flag: the ledger is completed with
\* Interrupted verdicts and nothing is written.
Interrupt ==
    /\ phase = "collected" /\ cancelled
    /\ phase' = "done"
    /\ ledger' = Emitted({i \in Inspector : ledger[i] = <<>>}, "interrupted")
    /\ exit' = "interrupted"
    /\ UNCHANGED <<cancelled, thread, declined, context, outcomes, report>>

\* Mutant: the flag is not looked at before rendering.
ProceedUnchecked ==
    /\ phase = "collected"
    /\ phase' = "writing"
    /\ UNCHANGED <<cancelled, thread, declined, context, outcomes, ledger, report, exit>>

\* No signal so far: validate, redact, render.
Proceed ==
    /\ phase = "collected" /\ ~cancelled
    /\ phase' = "writing"
    /\ UNCHANGED <<cancelled, thread, declined, context, outcomes, ledger, report, exit>>

\* The snapshot's completeness as ScanOutcome::from_completeness reads it.
Outcome ==
    CASE failed # {} -> "incomplete"
      [] failed = {} /\ degraded # {} -> "degraded"
      [] OTHER -> "clean"

\* The report is written, or writing it fails.
WriteReport ==
    /\ phase = "writing"
    /\ phase' = "done"
    /\ \/ report' = TRUE /\ exit' = Outcome
       \/ exit' = "error" /\ UNCHANGED report
    /\ UNCHANGED <<cancelled, thread, declined, context, outcomes, ledger>>

\* Ctrl-C: the handler sets the flag and returns.
Sigint ==
    /\ exit = "running" /\ ~cancelled
    /\ cancelled' = TRUE
    /\ UNCHANGED <<phase, thread, declined, context, outcomes, ledger, report, exit>>

Init ==
    /\ phase = "gate"
    /\ cancelled = FALSE
    /\ thread = [i \in Inspector |-> "idle"]
    /\ declined = {}
    /\ context = [i \in Inspector |-> "none"]
    /\ joined = {} /\ sections = {} /\ failed = {} /\ degraded = {}
    /\ ledger = [i \in Inspector |-> <<>>]
    /\ report = FALSE
    /\ exit = "running"

MainStep ==
    \/ StartWave1 \/ EndWave1 \/ EndSpawning \/ EndWave2
    \/ \E i \in Inspector : Join(i) \/ SpawnWave2(i)
    \/ Interrupt \/ Proceed \/ WriteReport

Next == MainStep \/ Sigint \/ \E i \in Inspector : ThreadEnds(i)

\* The main thread runs, and every inspector ends: the executor kills a
\* command that outlives its time limit.
Fairness == WF_vars(MainStep) /\ \A i \in Inspector : WF_vars(ThreadEnds(i))

Spec == Init /\ [][Next]_vars
FairSpec == Spec /\ Fairness

-----------------------------------------------------------------------------
(* Properties.                                                             *)

\* A report is never written from a collection the signal cut short: whenever
\* it arrived, between waves or between two spawns, every applicable inspector
\* ran and was joined.
ReportIsWhole == report => joined = Applicable

\* The exit code and the ledger tell the truth: 0 only if no inspector failed
\* or panicked, "clean" only if none was degraded either; every section of the
\* snapshot comes from an inspector that did return one; and when the command
\* ends each inspector has exactly one verdict, Interrupted for exactly those
\* whose thread was never started.
ExitIsHonest ==
    /\ exit \in {"clean", "degraded"} =>
         \A i \in Applicable : thread[i] \in {"ok", "skipped"} \cup
                                 (IF exit = "degraded" THEN {"degraded"} ELSE {})
    /\ exit = "incomplete" => \E i \in Applicable : thread[i] \in {"failed", "panicked"}
    /\ report => sections = {i \in Applicable : thread[i] \in {"ok", "degraded"}}
    /\ exit # "running" =>
         \A i \in Inspector :
           /\ Len(ledger[i]) = 1
           /\ ledger[i][1] = "interrupted" <=> i \in declined

\* No dependent inspector starts before the RPM inspector was joined, and it is
\* given rpm_state exactly when that inspector returned a section.
Wave2SeesRpm ==
    \A i \in Second :
      thread[i] # "idle" =>
        /\ First \subseteq joined
        /\ context[i] = "some" <=> Rpm \in Applicable /\ thread[Rpm] \in {"ok", "degraded"}

\* The scan ends, whatever panics, fails or is interrupted.
ScanEnds == <>(exit # "running")
=============================================================================
