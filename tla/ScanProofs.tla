------------------------------ MODULE ScanProofs ------------------------------
(***************************************************************************)
(* Theorems about Scan, for every list of inspectors, every split into     *)
(* waves and every set of applicable ones: what the exit code, the ledger  *)
(* and the report say, whenever a signal arrives and however each thread   *)
(* ends.                                                                   *)
(***************************************************************************)
EXTENDS Scan, TLAPS

-----------------------------------------------------------------------------
(* The inductive invariant                                                 *)

Phase == {"gate", "wave1", "spawning", "wave2", "collected", "writing", "done"}
Collected == {"collected", "writing", "done"}
Exit == {"running", "clean", "degraded", "incomplete", "interrupted", "error"}

TypeOK ==
    /\ phase \in Phase /\ exit \in Exit
    /\ cancelled \in BOOLEAN /\ report \in BOOLEAN
    /\ thread \in [Inspector -> {"idle", "running"} \cup Ending]
    /\ context \in [Inspector -> {"none", "some"}]
    /\ joined \subseteq Applicable /\ declined \subseteq Second

\* An inspector is joined after its thread ended and declined instead of being
\* started; collect()'s lists are what the joined threads returned.
ListsAreVerdicts ==
    /\ \A i \in joined : thread[i] \in Ending
    /\ \A i \in declined : thread[i] = "idle"
    /\ \A i \in Inspector \ Applicable : thread[i] = "idle"
    /\ sections = {i \in joined : thread[i] \in {"ok", "degraded"}}
    /\ failed = {i \in joined : thread[i] \in {"failed", "panicked"}}
    /\ degraded = {i \in joined : thread[i] = "degraded"}

\* How far the waves have come in each phase.
WavesInOrder ==
    /\ phase \in {"gate", "wave1"} =>
         /\ joined \subseteq First /\ declined = {}
         /\ \A i \in Second : thread[i] = "idle"
    /\ phase = "gate" => joined = {}
    /\ phase \notin {"gate", "wave1"} => First \subseteq joined
    /\ phase = "spawning" => joined = First
    /\ phase \in Collected => joined \cup declined = Applicable

\* Only the flag declines an inspector, and the command does not get past its
\* look at the flag with one declined.
DeclinedByFlag ==
    /\ declined # {} => cancelled
    /\ phase = "writing" => declined = {}
    /\ phase = "done" /\ exit # "interrupted" => declined = {}

\* The exit code is set by the last step, the report with it.
ExitAtTheEnd ==
    /\ exit = "running" <=> phase # "done"
    /\ report => exit = Outcome
    /\ exit \in {"clean", "degraded", "incomplete"} => report

\* What the ledger holds of each inspector.
LedgerFollows ==
    ledger = [i \in Inspector |->
      IF phase = "gate" THEN <<>>
      ELSE IF i \notin Applicable THEN <<"skipped">>
      ELSE IF i \in joined THEN <<Verdict(thread[i])>>
      ELSE IF exit = "interrupted" THEN <<"interrupted">> ELSE <<>>]

IInv ==
    /\ TypeOK
    /\ ListsAreVerdicts
    /\ WavesInOrder
    /\ DeclinedByFlag
    /\ ExitAtTheEnd
    /\ LedgerFollows
    /\ Wave2SeesRpm

-----------------------------------------------------------------------------
\* The waves partition the applicable inspectors.
LEMMA WavesPartition ==
    /\ First \cup Second = Applicable /\ First \cap Second = {}
    /\ Applicable \subseteq Inspector /\ Rpm \in Inspector /\ Rpm \notin Second
BY ScanAssumption DEF First, Second

\* Before the gate nothing has run and nothing is reported.
LEMMA IInvInit == Init => IInv
<1> SUFFICES ASSUME Init PROVE IInv
  OBVIOUS
<1>1. TypeOK /\ ListsAreVerdicts
  BY DEF Init, TypeOK, ListsAreVerdicts, Phase, Exit, Ending
<1>2. WavesInOrder /\ DeclinedByFlag /\ ExitAtTheEnd /\ Wave2SeesRpm
  BY WavesPartition DEF Init, WavesInOrder, DeclinedByFlag, ExitAtTheEnd, Wave2SeesRpm, Collected
<1>3. LedgerFollows
  BY DEF Init, LedgerFollows
<1> QED BY <1>1, <1>2, <1>3 DEF IInv

\* The applicability gate.
LEMMA StartWave1Keeps == IInv /\ StartWave1 => IInv'
<1> SUFFICES ASSUME IInv, StartWave1 PROVE IInv'
  OBVIOUS
<1> USE WavesPartition DEF IInv, StartWave1
<1>1. TypeOK'
  BY DEF TypeOK, Phase, outcomes
<1>2. ListsAreVerdicts'
  BY DEF ListsAreVerdicts, WavesInOrder, TypeOK, outcomes
<1>3. WavesInOrder'
  BY DEF WavesInOrder, TypeOK, outcomes, Collected
<1>4. DeclinedByFlag' /\ ExitAtTheEnd'
  BY DEF DeclinedByFlag, ExitAtTheEnd, WavesInOrder, Outcome, outcomes
<1>5. LedgerFollows'
  BY DEF LedgerFollows, Emitted, WavesInOrder, ExitAtTheEnd, outcomes
<1>6. Wave2SeesRpm'
  BY DEF Wave2SeesRpm, WavesInOrder, TypeOK, outcomes
<1> QED BY <1>1, <1>2, <1>3, <1>4, <1>5, <1>6

\* A thread that ends has been started and not joined.
LEMMA ThreadEndsKeeps ==
    ASSUME IInv, NEW i \in Inspector, ThreadEnds(i) PROVE IInv'
<1> USE WavesPartition DEF IInv, ThreadEnds
<1>1. PICK e \in Ending : thread' = [thread EXCEPT ![i] = e]
  OBVIOUS
<1>2. i \notin joined /\ i \notin declined /\ i \in Applicable
  BY DEF ListsAreVerdicts, Ending
<1>3. \A j \in Inspector : j # i => thread'[j] = thread[j]
  BY <1>1 DEF TypeOK
<1>4. TypeOK'
  BY <1>1 DEF TypeOK, outcomes
<1>5. ListsAreVerdicts'
  BY <1>2, <1>3 DEF ListsAreVerdicts, TypeOK, outcomes
<1>6. WavesInOrder' /\ DeclinedByFlag'
  <2>1. phase \in {"gate", "wave1"} => i \notin Second
    BY DEF WavesInOrder
  <2> QED BY <1>3, <2>1 DEF WavesInOrder, DeclinedByFlag, outcomes, Second
<1>7. ExitAtTheEnd'
  BY DEF ExitAtTheEnd, Outcome, outcomes
<1>8. LedgerFollows'
  BY <1>2, <1>3 DEF LedgerFollows, outcomes, TypeOK
<1>9. Wave2SeesRpm'
  <2>1. thread[i] # "idle" /\ (i = Rpm => ~(First \subseteq joined) )
    BY <1>2 DEF First, Second
  <2> QED BY <1>1, <1>3, <2>1 DEF Wave2SeesRpm, outcomes, TypeOK, Ending
<1> QED BY <1>4, <1>5, <1>6, <1>7, <1>8, <1>9

\* handle_result moves one ended thread into the lists and the ledger.
LEMMA JoinKeeps ==
    ASSUME IInv, NEW i \in Inspector, Join(i) PROVE IInv'
<1> USE WavesPartition DEF IInv, Join
<1>1. /\ thread[i] \in Ending /\ i \in Applicable /\ i \notin joined
      /\ phase = "wave1" => i \in First
      /\ phase \in {"wave1", "wave2"}
  BY DEF IsNext
<1>2. TypeOK'
  BY <1>1 DEF TypeOK
<1>3. ListsAreVerdicts'
  BY <1>1 DEF ListsAreVerdicts, Ending
<1>4. WavesInOrder' /\ DeclinedByFlag'
  BY <1>1 DEF WavesInOrder, DeclinedByFlag, Collected
<1>5. ExitAtTheEnd'
  BY <1>1 DEF ExitAtTheEnd, Exit, Outcome, TypeOK
<1>6. LedgerFollows'
  <2>1. ledger[i] = <<>>
    BY <1>1 DEF LedgerFollows, ExitAtTheEnd
  <2>2. Append(ledger[i], Verdict(thread[i])) = <<Verdict(thread[i])>>
    BY <2>1
  <2> QED BY <1>1, <2>2 DEF LedgerFollows, Emitted
<1>7. Wave2SeesRpm'
  BY DEF Wave2SeesRpm, First, Second
<1> QED BY <1>2, <1>3, <1>4, <1>5, <1>6, <1>7

\* The flag decides at the end of wave 1 whether wave 2 is entered.
LEMMA EndWave1Keeps == IInv /\ EndWave1 => IInv'
<1> SUFFICES ASSUME IInv, EndWave1 PROVE IInv'
  OBVIOUS
<1> USE WavesPartition DEF IInv, EndWave1
<1>1. TypeOK' /\ ListsAreVerdicts'
  BY DEF TypeOK, Phase, ListsAreVerdicts, WavesInOrder, outcomes
<1>2. WavesInOrder' /\ DeclinedByFlag'
  BY DEF WavesInOrder, DeclinedByFlag, Collected, outcomes, TypeOK
<1>3. ExitAtTheEnd' /\ LedgerFollows' /\ Wave2SeesRpm'
  BY DEF ExitAtTheEnd, Outcome, LedgerFollows, Wave2SeesRpm, outcomes
<1> QED BY <1>1, <1>2, <1>3

\* One pass of the spawn loop: a declined inspector stays unstarted, a started
\* one is given what the RPM inspector returned.
LEMMA SpawnWave2Keeps ==
    ASSUME IInv, NEW i \in Inspector, SpawnWave2(i) PROVE IInv'
<1> USE WavesPartition DEF IInv, SpawnWave2
<1>1. /\ phase = "spawning" /\ i \in Second /\ i \notin declined /\ thread[i] = "idle"
      /\ joined = First /\ i \notin joined
  BY DEF WavesInOrder
<1>2. TypeOK'
  BY <1>1 DEF TypeOK, outcomes
<1>3. ListsAreVerdicts'
  BY <1>1 DEF ListsAreVerdicts, TypeOK, outcomes
<1>4. WavesInOrder' /\ DeclinedByFlag'
  BY <1>1 DEF WavesInOrder, DeclinedByFlag, outcomes, Collected
<1>5. ExitAtTheEnd'
  BY DEF ExitAtTheEnd, Outcome, outcomes
<1>6. LedgerFollows'
  BY <1>1 DEF LedgerFollows, outcomes, TypeOK
<1>7. Wave2SeesRpm'
  <2>1. Rpm \in sections <=> Rpm \in Applicable /\ thread[Rpm] \in {"ok", "degraded"}
    BY <1>1, ScanAssumption DEF ListsAreVerdicts, First
  <2>2. \A j \in Inspector : j # i => thread'[j] = thread[j] /\ context'[j] = context[j]
    BY DEF TypeOK
  <2>3. thread'[i] # "idle" => (context'[i] = "some" <=> Rpm \in sections)
    BY <1>1 DEF TypeOK
  <2>4. thread'[Rpm] = thread[Rpm] /\ joined' = joined
    BY <1>1, <2>2 DEF outcomes
  <2> SUFFICES ASSUME NEW j \in Second, thread'[j] # "idle"
               PROVE  /\ First \subseteq joined
                      /\ context'[j] = "some" <=>
                           Rpm \in Applicable /\ thread[Rpm] \in {"ok", "degraded"}
    BY <2>4 DEF Wave2SeesRpm, First, Second
  <2>5. CASE j = i
    BY <1>1, <2>1, <2>3, <2>5
  <2>6. CASE j # i
    BY <2>2, <2>6 DEF Wave2SeesRpm
  <2> QED BY <2>5, <2>6
<1> QED BY <1>2, <1>3, <1>4, <1>5, <1>6, <1>7

\* The end of the spawn loop, the end of wave 2 and the look at the flag only
\* move the main thread on.
LEMMA PhaseStepKeeps == IInv /\ (EndSpawning \/ EndWave2 \/ Proceed) => IInv'
<1> SUFFICES ASSUME IInv, EndSpawning \/ EndWave2 \/ Proceed PROVE IInv'
  OBVIOUS
<1> USE WavesPartition DEF IInv, EndSpawning, EndWave2, Proceed
<1>1. UNCHANGED <<cancelled, thread, declined, context, outcomes, ledger, report, exit>>
  OBVIOUS
<1>2. TypeOK' /\ ListsAreVerdicts'
  BY <1>1 DEF TypeOK, Phase, ListsAreVerdicts, outcomes
<1>3. WavesInOrder' /\ DeclinedByFlag'
  BY <1>1 DEF WavesInOrder, DeclinedByFlag, Collected, outcomes, TypeOK
<1>4. ExitAtTheEnd' /\ LedgerFollows' /\ Wave2SeesRpm'
  BY <1>1 DEF ExitAtTheEnd, Outcome, LedgerFollows, Wave2SeesRpm, outcomes
<1> QED BY <1>2, <1>3, <1>4

\* An interrupted command completes the ledger and writes nothing.
LEMMA InterruptKeeps == IInv /\ Interrupt => IInv'
<1> SUFFICES ASSUME IInv, Interrupt PROVE IInv'
  OBVIOUS
<1> USE WavesPartition DEF IInv, Interrupt
<1>1. TypeOK' /\ ListsAreVerdicts'
  BY DEF TypeOK, Phase, Exit, ListsAreVerdicts, outcomes
<1>2. WavesInOrder' /\ DeclinedByFlag'
  BY DEF WavesInOrder, DeclinedByFlag, Collected, outcomes
<1>3. ExitAtTheEnd'
  <2>1. ~report
    BY DEF ExitAtTheEnd, Outcome
  <2> QED BY <2>1 DEF ExitAtTheEnd
<1>4. LedgerFollows'
  <2>1. Append(<<>>, "interrupted") = <<"interrupted">>
    OBVIOUS
  <2>2. exit = "running" /\ phase = "collected"
    BY DEF ExitAtTheEnd
  <2>3. \A i \in Inspector :
          ledger[i] = <<>> <=> i \in Applicable /\ i \notin joined
    BY <2>2 DEF LedgerFollows
  <2>4. \A i \in Inspector : ledger'[i] =
          IF i \notin Applicable THEN <<"skipped">>
          ELSE IF i \in joined THEN <<Verdict(thread[i])>> ELSE <<"interrupted">>
    BY <2>1, <2>2, <2>3 DEF LedgerFollows, Emitted
  <2>5. ledger' = [i \in Inspector |-> ledger'[i]]
    BY DEF Emitted
  <2> QED BY <2>4, <2>5 DEF LedgerFollows, outcomes
<1>5. Wave2SeesRpm'
  BY DEF Wave2SeesRpm, outcomes
<1> QED BY <1>1, <1>2, <1>3, <1>4, <1>5

\* What ScanOutcome::from_completeness can return.
LEMMA OutcomeCases ==
    /\ failed # {} => Outcome = "incomplete"
    /\ failed = {} /\ degraded # {} => Outcome = "degraded"
    /\ failed = {} /\ degraded = {} => Outcome = "clean"
BY Zenon DEF Outcome

\* The report is written, or the command fails.
LEMMA WriteReportKeeps == IInv /\ WriteReport => IInv'
<1> SUFFICES ASSUME IInv, WriteReport PROVE IInv'
  OBVIOUS
<1> USE WavesPartition DEF IInv, WriteReport
<1>0. Outcome' = Outcome
  BY DEF Outcome, outcomes
<1>1. Outcome \in {"clean", "degraded", "incomplete"}
  BY OutcomeCases
<1>2. TypeOK' /\ ListsAreVerdicts'
  BY <1>1 DEF TypeOK, Phase, Exit, ListsAreVerdicts, outcomes
<1>3. WavesInOrder' /\ DeclinedByFlag'
  BY DEF WavesInOrder, DeclinedByFlag, Collected, outcomes
<1>4. exit = "running" /\ ~report /\ exit' # "interrupted" /\ exit' # "running"
  BY <1>1 DEF ExitAtTheEnd
<1>5. ExitAtTheEnd'
  BY <1>0, <1>4 DEF ExitAtTheEnd
<1>6. LedgerFollows' /\ Wave2SeesRpm'
  BY <1>4 DEF LedgerFollows, Wave2SeesRpm, outcomes
<1> QED BY <1>2, <1>3, <1>5, <1>6

\* The signal handler only sets the flag.
LEMMA SigintKeeps == IInv /\ Sigint => IInv'
BY DEF IInv, Sigint, TypeOK, ListsAreVerdicts, WavesInOrder, DeclinedByFlag, ExitAtTheEnd,
       Outcome, LedgerFollows, Wave2SeesRpm, outcomes

\* Every step of the main thread, of an inspector and of the handler keeps IInv.
LEMMA IInvStep == IInv /\ [Next]_vars => IInv'
<1> SUFFICES ASSUME IInv, [Next]_vars PROVE IInv'
  OBVIOUS
<1>1. CASE MainStep
  BY <1>1, StartWave1Keeps, EndWave1Keeps, PhaseStepKeeps, JoinKeeps, SpawnWave2Keeps,
     InterruptKeeps, WriteReportKeeps DEF MainStep
<1>2. CASE \E i \in Inspector : ThreadEnds(i)
  BY <1>2, ThreadEndsKeeps
<1>3. CASE UNCHANGED vars
  BY <1>3 DEF vars, outcomes, IInv, TypeOK, ListsAreVerdicts, WavesInOrder, DeclinedByFlag,
     ExitAtTheEnd, Outcome, LedgerFollows, Wave2SeesRpm
<1> QED BY <1>1, <1>2, <1>3, SigintKeeps DEF Next

\* The inductive invariant of a scan.
THEOREM Invariance == Spec => []IInv
<1> QED BY IInvInit, IInvStep, PTL DEF Spec

-----------------------------------------------------------------------------
\* No report is ever written from a collection the signal cut short, whatever
\* the inspectors and wherever between two steps the signal arrives.
THEOREM ReportsAreWhole == Spec => []ReportIsWhole
<1>1. IInv => ReportIsWhole
  <2> SUFFICES ASSUME IInv, report PROVE joined = Applicable
    BY DEF ReportIsWhole
  <2>1. exit \in {"clean", "degraded", "incomplete"}
    BY OutcomeCases DEF IInv, ExitAtTheEnd
  <2>2. phase = "done" /\ declined = {}
    BY <2>1 DEF IInv, ExitAtTheEnd, DeclinedByFlag
  <2> QED BY <2>2 DEF IInv, WavesInOrder, Collected
<1> QED BY <1>1, Invariance, PTL

\* A dependent inspector starts after the RPM inspector was joined and is given
\* rpm_state exactly when that one returned a section.
THEOREM DependentsSeeRpm == Spec => []Wave2SeesRpm
<1> QED BY Invariance, PTL DEF IInv

\* No thread's end is reported as an interruption.
LEMMA VerdictIsNotInterrupted == \A e \in Ending : Verdict(e) # "interrupted"
<1> SUFFICES ASSUME NEW e \in Ending PROVE Verdict(e) # "interrupted"
  OBVIOUS
<1>1. e = "ok" => Verdict(e) = "complete"
  BY Zenon DEF Verdict
<1>2. e = "panicked" => Verdict(e) = "failed"
  BY Zenon DEF Verdict
<1>3. e # "ok" /\ e # "panicked" => Verdict(e) = e
  BY Zenon DEF Verdict
<1> QED BY <1>1, <1>2, <1>3 DEF Ending

\* The exit code, the sections and the ledger say what the inspectors did.
THEOREM ExitsAreHonest == Spec => []ExitIsHonest
<1>1. IInv => ExitIsHonest
  <2> SUFFICES ASSUME IInv PROVE ExitIsHonest
    OBVIOUS
  <2> USE WavesPartition DEF IInv
  <2>1. exit \in {"clean", "degraded", "incomplete"} \/ report =>
          /\ exit = Outcome /\ phase = "done" /\ declined = {} /\ joined = Applicable
    BY OutcomeCases DEF ExitAtTheEnd, DeclinedByFlag, WavesInOrder, Collected
  <2>2. exit \in {"clean", "degraded"} =>
          \A i \in Applicable : thread[i] \in {"ok", "skipped"} \cup
                                  (IF exit = "degraded" THEN {"degraded"} ELSE {})
    <3> SUFFICES ASSUME exit \in {"clean", "degraded"}, NEW i \in Applicable
                 PROVE  thread[i] \in {"ok", "skipped"} \/ (exit = "degraded" /\ thread[i] = "degraded")
      OBVIOUS
    <3>1. failed = {} /\ (exit = "clean" => degraded = {})
      BY <2>1, OutcomeCases
    <3>2. thread[i] \in Ending \ {"failed", "panicked"}
      BY <2>1, <3>1 DEF ListsAreVerdicts
    <3>3. exit = "clean" => thread[i] # "degraded"
      BY <2>1, <3>1 DEF ListsAreVerdicts
    <3> QED BY <3>2, <3>3 DEF Ending
  <2>3. exit = "incomplete" => \E i \in Applicable : thread[i] \in {"failed", "panicked"}
    <3> SUFFICES ASSUME exit = "incomplete" PROVE \E i \in Applicable : thread[i] \in {"failed", "panicked"}
      OBVIOUS
    <3>1. failed # {}
      BY <2>1, OutcomeCases
    <3> QED BY <2>1, <3>1 DEF ListsAreVerdicts
  <2>4. report => sections = {i \in Applicable : thread[i] \in {"ok", "degraded"}}
    BY <2>1 DEF ListsAreVerdicts
  <2>5. ASSUME exit # "running", NEW i \in Inspector
        PROVE  Len(ledger[i]) = 1 /\ (ledger[i][1] = "interrupted" <=> i \in declined)
    <3>1. phase = "done" /\ joined \cup declined = Applicable
      BY <2>5 DEF ExitAtTheEnd, WavesInOrder, Collected
    <3>2. CASE i \notin Applicable
      BY <3>1, <3>2 DEF LedgerFollows
    <3>3. CASE i \in joined
      <4>1. ledger[i] = <<Verdict(thread[i])>>
        BY <3>1, <3>3 DEF LedgerFollows, TypeOK
      <4>2. thread[i] \in Ending /\ i \notin declined
        BY <3>3 DEF ListsAreVerdicts, Ending
      <4>3. ledger[i][1] = Verdict(thread[i]) /\ Len(ledger[i]) = 1
        BY <4>1
      <4> QED BY <4>2, <4>3, VerdictIsNotInterrupted
    <3>4. CASE i \in Applicable /\ i \notin joined
      <4>1. i \in declined /\ exit = "interrupted"
        BY <2>5, <3>1, <3>4 DEF DeclinedByFlag
      <4>2. ledger[i] = <<"interrupted">>
        BY <3>1, <3>4, <4>1 DEF LedgerFollows
      <4> QED BY <4>1, <4>2
    <3> QED BY <3>2, <3>3, <3>4
  <2> QED BY <2>2, <2>3, <2>4, <2>5 DEF ExitIsHonest
<1> QED BY <1>1, Invariance, PTL
=============================================================================
