---------------------------- MODULE ExecutorProofs ----------------------------
(***************************************************************************)
(* Theorems about Executor, for pipes, caps and commands of every size:    *)
(* what a call reports is what happened, however the child, the drain      *)
(* threads, the clock and the watchdog interleave.                         *)
(***************************************************************************)
EXTENDS Executor, TLAPS

-----------------------------------------------------------------------------
(* The inductive invariant                                                 *)

Waiting == {"kill", "reap", "join_own", "join_timeout", "join_unreaped", "join_error"}
Watched == {"join_watchdog", "join_callback", "join_callback_error"}
Timeouts == {"timeout", "timeout_unreaped"}
PC == {"spawned", "spawn_failed", "done"} \cup Waiting \cup Watched
Results == [kind : Timeouts \cup {"none", "own", "wait_error", "not_started"},
            out : Nat, cut : BOOLEAN]

TypeOK ==
    /\ form \in Forms /\ cmd \in Commands /\ pc \in PC
    /\ child \in {"running", "exited", "killed", "reaped"}
    /\ died \in BOOLEAN /\ time \in BOOLEAN /\ finished \in BOOLEAN
    /\ todo \in [Pipes -> Nat] /\ buf \in [Pipes -> Nat] /\ got \in [Pipes -> Nat]
    /\ writers \in [Pipes -> SUBSET {"child", "descendant"}]
    /\ thread \in [Pipes \cup {"watchdog"} ->
                     {"none", "draining", "ended", "watching", "quit", "timed_out"}]
    /\ result \in Results

\* Which threads a form has, and which of its steps the caller can be at.
FormsApart ==
    /\ form # "callback" => thread["watchdog"] = "none"
    /\ form # "run" => thread["err"] = "none"
    /\ pc = "spawn_failed" => thread["watchdog"] = "none"
    /\ pc \in Waiting => form # "callback"
    /\ pc \in Watched => form = "callback"
    /\ thread["watchdog"] \in {"none", "watching", "quit", "timed_out"}

\* stdout is never lost: what was written is in the pipe or was read.  stderr
\* may be dropped, and what is read of it was written.
BytesKept ==
    /\ todo["out"] + buf["out"] + got["out"] = cmd.out
    /\ todo["err"] + buf["err"] + got["err"] <= cmd.err
    /\ got["out"] <= SizeCap + 1

\* A child that stopped writing to stdout without having been killed had
\* nothing left to write.
SilentMeansDone ==
    "child" \notin writers["out"] /\ ~died /\ thread["out"] # "none" => todo["out"] = 0

\* The stdout thread ends at the end of the file or one byte past the cap.
EndedMeansAll ==
    thread["out"] = "ended" =>
        \/ got["out"] = SizeCap + 1
        \/ buf["out"] = 0 /\ writers["out"] = {}

\* Who can have killed the child: the caller or the watchdog after the limit,
\* or a write into a pipe the reader had left.
DiedWhy ==
    died => \/ pc \in {"reap", "join_timeout", "join_unreaped"}
            \/ pc = "done" /\ result.kind \in Timeouts
            \/ thread["watchdog"] = "timed_out"
            \/ got["out"] = SizeCap + 1
            \/ form = "callback" /\ pc # "spawned" /\ got["err"] < cmd.err

\* The child is reaped by exactly the waits that succeed, and never while the
\* watchdog may still use its number.
ReapedWhen ==
    /\ child = "reaped" => /\ pc \notin {"spawned", "kill", "reap", "join_unreaped", "join_error",
                                         "join_watchdog", "join_callback_error"}
                           /\ thread["watchdog"] # "watching"
    /\ pc \in {"spawn_failed", "join_own", "join_timeout", "join_callback"} => child = "reaped"
    /\ child = "killed" => died
    /\ child = "running" => ~died

\* Nobody speaks of a time-out before the limit has passed.
TimeoutsAreDue ==
    pc \in {"kill", "reap", "join_timeout", "join_unreaped"} \/ thread["watchdog"] = "timed_out" => time

\* A result of the command's own is returned after both threads were joined.
JoinedFirst ==
    pc = "done" /\ result.kind = "own" => thread["out"] = "ended" /\ thread["err"] # "draining"

IInv ==
    /\ TypeOK
    /\ FormsApart
    /\ BytesKept
    /\ SilentMeansDone
    /\ EndedMeansAll
    /\ DiedWhy
    /\ ReapedWhen
    /\ TimeoutsAreDue
    /\ JoinedFirst
    /\ ResultHonest

-----------------------------------------------------------------------------
\* A command that was just spawned, or could not be.
LEMMA IInvInit == Init => IInv
<1> SUFFICES ASSUME Init PROVE IInv
  OBVIOUS
<1> USE ExecutorAssumption DEF Init, Pipes
<1>1. cmd.out \in Nat /\ cmd.err \in Nat
  BY DEF Commands
<1>2. TypeOK
  <2>1. todo \in [Pipes -> Nat]
    BY <1>1
  <2>2. thread \in [Pipes \cup {"watchdog"} ->
                     {"none", "draining", "ended", "watching", "quit", "timed_out"}]
    BY DEF Started
  <2>3. writers \in [Pipes -> SUBSET {"child", "descendant"}]
    OBVIOUS
  <2>4. result \in Results
    BY DEF Results, NoResult
  <2> QED BY <2>1, <2>2, <2>3, <2>4 DEF TypeOK, PC
<1>3. FormsApart
  BY DEF FormsApart, Started, Waiting, Watched
<1>4. BytesKept
  BY <1>1 DEF BytesKept
<1>5. SilentMeansDone /\ EndedMeansAll /\ DiedWhy
  BY DEF SilentMeansDone, EndedMeansAll, DiedWhy, Started
<1>6. ReapedWhen /\ TimeoutsAreDue /\ JoinedFirst /\ ResultHonest
  BY DEF ReapedWhen, TimeoutsAreDue, JoinedFirst, ResultHonest, Started
<1> QED BY <1>2, <1>3, <1>4, <1>5, <1>6 DEF IInv

\* The sizes of a command and the cap are numbers.
LEMMA Sizes == ASSUME TypeOK PROVE cmd.out \in Nat /\ cmd.err \in Nat /\ SizeCap \in Nat
BY ExecutorAssumption DEF TypeOK, Commands

\* A write into a pipe.
LEMMA ChildWritesKeeps ==
    ASSUME IInv, NEW p \in Pipes, ChildWrites(p) PROVE IInv'
<1> USE Sizes DEF IInv, ChildWrites, Pipes
<1>0. /\ child = "running" /\ "child" \in writers[p] /\ todo[p] \in Nat /\ todo[p] > 0
      /\ UNCHANGED <<form, cmd, thread, got, pc, time, finished, result>>
  BY DEF TypeOK
<1>1. CASE ~Piped(p) /\ todo' = [todo EXCEPT ![p] = @ - 1] /\ UNCHANGED <<buf, child, died, writers>>
  <2>1. p = "err"
    BY <1>1 DEF Piped
  <2>2. TypeOK'
    BY <1>0, <1>1 DEF TypeOK
  <2>3. BytesKept'
    BY <1>0, <1>1, <2>1 DEF BytesKept, TypeOK
  <2>4. SilentMeansDone'
    BY <1>0, <1>1, <2>1 DEF SilentMeansDone, TypeOK
  <2> QED BY <1>0, <1>1, <2>2, <2>3, <2>4 DEF FormsApart, EndedMeansAll, DiedWhy, ReapedWhen,
          TimeoutsAreDue, JoinedFirst, ResultHonest
<1>2. CASE /\ Piped(p) /\ ~ReaderGone(p) /\ buf[p] < PipeSize
           /\ todo' = [todo EXCEPT ![p] = @ - 1] /\ buf' = [buf EXCEPT ![p] = @ + 1]
           /\ UNCHANGED <<child, died, writers>>
  <2>1. TypeOK'
    BY <1>0, <1>2 DEF TypeOK
  <2>2. BytesKept'
    BY <1>0, <1>2 DEF BytesKept, TypeOK
  <2>3. SilentMeansDone'
    BY <1>0, <1>2 DEF SilentMeansDone, TypeOK
  <2>4. EndedMeansAll'
    BY <1>0, <1>2 DEF EndedMeansAll, ReaderGone, TypeOK
  <2> QED BY <1>0, <1>2, <2>1, <2>2, <2>3, <2>4 DEF FormsApart, DiedWhy, ReapedWhen,
          TimeoutsAreDue, JoinedFirst, ResultHonest
<1>3. CASE /\ Piped(p) /\ ReaderGone(p)
           /\ child' = "killed" /\ died' = TRUE
           /\ writers' = [q \in Pipes |-> writers[q] \ {"child"}]
           /\ UNCHANGED <<todo, buf>>
  <2>1. TypeOK'
    BY <1>0, <1>3 DEF TypeOK
  <2>2. p = "out" => got["out"] = SizeCap + 1
    BY <1>0, <1>3 DEF ReaderGone, EndedMeansAll
  <2>3. p = "err" => form = "callback" /\ pc # "spawned" /\ got["err"] < cmd.err
    BY <1>0, <1>3 DEF ReaderGone, BytesKept, TypeOK
  <2>4. DiedWhy'
    BY <1>0, <1>3, <2>2, <2>3 DEF DiedWhy
  <2>5. pc # "done" \/ result.kind # "own"
    BY <1>0 DEF ResultHonest
  <2>6. ReapedWhen' /\ ResultHonest'
    BY <1>0, <1>3, <2>5 DEF ReapedWhen, ResultHonest
  <2>7. EndedMeansAll' /\ SilentMeansDone'
    BY <1>0, <1>3, <2>1 DEF EndedMeansAll, SilentMeansDone
  <2> QED BY <1>0, <1>3, <2>1, <2>4, <2>6, <2>7 DEF FormsApart, BytesKept, TimeoutsAreDue, JoinedFirst
<1> QED BY <1>1, <1>2, <1>3

\* The child or a descendant gives up its end of the pipes.
LEMMA EndsClosedKeeps ==
    ASSUME IInv, ChildClosesStderr \/ ChildExits \/ DescendantExits PROVE IInv'
<1> USE Sizes DEF IInv, ChildClosesStderr, ChildExits, DescendantExits, Pipes, callVars
<1>0. UNCHANGED <<form, cmd, pc, thread, finished, result, died, todo, buf, got, time>>
  OBVIOUS
<1>1. TypeOK'
  BY <1>0 DEF TypeOK
<1>2. SilentMeansDone'
  BY <1>0 DEF SilentMeansDone, TypeOK
<1>3. EndedMeansAll'
  BY <1>0 DEF EndedMeansAll, TypeOK
<1>4. ReapedWhen' /\ ResultHonest'
  BY <1>0 DEF ReapedWhen, ResultHonest
<1> QED BY <1>0, <1>1, <1>2, <1>3, <1>4 DEF FormsApart, BytesKept, DiedWhy, TimeoutsAreDue, JoinedFirst

\* The clock.
LEMMA TimePassesKeeps == ASSUME IInv, TimePasses PROVE IInv'
BY DEF IInv, TimePasses, callVars, TypeOK, FormsApart, BytesKept, SilentMeansDone, EndedMeansAll,
       DiedWhy, ReapedWhen, TimeoutsAreDue, JoinedFirst, ResultHonest

\* A drain thread reads, or ends.
LEMMA DrainKeeps == ASSUME IInv, NEW p \in Pipes, Drain(p) PROVE IInv'
<1> USE Sizes DEF IInv, Drain, Pipes, childVars
<1>0. /\ UNCHANGED <<form, cmd, pc, time, finished, result, child, died, todo, writers>>
      /\ thread[p] = "draining"
  OBVIOUS
<1>n. pc # "done" \/ result.kind # "own"
  BY <1>0 DEF JoinedFirst
<1>1. CASE /\ buf[p] > 0 /\ (p = "out" => got.out <= SizeCap)
           /\ got' = [got EXCEPT ![p] = @ + 1] /\ buf' = [buf EXCEPT ![p] = @ - 1]
           /\ UNCHANGED thread
  <2>1. TypeOK'
    BY <1>0, <1>1 DEF TypeOK
  <2>2. BytesKept'
    BY <1>0, <1>1 DEF BytesKept, TypeOK
  <2>3. EndedMeansAll'
    BY <1>0, <1>1 DEF EndedMeansAll, TypeOK
  <2>4. DiedWhy'
    <3>1. got'["out"] = SizeCap + 1 \/ got'["out"] # got["out"] \/ got["out"] # SizeCap + 1
      BY <1>1 DEF TypeOK
    <3>2. p = "out" => got["out"] # SizeCap + 1
      BY <1>1 DEF TypeOK
    <3>3. p = "err" => form = "run" /\ got'["out"] = got["out"]
      BY <1>0, <1>1 DEF FormsApart, TypeOK
    <3>4. p = "out" => got'["err"] = got["err"]
      BY <1>1 DEF TypeOK
    <3> QED BY <1>0, <1>1, <3>1, <3>2, <3>3, <3>4 DEF DiedWhy
  <2>5. ResultHonest'
    BY <1>0, <1>1, <1>n DEF ResultHonest
  <2> QED BY <1>0, <1>1, <2>1, <2>2, <2>3, <2>4, <2>5 DEF FormsApart, SilentMeansDone, ReapedWhen,
          TimeoutsAreDue, JoinedFirst
<1>2. CASE /\ AtEof(p) \/ (p = "out" /\ got.out = SizeCap + 1)
           /\ thread' = [thread EXCEPT ![p] = "ended"] /\ UNCHANGED <<got, buf>>
  <2>1. TypeOK'
    BY <1>0, <1>2 DEF TypeOK
  <2>2. thread'["watchdog"] = thread["watchdog"] /\ thread'[p] = "ended"
    BY <1>2 DEF TypeOK
  <2>3. p = "out" => thread'["err"] = thread["err"]
    BY <1>2 DEF TypeOK
  <2>4. p = "err" => thread'["out"] = thread["out"]
    BY <1>2 DEF TypeOK
  <2>5. FormsApart'
    BY <1>0, <2>2, <2>3, <2>4 DEF FormsApart
  <2>6. EndedMeansAll' /\ SilentMeansDone'
    BY <1>0, <1>2, <2>2, <2>4 DEF EndedMeansAll, SilentMeansDone, AtEof
  <2>7. ResultHonest' /\ JoinedFirst'
    BY <1>0, <1>2, <1>n, <2>2 DEF ResultHonest, JoinedFirst
  <2> QED BY <1>0, <1>2, <2>1, <2>2, <2>5, <2>6, <2>7 DEF BytesKept, DiedWhy, ReapedWhen, TimeoutsAreDue
<1> QED BY <1>1, <1>2

-----------------------------------------------------------------------------
(* The calling thread and the watchdog                                     *)

\* SIGKILL: a running child is killed, and leaves its pipes; any other stays.
LEMMA KillEffect ==
    ASSUME TypeOK, ReapedWhen, Kill
    PROVE  /\ child = "running" => child' = "killed" /\ died' = TRUE
           /\ child # "running" => child' = child /\ died' = died /\ writers' = writers
           /\ child' \in {"killed", "exited", "reaped"}
           /\ child' = "reaped" <=> child = "reaped"
           /\ died' \in BOOLEAN
           /\ child' = "killed" => died'
           /\ writers' \in [Pipes -> SUBSET {"child", "descendant"}]
           /\ \A p \in Pipes : writers[p] = {} => writers'[p] = {}
<1>1. CASE child = "running"
  BY <1>1 DEF Kill, TypeOK, ReapedWhen
<1>2. CASE child # "running"
  BY <1>2 DEF Kill, TypeOK, ReapedWhen
<1> QED BY <1>1, <1>2

\* The waits of run and run_passthrough_stderr.
LEMMA WaitKeeps ==
    ASSUME IInv, WaitSucceeds \/ WaitTimesOut \/ WaitFails \/ ReapKilled \/ ReapFails PROVE IInv'
<1> USE Sizes DEF IInv, WaitSucceeds, WaitTimesOut, WaitFails, ReapKilled, ReapFails, Goto
<1>0. /\ UNCHANGED <<form, cmd, todo, buf, thread, got, time, finished, result, died, writers>>
      /\ pc' \in Waiting /\ pc \in {"spawned", "reap"} /\ form # "callback"
      /\ child' \in {child, "reaped"}
      /\ child' = "reaped" <=> pc' \in {"join_own", "join_timeout"}
  BY DEF FormsApart, ReapedWhen, Waiting
<1>1. TypeOK'
  BY <1>0 DEF TypeOK, PC
<1>2. FormsApart' /\ BytesKept'
  BY <1>0 DEF FormsApart, BytesKept, Waiting, Watched
<1>3. SilentMeansDone' /\ EndedMeansAll'
  BY <1>0 DEF SilentMeansDone, EndedMeansAll
<1>4. DiedWhy'
  BY <1>0 DEF DiedWhy, FormsApart
<1>5. ReapedWhen'
  BY <1>0 DEF ReapedWhen, FormsApart, Waiting
<1>6. TimeoutsAreDue'
  BY <1>0 DEF TimeoutsAreDue, FormsApart
<1>7. JoinedFirst' /\ ResultHonest'
  BY <1>0, <1>5 DEF JoinedFirst, ResultHonest, Waiting, ReapedWhen
<1> QED BY <1>1, <1>2, <1>3, <1>4, <1>5, <1>6, <1>7

\* The kill after a time-out.
LEMMA KillChildKeeps == ASSUME IInv, KillChild PROVE IInv'
<1> USE DEF IInv, KillChild, Goto
<1>0. /\ UNCHANGED <<form, cmd, todo, buf, thread, got, time, finished, result>>
      /\ pc = "kill" /\ pc' = "reap" /\ form # "callback" /\ child # "reaped" /\ Kill
  BY DEF FormsApart, ReapedWhen, Waiting
<1>1. TypeOK'
  BY <1>0, KillEffect DEF TypeOK, PC, Waiting
<1>2. FormsApart' /\ BytesKept' /\ TimeoutsAreDue'
  BY <1>0 DEF FormsApart, BytesKept, TimeoutsAreDue, Waiting, Watched
<1>3. SilentMeansDone' /\ EndedMeansAll'
  BY <1>0, KillEffect DEF SilentMeansDone, EndedMeansAll, Pipes
<1>4. DiedWhy' /\ ReapedWhen'
  BY <1>0, KillEffect DEF DiedWhy, ReapedWhen, FormsApart
<1>5. JoinedFirst' /\ ResultHonest'
  BY <1>0, <1>4 DEF JoinedFirst, ResultHonest, ReapedWhen
<1> QED BY <1>1, <1>2, <1>3, <1>4, <1>5

\* A command that could not be started.
LEMMA SpawnErrorKeeps == ASSUME IInv, ReturnSpawnError PROVE IInv'
<1> USE DEF IInv, ReturnSpawnError, childVars
<1>1. result'.kind = "not_started"
  BY DEF NoResult
<1>2. result' \in Results
  BY DEF NoResult, Results
<1>3. TypeOK'
  BY <1>2 DEF TypeOK, PC
<1>4. DiedWhy'
  BY DEF DiedWhy, ReapedWhen, FormsApart
<1>5. ResultHonest' /\ JoinedFirst'
  BY <1>1 DEF ResultHonest, JoinedFirst, ReapedWhen
<1> QED BY <1>3, <1>4, <1>5 DEF FormsApart, BytesKept, SilentMeansDone, EndedMeansAll, ReapedWhen,
        TimeoutsAreDue, Waiting, Watched

\* What a returning call leaves behind, whatever it returns.
LEMMA ReturnKeeps ==
    ASSUME IInv, NEW kind \in Timeouts \cup {"own", "wait_error"}, NEW out \in Nat, NEW cut \in BOOLEAN,
           Return(kind, out, cut), pc \in (Waiting \cup Watched) \ {"kill", "reap", "join_watchdog"},
           thread["out"] = "ended", thread["err"] # "draining",
           kind \in Timeouts <=> pc \in {"join_timeout", "join_unreaped"} \/ thread["watchdog"] = "timed_out",
           kind \in {"wait_error", "timeout_unreaped"} <=>
             pc \in {"join_error", "join_unreaped", "join_callback_error"},
           kind = "own" => out = CappedOut /\ (cut <=> got.out > SizeCap)
    PROVE  IInv'
<1> USE Sizes DEF IInv, Return, childVars, Timeouts, Waiting, Watched
<1>1. result'.kind = kind /\ result'.out = out /\ (result'.cut <=> cut) /\ result' \in Results
  BY DEF Results
<1>2. TypeOK'
  BY <1>1 DEF TypeOK, PC
<1>3. DiedWhy'
  BY <1>1 DEF DiedWhy
<1>4. kind \notin {"wait_error", "timeout_unreaped"} => child = "reaped"
  BY DEF ReapedWhen
<1>5. kind \in Timeouts => time
  BY DEF TimeoutsAreDue
<1>6. ASSUME kind = "own", ~died
      PROVE  /\ result'.cut <=> cmd.out > SizeCap
             /\ result'.out = IF cmd.out > SizeCap THEN SizeCap ELSE cmd.out
  <2>1. got["out"] \in Nat /\ todo["out"] \in Nat /\ buf["out"] \in Nat
        /\ todo["out"] + buf["out"] + got["out"] = cmd.out
    BY DEF TypeOK, Pipes, BytesKept
  <2>2. got["out"] = SizeCap + 1 \/ got["out"] = cmd.out
    BY <1>6, <2>1 DEF EndedMeansAll, SilentMeansDone
  <2> QED BY <1>1, <1>6, <2>1, <2>2 DEF CappedOut
<1>7. ASSUME kind = "own", died
      PROVE  result'.cut \/ got.err < cmd.err
  <2>1. got["out"] = SizeCap + 1 \/ got["err"] < cmd.err
    BY <1>7 DEF DiedWhy
  <2> QED BY <1>1, <1>7, <2>1
<1>8. ResultHonest'
  <2>1. child = "reaped" => thread.watchdog # "watching"
    BY DEF ReapedWhen
  <2> QED BY <1>1, <1>4, <1>5, <1>6, <1>7, <2>1 DEF ResultHonest
<1>9. JoinedFirst'
  BY DEF JoinedFirst
<1> QED BY <1>2, <1>3, <1>8, <1>9 DEF FormsApart, BytesKept, SilentMeansDone, EndedMeansAll, ReapedWhen,
        TimeoutsAreDue, Waiting, Watched

\* The returns of the three forms.
LEMMA JoinAndReturnKeeps == ASSUME IInv, JoinAndReturn \/ ReturnCallback PROVE IInv'
<1> USE Sizes DEF IInv, Timeouts, Waiting, Watched
<1>1. got.out \in Nat /\ CappedOut \in Nat /\ (got.out > SizeCap) \in BOOLEAN /\ 0 \in Nat
  BY DEF TypeOK, CappedOut, Pipes
<1>2. CASE JoinAndReturn
  <2>1. form # "callback" /\ thread["watchdog"] = "none"
    BY <1>2 DEF JoinAndReturn, FormsApart
  <2>2. CASE pc = "join_own" /\ Return("own", CappedOut, got.out > SizeCap)
    BY <1>1, <1>2, <2>1, <2>2, ReturnKeeps DEF JoinAndReturn
  <2>3. CASE pc = "join_timeout" /\ Return("timeout", 0, FALSE)
    BY <1>1, <1>2, <2>1, <2>3, ReturnKeeps DEF JoinAndReturn
  <2>4. CASE pc = "join_error" /\ Return("wait_error", 0, FALSE)
    BY <1>1, <1>2, <2>1, <2>4, ReturnKeeps DEF JoinAndReturn
  <2>5. CASE pc = "join_unreaped" /\ Return("timeout_unreaped", 0, FALSE)
    BY <1>1, <1>2, <2>1, <2>5, ReturnKeeps DEF JoinAndReturn
  <2> QED BY <1>2, <2>2, <2>3, <2>4, <2>5 DEF JoinAndReturn
<1>3. CASE ReturnCallback
  <2>1. /\ thread["err"] = "none" /\ thread["out"] = "ended"
        /\ pc \in {"join_callback", "join_callback_error"}
    BY <1>3 DEF ReturnCallback, FormsApart
  <2>2. CASE pc = "join_callback"
    BY <1>1, <1>3, <2>1, <2>2, ReturnKeeps DEF ReturnCallback
  <2>3. CASE pc = "join_callback_error"
    BY <1>1, <1>3, <2>1, <2>3, ReturnKeeps DEF ReturnCallback
  <2> QED BY <2>1, <2>2, <2>3
<1> QED BY <1>2, <1>3

\* run_with_line_callback reads stderr, to its end or to a line that is not
\* text.
LEMMA ReadLineKeeps == ASSUME IInv, ReadLine PROVE IInv'
<1> USE Sizes DEF IInv, ReadLine, Pipes, childVars
<1>0. /\ UNCHANGED <<form, cmd, thread, time, result, child, died, todo, writers>>
      /\ pc = "spawned" /\ pc' \in {"spawned", "join_watchdog"} /\ form = "callback"
      /\ got'["out"] = got["out"] /\ buf'["out"] = buf["out"]
  BY DEF TypeOK
<1>1. TypeOK'
  <2>1. got' \in [Pipes -> Nat] /\ buf' \in [Pipes -> Nat]
    BY DEF TypeOK
  <2>2. pc' \in PC /\ finished' \in BOOLEAN
    BY DEF TypeOK, PC, Watched
  <2> QED BY <1>0, <2>1, <2>2 DEF TypeOK
<1>2. BytesKept'
  BY <1>0 DEF BytesKept, TypeOK
<1>3. DiedWhy'
  BY <1>0 DEF DiedWhy
<1> QED BY <1>0, <1>1, <1>2, <1>3 DEF FormsApart, SilentMeansDone, EndedMeansAll, ReapedWhen,
        TimeoutsAreDue, JoinedFirst, ResultHonest, Waiting, Watched

\* The watchdog sleeps, looks at the flag and kills after the limit.
LEMMA WatchdogKeeps == ASSUME IInv, Watchdog PROVE IInv'
<1> USE DEF IInv
<1>0. /\ UNCHANGED <<form, cmd, pc, buf, got, time, finished, result, todo>>
      /\ thread["watchdog"] = "watching" /\ form = "callback" /\ child # "reaped"
      /\ thread'["out"] = thread["out"] /\ thread'["err"] = thread["err"]
      /\ \/ thread'["watchdog"] = "quit" /\ UNCHANGED <<child, died, writers>>
         \/ thread'["watchdog"] = "timed_out" /\ time /\ Kill
  BY DEF TypeOK, FormsApart, ReapedWhen, Watchdog, WatchdogQuits, WatchdogKills, Kill, Pipes, childVars
<1>1. TypeOK'
  <2>1. thread' \in [Pipes \cup {"watchdog"} ->
                      {"none", "draining", "ended", "watching", "quit", "timed_out"}]
    BY DEF TypeOK, Watchdog, WatchdogQuits, WatchdogKills
  <2> QED BY <1>0, <2>1, KillEffect DEF TypeOK
<1>2. FormsApart' /\ BytesKept'
  BY <1>0 DEF FormsApart, BytesKept
<1>k. Kill => /\ child' \in {"killed", "exited"} /\ (child' = "killed" => died')
              /\ (~died' => writers' = writers /\ died' = died)
              /\ (writers["out"] = {} => writers'["out"] = {})
  BY <1>0, KillEffect DEF Pipes
<1>3. SilentMeansDone' /\ EndedMeansAll'
  BY <1>0, <1>k DEF SilentMeansDone, EndedMeansAll
<1>4. DiedWhy' /\ TimeoutsAreDue'
  BY <1>0 DEF DiedWhy, TimeoutsAreDue
<1>5. ReapedWhen'
  BY <1>0, <1>k DEF ReapedWhen
<1>6. pc # "done" \/ result.kind \notin {"own", "timeout"}
  BY <1>0 DEF ResultHonest
<1>7. JoinedFirst' /\ ResultHonest'
  BY <1>0, <1>5, <1>6 DEF JoinedFirst, ResultHonest, ReapedWhen
<1> QED BY <1>1, <1>2, <1>3, <1>4, <1>5, <1>7

\* The wait without a limit comes after the watchdog was joined.
LEMMA WaitAfterWatchdogKeeps ==
    ASSUME IInv, WaitAfterWatchdog \/ WaitAfterWatchdogFails PROVE IInv'
<1> USE DEF IInv, WaitAfterWatchdog, WaitAfterWatchdogFails, Goto
<1>1. TypeOK'
  BY DEF TypeOK, PC, Watched
<1> QED BY <1>1 DEF FormsApart, BytesKept, SilentMeansDone, EndedMeansAll, DiedWhy, ReapedWhen,
        TimeoutsAreDue, JoinedFirst, ResultHonest, Waiting, Watched

\* Every step of the command, the clock and the threads keeps IInv.
LEMMA IInvStep == IInv /\ [Next]_vars => IInv'
<1> SUFFICES ASSUME IInv, [Next]_vars PROVE IInv'
  OBVIOUS
<1>1. CASE Caller
  BY <1>1, WaitKeeps, KillChildKeeps, SpawnErrorKeeps, JoinAndReturnKeeps, ReadLineKeeps, WaitAfterWatchdogKeeps
     DEF Caller
<1>2. CASE Command
  BY <1>2, ChildWritesKeeps, EndsClosedKeeps DEF Command
<1>3. CASE UNCHANGED vars
  BY <1>3 DEF vars, IInv, TypeOK, FormsApart, BytesKept, SilentMeansDone, EndedMeansAll,
     DiedWhy, ReapedWhen, TimeoutsAreDue, JoinedFirst, ResultHonest
<1> QED BY <1>1, <1>2, <1>3, WaitKeeps, WaitAfterWatchdogKeeps, WatchdogKeeps, EndsClosedKeeps, TimePassesKeeps, DrainKeeps
        DEF Next

\* What a call of the executor reports is what happened, in all three forms and
\* for every command, pipe size and cap.
THEOREM ResultsHonest == Spec => []ResultHonest
<1>1. IInv => ResultHonest
  BY DEF IInv
<1> QED BY <1>1, IInvInit, IInvStep, PTL DEF Spec
=============================================================================
