------------------------------- MODULE Executor -------------------------------
(***************************************************************************)
(* crates/collect/src/executor/real.rs: one call of RealExecutor.  The     *)
(* command is a child process behind pipes of bounded size; scoped threads *)
(* drain the pipes while the calling thread waits for the child with a     *)
(* time limit (run, run_passthrough_stderr), or reads stderr itself while  *)
(* a watchdog keeps the time (run_with_line_callback).                     *)
(***************************************************************************)
EXTENDS Naturals

CONSTANTS PipeSize,  \* what fits into a pipe
          SizeCap,   \* STDOUT_SIZE_CAP, in the same unit
          MaxOut,    \* the most a command writes to stdout
          MaxErr     \* the most it writes to stderr

ASSUME ExecutorAssumption == {PipeSize, SizeCap, MaxOut, MaxErr} \subseteq Nat /\ PipeSize > 0

Forms == {"run", "passthrough", "callback"}

\* What a command does: how much it writes, whether it ever ends, whether it
\* gives up stderr while it runs, and whether a process it started holds its
\* pipes for a while or for good.
Commands == [out : 0 .. MaxOut, err : 0 .. MaxErr, hangs : BOOLEAN, closes : BOOLEAN,
             leaves : {"none", "ends", "stays"}]

VARIABLES form, cmd,
          pc,        \* the calling thread
          child,     \* "running", "exited", "killed", "reaped"
          died,      \* history: the child did not end by itself
          todo,      \* what the child still writes, by pipe
          buf,       \* what is in each pipe
          writers,   \* who holds the write end of each pipe
          thread,    \* the drain threads and the watchdog
          got,       \* what has been read from each pipe
          time,      \* the limit has passed
          finished,  \* the flag the watchdog looks at
          result

vars == <<form, cmd, pc, child, died, todo, buf, writers, thread, got, time, finished, result>>
childVars == <<child, died, todo, writers>>
callVars == <<pc, thread, finished, result>>

Pipes == {"out", "err"}
NoResult == [kind |-> "none", out |-> 0, cut |-> FALSE]
Piped(p) == p = "out" \/ form # "passthrough"

\* A thread is started after a successful spawn, by the forms that have it.
Started(state, forms) == IF pc = "spawned" /\ form \in forms THEN state ELSE "none"

\* Command::spawn, and the threads of the form.
Init ==
    /\ form \in Forms /\ cmd \in Commands
    /\ pc \in {"spawned", "spawn_failed"}
    /\ child = IF pc = "spawned" THEN "running" ELSE "reaped"
    /\ died = FALSE
    /\ todo = [out |-> cmd.out, err |-> cmd.err]
    /\ buf = [p \in Pipes |-> 0]
    /\ writers = [p \in Pipes |-> IF pc = "spawn_failed" THEN {}
                               ELSE {"child"} \cup (IF cmd.leaves = "none" THEN {} ELSE {"descendant"})]
    /\ thread = [out |-> Started("draining", Forms), err |-> Started("draining", {"run"}),
                 watchdog |-> Started("watching", {"callback"})]
    /\ got = [p \in Pipes |-> 0]
    /\ time = FALSE /\ finished = FALSE
    /\ result = NoResult

-----------------------------------------------------------------------------
(* The command, the system and the clock                                   *)

ReaderGone(p) == IF p = "out" THEN thread.out = "ended" ELSE form = "callback" /\ pc # "spawned"

\* A write; into a pipe nobody reads it is fatal.
ChildWrites(p) ==
    /\ child = "running" /\ "child" \in writers[p] /\ todo[p] > 0
    /\ \/ ~Piped(p) /\ todo' = [todo EXCEPT ![p] = @ - 1] /\ UNCHANGED <<buf, child, died, writers>>
       \/ /\ Piped(p) /\ ~ReaderGone(p) /\ buf[p] < PipeSize
          /\ todo' = [todo EXCEPT ![p] = @ - 1] /\ buf' = [buf EXCEPT ![p] = @ + 1]
          /\ UNCHANGED <<child, died, writers>>
       \/ /\ Piped(p) /\ ReaderGone(p)
          /\ child' = "killed" /\ died' = TRUE
          /\ writers' = [q \in Pipes |-> writers[q] \ {"child"}]
          /\ UNCHANGED <<todo, buf>>
    /\ UNCHANGED <<form, cmd, thread, got, pc, time, finished, result>>

ChildClosesStderr ==
    /\ child = "running" /\ cmd.closes /\ todo.err = 0 /\ "child" \in writers.err
    /\ writers' = [writers EXCEPT !.err = @ \ {"child"}]
    /\ UNCHANGED <<form, cmd, child, died, todo, buf, got, time>> /\ UNCHANGED callVars

ChildExits ==
    /\ child = "running" /\ ~cmd.hangs /\ todo = [p \in Pipes |-> 0]
    /\ child' = "exited"
    /\ writers' = [p \in Pipes |-> writers[p] \ {"child"}]
    /\ UNCHANGED <<form, cmd, died, todo, buf, got, time>> /\ UNCHANGED callVars

DescendantExits ==
    /\ cmd.leaves = "ends"
    /\ \E p \in Pipes : "descendant" \in writers[p]
    /\ writers' = [p \in Pipes |-> writers[p] \ {"descendant"}]
    /\ UNCHANGED <<form, cmd, child, died, todo, buf, got, time>> /\ UNCHANGED callVars

TimePasses ==
    /\ ~time /\ pc # "done"
    /\ time' = TRUE
    /\ UNCHANGED <<form, cmd, child, died, todo, buf, writers, got>> /\ UNCHANGED callVars

\* SIGKILL; a child that has exited stays as it is until it is reaped.
Kill ==
    /\ child' = IF child = "running" THEN "killed" ELSE child
    /\ died' = (died \/ child = "running")
    /\ writers' = IF child = "running" THEN [p \in Pipes |-> writers[p] \ {"child"}] ELSE writers
    /\ UNCHANGED <<todo>>

-----------------------------------------------------------------------------
(* Draining                                                                *)

AtEof(p) == buf[p] = 0 /\ writers[p] = {}

\* Draining only after the child has ended.
DrainAfterwards(p) ==
    /\ thread[p] = "draining" /\ child # "running"
    /\ \/ /\ buf[p] > 0 /\ got' = [got EXCEPT ![p] = @ + 1] /\ buf' = [buf EXCEPT ![p] = @ - 1]
          /\ UNCHANGED thread
       \/ AtEof(p) /\ thread' = [thread EXCEPT ![p] = "ended"] /\ UNCHANGED <<got, buf>>
    /\ UNCHANGED <<form, cmd, pc, time, finished, result>> /\ UNCHANGED childVars

\* read_to_end; of stdout one byte more than the cap is taken and the pipe
\* is closed.
Drain(p) ==
    /\ thread[p] = "draining"
    /\ \/ /\ buf[p] > 0 /\ (p = "out" => got.out <= SizeCap)
          /\ got' = [got EXCEPT ![p] = @ + 1] /\ buf' = [buf EXCEPT ![p] = @ - 1]
          /\ UNCHANGED thread
       \/ /\ AtEof(p) \/ (p = "out" /\ got.out = SizeCap + 1)
          /\ thread' = [thread EXCEPT ![p] = "ended"] /\ UNCHANGED <<got, buf>>
    /\ UNCHANGED <<form, cmd, pc, time, finished, result>> /\ UNCHANGED childVars

-----------------------------------------------------------------------------
(* The calling thread                                                      *)

Goto(next) == pc' = next /\ UNCHANGED <<form, cmd, todo, buf, thread, got, time, finished, result>>

\* The call has not been able to start the command: exit code 127.
ReturnSpawnError ==
    /\ pc = "spawn_failed"
    /\ pc' = "done" /\ result' = [NoResult EXCEPT !.kind = "not_started"]
    /\ UNCHANGED <<form, cmd, buf, thread, got, time, finished>> /\ UNCHANGED childVars

WaitSucceeds ==
    /\ pc = "spawned" /\ form # "callback" /\ child \in {"exited", "killed"}
    /\ child' = "reaped" /\ Goto("join_own") /\ UNCHANGED <<died, writers>>

WaitTimesOut ==
    /\ pc = "spawned" /\ form # "callback" /\ child = "running" /\ time
    /\ Goto("kill") /\ UNCHANGED <<child, died, writers>>

WaitFails ==
    /\ pc = "spawned" /\ form # "callback"
    /\ Goto("join_error") /\ UNCHANGED <<child, died, writers>>

KillChild == pc = "kill" /\ Kill /\ Goto("reap")

ReapKilled ==
    /\ pc = "reap" /\ child \in {"exited", "killed"}
    /\ child' = "reaped" /\ Goto("join_timeout") /\ UNCHANGED <<died, writers>>

\* The wait of a timed-out call fails, and nobody looks.
ReapFails ==
    /\ pc = "reap"
    /\ Goto("join_unreaped") /\ UNCHANGED <<child, died, writers>>

Return(kind, out, cut) ==
    /\ pc' = "done"
    /\ result' = [kind |-> kind, out |-> out, cut |-> cut]
    /\ UNCHANGED <<form, cmd, buf, thread, got, time, finished>> /\ UNCHANGED childVars

CappedOut == IF got.out > SizeCap THEN SizeCap ELSE got.out

\* The result is put together before the drain threads are joined.
JoinAndReturnEarly ==
    \/ pc = "join_own" /\ Return("own", CappedOut, got.out > SizeCap)
    \/ pc = "join_timeout" /\ Return("timeout", 0, FALSE)
    \/ pc = "join_unreaped" /\ Return("timeout_unreaped", 0, FALSE)
    \/ pc = "join_error" /\ Return("wait_error", 0, FALSE)

JoinAndReturn ==
    /\ thread.out = "ended" /\ thread.err # "draining"
    /\ \/ pc = "join_own" /\ Return("own", CappedOut, got.out > SizeCap)
       \/ pc = "join_timeout" /\ Return("timeout", 0, FALSE)
       \/ pc = "join_unreaped" /\ Return("timeout_unreaped", 0, FALSE)
       \/ pc = "join_error" /\ Return("wait_error", 0, FALSE)

\* run_with_line_callback: stderr line by line to its end or to a line that
\* is not text, then the flag.
ReadLine ==
    /\ form = "callback" /\ pc = "spawned"
    /\ \/ /\ buf.err > 0 /\ buf' = [buf EXCEPT !.err = @ - 1] /\ got' = [got EXCEPT !.err = @ + 1]
          /\ UNCHANGED <<pc, finished>>
       \/ AtEof("err") /\ finished' = TRUE /\ pc' = "join_watchdog" /\ UNCHANGED <<buf, got>>
       \/ /\ buf.err > 0 /\ buf' = [buf EXCEPT !.err = 0] /\ UNCHANGED got
          /\ finished' = TRUE /\ pc' = "join_watchdog"
    /\ UNCHANGED <<form, cmd, thread, time, result>> /\ UNCHANGED childVars

\* The flag is looked at every half second; after the limit no more.
WatchdogQuits ==
    /\ thread.watchdog = "watching" /\ finished
    /\ thread' = [thread EXCEPT !.watchdog = "quit"]
    /\ UNCHANGED <<form, cmd, pc, buf, got, time, finished, result>> /\ UNCHANGED childVars

WatchdogKills ==
    /\ thread.watchdog = "watching" /\ time
    /\ thread' = [thread EXCEPT !.watchdog = "timed_out"]
    /\ Kill
    /\ UNCHANGED <<form, cmd, pc, buf, got, time, finished, result>>

\* child.wait() without a limit, then the drain thread.
WaitAfterWatchdog ==
    /\ pc = "join_watchdog" /\ thread.watchdog \in {"quit", "timed_out"}
    /\ child \in {"exited", "killed"}
    /\ child' = "reaped" /\ Goto("join_callback") /\ UNCHANGED <<died, writers>>

WaitAfterWatchdogFails ==
    /\ pc = "join_watchdog" /\ thread.watchdog \in {"quit", "timed_out"}
    /\ Goto("join_callback_error") /\ UNCHANGED <<child, died, writers>>

\* A time-out is reported before the status is looked at; without one a failed
\* wait is exit code -1.
ReturnCallback ==
    LET timed_out == thread.watchdog = "timed_out"
    IN  /\ thread.out = "ended"
        /\ \/ /\ pc = "join_callback"
              /\ Return(IF timed_out THEN "timeout" ELSE "own", CappedOut, got.out > SizeCap)
           \/ /\ pc = "join_callback_error"
              /\ Return(IF timed_out THEN "timeout_unreaped" ELSE "wait_error",
                        CappedOut, got.out > SizeCap)

Caller == \/ ReturnSpawnError \/ WaitSucceeds \/ WaitTimesOut \/ KillChild \/ ReapKilled \/ JoinAndReturn
          \/ ReadLine \/ WaitAfterWatchdog \/ ReturnCallback
Watchdog == WatchdogQuits \/ WatchdogKills
Command == (\E p \in Pipes : ChildWrites(p)) \/ ChildExits

Next ==
    \/ Caller \/ WaitFails \/ ReapFails \/ WaitAfterWatchdogFails \/ Watchdog \/ Command \/ ChildClosesStderr \/ DescendantExits \/ TimePasses
    \/ (\E p \in Pipes : Drain(p))

\* Every thread and the command are scheduled; neither the clock nor a
\* failing wait is owed to anyone.
Fairness ==
    /\ WF_vars(Caller) /\ WF_vars(Watchdog) /\ WF_vars(Command) /\ WF_vars(DescendantExits)
    /\ \A p \in Pipes : WF_vars(Drain(p))

Spec == Init /\ [][Next]_vars /\ Fairness

-----------------------------------------------------------------------------
(* Properties                                                              *)

\* What a call reports is what happened: an exit code of the command's own
\* comes with all it wrote to stdout, cut and marked as cut at the cap; a
\* time-out is reported only once the limit has passed; no call that could
\* wait leaves its child unreaped; and the watchdog, which kills by process
\* number, is never awake once that number has been given back (the order of
\* the joins and waits of run and run_with_line_callback).
ResultHonest ==
    /\ child = "reaped" => thread.watchdog # "watching"
    /\ pc = "done" =>
        /\ result.kind = "own" /\ ~died =>
              /\ result.cut <=> cmd.out > SizeCap
              /\ result.out = IF cmd.out > SizeCap THEN SizeCap ELSE cmd.out
        /\ result.kind = "own" /\ died => result.cut \/ got.err < cmd.err
        /\ result.kind \in {"timeout", "timeout_unreaped"} => time
        /\ result.kind \notin {"wait_error", "timeout_unreaped"} => child = "reaped"

\* Where a call may wait without end: on a process the command left behind
\* with its pipes, on a command it could not wait for, and on one that gave
\* up stderr before the watchdog was told to stop.
Unbounded ==
    \/ cmd.leaves = "stays"
    \/ cmd.hangs /\ pc = "join_error"
    \/ cmd.hangs /\ form = "callback" /\ thread.watchdog = "quit"

\* A call ends: without any help of the clock if the command does, because
\* full pipes are drained while it runs, and otherwise once the limit has
\* passed (COMMAND_TIMEOUT, the drain threads, the watchdog).
ExecEnds == <>[](pc = "done" \/ Unbounded \/ (cmd.hangs /\ ~time))

===============================================================================
