---------------------------- MODULE ThreadPrograms ----------------------------
(***************************************************************************)
(* One process of a test or example binary: its threads each run a       *)
(* program, a straight sequence of steps, and every step is one of        *)
(* Process's actions (enable, apply, spawn, a syscall) or a wait for      *)
(* another thread.  The first thread, Harness, is libtest's main thread   *)
(* when the binary is run by cargo test, or the thread running main when  *)
(* it is run on its own.  A process forked by a thread is a thread here:  *)
(* fork copies the calling thread's filters as clone does.                *)
(*                                                                         *)
(* Modes are the ways the binary is built and run; Programs[m][t] is the   *)
(* program of thread t in mode m (<< >> for a thread that mode never      *)
(* starts).  The process exits when the Harness thread ends.              *)
(***************************************************************************)
EXTENDS Integers, Sequences, FiniteSets, SeccompFilter

CONSTANTS
    Harness,        \* the process's first thread
    Threads,        \* every thread (or forked process) of every mode
    Modes,          \* how the binary was built and run
    Programs,       \* mode -> thread -> sequence of steps
    ExistingPaths,  \* the paths that exist when a landlock rule is applied
    MaxFilters,     \* the filters the kernel accepts on one thread
    CompilerLimit   \* the rules seccompiler compiles

\* File::create: openat(AT_FDCWD, path, O_WRONLY | O_CREAT | O_TRUNC),
\* which landlock admits with the create right on the directory.
CreateFile(dir) == [Call("openat", << 0, 0, 577 >>) EXCEPT !.path = dir, !.right = "create"]
\* A read-only open of a file.
OpenReadonly(file) == [Call("openat", << 0, 0, 0 >>) EXCEPT !.path = file, !.right = "read"]
\* println! and eprintln!: a write to fd 1 or fd 2.
WriteStdout == Call("write", << 1 >>)
WriteStderr == Call("write", << 2 >>)

\* The steps of a program.
EnableStep(rs) == [op |-> "enable", rs |-> rs]
ApplyStep == [op |-> "apply"]
ApplyAllStep == [op |-> "apply_all"]
SpawnStep(child) == [op |-> "spawn", child |-> child]
\* Wait for a thread or process to end and assert how it ended.
JoinStep(child, outcome) == [op |-> "join", child |-> child, outcome |-> outcome]
\* libtest's receipt of a test's result: "done", or "panicked" for a
\* #[should_panic] test.
CollectStep(test, outcome) == [op |-> "collect", child |-> test, outcome |-> outcome]
\* A call whose result the program asserts: admitted or denied.
AssertStep(call, admitted) == [op |-> "assert", call |-> call, admitted |-> admitted]
\* A call the process needs: when denied, it exits with a failure status.
RequireStep(call) == [op |-> "require", call |-> call]
\* assert!(false, ..): an unconditional panic.
PanicStep == [op |-> "panic"]

\* The steps with operation op in all the programs.
StepsOf(op) ==
    UNION {{Programs[m][t][i] : i \in {j \in DOMAIN Programs[m][t] : Programs[m][t][j].op = op}} :
           m \in Modes, t \in Threads}

Catalogue == {s.rs : s \in StepsOf("enable")}

Calls == {s.call : s \in StepsOf("assert") \cup StepsOf("require")}

VARIABLES
    spawned, ctx, filters, synced, lastCall,     \* Process's state
    pc,    \* thread -> "unstarted", "running", "done", "failed" or "panicked"
    step,  \* thread -> the index of its next step
    mode   \* how the binary was built and run

tpVars == <<spawned, ctx, filters, synced, lastCall,    pc, step, mode>>

K == INSTANCE Process WITH Main <- Harness

-----------------------------------------------------------------------------

Ended == {"done", "failed", "panicked"}

Program(t) == Programs[mode][t]

Current(t) == Program(t)[step[t]]

Running(t, op) == pc[t] = "running" /\ Current(t).op = op

Panic(t) == pc' = [pc EXCEPT ![t] = "panicked"] /\ UNCHANGED step

\* The step is done; after the last one the thread's function returns.
Advance(t) ==
    /\ step' = [step EXCEPT ![t] = @ + 1]
    /\ pc' = IF step[t] = Len(Program(t)) THEN [pc EXCEPT ![t] = "done"] ELSE pc

ProcessUnchanged == UNCHANGED <<spawned, ctx, filters, synced, lastCall>>

\* enable(..).unwrap()
ThreadEnable(t) ==
    /\ Running(t, "enable")
    /\ K!Enable(t, Current(t).rs)
    /\ IF ctx'[t].status = "failed" THEN Panic(t) ELSE Advance(t)

\* A test that calls apply_to_all_threads().unwrap() where the program
\* applies to its own thread.
ThreadApplyAllThreads(t) ==
    /\ Running(t, "apply")
    /\ K!ApplyToAllThreads(t)
    /\ IF ctx'[t].status = "failed" THEN Panic(t) ELSE Advance(t)

\* apply_to_current_thread().unwrap()
ThreadApply(t) ==
    /\ Running(t, "apply")
    /\ K!ApplyToCurrentThread(t)
    /\ IF ctx'[t].status = "failed" THEN Panic(t) ELSE Advance(t)

\* apply_to_all_threads() and an assert! that it is_ok().
ThreadApplyAll(t) ==
    /\ Running(t, "apply_all")
    /\ K!ApplyToAllThreads(t)
    /\ IF ctx'[t].status = "failed" THEN Panic(t) ELSE Advance(t)

\* thread::spawn or Command::status: a clone, which panics (thread::spawn)
\* or returns an Err that the test's assert! rejects when denied.
ThreadSpawn(t) ==
    /\ Running(t, "spawn")
    /\ \/ /\ K!Spawn(t, Current(t).child)
          /\ pc' = [pc EXCEPT ![Current(t).child] = "running"]
          /\ step' = [step EXCEPT ![t] = @ + 1]
       \/ /\ ~ChainAdmits(filters[t], K!CloneCall)
          /\ K!Issue(t, K!CloneCall)
          /\ Panic(t)

ThreadJoin(t) ==
    /\ Running(t, "join")
    /\ pc[Current(t).child] \in Ended
    /\ IF pc[Current(t).child] = Current(t).outcome THEN Advance(t) ELSE Panic(t)
    /\ ProcessUnchanged

\* A test ending otherwise than expected fails the run: libtest exits
\* with a failure status.
ThreadCollect(t) ==
    /\ Running(t, "collect")
    /\ pc[Current(t).child] \in Ended
    /\ IF pc[Current(t).child] = Current(t).outcome
       THEN Advance(t)
       ELSE pc' = [pc EXCEPT ![t] = "failed"] /\ UNCHANGED step
    /\ ProcessUnchanged

ThreadAssert(t) ==
    /\ Running(t, "assert")
    /\ K!Issue(t, Current(t).call)
    /\ IF ChainAdmits(filters[t], Current(t).call) = Current(t).admitted
       THEN Advance(t)
       ELSE Panic(t)

ThreadRequire(t) ==
    /\ Running(t, "require")
    /\ K!Issue(t, Current(t).call)
    /\ IF ChainAdmits(filters[t], Current(t).call)
       THEN Advance(t)
       ELSE pc' = [pc EXCEPT ![t] = "failed"] /\ UNCHANGED step

ThreadPanic(t) ==
    /\ Running(t, "panic")
    /\ Panic(t)
    /\ ProcessUnchanged

\* The process has exited: its first thread returned, failed or panicked.
Exited == pc[Harness] \in Ended /\ UNCHANGED tpVars

Init ==
    /\ K!Init
    /\ pc = [t \in Threads |-> IF t = Harness THEN "running" ELSE "unstarted"]
    /\ step = [t \in Threads |-> 1]
    /\ mode \in Modes

Thread(t) ==
    \/ ThreadEnable(t) \/ ThreadApply(t) \/ ThreadApplyAll(t) \/ ThreadSpawn(t)
    \/ ThreadJoin(t) \/ ThreadCollect(t) \/ ThreadAssert(t) \/ ThreadRequire(t)
    \/ ThreadPanic(t)

Next ==
    \/ \E t \in Threads : Thread(t) /\ UNCHANGED mode
    \/ Exited

Spec == Init /\ [][Next]_tpVars

-----------------------------------------------------------------------------
(* Properties.                                                             *)

\* The binary succeeds, however its threads interleave: the first thread
\* neither panics (a failed unwrap, assert! or println!, or a join of a
\* thread that ended otherwise than asserted) nor reports a failed test.
\* Each filter must stay on the thread that applied it and the threads it
\* starts afterwards, and never deny a later step of another thread.
BinarySucceeds == pc[Harness] \notin {"failed", "panicked"}

=============================================================================
