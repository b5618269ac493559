---------------------------- MODULE InheritFilters ----------------------------
(***************************************************************************)
(* The test binary of extrasafe_rulesets/tests/inherit_filters.rs.  The   *)
(* libtest harness thread spawns one thread per test, both at once or    *)
(* one after the other (its test-threads setting is the mode), collects  *)
(* their results and prints the report.  Each test applies a             *)
(* SafetyContext to its own thread and then checks that a thread it      *)
(* spawns, or a process it forks, is held by the same filter.            *)
(***************************************************************************)
EXTENDS ThreadPrograms, RuleSets

IFHarness == "harness"
ThreadTest == "new_thread_inherits_restrictions"
ProcessTest == "new_process_inherits_restrictions"
IFThreads == {IFHarness, ThreadTest, ProcessTest, "spawned_thread", "cat"}

\* libtest runs the tests in name order, as many at a time as its
\* test-threads setting allows (the default is the number of CPUs; 1 runs
\* them one after the other), and prints the report at the end.
IFModes == {1, 2}

HarnessProgram(n) ==
    IF n = 1
    THEN << SpawnStep(ProcessTest), CollectStep(ProcessTest, "done"), SpawnStep(ThreadTest),
            CollectStep(ThreadTest, "done"), AssertStep(WriteStdout, TRUE) >>
    ELSE << SpawnStep(ProcessTest), SpawnStep(ThreadTest), CollectStep(ProcessTest, "done"),
            CollectStep(ThreadTest, "done"), AssertStep(WriteStdout, TRUE) >>

TestPrograms ==
    [new_thread_inherits_restrictions |->
        << EnableStep(ThreadsCreate), ApplyStep, SpawnStep("spawned_thread"),
           JoinStep("spawned_thread", "done") >>,
     spawned_thread |-> << AssertStep(CreateFile("/tmp"), FALSE) >>,
     new_process_inherits_restrictions |->
        << EnableStep(ForkAndExec), ApplyStep, SpawnStep("cat"), JoinStep("cat", "failed") >>,
     cat |-> << RequireStep(Call("execve", << >>)), RequireStep(OpenReadonly("ld.so")) >>]

IFPrograms ==
    [n \in IFModes |-> [t \in IFThreads |-> IF t = IFHarness THEN HarnessProgram(n) ELSE TestPrograms[t]]]

=============================================================================
