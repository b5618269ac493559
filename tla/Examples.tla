------------------------------- MODULE Examples -------------------------------
(***************************************************************************)
(* The other binaries of extrasafe_rulesets, each one process:            *)
(*   - the user-guide example, built with or without the landlock        *)
(*     feature, whose main runs each example function on a new thread;   *)
(*   - the no_files_allow_stdout example, which restricts every thread;  *)
(*   - the tests tests_can_fail and test_ref_ruleset.                     *)
(* An example is run on its own (cargo run: its first thread runs main)  *)
(* or as a test (cargo test: libtest's thread spawns run_main, which      *)
(* calls main, and prints the report).                                    *)
(***************************************************************************)
EXTENDS ThreadPrograms, RuleSets

ExHarness == "harness"
ExThreads == {ExHarness, "main", "simple_example", "custom_ruleset", "with_landlock",
              "seccomp_active_tests_fail", "ref_ruleset"}

\* The directories with_landlock creates with tempdir().
ExPaths == {"tmp_dir_allow"}

\* simple_example applying its filter to every thread.
SimpleExampleAllThreads ==
    << EnableStep(SystemIOReadonly), EnableStep(NetworkingTcpClients), ApplyAllStep,
       AssertStep(CreateFile("/tmp"), FALSE) >>

\* user-guide.rs: simple_example.
SimpleExample ==
    << EnableStep(SystemIOReadonly), EnableStep(NetworkingTcpClients), ApplyStep,
       AssertStep(CreateFile("/tmp"), FALSE) >>

\* user-guide.rs: custom_ruleset.
CustomRuleset == << EnableStep(MyRuleSet), ApplyStep >>

\* user-guide.rs: with_landlock; UdpSocket::bind is socket(AF_INET, SOCK_DGRAM).
WithLandlock ==
    << EnableStep(SystemIOCreateInDir("tmp_dir_allow")), ApplyStep,
       AssertStep(CreateFile("tmp_dir_deny"), FALSE), AssertStep(CreateFile("tmp_dir_allow"), TRUE),
       AssertStep(WriteStdout, TRUE), AssertStep(WriteStderr, TRUE),
       AssertStep(Call("socket", << AF_INET, SOCK_DGRAM >>), FALSE) >>

\* user-guide.rs: main spawns each example and unwraps its join.
UserGuideMain(landlock) ==
    << SpawnStep("simple_example"), JoinStep("simple_example", "done"),
       SpawnStep("custom_ruleset"), JoinStep("custom_ruleset", "done") >>
    \o (IF landlock THEN << SpawnStep("with_landlock"), JoinStep("with_landlock", "done") >>
        ELSE << >>)

\* no_files_allow_stdout.rs: main.
NoFilesMain ==
    << AssertStep(WriteStdout, TRUE), EnableStep(SystemIOStdout), ApplyAllStep,
       AssertStep(CreateFile("."), FALSE), AssertStep(WriteStdout, TRUE),
       AssertStep(WriteStderr, TRUE) >>

\* tests_can_fail.rs: seccomp_active_tests_fail, a #[should_panic] test.
SeccompActiveTestsFail == << EnableStep(BasicRuleset), ApplyStep, PanicStep >>

\* test_ref_ruleset.rs: ref_ruleset enables a &dyn RuleSet.
RefRuleset == << EnableStep(BasicRuleset), ApplyStep >>

\* libtest with a single test: print "running 1 test", spawn it, collect
\* it, print its result and the summary.
Libtest(test, outcome) ==
    << AssertStep(WriteStdout, TRUE), SpawnStep(test), CollectStep(test, outcome),
       AssertStep(WriteStdout, TRUE) >>

\* The binaries, and how each is run.
ExModes ==
    {[bin |-> b, run |-> r] : b \in {"user_guide", "user_guide_landlock", "no_files"},
                              r \in {"cargo_run", "cargo_test"}}
    \cup {[bin |-> b, run |-> "cargo_test"] : b \in {"tests_can_fail", "test_ref_ruleset"}}

\* The program of main, and of the threads it spawns, in a binary.
MainOf(bin) ==
    CASE bin = "user_guide"          -> UserGuideMain(FALSE)
      [] bin = "user_guide_landlock" -> UserGuideMain(TRUE)
      [] bin = "no_files"            -> NoFilesMain

ExampleThreads ==
    [simple_example |-> SimpleExample, custom_ruleset |-> CustomRuleset,
     with_landlock |-> WithLandlock]

\* A mode's programs: libtest on the first thread under cargo test.
ModePrograms(m) ==
    [t \in ExThreads |->
        CASE m.bin = "tests_can_fail" ->
                 IF t = ExHarness THEN Libtest("seccomp_active_tests_fail", "panicked")
                 ELSE IF t = "seccomp_active_tests_fail" THEN SeccompActiveTestsFail ELSE << >>
          [] m.bin = "test_ref_ruleset" ->
                 IF t = ExHarness THEN Libtest("ref_ruleset", "done")
                 ELSE IF t = "ref_ruleset" THEN RefRuleset ELSE << >>
          [] t = ExHarness ->
                 IF m.run = "cargo_run" THEN MainOf(m.bin) ELSE Libtest("main", "done")
          [] t = "main" -> IF m.run = "cargo_test" THEN MainOf(m.bin) ELSE << >>
          [] t \in DOMAIN ExampleThreads /\ m.bin # "no_files" -> ExampleThreads[t]
          [] OTHER -> << >>]

ExPrograms == [m \in ExModes |-> ModePrograms(m)]

=============================================================================
