# TLA+ models of extrasafe

extrasafe lets a Rust program restrict its own syscalls (seccomp) and its
own filesystem access (landlock). The program writes a `RuleSet` per
capability. A `SafetyContext` merges the enabled rulesets and reports a
conflict when two of them disagree. `apply_to_current_thread` or
`apply_to_all_threads` then compiles the result and installs it in the
kernel. Installation cannot be undone: filters only accumulate, they are
ANDed, and a new thread starts with its parent's filters.

The modules here model that machinery and the programs in the repository
that use it, and check them with TLC. Source paths below are relative to
the repository root, which is `src/` in this workspace.

## Inventory

| Component | Source | State it keeps | Operations | Module |
|---|---|---|---|---|
| RuleSet catalogue | `src/builtins/{kill,truncate,pipes}.rs`, `network/{netlink,socket_pair}.rs` | none (values) | `name`, `simple_rules`, `conditional_rules` | `RuleSets` |
| allow! macro, YesReally | `src/builtins/allow.rs`, `time.rs`, `user_id.rs`, `extrasafe/src/yes_really.rs`, `src/builtins/mod.rs` | `syscalls: BTreeSet<Sysno>` of the value being built; the YesReally wrapper | generated `allow_*` methods, constructors, `yes_really` | `RuleSets`, `AllowBuilder` |
| Error taxonomy | `src/error.rs` | none | the `ExtraSafeError` variants, `Display`, the `From` conversions | `SafetyContext` (kinds, what a message states, which failure becomes which kind) |
| Policy aggregator (`SafetyContext::enable`) | not in this repository (extrasafe's `lib.rs`) | syscall table (simple or conditional, with owners), path table, enabled rulesets | `new`, `enable` | `SafetyContext` (modelled from the spec) |
| Application protocol | not in this repository | the thread's installed filters | `apply_to_current_thread`, `apply_to_all_threads` | `SafetyContext`, `Process` (modelled from the spec) |
| Condition model (seccompiler) | external crate | none | argument comparisons `Eq`..`MaskedEq` | `SeccompFilter` (modelled from the spec) |
| Threads and the kernel | kernel; exercised by `extrasafe_rulesets/tests/inherit_filters.rs` | each thread's filter chain | spawn and fork (inherit), TSYNC, every syscall; the two tests under the libtest harness | `Process`, `ThreadPrograms`, `InheritFilters` |
| Example: user guide | `extrasafe_rulesets/examples/user-guide.rs` | | `MyRuleSet`; `main` running `simple_example`, `custom_ruleset`, `with_landlock` on fresh threads | `RuleSets`, `MCSocketRules`, `MCProcess`, `Examples` |
| Example: server with database | `extrasafe_rulesets/examples/server_with_database.rs` | threads, the `SegQueue`, the listener, a `bounded(1)` channel, the db table | main, `run_server`, `run_db`, the clients | `ServerWithDatabase` |
| BPF compilation, landlock syscalls | external crates | | | not modelled |
| Example `no_files_allow_stdout.rs`; tests `tests_can_fail.rs`, `test_ref_ruleset.rs` | `extrasafe_rulesets/` | per-thread program position | `main`, the tests, under `cargo run` and libtest | `Examples` |
| `extrasafe_rulesets/src/lib.rs` | | none | re-exports | not modelled (no behaviour) |

How the parts interact:

1. RuleSet values, some built with the allow! methods, are enabled into a
   `SafetyContext`.
2. The context merges them, one call at a time, into a syscall table and a
   path table.
3. `apply` checks the tables and installs a filter on the calling thread,
   or on every thread with TSYNC.
4. The kernel decides every later syscall against the thread's whole chain
   of filters.
5. A thread spawned later inherits the chain it was spawned with.

### What is hard in this code

- **Merging is incremental, but its result must not depend on order.**
  - Simple and conditional rules for one syscall collide in either order.
  - Two differently named rulesets may not both name a path.
  - The same ruleset name unions its rights.
  - Which collision is reported first depends on `HashMap` iteration order.
- **Filters are per thread.**
  - A child thread inherits its parent's filters, so spawning before or
    after `apply` decides what the child can do.
  - TSYNC is refused when a sibling has installed its own filter.
  - Landlock cannot be synchronised at all (`LandlockNoThreadSync`).
- **Masked-equality argument filters.** A check like
  `arg & MASK == MASK` admits every value that has those bits set, not
  only the one constant.
- **The allow! macro nests methods.** An unsafe method returns
  `YesReally<Self>`, but inside a block the generated chain calls
  `.yes_really()` on inner unsafe methods itself. Safety therefore relies
  on the macro refusing unsafe methods inside safe blocks.
- **The server example has real concurrency.**
  - Five threads share one FIFO queue.
  - A single consumer does an `is_empty`/`pop` check-then-act.
  - The read handler blocks in `recv()` on a current-thread runtime.
  - Startup is "synchronised" by a 100 ms sleep.

## Modules

- **`RuleSets`** holds the catalogue as values, translated from the builtins.
  - A ruleset is a record `[name, simple, conditional, landlock]`.
  - A seccomp rule is its syscall plus a sequence of argument filters.
  - The allow! declarations of `time.rs` and `user_id.rs` are *method
    trees*: a leaf inserts one syscall, and a block chains inner methods.
  - `Grants` (RECURSIVE) expands a method. `ChainGrants` expands a
    constructor's chain on `Self::default()`.
- **`SeccompFilter`** is the condition model of seccompiler.
  - `CondHolds` evaluates one comparison. `MaskedEq` is `(arg & mask) = value`, written with `Bitwise`.
  - A policy admits a call when the syscall is simple, or when some
    conditional rule's filters all hold.
  - A chain of filters admits a call only if every layer admits it.
- **`SafetyContext`** is one thread's context. It is modelled from the
  spec, because `lib.rs` is not in this repository.
  - Variables: the syscall table (`seccompRules`), the path table
    (`landlockRules`), `enabled`, `status`, `error` and the thread's
    `installed` filters.
  - `Enable(rs)` runs the three merge loops in their order: simple, then
    conditional, then paths. It fails on the first loop that meets a
    collision, with any of that loop's collisions.
  - `Apply(allThreads)` makes the checks in order: landlock plus all
    threads, empty policy, compiler limit, missing path, kernel filter
    limit. Only then does it install.
  - `New` is `SafetyContext::new()` after the previous context was
    consumed.
- **`SafetyContextAbstract`** is what a context promises, stated over the
  *set* of rulesets requested.
  - `enable` fails exactly when that set contains a simple/conditional
    clash or a path under two names.
  - The installed filter is the set-wise union.
  - `SafetyContext` refines it under `requested <- enabled`.
- **`Process`** runs several threads, each with a `SafetyContext` (an
  `INSTANCE` per thread) and a filter chain.
  - A filter is marked with the thread that installed it
    (`Installed`): the kernel tells filters apart by identity, so two
    threads installing the same rules hold different filters.
  - `Spawn` copies the parent's chain, landlock domain included.
  - `ApplyToAllThreads` adds the kernel's TSYNC precondition: every
    sibling's seccomp filters must be ancestors of the caller's
    (`CanSync`). TSYNC hands over seccomp filters only: a sibling gains
    the caller's seccomp filters it lacks and keeps its own landlock
    domain (`SyncedChain`), and the caller keeps its landlock domain
    alone. `synced` records the filters a successful sync installed.
  - `Issue` decides a syscall by the caller's chain.
- **`AllowBuilder`** is a value built with generated methods.
  - `CallMethod(m)` needs a plain `Self`, inserts `Grants(m)`, and wraps
    the result when `m` is unsafe.
  - `YesReally` unwraps.
  - The declarations considered are those the macro `Accepts`.
- **`ServerWithDatabase`** is the server example.
  - Each thread is a program counter. `main` is a straight line of
    spawns, a sleep and joins.
  - The queue, listener backlog, `bounded(1)` channel and database table
    are variables.
  - A thread's filters are sets of capabilities. A step needing a
    capability that some filter lacks fails, and the thread stops.
  - The db thread's loop checks the queue (`DbPoll`) and, when it is
    empty, sleeps 55 ms (`DbSleep`), a call its filter must admit.

- **`ThreadPrograms`** is one process of a test or example binary.
  - Each thread runs a program: a sequence of steps. A step is one of
    `Process`'s actions (`Enable`, `ApplyToCurrentThread`,
    `ApplyToAllThreads`, `Spawn`, `Issue`), a wait for another thread
    (`join`, libtest's collection of a result), or a panic.
  - The first thread (`Harness`) is libtest's thread under `cargo test`,
    or the thread running `main` under `cargo run`. The process exits
    when it ends.
  - `mode`, chosen at `Init`, is how the binary is built and run.
  - A failed `unwrap`/`assert!` is a panic. A forked process denied its
    loader exits with a failure status.
- **`InheritFilters`** gives `ThreadPrograms` the programs of
  `tests/inherit_filters.rs`: the harness, the two tests, the thread the
  first spawns and the `cat` process the second forks. The mode is
  libtest's test-threads setting (one test at a time, or both at once).
- **`Examples`** gives it the other binaries:
  - the user guide, with and without the `landlock` feature;
  - `no_files_allow_stdout`;
  - both of those under `cargo run` and `cargo test`;
  - `tests_can_fail` (a `#[should_panic]` test) and `test_ref_ruleset`.
  - `SystemIO`, `Networking` and `BasicRuleset` are not in this
    repository. They are abstracted in `RuleSets` to the syscalls of the
    methods called, with the read-only open and stdout/stderr rules as
    argument conditions.

MC modules (`MCSafetyContext`, `MCProcess`, `MCSocketRules`, `InheritFilters`, `Examples`,
`MCAllowBuilder`) give the constants for TLC.

## Runs

| Run | Checks | Result |
|---|---|---|
| `ctx_merge` | `TypeOK`, `ErrorNamesBothRulesets`, `ImplementsAbstract` over a 10-ruleset catalogue | passes, 324,864 states |
| `process_landlock` | `SyncedFiltersOnEveryThread`: 2 threads, Threads and the user guide's create-in-dir landlock ruleset, file opens inside and outside the allowed directory | passes, 304,836 states |
| `inherit_filters` | `BinarySucceeds`: both tests under the harness, sequential or concurrent | passes, 106 states |
| `examples` | `BinarySucceeds`: the user guide (with and without landlock) and `no_files_allow_stdout` under `cargo run` and `cargo test`, and the two remaining tests | passes, 103 states |
| `allow_builder` | `TypeOK`, `DangerousOnlyWhenConfirmed`, `GrantsMatchesReachableLeaves`, `ConstructorsMatchUnitTests` (every constructor's syscalls and wrapping against the unit tests of `time.rs` and `user_id.rs`) over Time, UserId and all 16 safe/unsafe assignments of a 4-method shape | passes, 51,909 states |
| `server_db` | `TypeOK`, `NoSyscallDenied`, `DbPopNeverEmpty`, `ReadReturnsWritesInOrder`, `NoAckedWriteLost`, `ReadEventuallyAnswered` | passes, 220 states |
| `netlink_socket` | `NetlinkAdmitsOnlyNetlinkSockets` | violated: `socket(AF_PACKET, SOCK_RAW)` is admitted |
| `myruleset_socket` | `MyRuleSetAdmitsOnlyStreamSockets` | violated: `socket(AF_UNIX, SOCK_DGRAM)` is admitted |
| `server_startup` | `ClientsNeverRefused` | violated: client1 connects before the server thread binds |

What some of the passing runs show:

- **`ErrorNamesBothRulesets`** is stated over what `Display` prints: the
  ruleset the message blames for the conditional rule has it, whichever
  of the two was enabled first.

- **`SyncedFiltersOnEveryThread`**: whatever a filter installed by
  `apply_to_all_threads` denies stays denied to every running thread.
  This covers threads spawned before the apply, and threads that have
  landlock domains or filters of their own. A sibling that installed its
  own filter makes the sync fail, and then nothing is installed. The
  kernel synchronises seccomp filters only. Without the
  `LandlockNoThreadSync` check, the worker could still create files
  outside the directory the caller's landlock rules allow.
- **`NoSyscallDenied`** (`server_db`): the db thread's sleep on an empty
  queue is admitted because its filter enables `Threads::allow_sleep`.
  Without that ruleset the first empty poll is denied.
- **`BinarySucceeds`** (`inherit_filters`): the tests apply with
  `apply_to_current_thread`. Had either used TSYNC, the other test's
  fork/exec or the harness's report would be denied, depending on the
  order the harness runs them.
- **`BinarySucceeds`** (`examples`): every binary succeeds however it is
  run. Each user-guide example restricts only the thread it runs on, so
  `main` can still spawn the next. With `simple_example` applying to all
  threads, the next `spawn` is refused and `main` panics.
  `no_files_allow_stdout` under `cargo test` also restricts libtest's
  thread; the report is written only because stdout stays allowed.
- **`NoAckedWriteLost`**: the server replies "ok" as soon as a write is
  queued. The rows are stored before exit only because main joins the
  reader, whose `List` the FIFO queue serves after the writes.

What the three violation runs show:

- **Netlink** masks `arg0` with `AF_NETLINK` (16). Every domain with bit
  4 set passes, `AF_PACKET` (17) among them, so the ruleset meant to
  "open a netlink-socket" also opens raw packet sockets.
- **The user guide's `MyRuleSet`** compares the *domain* (`arg0`) with
  `SOCK_STREAM`. It admits any `AF_UNIX` socket (datagram included) and
  refuses `AF_INET`, that is TCP, contrary to its comment "Only allow
  the creation of stream (tcp) sockets".
- **`main` of the server example** waits 100 ms and assumes the server
  thread has bound its listener by then. Nothing orders the two, so a
  slow server thread makes client1's request fail and main panic.

### Bounds

- **`MaxFilters`** is 1 for the context and 2 for threads. Two filters are
  enough for a TSYNC to be both refused (a sibling's own filter) and
  allowed (a chain prefix).
- **`CompilerLimit`** is 8. Enabling enough of the catalogue exceeds it.
- **Catalogue** (`MCSafetyContext`). It contains:
  - every merge case: shared simple syscalls (Time query and
    query_and_sleep);
  - two conditional rule lists on `socket` (Netlink, MyRuleSet);
  - a ruleset allowing `socket` unconditionally;
  - two landlock rulesets of one name on different paths;
  - a differently named landlock ruleset on the same path;
  - a path that does not exist.
- **`InheritFilters`**: test-threads 1 and 2 cover both orders of the
  tests and their interleaving; more test threads change nothing with
  two tests.
- **`Examples`**: each mode is a deterministic program; the modes are
  every way the binaries are built and run. `MaxFilters` is 2, which no
  example reaches: each applies once per thread.
- **Socket calls**: every pair from {AF_UNIX, AF_INET, AF_NETLINK,
  AF_PACKET} × {STREAM, DGRAM, RAW}.

### Fairness

- **`ServerWithDatabase` only**: weak fairness per thread. Every thread is
  an OS thread the scheduler keeps running. The db thread's poll loop
  sleeps and retries, so it is always able to step.
- **The other modules: none.** Their properties are safety properties.

## Not modelled

- **The BPF program seccompiler generates, and the landlock syscalls**:
  external crates. Compilation failure is the `CompilerLimit` check.
- **The relative order of the landlock and seccomp installs in `apply`**:
  that code is not in this repository. Both are installed in one step.
- **Which syscalls exactly `SystemIO`, `Networking` and `Threads` allow**:
  their source is not in this repository. `ServerWithDatabase` uses
  capability names taken from the method names the example calls.
- **`extrasafe_rulesets/src/lib.rs`**: module declarations and
  re-exports only.
- **The wording of `Display`, and `source()` of `ExtraSafeError`**:
  `Display` is modelled by what each message states, the syscall or path
  and the rulesets in their roles, which `ErrorNamesBothRulesets` checks.
  `source()` only exposes the wrapped error of an external crate.
- **`extrasafe/src/yes_really.rs`**: the extrasafe crate's copy of
  `YesReally`. The code here (`time.rs`, `user_id.rs`, `allow.rs`)
  uses the one in `src/builtins/mod.rs`, which `AllowBuilder` models.
- **The unit tests of `kill.rs`, `truncate.rs`, `socket_pair.rs` and
  `netlink.rs`**: each asserts the name and rules of one constant value,
  which the catalogue in `RuleSets` is translated from.

## Status

Modelled: the core (`SafetyContext` with its abstract spec, `Display`
and the `From` conversions of errors), `SeccompFilter`, `Process` (with
landlock, TSYNC and the kernel's filter limit), the catalogue and allow!
trees with their unit tests, the server example with acknowledged-write
durability, and every test and example binary as `ThreadPrograms`
processes.

Left open, and why:

- **Each server request on its own connection.** The example's clients
  make one request each, in the order `main` joins them, so a connection
  per request adds no behaviour the run does not already have.
- **A reference check of `CondHolds`.** Its comparators are
  seccompiler's, an external crate; such a check would test `Bitwise`
  rather than this repository.
- **The partial failure of `apply` with landlock rules**
  (`user-guide.rs:75`): which mechanism is installed first is decided in
  extrasafe's `lib.rs`, not in this repository.
