------------------------------ MODULE RuleSets ------------------------------
(***************************************************************************)
(* The RuleSet catalogue of extrasafe, as the values the RuleSet trait's   *)
(* queries return: name(), simple_rules() (syscalls allowed               *)
(* unconditionally), conditional_rules() (syscall -> SeccompRules) and    *)
(* the landlock path rules.  A syscall is its name; a SeccompRule is the  *)
(* syscall with its sequence of argument filters.                          *)
(*                                                                         *)
(* The Time and UserId rulesets are built by methods that the allow!      *)
(* macro generates from a nested declaration: a method either inserts one *)
(* syscall or chains the methods declared inside it.  Such a declaration  *)
(* is a method tree here, and Grants expands it.                           *)
(***************************************************************************)
EXTENDS Integers, Sequences, FiniteSets

\* seccompiler's SeccompCondition: argument index, comparator, mask, operand.
\* Only the comparator kinds the catalogue uses carry a mask.
ArgFilter(arg, cmp, mask, value) ==
    [arg |-> arg, cmp |-> cmp, mask |-> mask, value |-> value]

\* SeccompRule::new(sysno).and_condition(c1).and_condition(c2) ...
SeccompRule(sysno, conds) == [syscall |-> sysno, conds |-> conds]

NoConditional == [s \in {} |-> {}]
NoPaths == [p \in {} |-> {}]

\* A RuleSet without landlock rules, as the trait's default methods leave it.
SimpleRuleSet(name, simple, conditional) ==
    [name |-> name, simple |-> simple, conditional |-> conditional,
     landlock |-> NoPaths]

-----------------------------------------------------------------------------
(* The fixed rulesets.                                                     *)

Kill == SimpleRuleSet("Kill", {"kill"}, NoConditional)

Truncate == SimpleRuleSet("Truncate", {"truncate", "ftruncate"}, NoConditional)

Pipes == SimpleRuleSet("Pipes", {"pipe", "pipe2"}, NoConditional)

SocketPair == SimpleRuleSet("SocketPair", {"socketpair"}, NoConditional)

\* libc constants the conditional rules compare against.
AF_UNIX == 1
AF_INET == 2
AF_INET6 == 10
AF_NETLINK == 16
AF_PACKET == 17
SOCK_STREAM == 1
SOCK_DGRAM == 2
SOCK_RAW == 3

\* Netlink: socket is allowed when arg0 & AF_NETLINK == AF_NETLINK and
\* arg1 & SOCK_RAW == SOCK_RAW.
NetlinkSocketRule ==
    SeccompRule("socket", << ArgFilter(0, "MaskedEq", AF_NETLINK, AF_NETLINK),
                             ArgFilter(1, "MaskedEq", SOCK_RAW, SOCK_RAW) >>)

Netlink ==
    SimpleRuleSet("Netlink", {}, [s \in {"socket"} |-> {NetlinkSocketRule}])

\* The custom RuleSet of the user guide: reboot unconditionally, and socket
\* when arg0 & SOCK_STREAM == SOCK_STREAM ("only allow the creation of
\* stream (tcp) sockets").
MyRuleSetSocketRule ==
    SeccompRule("socket", << ArgFilter(0, "MaskedEq", SOCK_STREAM, SOCK_STREAM) >>)

MyRuleSet ==
    SimpleRuleSet("MyRuleSet", {"reboot"},
                  [s \in {"socket"} |-> {MyRuleSetSocketRule}])

\* danger_zone::Threads::nothing().allow_create() and danger_zone::ForkAndExec.
\* danger_zone is not in this repository: Threads' create method is clone,
\* ForkAndExec is abstracted to clone, execve and wait4.
ThreadsCreate == SimpleRuleSet("Threads", {"clone"}, NoConditional)
ForkAndExec == SimpleRuleSet("ForkAndExec", {"clone", "execve", "wait4"}, NoConditional)

\* with_landlock of the user guide: SystemIO::nothing()
\* .allow_create_in_dir(dir).allow_write_file(dir), a landlock rule giving
\* create and write rights on dir.  SystemIO is not in this repository; the
\* seccomp side of these methods is abstracted to openat and write (the
\* example prints afterwards "because read/write syscalls are unrestricted").
SystemIOCreateInDir(dir) ==
    [name |-> "SystemIO", simple |-> {"openat", "write"}, conditional |-> NoConditional,
     landlock |-> [p \in {dir} |-> {"create", "write"}]]

\* open(2) flags: File::create opens O_WRONLY | O_CREAT | O_TRUNC.
O_WRONLY == 1
O_RDWR == 2
O_CREAT == 64
O_TRUNC == 512

\* SystemIO::nothing().allow_open_readonly() of simple_example: openat
\* only with no write or create bit in its flags (arg2).  SystemIO is not
\* in this repository.
SystemIOReadonly ==
    SimpleRuleSet("SystemIO", {},
        [s \in {"openat"} |->
            {SeccompRule("openat", << ArgFilter(2, "MaskedEq", O_WRONLY + O_RDWR + O_CREAT, 0) >>)}])

\* SystemIO::nothing().allow_stdout().allow_stderr() of
\* no_files_allow_stdout: write on fd 1 or on fd 2.
SystemIOStdout ==
    SimpleRuleSet("SystemIO", {},
        [s \in {"write"} |-> {SeccompRule("write", << ArgFilter(0, "Eq", 0, fd) >>) : fd \in {1, 2}}])

\* Networking::nothing().allow_start_tcp_clients().allow_running_tcp_clients()
\* of simple_example: TCP sockets, connect, and reading and writing them.
\* Networking is not in this repository.
NetworkingTcpClients ==
    SimpleRuleSet("Networking", {"connect", "read", "write"},
        [s \in {"socket"} |->
            {SeccompRule("socket", << ArgFilter(0, "Eq", 0, AF_INET),
                                      ArgFilter(1, "Eq", 0, SOCK_STREAM) >>)}])

\* extrasafe's BasicRuleset (not in this repository): what every thread
\* needs to write, wait and exit.
BasicRuleset == SimpleRuleSet("BasicRuleset", {"write", "futex", "exit"}, NoConditional)

-----------------------------------------------------------------------------
(* Method trees of the allow! macro.  A leaf inserts its syscall into the *)
(* ruleset's syscall set; a block calls its inner methods in order.  A    *)
(* method declared "unsafe fn" returns YesReally<Self>.                    *)

Leaf(unsafe, sysno) == [unsafe |-> unsafe, syscall |-> sysno, inner |-> << >>]
Block(unsafe, inner) == [unsafe |-> unsafe, syscall |-> "", inner |-> inner]

IsLeaf(tree, m) == tree[m].inner = << >>

\* A block that chains only its first inner method, as if the chain
\* stopped after one call.
RECURSIVE GrantsFirstInner(_, _)
GrantsFirstInner(tree, m) ==
    IF IsLeaf(tree, m)
    THEN {tree[m].syscall}
    ELSE GrantsFirstInner(tree, tree[m].inner[1])

\* A block that also inserts a syscall of its own, as if the block rule
\* kept the leaf rule's insert.
RECURSIVE GrantsWithBlock(_, _)
GrantsWithBlock(tree, m) ==
    IF IsLeaf(tree, m)
    THEN {tree[m].syscall}
    ELSE {tree[m].syscall} \cup UNION {GrantsWithBlock(tree, tree[m].inner[i]) : i \in DOMAIN tree[m].inner}

\* The syscalls a generated method inserts: its own, or those of every
\* method its block chains.
RECURSIVE Grants(_, _)
Grants(tree, m) ==
    IF IsLeaf(tree, m)
    THEN {tree[m].syscall}
    ELSE UNION {Grants(tree, tree[m].inner[i]) : i \in DOMAIN tree[m].inner}

\* The syscalls a chain of method calls on Self::default() inserts.
ChainGrants(tree, chain) == UNION {Grants(tree, chain[i]) : i \in DOMAIN chain}

\* A constructor that hands back YesReally<Self> when its first call is an
\* unsafe method.
ChainIsWrappedFirst(tree, chain) == chain # << >> /\ tree[chain[1]].unsafe

\* A chain hands back YesReally<Self> when its last call is an unsafe method.
ChainIsWrapped(tree, chain) == chain # << >> /\ tree[chain[Len(chain)]].unsafe

TimeMethods ==
    [allow_everything      |-> Block(TRUE, <<"allow_modify", "allow_query_and_sleep">>),
     allow_modify          |-> Block(TRUE, <<"allow_adjtimex", "allow_clock_adjtime",
                                             "allow_clock_settime", "allow_settimeofday">>),
     allow_adjtimex        |-> Leaf(TRUE, "adjtimex"),
     allow_clock_adjtime   |-> Leaf(TRUE, "clock_adjtime"),
     allow_clock_settime   |-> Leaf(TRUE, "clock_settime"),
     allow_settimeofday    |-> Leaf(TRUE, "settimeofday"),
     allow_query_and_sleep |-> Block(FALSE, <<"allow_query", "allow_sleep">>),
     allow_query           |-> Block(FALSE, <<"allow_gettime", "allow_gettimeofday",
                                              "allow_time">>),
     allow_gettime         |-> Block(FALSE, <<"allow_clock_getres", "allow_clock_gettime">>),
     allow_clock_getres    |-> Leaf(FALSE, "clock_getres"),
     allow_clock_gettime   |-> Leaf(FALSE, "clock_gettime"),
     allow_gettimeofday    |-> Leaf(FALSE, "gettimeofday"),
     allow_time            |-> Leaf(FALSE, "time"),
     allow_sleep           |-> Block(FALSE, <<"allow_clock_nanosleep", "allow_nanosleep">>),
     allow_clock_nanosleep |-> Leaf(FALSE, "clock_nanosleep"),
     allow_nanosleep       |-> Leaf(FALSE, "nanosleep")]

\* Time's constructors, as the chains they call on Self::default().
TimeConstructors ==
    [everything       |-> <<"allow_everything">>,
     modify           |-> <<"allow_modify">>,
     nothing          |-> << >>,
     query            |-> <<"allow_query">>,
     query_and_modify |-> <<"allow_query", "allow_modify">>,
     query_and_sleep  |-> <<"allow_query_and_sleep">>,
     sleep            |-> <<"allow_sleep">>]

UserIdMethods ==
    [allow_everything |-> Block(TRUE, <<"allow_set", "allow_get">>),
     allow_set        |-> Block(TRUE, <<"allow_setfsuid", "allow_setresuid",
                                        "allow_setreuid", "allow_setuid">>),
     allow_setfsuid   |-> Leaf(TRUE, "setfsuid"),
     allow_setresuid  |-> Leaf(TRUE, "setresuid"),
     allow_setreuid   |-> Leaf(TRUE, "setreuid"),
     allow_setuid     |-> Leaf(TRUE, "setuid"),
     allow_get        |-> Block(FALSE, <<"allow_geteuid", "allow_getresuid",
                                         "allow_getuid">>),
     allow_geteuid    |-> Leaf(FALSE, "geteuid"),
     allow_getresuid  |-> Leaf(FALSE, "getresuid"),
     allow_getuid     |-> Leaf(FALSE, "getuid")]

UserIdConstructors ==
    [everything |-> <<"allow_everything">>,
     get        |-> <<"allow_get">>,
     nothing    |-> << >>,
     set        |-> <<"allow_set">>]

\* The unit tests of time.rs and user_id.rs: per constructor, whether the
\* test unwraps it with yes_really() and the simple_rules() it expects.
TimeUnitTests ==
    [everything       |-> [wrapped |-> TRUE,
                           syscalls |-> {"adjtimex", "clock_adjtime", "clock_getres", "clock_gettime",
                                         "clock_nanosleep", "clock_settime", "gettimeofday",
                                         "nanosleep", "settimeofday", "time"}],
     modify           |-> [wrapped |-> TRUE,
                           syscalls |-> {"adjtimex", "clock_adjtime", "clock_settime", "settimeofday"}],
     nothing          |-> [wrapped |-> FALSE, syscalls |-> {}],
     query            |-> [wrapped |-> FALSE,
                           syscalls |-> {"clock_getres", "clock_gettime", "gettimeofday", "time"}],
     query_and_modify |-> [wrapped |-> TRUE,
                           syscalls |-> {"adjtimex", "clock_adjtime", "clock_getres", "clock_gettime",
                                         "clock_settime", "gettimeofday", "settimeofday", "time"}],
     query_and_sleep  |-> [wrapped |-> FALSE,
                           syscalls |-> {"clock_getres", "clock_gettime", "clock_nanosleep",
                                         "gettimeofday", "nanosleep", "time"}],
     sleep            |-> [wrapped |-> FALSE, syscalls |-> {"clock_nanosleep", "nanosleep"}]]

UserIdUnitTests ==
    [everything |-> [wrapped |-> TRUE,
                     syscalls |-> {"geteuid", "getresuid", "getuid", "setfsuid", "setresuid",
                                   "setreuid", "setuid"}],
     get        |-> [wrapped |-> FALSE, syscalls |-> {"geteuid", "getresuid", "getuid"}],
     set        |-> [wrapped |-> TRUE, syscalls |-> {"setfsuid", "setresuid", "setreuid", "setuid"}],
     nothing    |-> [wrapped |-> FALSE, syscalls |-> {}]]

\* impl RuleSet for Time / UserId: simple_rules() is the syscall set.
TimeRuleSet(syscalls) == SimpleRuleSet("Time", syscalls, NoConditional)
UserIdRuleSet(syscalls) == SimpleRuleSet("UserId", syscalls, NoConditional)

TimeQuery == TimeRuleSet(ChainGrants(TimeMethods, TimeConstructors.query))
TimeQueryAndSleep ==
    TimeRuleSet(ChainGrants(TimeMethods, TimeConstructors.query_and_sleep))
UserIdGet == UserIdRuleSet(ChainGrants(UserIdMethods, UserIdConstructors.get))

=============================================================================
