------------------------------- MODULE Process -------------------------------
(***************************************************************************)
(* A process of several OS threads, each building its own SafetyContext  *)
(* and holding its own chain of installed filters, as the kernel tracks   *)
(* seccomp filters and landlock domains per thread.                       *)
(*  - a new thread starts with a copy of its parent's chain;              *)
(*  - apply_to_current_thread adds a filter to the caller's chain only;   *)
(*  - apply_to_all_threads asks the kernel to synchronise the caller's    *)
(*    seccomp filters to every thread (SECCOMP_FILTER_FLAG_TSYNC), which  *)
(*    it refuses when some thread holds a seccomp filter that is not in   *)
(*    the caller's chain; landlock domains are never synchronised;        *)
(*  - every syscall a thread issues is decided by its whole chain.         *)
(* The threads' contexts are SafetyContext's state, one per thread.        *)
(***************************************************************************)
EXTENDS Integers, Sequences, FiniteSets, SeccompFilter

LOCAL INSTANCE SequencesExt

CONSTANTS
    Threads,       \* the threads the process may run
    Main,          \* the thread running main()
    Catalogue, ExistingPaths, MaxFilters, CompilerLimit,
    Calls          \* the syscall invocations the threads issue

ASSUME Main \in Threads

VARIABLES
    spawned,   \* the threads started so far
    ctx,       \* thread -> its SafetyContext
    filters,   \* thread -> its installed filter chain, oldest first
    synced,    \* the filters apply_to_all_threads has installed
    lastCall   \* the last syscall issued: thread, call, whether the thread held
               \* a filter, and the decision

vars == <<spawned, ctx, filters, synced, lastCall>>

\* Thread t's context, seen through SafetyContext's operators.
C(t) == INSTANCE SafetyContext
            WITH seccompRules <- ctx[t].seccompRules,
                 landlockRules <- ctx[t].landlockRules,
                 enabled <- ctx[t].enabled,
                 status <- ctx[t].status,
                 error <- ctx[t].error,
                 installed <- filters[t]

Fresh == C(Main)!FreshContext
NoError == C(Main)!NoError
NoCall == [thread |-> Main, call |-> Call("", << >>), filtered |-> FALSE, allowed |-> FALSE]

\* The clone() std::thread::spawn issues.
CloneCall == Call("clone", << >>)

\* The filter thread t installs: its compiled policy, marked with t.  The
\* kernel tells filters apart by identity, not by content: two threads
\* installing the same rules hold two distinct filters.
Installed(t) ==
    LET f == C(t)!CompiledFilter IN [seccomp |-> f.seccomp, landlock |-> f.landlock, by |-> t]

Init ==
    /\ spawned = {Main}
    /\ ctx = [t \in Threads |-> Fresh]
    /\ filters = [t \in Threads |-> << >>]
    /\ synced = {}
    /\ lastCall = NoCall

\* std::thread::spawn: the child starts with the parent's filter chain
\* (its seccomp filters and its landlock domain).
Spawn(t, child) ==
    /\ t \in spawned
    /\ child \notin spawned
    /\ ChainAdmits(filters[t], CloneCall)
    /\ spawned' = spawned \cup {child}
    /\ filters' = [filters EXCEPT ![child] = filters[t]]
    /\ lastCall' = [thread |-> t, call |-> CloneCall, filtered |-> filters[t] # << >>,
                    allowed |-> TRUE]
    /\ UNCHANGED <<ctx, synced>>

Enable(t, rs) ==
    /\ t \in spawned
    /\ ctx[t].status = "building"
    /\ \E c \in C(t)!EnableOutcomes(rs) : ctx' = [ctx EXCEPT ![t] = c]
    /\ UNCHANGED <<spawned, filters, synced, lastCall>>

ApplyToCurrentThread(t) ==
    /\ t \in spawned
    /\ ctx[t].status = "building"
    /\ ctx' = [ctx EXCEPT ![t] = C(t)!ApplyOutcome(FALSE)]
    /\ filters' = IF C(t)!ApplyError(FALSE) = NoError
                  THEN [filters EXCEPT ![t] = Append(@, Installed(t))]
                  ELSE filters
    /\ UNCHANGED <<spawned, synced, lastCall>>

\* What TSYNC gives a sibling: the seccomp filter only, since a landlock
\* domain (landlock_restrict_self) restricts the calling thread alone.
SeccompOnly(f) == [f EXCEPT !.landlock = [p \in {} |-> {}]]

\* A thread's seccomp filters, its landlock domain left out.
SeccompPart(chain) == [i \in DOMAIN chain |-> SeccompOnly(chain[i])]

\* The kernel synchronises only when every other thread's seccomp filters
\* are ancestors of the caller's: the same filters, oldest first.
CanSync(t) == \A u \in spawned \ {t} : IsPrefix(SeccompPart(filters[u]), SeccompPart(filters[t]))

\* apply_to_all_threads: SafetyContext's own checks, then the kernel's.
SyncError(t) ==
    IF C(t)!ApplyError(TRUE) # NoError THEN C(t)!ApplyError(TRUE)
    ELSE IF ~CanSync(t) THEN C(t)!FromSeccompilerError
    ELSE NoError

\* Sibling u after the caller's seccomp filters became those of chain:
\* it gains the ones it lacks and keeps its own landlock domain.
SyncedChain(u, chain) == filters[u] \o SeccompPart(SubSeq(chain, Len(filters[u]) + 1, Len(chain)))

ApplyToAllThreads(t) ==
    LET chain == Append(filters[t], Installed(t)) IN
    /\ t \in spawned
    /\ ctx[t].status = "building"
    /\ ctx' = [ctx EXCEPT ![t] = [C(t)!ApplyOutcome(TRUE) EXCEPT
                                     !.status = IF SyncError(t) = NoError THEN "applied" ELSE "failed",
                                     !.error = SyncError(t)]]
    /\ IF SyncError(t) = NoError
       THEN /\ filters' = [u \in Threads |->
                             CASE u = t         -> chain
                               [] u \in spawned -> SyncedChain(u, chain)
                               [] OTHER         -> filters[u]]
            /\ synced' = synced \cup {Installed(t)}
       ELSE UNCHANGED <<filters, synced>>
    /\ UNCHANGED <<spawned, lastCall>>

New(t) ==
    /\ t \in spawned
    /\ ctx[t].status \in {"failed", "applied"}
    /\ ctx' = [ctx EXCEPT ![t] = Fresh]
    /\ UNCHANGED <<spawned, filters, synced, lastCall>>

\* A thread issues a syscall; its filter chain decides.
Issue(t, call) ==
    /\ t \in spawned
    /\ lastCall' = [thread |-> t, call |-> call, filtered |-> filters[t] # << >>,
                    allowed |-> ChainAdmits(filters[t], call)]
    /\ UNCHANGED <<spawned, ctx, filters, synced>>

Next ==
    \E t \in Threads :
        \/ \E child \in Threads : Spawn(t, child)
        \/ \E rs \in Catalogue : Enable(t, rs)
        \/ ApplyToCurrentThread(t)
        \/ ApplyToAllThreads(t)
        \/ New(t)
        \/ \E call \in Calls : Issue(t, call)

Spec == Init /\ [][Next]_vars

-----------------------------------------------------------------------------
(* Properties.                                                             *)

\* apply_to_all_threads restricts every thread of the process: whatever a
\* filter it installed denies stays denied to every running thread,
\* threads spawned before the apply and threads that installed filters of
\* their own included.  The kernel synchronises seccomp filters only, so
\* this rests on SafetyContext refusing landlock rules there
\* (LandlockNoThreadSync) and on the refused sync leaving no thread half
\* restricted.
SyncedFiltersOnEveryThread ==
    \A f \in synced, u \in spawned, call \in Calls :
        ~ChainAdmits(<< f >>, call) => ~ChainAdmits(filters[u], call)

=============================================================================
