---------------------------- MODULE SafetyContext ----------------------------
(***************************************************************************)
(* SafetyContext: the policy aggregator and the application protocol of   *)
(* one thread.  enable(ruleset) merges a RuleSet's simple rules,          *)
(* conditional rules and landlock path rules into the context, failing on *)
(* a simple/conditional collision (ConditionalNoEffectError) or a path    *)
(* named by two differently named rulesets (DuplicatePath).               *)
(* apply_to_current_thread / apply_to_all_threads compile the table and   *)
(* install it, irreversibly, on the calling thread.                       *)
(*                                                                         *)
(* enable and apply take the context by value: after an error, or after  *)
(* apply, the context is gone.  New is the thread building a fresh        *)
(* SafetyContext::new() afterwards; what it installs is ANDed on top of   *)
(* the filters already installed.                                          *)
(***************************************************************************)
EXTENDS Integers, Sequences, FiniteSets, FiniteSetsExt

CONSTANTS
    Catalogue,     \* the RuleSet values the program may enable
    ExistingPaths, \* the landlock paths that exist and are accessible
    MaxFilters,    \* the seccomp filters the kernel accepts on one thread
    CompilerLimit  \* the rules the filter compiler fits in one program

ASSUME /\ MaxFilters \in Nat \ {0}
       /\ CompilerLimit \in Nat \ {0}

Syscalls == UNION {r.simple \cup DOMAIN r.conditional : r \in Catalogue}
Paths == UNION {DOMAIN r.landlock : r \in Catalogue}
Names == {r.name : r \in Catalogue}
NoOwner == ""

\* The three states of a syscall in the aggregator's table.
Unseen == [kind |-> "unseen", owners |-> {}, rules |-> {}]
Simple(owner) == [kind |-> "simple", owners |-> {owner}, rules |-> {}]

NoPath == [owner |-> NoOwner, rights |-> {}]

NoError == [kind |-> "none", what |-> "", a |-> NoOwner, b |-> NoOwner]

\* ExtraSafeError::ConditionalNoEffectError(sysno, a, b): a is the ruleset
\* of the conditional rule, b the ruleset of the simple rule overriding it.
ConditionalNoEffectError(sysno, condOwner, simpleOwner) ==
    [kind |-> "ConditionalNoEffect", what |-> sysno, a |-> condOwner, b |-> simpleOwner]

\* ExtraSafeError::DuplicatePath(path, a, b).
DuplicatePathError(path, existing, new) ==
    [kind |-> "DuplicatePath", what |-> path, a |-> existing, b |-> new]

\* The remaining error kinds carry no detail the properties compare.
PlainError(kind) == [kind |-> kind, what |-> "", a |-> NoOwner, b |-> NoOwner]

\* Display for ExtraSafeError, as what its message tells the reader: the
\* syscall or path it is about and the rulesets it names, in their roles.
\* ConditionalNoEffectError reads "A conditional rule on syscall `s` from
\* RuleSet `a` would be overridden by a simple rule from RuleSet `b`";
\* DuplicatePath "The same path (p) was used in two different landlock
\* rules. Rulesets 'a' and 'b'"; the other messages name no ruleset.
Display(e) ==
    [subject |-> e.what,
     conditionalFrom |-> IF e.kind = "ConditionalNoEffect" THEN e.a ELSE NoOwner,
     simpleFrom |-> IF e.kind = "ConditionalNoEffect" THEN e.b ELSE NoOwner,
     named |-> IF e.kind \in {"ConditionalNoEffect", "DuplicatePath"} THEN << e.a, e.b >> ELSE << >>]

\* The From conversions of error.rs: seccompiler's BackendError (the
\* filter does not compile) and its Error (the kernel refuses the filter)
\* both become SeccompError; a PathFdError (a landlock path cannot be
\* opened) becomes PathDoesNotExist.
FromBackendError == PlainError("SeccompError")
FromSeccompilerError == PlainError("SeccompError")
FromPathFdError == PlainError("PathDoesNotExist")

VARIABLES
    seccompRules,  \* syscall -> its table entry
    landlockRules, \* path -> [owner, rights]
    enabled,       \* the rulesets enable() accepted into this context
    status,        \* "building", "failed" (context dropped on an error) or "applied"
    error,         \* the error the last failing call returned
    installed      \* the filters installed on the thread, oldest first

vars == <<seccompRules, landlockRules, enabled, status, error, installed>>

-----------------------------------------------------------------------------
(* What the thread has installed: the table without the owner names,     *)
(* which serve diagnostics only, and the landlock path rights.            *)

SeccompPolicy(table) == [s \in Syscalls |-> [kind |-> table[s].kind, rules |-> table[s].rules]]

LandlockPolicy(paths) ==
    [p \in {q \in Paths : paths[q].owner # NoOwner} |-> paths[p].rights]

CompiledFilter == [seccomp |-> SeccompPolicy(seccompRules),
                   landlock |-> LandlockPolicy(landlockRules)]

-----------------------------------------------------------------------------
(* enable(ruleset): the collisions that make it fail, in the order it     *)
(* meets them: simple rules first, then conditional rules, then paths.    *)

\* A simple rule for a syscall that already has conditional rules.
SimpleClashes(rs) == {s \in rs.simple : seccompRules[s].kind = "conditional"}

\* A conditional rule for a syscall that already has a simple rule (the
\* ruleset's own simple rules were merged just before).
ConditionalClashes(rs) ==
    {s \in DOMAIN rs.conditional :
        seccompRules[s].kind = "simple" \/ s \in rs.simple}

SimpleOwnerOf(s, rs) ==
    IF seccompRules[s].kind = "simple"
    THEN CHOOSE o \in seccompRules[s].owners : TRUE
    ELSE rs.name

\* A path some ruleset with another name registered.
PathClashes(rs) ==
    {p \in DOMAIN rs.landlock : landlockRules[p].owner \notin {NoOwner, rs.name}}

\* The table entry of s once rs's simple rules are merged: an unseen
\* syscall becomes simple; a simple one stays as it was (idempotent union).
MergeSimple(s, rs) ==
    IF s \in rs.simple /\ seccompRules[s].kind = "unseen"
    THEN Simple(rs.name)
    ELSE seccompRules[s]

\* A merge that lets the last ruleset's rule list replace the earlier ones
\* (a map insert instead of an append).
MergeConditionalOverwrite(entry, s, rs) ==
    IF s \in DOMAIN rs.conditional
    THEN [kind |-> "conditional", owners |-> entry.owners \cup {rs.name},
          rules |-> rs.conditional[s]]
    ELSE entry

\* ... and once rs's conditional rules are merged: the rule lists are
\* ORed together and both owners recorded.
MergeConditional(entry, s, rs) ==
    IF s \in DOMAIN rs.conditional
    THEN [kind |-> "conditional", owners |-> entry.owners \cup {rs.name},
          rules |-> entry.rules \cup rs.conditional[s]]
    ELSE entry

MergePath(p, rs) ==
    IF p \in DOMAIN rs.landlock
    THEN [owner |-> rs.name, rights |-> landlockRules[p].rights \cup rs.landlock[p]]
    ELSE landlockRules[p]

\* The same report with the two names in the other order: the simple rule's
\* ruleset named first, a slip that makes the report depend on which ruleset
\* was enabled last.
SimpleClashErrorsSwapped(rs) ==
    UNION {{ConditionalNoEffectError(s, rs.name, o) : o \in seccompRules[s].owners} :
              s \in SimpleClashes(rs)}

\* The errors of the simple-rule loop: the conditional rule's ruleset is any
\* owner of the syscall's rule list.
SimpleClashErrors(rs) ==
    UNION {{ConditionalNoEffectError(s, o, rs.name) : o \in seccompRules[s].owners} :
              s \in SimpleClashes(rs)}

ConditionalClashErrors(rs) ==
    {ConditionalNoEffectError(s, rs.name, SimpleOwnerOf(s, rs)) : s \in ConditionalClashes(rs)}

PathClashErrors(rs) ==
    {DuplicatePathError(p, landlockRules[p].owner, rs.name) : p \in PathClashes(rs)}

\* The errors enable(rs) may return: those of the first loop that meets a
\* collision (which one of several it meets first depends on iteration
\* order, so any of them).
EnableErrors(rs) ==
    IF SimpleClashErrors(rs) # {} THEN SimpleClashErrors(rs)
    ELSE IF ConditionalClashErrors(rs) # {} THEN ConditionalClashErrors(rs)
    ELSE PathClashErrors(rs)

\* The context as one value, and the contexts enable(rs) may leave.
Context == [seccompRules |-> seccompRules, landlockRules |-> landlockRules,
            enabled |-> enabled, status |-> status, error |-> error]

EnableOutcomes(rs) ==
    IF EnableErrors(rs) = {}
    THEN {[Context EXCEPT
              !.seccompRules = [s \in Syscalls |-> MergeConditional(MergeSimple(s, rs), s, rs)],
              !.landlockRules = [p \in Paths |-> MergePath(p, rs)],
              !.enabled = @ \cup {rs}]}
    ELSE {[Context EXCEPT !.status = "failed", !.error = e] : e \in EnableErrors(rs)}

SetContext(c) ==
    /\ seccompRules' = c.seccompRules
    /\ landlockRules' = c.landlockRules
    /\ enabled' = c.enabled
    /\ status' = c.status
    /\ error' = c.error

Enable(rs) ==
    /\ status = "building"
    /\ \E c \in EnableOutcomes(rs) : SetContext(c)
    /\ UNCHANGED installed

-----------------------------------------------------------------------------
(* apply: the checks in the order they are made, then the installation.  *)

RuleCount == MapThenSumSet(LAMBDA s : IF seccompRules[s].kind = "simple" THEN 1
                                      ELSE Cardinality(seccompRules[s].rules),
                           Syscalls)

\* apply without the landlock check: apply_to_all_threads goes on to
\* install a pending landlock ruleset.
ApplyErrorNoLandlockCheck(allThreads) ==
    CASE enabled = {}             -> PlainError("NoRulesEnabled")
      [] RuleCount > CompilerLimit -> FromBackendError
      [] ~(DOMAIN LandlockPolicy(landlockRules) \subseteq ExistingPaths)
                                  -> FromPathFdError
      [] Len(installed) = MaxFilters -> FromSeccompilerError
      [] OTHER                    -> NoError

\* The filter-count check off by one: the kernel is asked for one more
\* filter than it holds.
ApplyErrorOffByOne(allThreads) ==
    CASE allThreads /\ DOMAIN LandlockPolicy(landlockRules) # {}
                                  -> PlainError("LandlockNoThreadSync")
      [] enabled = {}             -> PlainError("NoRulesEnabled")
      [] RuleCount > CompilerLimit -> FromBackendError
      [] ~(DOMAIN LandlockPolicy(landlockRules) \subseteq ExistingPaths)
                                  -> FromPathFdError
      [] Len(installed) > MaxFilters -> FromSeccompilerError
      [] OTHER                    -> NoError

\* The first check of apply that fails, or NoError.
ApplyError(allThreads) ==
    CASE allThreads /\ DOMAIN LandlockPolicy(landlockRules) # {}
                                  -> PlainError("LandlockNoThreadSync")
      [] enabled = {}             -> PlainError("NoRulesEnabled")
      [] RuleCount > CompilerLimit -> FromBackendError
      [] ~(DOMAIN LandlockPolicy(landlockRules) \subseteq ExistingPaths)
                                  -> FromPathFdError
      [] Len(installed) = MaxFilters -> FromSeccompilerError
      [] OTHER                    -> NoError

\* The context apply leaves (consumed either way), and what it installs.
ApplyOutcome(allThreads) ==
    [Context EXCEPT !.status = IF ApplyError(allThreads) = NoError THEN "applied" ELSE "failed",
                    !.error = ApplyError(allThreads)]

Apply(allThreads) ==
    /\ status = "building"
    /\ SetContext(ApplyOutcome(allThreads))
    /\ installed' = IF ApplyError(allThreads) = NoError
                    THEN Append(installed, CompiledFilter)
                    ELSE installed

ApplyToCurrentThread == Apply(FALSE)

ApplyToAllThreads == Apply(TRUE)

\* SafetyContext::new().
FreshContext ==
    [seccompRules |-> [s \in Syscalls |-> Unseen], landlockRules |-> [p \in Paths |-> NoPath],
     enabled |-> {}, status |-> "building", error |-> NoError]

\* A new context once the previous one is consumed.
New ==
    /\ status \in {"failed", "applied"}
    /\ SetContext(FreshContext)
    /\ UNCHANGED installed

Init ==
    /\ seccompRules = FreshContext.seccompRules
    /\ landlockRules = FreshContext.landlockRules
    /\ enabled = {}
    /\ status = "building"
    /\ error = NoError
    /\ installed = << >>

Next ==
    \/ \E rs \in Catalogue : Enable(rs)
    \/ ApplyToCurrentThread
    \/ ApplyToAllThreads
    \/ New

Spec == Init /\ [][Next]_vars

-----------------------------------------------------------------------------
(* Properties.                                                             *)

AllRules == UNION {UNION {r.conditional[s] : s \in DOMAIN r.conditional} : r \in Catalogue}
Rights == UNION {UNION {r.landlock[p] : p \in DOMAIN r.landlock} : r \in Catalogue}
ErrorKinds == {"none", "ConditionalNoEffect", "DuplicatePath", "NoRulesEnabled",
               "SeccompError", "PathDoesNotExist", "LandlockNoThreadSync"}

\* Every variable has its type, and the thread never holds more filters than
\* the kernel accepts (apply checks the count before installing).
TypeOK ==
    /\ seccompRules \in [Syscalls -> [kind : {"unseen", "simple", "conditional"},
                                      owners : SUBSET Names, rules : SUBSET AllRules]]
    /\ landlockRules \in [Paths -> [owner : Names \cup {NoOwner}, rights : SUBSET Rights]]
    /\ enabled \subseteq Catalogue
    /\ status \in {"building", "failed", "applied"}
    /\ error.kind \in ErrorKinds
    /\ Len(installed) \in 0..MaxFilters
    /\ \A i \in DOMAIN installed : DOMAIN installed[i].seccomp = Syscalls

\* The message of a failed enable() is true, whichever of the two rulesets
\* was enabled first: the ruleset a ConditionalNoEffectError's message says
\* the conditional rule comes from asks for the syscall conditionally, and
\* the one it says overrides it asks for it unconditionally; a DuplicatePath
\* message names an enabled ruleset holding the path and another,
\* differently named, one.
ErrorNamesBothRulesets ==
    LET msg == Display(error) IN
    /\ error.kind = "ConditionalNoEffect" =>
          \E c, u \in Catalogue :
              /\ c.name = msg.conditionalFrom /\ msg.subject \in DOMAIN c.conditional
              /\ u.name = msg.simpleFrom /\ msg.subject \in u.simple
              /\ (c \in enabled \/ u \in enabled \/ c = u)
    /\ error.kind = "DuplicatePath" =>
          /\ msg.named[1] # msg.named[2]
          /\ \E r \in enabled : r.name = msg.named[1] /\ msg.subject \in DOMAIN r.landlock
          /\ \E r \in Catalogue : r.name = msg.named[2] /\ msg.subject \in DOMAIN r.landlock

\* The incremental, order-dependent merge of enable() implements the
\* order-free promise of SafetyContextAbstract: the same enables fail, and
\* every filter installed is the set-wise union of the enabled rulesets.
Abstract == INSTANCE SafetyContextAbstract WITH requested <- enabled

ImplementsAbstract == Abstract!Spec

=============================================================================
