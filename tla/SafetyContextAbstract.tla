------------------------ MODULE SafetyContextAbstract ------------------------
(***************************************************************************)
(* What a SafetyContext promises, stated over the SET of rulesets         *)
(* requested rather than the order they were enabled in:                  *)
(*  - enable(rs) fails exactly when the requested rulesets and rs contain *)
(*    a syscall one of them allows unconditionally and one conditionally,*)
(*    or a path two differently named rulesets both restrict;             *)
(*  - what apply installs allows a syscall unconditionally if any         *)
(*    requested ruleset does, and otherwise under the OR of every         *)
(*    requested ruleset's conditional rules; path rights are the union;   *)
(*  - nothing is installed when nothing was enabled, or when all threads  *)
(*    are asked for while path rules are present;                         *)
(*  - installed filters are only ever added to.                            *)
(* Any apply may fail (compiler, kernel and filesystem refusals).          *)
(***************************************************************************)
EXTENDS Integers, Sequences, FiniteSets

CONSTANTS Catalogue, MaxFilters

VARIABLES requested, status, installed

vars == <<requested, status, installed>>

Syscalls == UNION {r.simple \cup DOMAIN r.conditional : r \in Catalogue}

SeccompConflict(S) == \E a, b \in S : a.simple \cap DOMAIN b.conditional # {}

PathConflict(S) ==
    \E a, b \in S : a.name # b.name /\ DOMAIN a.landlock \cap DOMAIN b.landlock # {}

Conflicting(S) == SeccompConflict(S) \/ PathConflict(S)

SeccompPolicyOf(S) ==
    [s \in Syscalls |->
        IF \E r \in S : s \in r.simple
        THEN [kind |-> "simple", rules |-> {}]
        ELSE IF \E r \in S : s \in DOMAIN r.conditional
        THEN [kind |-> "conditional",
              rules |-> UNION {r.conditional[s] : r \in {q \in S : s \in DOMAIN q.conditional}}]
        ELSE [kind |-> "unseen", rules |-> {}]]

LandlockPolicyOf(S) ==
    [p \in UNION {DOMAIN r.landlock : r \in S} |->
        UNION {r.landlock[p] : r \in {q \in S : p \in DOMAIN q.landlock}}]

Init ==
    /\ requested = {}
    /\ status = "building"
    /\ installed = << >>

Enable(rs) ==
    /\ status = "building"
    /\ IF Conflicting(requested \cup {rs})
       THEN status' = "failed" /\ UNCHANGED requested
       ELSE requested' = requested \cup {rs} /\ UNCHANGED status
    /\ UNCHANGED installed

Apply(allThreads) ==
    /\ status = "building"
    /\ \/ /\ requested # {}
          /\ ~(allThreads /\ DOMAIN LandlockPolicyOf(requested) # {})
          /\ Len(installed) < MaxFilters
          /\ installed' = Append(installed, [seccomp |-> SeccompPolicyOf(requested),
                                             landlock |-> LandlockPolicyOf(requested)])
          /\ status' = "applied"
       \/ /\ status' = "failed"
          /\ UNCHANGED installed
    /\ UNCHANGED requested

New ==
    /\ status \in {"failed", "applied"}
    /\ requested' = {}
    /\ status' = "building"
    /\ UNCHANGED installed

Next ==
    \/ \E rs \in Catalogue : Enable(rs)
    \/ \E allThreads \in BOOLEAN : Apply(allThreads)
    \/ New

Spec == Init /\ [][Next]_vars

=============================================================================
