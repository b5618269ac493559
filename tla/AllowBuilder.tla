---------------------------- MODULE AllowBuilder ----------------------------
(***************************************************************************)
(* A ruleset value built with the methods the allow! macro generates.     *)
(* The macro accepts a declaration only when every "unsafe fn" sits at    *)
(* the outermost level or inside another "unsafe fn" block (__allow! is  *)
(* applied to the inner declarations of a safe block without @dangerous, *)
(* so an unsafe inner one matches no rule).  A generated method inserts   *)
(* its syscalls into the value; an unsafe one hands the value back in a   *)
(* YesReally, which only yes_really() opens.  Inside a block the chain    *)
(* opens the YesReally of each inner unsafe method itself.                *)
(***************************************************************************)
EXTENDS FiniteSets, RuleSets

LOCAL INSTANCE Graphs

CONSTANT Decls  \* the allow! declarations considered, as method trees

VARIABLES
    decl,      \* the declaration the ruleset type was generated from
    syscalls,  \* self.syscalls of the value the user holds
    wrapped,   \* whether the value is held inside a YesReally
    confirmed  \* the syscalls the value held when yes_really() was called

vars == <<decl, syscalls, wrapped, confirmed>>

\* A declaration accepted whatever the nesting of unsafe methods.
AcceptsAnyNesting(tree) == TRUE

\* The macro accepts the declaration: a safe method's inner methods are
\* safe (applied to every block, so to the whole subtree).
Accepts(tree) ==
    \A m \in DOMAIN tree :
        ~tree[m].unsafe => \A i \in DOMAIN tree[m].inner : ~tree[tree[m].inner[i]].unsafe

\* The syscalls only an unsafe leaf method inserts.
DangerousSyscalls(tree) == {tree[m].syscall : m \in {n \in DOMAIN tree : IsLeaf(tree, n) /\ tree[n].unsafe}}

\* Self::default().
Init ==
    /\ decl \in {d \in Decls : Accepts(d)}
    /\ syscalls = {}
    /\ wrapped = FALSE
    /\ confirmed = {}

\* value.allow_m(): only a plain Self has the methods; the result is
\* wrapped exactly when m is declared unsafe.
CallMethod(m) ==
    /\ ~wrapped
    /\ syscalls' = syscalls \cup Grants(decl, m)
    /\ wrapped' = decl[m].unsafe
    /\ UNCHANGED <<decl, confirmed>>

\* YesReally::yes_really().
YesReally ==
    /\ wrapped
    /\ wrapped' = FALSE
    /\ confirmed' = confirmed \cup syscalls
    /\ UNCHANGED <<decl, syscalls>>

Next ==
    \/ \E m \in DOMAIN decl : CallMethod(m)
    \/ YesReally

Spec == Init /\ [][Next]_vars

-----------------------------------------------------------------------------
(* Properties.                                                             *)

\* The value holds syscalls its declaration's leaf methods name, and what
\* was confirmed is part of it.
TypeOK ==
    /\ decl \in Decls
    /\ syscalls \subseteq {decl[m].syscall : m \in {n \in DOMAIN decl : IsLeaf(decl, n)}}
    /\ wrapped \in BOOLEAN
    /\ confirmed \subseteq syscalls

\* A plain Self the user can pass to enable() holds a dangerous syscall
\* only if the user called yes_really() on a value already holding it,
\* however the generated methods are chained and nested.
DangerousOnlyWhenConfirmed ==
    ~wrapped => syscalls \cap DangerousSyscalls(decl) \subseteq confirmed

\* The recursive expansion of a method, compared with its reference: the
\* syscalls of the leaf methods reachable from it through the inner
\* declarations.
MethodGraph(tree) ==
    [node |-> DOMAIN tree,
     edge |-> UNION {{<<x, tree[x].inner[i]>> : i \in DOMAIN tree[x].inner} : x \in DOMAIN tree}]

ReachableLeafSyscalls(tree, m) ==
    LET reach == ConnectionsIn(MethodGraph(tree))
    IN  {tree[l].syscall : l \in {n \in DOMAIN tree : (m = n \/ reach[m, n]) /\ IsLeaf(tree, n)}}

\* The reference for every declaration, computed once.
ReferenceGrants == [d \in Decls |-> [m \in DOMAIN d |-> ReachableLeafSyscalls(d, m)]]

\* Every generated method inserts exactly the syscalls of the leaf methods
\* below it, so the constructors and the chains of __allow_chain! grant
\* what their declaration lists.
GrantsMatchesReachableLeaves ==
    \A m \in DOMAIN decl : Grants(decl, m) = ReferenceGrants[decl][m]

\* Every constructor of the declaration being built (time.rs's or
\* user_id.rs's), expanded through the allow! method tree it chains on
\* Self::default(), yields exactly the syscalls its unit test expects, and
\* is wrapped in YesReally exactly when the test calls yes_really() on it.
ConstructorsMatchUnitTests ==
    /\ decl = TimeMethods =>
          \A c \in DOMAIN TimeUnitTests :
              /\ ChainGrants(decl, TimeConstructors[c]) = TimeUnitTests[c].syscalls
              /\ ChainIsWrapped(decl, TimeConstructors[c]) = TimeUnitTests[c].wrapped
    /\ decl = UserIdMethods =>
          \A c \in DOMAIN UserIdUnitTests :
              /\ ChainGrants(decl, UserIdConstructors[c]) = UserIdUnitTests[c].syscalls
              /\ ChainIsWrapped(decl, UserIdConstructors[c]) = UserIdUnitTests[c].wrapped

=============================================================================
