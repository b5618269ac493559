---------------------------- MODULE SeccompFilter ----------------------------
(***************************************************************************)
(* The condition model and what an installed filter chain decides.       *)
(*                                                                         *)
(* A syscall invocation is [syscall, args, path, right]: args are the     *)
(* argument registers arg0, arg1, ... (args[i+1] is arg i); path and      *)
(* right are the file and access right of a filesystem call ("" for the   *)
(* others).  A SeccompRule admits an invocation when all its argument     *)
(* filters hold (AND); a syscall's rules are alternatives (OR).  Every    *)
(* filter a thread holds is evaluated and the most restrictive answer     *)
(* wins, so a chain admits what each of its filters admits.               *)
(***************************************************************************)
EXTENDS Integers, Sequences, Bitwise

Call(sysno, args) == [syscall |-> sysno, args |-> args, path |-> "", right |-> ""]

FileCall(sysno, path, right) == [syscall |-> sysno, args |-> << >>, path |-> path, right |-> right]

\* The value of argument register i (0-based) of a call.
ArgValue(call, i) == IF i + 1 \in DOMAIN call.args THEN call.args[i + 1] ELSE 0

\* seccompiler's comparators, on unsigned 64-bit register values.
CondHolds(c, call) ==
    LET v == ArgValue(call, c.arg) IN
    CASE c.cmp = "Eq"       -> v = c.value
      [] c.cmp = "Ne"       -> v # c.value
      [] c.cmp = "Gt"       -> v > c.value
      [] c.cmp = "Ge"       -> v >= c.value
      [] c.cmp = "Lt"       -> v < c.value
      [] c.cmp = "Le"       -> v <= c.value
      [] c.cmp = "MaskedEq" -> (v & c.mask) = c.value

RuleAdmits(rule, call) ==
    /\ rule.syscall = call.syscall
    /\ \A i \in DOMAIN rule.conds : CondHolds(rule.conds[i], call)

\* One installed seccomp policy: the syscall is simple, or one of its
\* conditional rules admits the call; anything else gets the deny action.
PolicyAdmits(policy, call) ==
    /\ call.syscall \in DOMAIN policy
    /\ \/ policy[call.syscall].kind = "simple"
       \/ /\ policy[call.syscall].kind = "conditional"
          /\ \E r \in policy[call.syscall].rules : RuleAdmits(r, call)

\* One landlock layer: a layer without path rules restricts nothing (no
\* ruleset was created for it); otherwise a filesystem call needs the right
\* on its path.
LandlockAdmits(paths, call) ==
    \/ DOMAIN paths = {}
    \/ call.path = ""
    \/ call.path \in DOMAIN paths /\ call.right \in paths[call.path]

\* A thread's filter chain admits a call when every layer does.
ChainAdmits(chain, call) ==
    \A i \in DOMAIN chain :
        /\ PolicyAdmits(chain[i].seccomp, call)
        /\ LandlockAdmits(chain[i].landlock, call)

=============================================================================
