--------------------------- MODULE MCSafetyContext ---------------------------
(***************************************************************************)
(* One thread building and applying SafetyContexts from a catalogue that  *)
(* makes every merge case happen: rulesets sharing simple syscalls (Time  *)
(* query and query_and_sleep), two conditional rule lists on socket       *)
(* (Netlink, the user guide's MyRuleSet), a ruleset allowing socket       *)
(* unconditionally, and landlock rulesets: two named SystemIO on distinct *)
(* paths and one differently named on the same path as the first.        *)
(***************************************************************************)
EXTENDS SafetyContext, RuleSets

\* A user ruleset allowing socket and connect unconditionally.
Sockets == SimpleRuleSet("Sockets", {"socket", "connect"}, NoConditional)

\* Landlock rulesets after the user guide's SystemIO::allow_create_in_dir
\* and allow_write_file on one directory, allow_dns_files, and a second
\* ruleset writing to the same directory.
WithPaths(rs, paths) == [rs EXCEPT !.landlock = paths]
SystemIOTmp == WithPaths(SimpleRuleSet("SystemIO", {}, NoConditional),
                         [p \in {"/tmp/allow"} |-> {"MakeReg", "WriteFile"}])
SystemIODns == WithPaths(SimpleRuleSet("SystemIO", {}, NoConditional),
                         [p \in {"/etc/resolv.conf"} |-> {"ReadFile"}])
TmpWriter == WithPaths(SimpleRuleSet("TmpWriter", {}, NoConditional),
                       [p \in {"/tmp/allow"} |-> {"WriteFile"}])

MCCatalogue ==
    {Kill, SocketPair, Netlink, MyRuleSet, Sockets, TimeQuery, TimeQueryAndSleep,
     SystemIOTmp, SystemIODns, TmpWriter}

MCExistingPaths == {"/tmp/allow"}

=============================================================================
