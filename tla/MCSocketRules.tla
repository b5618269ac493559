---------------------------- MODULE MCSocketRules ----------------------------
(***************************************************************************)
(* One thread enabling a single ruleset whose socket rules are            *)
(* conditional, applying it, and then opening sockets of every family and *)
(* type combination below.                                                 *)
(***************************************************************************)
EXTENDS Process, RuleSets

NetlinkOnly == {Netlink}
MyRuleSetOnly == {MyRuleSet}

\* socket(domain, type, 0) for the families and types the rules test.
SocketCalls ==
    {Call("socket", <<d, ty>>) : d \in {AF_UNIX, AF_INET, AF_NETLINK, AF_PACKET},
                                 ty \in {SOCK_STREAM, SOCK_DGRAM, SOCK_RAW}}

\* The last call was a socket call that a thread holding a filter made and
\* its filters admitted.
IssuedSocket ==
    /\ lastCall.filtered
    /\ lastCall.allowed
    /\ lastCall.call.syscall = "socket"

\* netlink.rs documents Netlink as "Allow the syscall `socket` to open a
\* netlink-socket": with Netlink the only ruleset granting socket, every
\* socket call the installed filter admits opens an AF_NETLINK socket.
NetlinkAdmitsOnlyNetlinkSockets ==
    IssuedSocket => ArgValue(lastCall.call, 0) = AF_NETLINK

\* The user guide's MyRuleSet says "Only allow the creation of stream (tcp)
\* sockets": with it the only ruleset granting socket, every socket call the
\* installed filter admits has type SOCK_STREAM.
MyRuleSetAdmitsOnlyStreamSockets ==
    IssuedSocket => ArgValue(lastCall.call, 1) = SOCK_STREAM

=============================================================================
