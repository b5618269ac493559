------------------------- MODULE ServerWithDatabase -------------------------
(***************************************************************************)
(* The server_with_database example: main starts a web server thread,    *)
(* which spawns a database thread and then restricts itself; main then   *)
(* runs two writing clients one after the other and a reading client.    *)
(* Server and database share a FIFO queue of DBMsg (a SegQueue); a read  *)
(* request waits on a bounded(1) channel for the database's answer.       *)
(*                                                                         *)
(* Each thread is a program counter.  A thread's filters are a set of    *)
(* capability sets, ANDed; a child starts with its parent's set.  A step *)
(* that needs a capability some filter lacks fails (the call returns an  *)
(* error the thread unwraps) and the thread stops at "denied".  The      *)
(* capability names abstract the syscalls the rulesets enable.           *)
(***************************************************************************)
EXTENDS Integers, Sequences, FiniteSets

Threads == {"main", "server", "db", "client1", "client2", "client3"}
WriteClients == {"client1", "client2"}
Clients == WriteClients \cup {"client3"}

\* The message each writing client posts.
Msg == [client1 |-> "hello", client2 |-> "extrasafe"]

None == "none"

\* enum DBMsg { List(Sender<Vec<String>>), Write(String) }: the sender of
\* a List is the one bounded(1) channel.
DBMsg == [kind : {"Write"}, msg : {Msg[c] : c \in WriteClients}] \cup [kind : {"List"}, msg : {""}]


\* What the rulesets each thread enables allow, by capability.
\*   server:  Networking::nothing().allow_running_tcp_servers()
\*   db:      SystemIO read/write/metadata/ioctl/close, Threads sleep
\*   writers: Networking::nothing().allow_start_tcp_clients()
\*   reader:  Networking udp servers and tcp clients, Threads create,
\*            SystemIO open_readonly/read/metadata/close
ServerFilter == {"tcp_server", "io"}
DbFilter == {"io", "sleep"}
WriterFilter == {"tcp_client", "io"}
ReaderFilter == {"udp", "tcp_client", "clone", "file", "io"}

VARIABLES
    mainPc,    \* the step of main() it is at
    pc,        \* thread -> where it is; "unstarted" before its spawn
    filters,   \* thread -> the set of filters it holds
    bound,     \* the server's TcpListener is bound and listening
    backlog,   \* the connections the listener queued: [client, kind]
    queue,     \* the SegQueue<DBMsg>, head first
    channel,   \* the bounded(1) channel of the pending List: rows or None
    serving,   \* the client whose read the server is answering
    rows,      \* the messages table of the database
    response,  \* client -> the body it received, or None
    exited     \* the process has exited (main returned or panicked)

vars == <<mainPc, pc, filters, bound, backlog, queue, channel, serving, rows, response, exited>>

\* A thread of the program is at label l and the process still runs.
At(t, l) == ~exited /\ pc[t] = l

Admits(t, cap) == \A f \in filters[t] : cap \in f

\* A step of thread t whose calls need the capabilities caps: taken as
\* action A when t's filters allow them all; otherwise a call fails, the
\* thread unwraps the error and stops.
Needs(t, caps, A) ==
    IF \A cap \in caps : Admits(t, cap) THEN A
    ELSE /\ pc' = [pc EXCEPT ![t] = "denied"]
         /\ UNCHANGED <<mainPc, filters, bound, backlog, queue, channel, serving, rows, response,
                        exited>>

Goto(t, l) == pc' = [pc EXCEPT ![t] = l]

Restrict(t, f) == filters' = [filters EXCEPT ![t] = @ \cup {f}]

-----------------------------------------------------------------------------
(* run_server(): spawn the db thread, build the runtime and bind the     *)
(* listener, restrict itself, then serve requests one at a time (the      *)
(* runtime is current_thread and the read handler blocks in recv()).     *)

ServerSetupApplyFirst == <<"apply", "spawn_db", "bind", "serve">>

ServerSetup == <<"spawn_db", "bind", "apply", "serve">>

AfterSetup(l) == ServerSetup[(CHOOSE i \in DOMAIN ServerSetup : ServerSetup[i] = l) + 1]

ServerSpawnDb ==
    /\ At("server", "spawn_db")
    /\ Needs("server", {"clone"},
             /\ pc' = [pc EXCEPT !["server"] = AfterSetup("spawn_db"), !["db"] = "open"]
             /\ filters' = [filters EXCEPT !["db"] = filters["server"]]
             /\ UNCHANGED <<mainPc, bound, backlog, queue, channel, serving, rows, response, exited>>)

\* The runtime is built and TcpListener::bind("127.0.0.1:5575") listens:
\* from here on connections queue in the backlog.
ServerBind ==
    /\ At("server", "bind")
    /\ Needs("server", {"tcp_bind"},
             /\ bound' = TRUE
             /\ Goto("server", AfterSetup("bind"))
             /\ UNCHANGED <<mainPc, filters, backlog, queue, channel, serving, rows, response, exited>>)

ServerApply ==
    /\ At("server", "apply")
    /\ Restrict("server", ServerFilter)
    /\ Goto("server", AfterSetup("apply"))
    /\ UNCHANGED <<mainPc, bound, backlog, queue, channel, serving, rows, response, exited>>

\* The routes: /write pushes DBMsg::Write and answers "ok"; /read pushes
\* DBMsg::List with the sending half of a bounded(1) channel and blocks in
\* recv() until the database answers.
ServerAccept ==
    /\ At("server", "serve")
    /\ backlog # << >>
    /\ Needs("server", {"tcp_server"},
             LET r == Head(backlog) IN
             /\ backlog' = Tail(backlog)
             /\ IF r.kind = "write"
                THEN /\ queue' = Append(queue, [kind |-> "Write", msg |-> Msg[r.client]])
                     /\ response' = [response EXCEPT ![r.client] = << <<"ok">> >>]
                     /\ UNCHANGED <<pc, serving>>
                ELSE /\ queue' = Append(queue, [kind |-> "List", msg |-> ""])
                     /\ serving' = r.client
                     /\ Goto("server", "wait_list")
                     /\ UNCHANGED response
             /\ UNCHANGED <<mainPc, filters, bound, channel, rows, exited>>)

\* A reply that leaves the answered client recorded as being served.
ServerReplyKeepsServing ==
    /\ At("server", "wait_list")
    /\ channel # << >>
    /\ Needs("server", {"tcp_server"},
             /\ response' = [response EXCEPT ![serving] = << Head(channel) >>]
             /\ channel' = Tail(channel)
             /\ Goto("server", "serve")
             /\ UNCHANGED <<mainPc, filters, bound, backlog, queue, rows, serving, exited>>)

\* recv() returns the rows; messages.join("\n") is the body.
ServerReply ==
    /\ At("server", "wait_list")
    /\ channel # << >>
    /\ Needs("server", {"tcp_server"},
             /\ response' = [response EXCEPT ![serving] = << Head(channel) >>]
             /\ channel' = Tail(channel)
             /\ serving' = None
             /\ Goto("server", "serve")
             /\ UNCHANGED <<mainPc, filters, bound, backlog, queue, rows, exited>>)

-----------------------------------------------------------------------------
(* run_db(): open the database, restrict itself, then poll the queue.    *)

DbOpen ==
    /\ At("db", "open")
    /\ Needs("db", {"file"}, Goto("db", "apply")
                             /\ UNCHANGED <<mainPc, filters, bound, backlog, queue, channel,
                                            serving, rows, response, exited>>)

DbApply ==
    /\ At("db", "apply")
    /\ Restrict("db", DbFilter)
    /\ Goto("db", "loop")
    /\ UNCHANGED <<mainPc, bound, backlog, queue, channel, serving, rows, response, exited>>

\* The loop without the is_empty() check: it always goes on to pop().
DbPollUnchecked ==
    /\ At("db", "loop")
    /\ Goto("db", "pop")
    /\ UNCHANGED <<mainPc, filters, bound, backlog, queue, channel, serving, rows, response, exited>>

\* if queue.is_empty() { sleep(55ms); continue; }: an empty queue sends
\* the thread to its sleep, a non-empty one on to pop().
DbPoll ==
    /\ At("db", "loop")
    /\ Goto("db", IF queue = << >> THEN "sleep" ELSE "pop")
    /\ UNCHANGED <<mainPc, filters, bound, backlog, queue, channel, serving, rows, response, exited>>

\* sleep(Duration::from_millis(55)): a nanosleep the db filter must admit
\* (Threads::nothing().allow_sleep()); then the loop continues.
DbSleep ==
    /\ At("db", "sleep")
    /\ Needs("db", {"sleep"},
             Goto("db", "loop")
             /\ UNCHANGED <<mainPc, filters, bound, backlog, queue, channel, serving, rows,
                            response, exited>>)

\* A database answering List without sending the rows back.
DbPopNoReply ==
    /\ At("db", "pop")
    /\ IF queue = << >>
       THEN Goto("db", "panicked")
            /\ UNCHANGED <<mainPc, filters, bound, backlog, queue, channel, serving, rows,
                           response, exited>>
       ELSE Needs("db", {"io"},
                  /\ queue' = Tail(queue)
                  /\ rows' = IF Head(queue).kind = "Write" THEN Append(rows, Head(queue).msg) ELSE rows
                  /\ Goto("db", "loop")
                  /\ UNCHANGED <<mainPc, filters, bound, backlog, channel, serving, response, exited>>)

\* A database that takes the newest message first.
DbPopNewest ==
    /\ At("db", "pop")
    /\ IF queue = << >>
       THEN Goto("db", "panicked")
            /\ UNCHANGED <<mainPc, filters, bound, backlog, queue, channel, serving, rows,
                           response, exited>>
       ELSE LET m == queue[Len(queue)] IN
            Needs("db", {"io"},
                  /\ queue' = SubSeq(queue, 1, Len(queue) - 1)
                  /\ IF m.kind = "List"
                     THEN channel' = Append(channel, rows) /\ UNCHANGED rows
                     ELSE rows' = Append(rows, m.msg) /\ UNCHANGED channel
                  /\ Goto("db", "loop")
                  /\ UNCHANGED <<mainPc, filters, bound, backlog, serving, response, exited>>)

\* queue.pop().unwrap() (a None panics), then List: query every row and
\* send them; Write: insert the row.
DbPop ==
    /\ At("db", "pop")
    /\ IF queue = << >>
       THEN Goto("db", "panicked")
            /\ UNCHANGED <<mainPc, filters, bound, backlog, queue, channel, serving, rows,
                           response, exited>>
       ELSE LET m == Head(queue) IN
            Needs("db", {"io"},
                  /\ queue' = Tail(queue)
                  /\ IF m.kind = "List"
                     THEN channel' = Append(channel, rows) /\ UNCHANGED rows
                     ELSE rows' = Append(rows, m.msg) /\ UNCHANGED channel
                  /\ Goto("db", "loop")
                  /\ UNCHANGED <<mainPc, filters, bound, backlog, serving, response, exited>>)

-----------------------------------------------------------------------------
(* The clients: restrict themselves, then make their request.            *)

ClientFilter(c) == IF c \in WriteClients THEN WriterFilter ELSE ReaderFilter

ClientApply(c) ==
    /\ At(c, "apply")
    /\ Restrict(c, ClientFilter(c))
    /\ Goto(c, IF c \in WriteClients THEN "request" ELSE "example_org")
    /\ UNCHANGED <<mainPc, bound, backlog, queue, channel, serving, rows, response, exited>>

\* run_client_read first fetches https://example.org: DNS over udp, the
\* resolver and certificate files, a tcp connection, worker threads.
ClientExternal(c) ==
    /\ At(c, "example_org")
    /\ Needs(c, {"udp", "file", "tcp_client", "clone"},
             Goto(c, "request")
             /\ UNCHANGED <<mainPc, filters, bound, backlog, queue, channel, serving, rows,
                            response, exited>>)

\* The request to 127.0.0.1:5575: refused while nothing listens there,
\* which fails the assert on the result; queued otherwise.
ClientRequest(c) ==
    /\ At(c, "request")
    /\ Needs(c, {"tcp_client"},
             /\ IF bound
                THEN /\ backlog' = Append(backlog, [client |-> c,
                                                    kind |-> IF c \in WriteClients THEN "write" ELSE "read"])
                     /\ Goto(c, "wait")
                ELSE Goto(c, "refused") /\ UNCHANGED backlog
             /\ UNCHANGED <<mainPc, filters, bound, queue, channel, serving, rows, response, exited>>)

\* The body it expects: "ok", or "hello\nextrasafe" for the reader.
Expected(c) == IF c \in WriteClients THEN <<"ok">> ELSE <<"hello", "extrasafe">>

ClientReceive(c) ==
    /\ At(c, "wait")
    /\ response[c] # << >>
    /\ Goto(c, IF Head(response[c]) = Expected(c) THEN "done" ELSE "failed")
    /\ UNCHANGED <<mainPc, filters, bound, backlog, queue, channel, serving, rows, response, exited>>

\* std::thread::spawn: the child starts at its first label with the
\* parent's filters.
FirstLabel(t) ==
    CASE t = "server" -> ServerSetup[1]
      [] t = "db"     -> "open"
      [] OTHER        -> "apply"

Started(child, parent) ==
    /\ filters' = [filters EXCEPT ![child] = filters[parent]]

-----------------------------------------------------------------------------
(* main(): a straight line of spawns and joins; main never restricts      *)
(* itself, so its clone() is always allowed.                               *)

\* main without the last join: it returns once client3 is spawned.
MainProgramNoLastJoin ==
    << [op |-> "spawn", t |-> "server"], [op |-> "sleep", t |-> "main"],
       [op |-> "spawn", t |-> "client1"], [op |-> "join", t |-> "client1"],
       [op |-> "spawn", t |-> "client2"], [op |-> "join", t |-> "client2"],
       [op |-> "spawn", t |-> "client3"] >>

MainProgram ==
    << [op |-> "spawn", t |-> "server"], [op |-> "sleep", t |-> "main"],
       [op |-> "spawn", t |-> "client1"], [op |-> "join", t |-> "client1"],
       [op |-> "spawn", t |-> "client2"], [op |-> "join", t |-> "client2"],
       [op |-> "spawn", t |-> "client3"], [op |-> "join", t |-> "client3"] >>

MainAt(op) == ~exited /\ mainPc \in DOMAIN MainProgram /\ MainProgram[mainPc].op = op

MainSpawn ==
    LET child == MainProgram[mainPc].t IN
    /\ MainAt("spawn")
    /\ Goto(child, FirstLabel(child))
    /\ Started(child, "main")
    /\ mainPc' = mainPc + 1
    /\ UNCHANGED <<bound, backlog, queue, channel, serving, rows, response, exited>>

\* sleep(100ms) "to give the server time to start up": nothing waits for it.
MainSleep ==
    /\ MainAt("sleep")
    /\ mainPc' = mainPc + 1
    /\ UNCHANGED <<pc, filters, bound, backlog, queue, channel, serving, rows, response, exited>>

\* handle.join() then assert!(res.is_ok()): a client that panicked makes
\* main panic, which ends the process.
MainJoin ==
    LET child == MainProgram[mainPc].t IN
    /\ MainAt("join")
    /\ pc[child] \in {"done", "refused", "failed", "denied"}
    /\ IF pc[child] = "done"
       THEN mainPc' = mainPc + 1 /\ UNCHANGED exited
       ELSE exited' = TRUE /\ UNCHANGED mainPc
    /\ UNCHANGED <<pc, filters, bound, backlog, queue, channel, serving, rows, response>>

\* main returns: the process exits with the server and db still looping.
MainReturn ==
    /\ ~exited
    /\ mainPc = Len(MainProgram) + 1
    /\ exited' = TRUE
    /\ UNCHANGED <<pc, mainPc, filters, bound, backlog, queue, channel, serving, rows, response>>

Init ==
    /\ mainPc = 1
    /\ pc = [t \in Threads |-> "unstarted"]
    /\ filters = [t \in Threads |-> {}]
    /\ bound = FALSE
    /\ backlog = << >>
    /\ queue = << >>
    /\ channel = << >>
    /\ serving = None
    /\ rows = << >>
    /\ response = [c \in Clients |-> << >>]
    /\ exited = FALSE

Main == MainSpawn \/ MainSleep \/ MainJoin \/ MainReturn
Server == ServerSpawnDb \/ ServerBind \/ ServerApply \/ ServerAccept \/ ServerReply
Db == DbOpen \/ DbApply \/ DbPoll \/ DbSleep \/ DbPop
Client(c) == ClientApply(c) \/ ClientExternal(c) \/ ClientRequest(c) \/ ClientReceive(c)

\* Once the process has exited nothing happens any more.
Exited == exited /\ UNCHANGED vars

Next == Main \/ Server \/ Db \/ (\E c \in Clients : Client(c)) \/ Exited

\* Every thread is an OS thread the scheduler keeps running.
Fairness == WF_vars(Main) /\ WF_vars(Server) /\ WF_vars(Db) /\ \A c \in Clients : WF_vars(Client(c))

Spec == Init /\ [][Next]_vars /\ Fairness

-----------------------------------------------------------------------------
(* Properties.                                                             *)

Labels == {"unstarted", "spawn_db", "bind", "apply", "serve", "wait_list", "open", "loop", "sleep",
           "pop", "example_org", "request", "wait", "done", "refused", "failed", "denied",
           "panicked"}

\* Every variable has its type, the reply channel never holds more than
\* its bound of one, and the server records a client as being served
\* exactly while its /read handler waits in recv().
TypeOK ==
    /\ mainPc \in 1..Len(MainProgram) + 1
    /\ pc \in [Threads -> Labels]
    /\ filters \in [Threads -> SUBSET {ServerFilter, DbFilter, WriterFilter, ReaderFilter}]
    /\ bound \in BOOLEAN /\ exited \in BOOLEAN
    /\ \A i \in DOMAIN queue : queue[i] \in DBMsg
    /\ Len(channel) <= 1
    /\ serving \in Clients \cup {None}
    /\ (serving # None) = (pc["server"] = "wait_list")
    /\ \A c \in Clients : Len(response[c]) <= 1

\* No thread is stopped by a filter: the db thread is spawned before the
\* server restricts itself, so it does not inherit the server's filter,
\* and every thread restricts itself only after the calls its filter
\* does not allow (opening the database, binding the listener), while
\* keeping the calls it makes afterwards (the db thread's sleep while
\* the queue is empty, the reader's fetch of example.org).
NoSyscallDenied == \A t \in Threads : pc[t] # "denied"

\* The unwrap of queue.pop() never meets an empty queue: the comment at
\* the pop holds because the db thread is the queue's only consumer and
\* pops only after it saw the queue non-empty.
DbPopNeverEmpty == pc["db"] # "panicked"

\* The reader gets "hello\nextrasafe": each write is in the queue before
\* its client sees "ok" and main starts the next client only after the
\* join, and the database takes messages in FIFO order, so both writes
\* are in the table before it answers the List.
ReadReturnsWritesInOrder ==
    response["client3"] # << >> => response["client3"] = << <<"hello", "extrasafe">> >>

\* No acknowledged write is lost: when the process exits, the message of
\* every client that got "ok" is in the table.  The server answers "ok"
\* as soon as the Write is queued, before the database stores it; what
\* makes the rows durable is that main joins the reader, whose List the
\* FIFO queue serves only after both writes.
NoAckedWriteLost ==
    exited => \A c \in WriteClients :
                  response[c] # << >> => \E i \in DOMAIN rows : rows[i] = Msg[c]

\* A read the server accepted is answered: the server blocks in recv()
\* until the polling database thread sends the rows.
ReadEventuallyAnswered ==
    pc["client3"] = "wait" ~> response["client3"] # << >>

\* No client's request is refused: main's sleep(100ms) is taken to be
\* enough for the server thread to bind its listener.
ClientsNeverRefused == \A c \in Clients : pc[c] # "refused"

=============================================================================
